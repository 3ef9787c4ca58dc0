-------------------------- MODULE MCReimbursements --------------------------
(***************************************************************************)
(* Constants and initial states for model-checking Reimbursements.         *)
(***************************************************************************)
EXTENDS Reimbursements, TLC, Functions

\* Ids carry no order; handlers are alike.  (Not used with liveness.)
Symmetry ==
    Permutations(Worker) \cup Permutations(Expense) \cup Permutations(Detail)
        \cup Permutations(Cost) \cup Permutations(Budget)

\* Every expense has two details, charged to two different budgets; one such
\* table of details stands for all.
InitCrossing ==
    /\ detail = CHOOSE f \in [Detail -> [expense : Expense, kind : Kind, month : Month,
                                         amount : Amounts]] :
                  \A e \in Expense, k \in Kind :
                      \E d \in Detail : f[d].expense = e /\ f[d].kind = k
    /\ \E status \in [Expense -> {"PENDING", "APPROVED"}] :
           expense = [e \in Expense |-> [status |-> status[e], total |-> Total(detail, DetailsOf(e))]]
    /\ cost = Empty
    /\ \E of \in {CHOOSE f \in Bijection(Budget, Kind) : TRUE} :
          budget = [b \in Budget |-> [kind |-> of[b], month |-> None, status |-> "ACTIVE", used |-> 0]]
    /\ req = [w \in Worker |-> Idle]

SpecCrossing == InitCrossing /\ [][Next]_vars /\ Fairness

=============================================================================
