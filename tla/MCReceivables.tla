--------------------------- MODULE MCReceivables ---------------------------
(***************************************************************************)
(* Constants for model-checking Receivables.  Each configuration names the *)
(* operations its clients may request, which keeps the state space to the  *)
(* question it asks.                                                       *)
(***************************************************************************)
EXTENDS Receivables, TLC

\* Ids carry no order; handlers are alike.  (Not used with liveness.)
Symmetry == Permutations(Worker) \cup Permutations(Plan) \cup Permutations(Record)

\* Contracts that are being executed, and nobody still starting them.
InitExecuting ==
    /\ contract \in [Contract -> [status : {"EXECUTING"}, amount : Amounts \ {0}, deleted : {FALSE}]]
    /\ plan = [p \in {} |-> None]
    /\ record = [r \in {} |-> None]
    /\ req = [w \in Worker |-> Idle]

SpecExecuting == InitExecuting /\ [][Next]_vars /\ Fairness

=============================================================================
