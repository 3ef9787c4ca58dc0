---------------------------- MODULE ApprovalFlow ----------------------------
(***************************************************************************)
(* What payment requests promise their users: a request is edited only as *)
(* a draft, judged once, and paid only as it was judged.  The promise for  *)
(* a request ends when two clients act on it at the same time; it holds    *)
(* for all the others whatever happens around them.                        *)
(***************************************************************************)
CONSTANTS
    Request,   \* payment request ids
    Amounts,   \* what a request may be about: its amount, payee and account
    None       \* no amount

VARIABLES
    state,     \* where each request is in its life
    amount     \* what each request is about

vars == <<state, amount>>

States == {"none", "DRAFT", "PENDING", "APPROVED", "REJECTED", "PAID", "CANCELLED",
           "removed", "disputed"}

TypeOK ==
    /\ state \in [Request -> States]
    /\ amount \in [Request -> Amounts \cup {None}]

Init ==
    /\ state = [p \in Request |-> "none"]
    /\ amount = [p \in Request |-> None]

Create(p) ==
    /\ state[p] = "none"
    /\ state' = [state EXCEPT ![p] = "DRAFT"]
    /\ \E a \in Amounts : amount' = [amount EXCEPT ![p] = a]

Edit(p) ==
    /\ state[p] = "DRAFT"
    /\ \E a \in Amounts : amount' = [amount EXCEPT ![p] = a]
    /\ UNCHANGED state

Move(p, from, to) ==
    /\ state[p] \in from
    /\ state' = [state EXCEPT ![p] = to]
    /\ UNCHANGED amount

Submit(p) == Move(p, {"DRAFT"}, "PENDING")
Judge(p) == \E verdict \in {"APPROVED", "REJECTED"} : Move(p, {"PENDING"}, verdict)
Pay(p) == Move(p, {"APPROVED"}, "PAID")
Cancel(p) == Move(p, {"DRAFT", "PENDING"}, "CANCELLED")
Remove(p) == Move(p, {"DRAFT"}, "removed")

Dispute(p) ==
    /\ state' = [state EXCEPT ![p] = "disputed"]
    /\ amount' = [amount EXCEPT ![p] = None]

Next ==
    \E p \in Request :
        \/ Create(p) \/ Edit(p) \/ Submit(p) \/ Judge(p) \/ Pay(p)
        \/ Cancel(p) \/ Remove(p) \/ Dispute(p)

Spec == Init /\ [][Next]_vars

=============================================================================
