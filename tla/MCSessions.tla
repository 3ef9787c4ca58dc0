----------------------------- MODULE MCSessions -----------------------------
(***************************************************************************)
(* Symmetry for model-checking Sessions: ids carry no order.               *)
(***************************************************************************)
EXTENDS Sessions, TLC

Symmetry == Permutations(Worker) \cup Permutations(Sid) \cup Permutations(User)

=============================================================================
