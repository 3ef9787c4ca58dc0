---------------------------- MODULE Departments -----------------------------
(***************************************************************************)
(* The tree of departments (departments.service.ts).  A department that    *)
(* moves is kept out of its own subtree by a walk through the subtree, one *)
(* query for the children of each department, before it is written.        *)
(*                                                                         *)
(* Names, managers, members, order and isActive are left out: a name taken *)
(* among the siblings refuses a request, as does a missing manager.        *)
(***************************************************************************)
EXTENDS Administration

VARIABLES
    parent,    \* parentId of the departments there are
    req,       \* what each worker is handling
    crossed    \* has a move been written during another one? (not in the code)

vars == <<parent, req, crossed>>

Handler == [at : {"idle", "insert", "walk", "write", "delete"},
            id : Department \cup {None},
            to : Department \cup {None},    \* the parent to be
            todo : SUBSET Department]       \* of the subtree, what is not visited yet

Idle == [at |-> "idle", id |-> None, to |-> None, todo |-> {}]

TypeOK ==
    /\ DOMAIN parent \subseteq Department
    /\ parent \in [DOMAIN parent -> DOMAIN parent \cup {None}]
    /\ req \in [Worker -> Handler]
    /\ crossed \in BOOLEAN

-----------------------------------------------------------------------------
Children(d) == {c \in DOMAIN parent : parent[c] = d}

Fresh == {d \in Department \ DOMAIN parent : \A w \in Worker : d \notin {req[w].id, req[w].to}}

Start(w, request) ==
    /\ req[w].at = "idle"
    /\ req' = [req EXCEPT ![w] = request]
Answer(w) == req' = [req EXCEPT ![w] = Idle]

\* The parent is looked up first; the insert fails when it has gone since.
CreateStart(w) ==
    /\ \E to \in DOMAIN parent \cup {None} : Start(w, [Idle EXCEPT !.at = "insert", !.to = to])
    /\ UNCHANGED <<parent, crossed>>

CreateInsert(w) ==
    /\ req[w].at = "insert"
    /\ req[w].to \in DOMAIN parent \cup {None}
    /\ \E d \in Fresh :
          parent' = [e \in DOMAIN parent \cup {d} |-> IF e = d THEN req[w].to ELSE parent[e]]
    /\ Answer(w)
    /\ UNCHANGED crossed

\* update with another parentId: none, or one that has to be found outside.
MoveIntoItself(w, d) ==
    /\ d \in DOMAIN parent
    /\ \E to \in DOMAIN parent \cup {None} :
          Start(w, [Idle EXCEPT !.at = IF to = None THEN "write" ELSE "walk",
                                !.id = d, !.to = to, !.todo = IF to = None THEN {} ELSE {d}])
    /\ UNCHANGED <<parent, crossed>>
Move(w, d) ==
    /\ d \in DOMAIN parent
    /\ \E to \in (DOMAIN parent \ {d}) \cup {None} :
          Start(w, [Idle EXCEPT !.at = IF to = None THEN "write" ELSE "walk",
                                !.id = d, !.to = to, !.todo = IF to = None THEN {} ELSE {d}])
    /\ UNCHANGED <<parent, crossed>>

\* isChildDepartment goes on with the department that moves or one it has found
\* below: that is the parent to be, and refuses the move, or its children are
\* asked for.
BelowItself(d) == Children(d) \cup (IF Children(d) = {} THEN {} ELSE {d})
Below(d) == Children(d)

Walk(w) ==
    /\ req[w].at = "walk"
    /\ \E d \in req[w].todo :
          \/ /\ d = req[w].to /\ d # req[w].id
             /\ Answer(w)
          \/ /\ d # req[w].to \/ d = req[w].id
             /\ LET todo == (req[w].todo \ {d}) \cup Below(d)
                IN  req' = [req EXCEPT ![w].todo = todo,
                                       ![w].at = IF todo = {} THEN "write" ELSE "walk"]
    /\ UNCHANGED <<parent, crossed>>

Moving(v) == req[v].at \in {"walk", "write"}

\* The foreign key refuses a parent that has gone.
MoveWrite(w) ==
    /\ req[w].at = "write"
    /\ IF req[w].id \in DOMAIN parent /\ req[w].to \in DOMAIN parent \cup {None}
       THEN /\ parent' = [parent EXCEPT ![req[w].id] = req[w].to]
            /\ crossed' = (crossed \/ \E v \in Worker \ {w} : Moving(v))
       ELSE UNCHANGED <<parent, crossed>>
    /\ Answer(w)

\* remove refuses a department that has children when it is read.  Those that it
\* has when it is deleted go to the root (ON DELETE SET NULL).
RemoveRead(w, d) ==
    /\ d \in DOMAIN parent
    /\ Children(d) = {}
    /\ Start(w, [Idle EXCEPT !.at = "delete", !.id = d])
    /\ UNCHANGED <<parent, crossed>>

RemoveDelete(w) ==
    /\ req[w].at = "delete"
    /\ parent' = [d \in DOMAIN parent \ {req[w].id} |->
                     IF parent[d] = req[w].id THEN None ELSE parent[d]]
    /\ Answer(w)
    /\ UNCHANGED crossed

\* A statement fails and the handler with it.
Fail(w) ==
    /\ req[w].at # "idle"
    /\ Answer(w)
    /\ UNCHANGED <<parent, crossed>>

-----------------------------------------------------------------------------
Init ==
    /\ parent = [d \in {} |-> None]
    /\ req = [w \in Worker |-> Idle]
    /\ crossed = FALSE

Ask(w) ==
    \/ CreateStart(w)
    \/ \E d \in Department : Move(w, d) \/ RemoveRead(w, d)

Step(w) == CreateInsert(w) \/ Walk(w) \/ MoveWrite(w) \/ RemoveDelete(w)

Next == \E w \in Worker : Ask(w) \/ Step(w) \/ Fail(w)

\* The database answers every query of a walk.
Fairness == \A w \in Worker : WF_vars(Walk(w))

Spec == Init /\ [][Next]_vars /\ Fairness

-----------------------------------------------------------------------------
(***************************************************************************)
(* Properties.                                                             *)
(***************************************************************************)

\* No department is above itself: in any set of departments there is one whose
\* parent is not in the set.  Two moves that overlap, each checked before the
\* other was written, may close a cycle (update, isChildDepartment).
Acyclic ==
    \A S \in SUBSET DOMAIN parent : S # {} => \E d \in S : parent[d] \notin S
AcyclicUnlessCrossed == crossed \/ Acyclic

\* Once the tree stays as it is a walk comes to an end, whatever was created, moved
\* and removed below it while it went on; unless it leads into a cycle: from a
\* department that it has still to visit one can go down for ever
\* (isChildDepartment).
Bottomless(w) ==
    \E S \in SUBSET DOMAIN parent :
        S \cap req[w].todo # {} /\ \A d \in S : Children(d) \cap S # {}

WalkEnds ==
    <>[][FALSE]_parent =>
        \A w \in Worker : req[w].at = "walk" ~> (req[w].at # "walk" \/ Bottomless(w))

=============================================================================
