------------------------ MODULE AdministrationProofs -------------------------
(***************************************************************************)
(* Theorems about what administrators look after, for any number of        *)
(* handlers and rows: the tree of departments, the last administrator, the *)
(* menus of a role, and the types of all four services.                    *)
(***************************************************************************)
EXTENDS MCAdministration, FiniteSetTheorems, TLAPS

-----------------------------------------------------------------------------
(***************************************************************************)
(* Departments.                                                            *)
(*                                                                         *)
(* A walk visits the subtree of the department that moves while others     *)
(* create and remove departments in it.  What holds of it all the time is  *)
(* that there is a set, of what was visited and of what was created below  *)
(* that since, which the children of its members leave only towards what   *)
(* is still to be visited, and which the parent to be is not in.           *)
(***************************************************************************)
Encloses(U, todo) == \A x \in DOMAIN parent : parent[x] \in U => x \in U \cup todo

WalkOk(w) ==
    (Moving(w) /\ req[w].to # None) =>
        /\ req[w].to # req[w].id
        /\ req[w].at = "write" => req[w].todo = {}
        /\ \E U \in SUBSET Department :
              /\ req[w].id \in U \cup req[w].todo
              /\ req[w].to \notin U
              /\ Encloses(U, req[w].todo)

TreeInv == crossed \/ (Acyclic /\ \A w \in Worker : WalkOk(w))

Inv == TypeOK /\ TreeInv

-----------------------------------------------------------------------------
\* A handler that starts or goes on has its type.
LEMMA ReplaceTyped ==
    ASSUME TypeOK, NEW w \in Worker, NEW r \in Handler, req' = [req EXCEPT ![w] = r]
    PROVE  /\ req' \in [Worker -> Handler]
           /\ req'[w] = r
           /\ \A v \in Worker \ {w} : req'[v] = req[v]
BY DEF TypeOK

LEMMA IdleTyped == Idle \in Handler /\ Idle.at = "idle"
BY DEF Idle, Handler

\* Whatever w becomes, the others go on as before when nothing moved.
LEMMA Frame ==
    ASSUME Inv, NEW w \in Worker,
           UNCHANGED <<parent, crossed>>,
           req' \in [Worker -> Handler],
           \A v \in Worker \ {w} : req'[v] = req[v],
           crossed \/ WalkOk(w)'
    PROVE  Inv'
<1>1. TypeOK'
  BY DEF Inv, TypeOK
<1>2. ASSUME ~crossed PROVE Acyclic' /\ \A v \in Worker : WalkOk(v)'
  <2>1. Acyclic'
    BY <1>2 DEF Inv, TreeInv, Acyclic
  <2>2. ASSUME NEW v \in Worker \ {w} PROVE WalkOk(v)'
    BY <1>2, <2>2 DEF Inv, TreeInv, WalkOk, Moving, Encloses
  <2> QED
    BY <1>2, <2>1, <2>2
<1> QED
  BY <1>1, <1>2 DEF Inv, TreeInv

\* w does not move any department: it answers, creates or removes.
LEMMA NotMoving ==
    ASSUME NEW w \in Worker, req'[w].at \notin {"walk", "write"}
    PROVE  WalkOk(w)'
BY DEF WalkOk, Moving

-----------------------------------------------------------------------------
LEMMA AnswerOnly ==
    ASSUME Inv, NEW w \in Worker, Answer(w), UNCHANGED <<parent, crossed>>
    PROVE  Inv'
<1>1. /\ req' \in [Worker -> Handler] /\ req'[w].at = "idle"
      /\ \A v \in Worker \ {w} : req'[v] = req[v]
  BY ReplaceTyped, IdleTyped DEF Inv, Answer
<1> QED
  BY <1>1, NotMoving, Frame

LEMMA AskInv ==
    ASSUME Inv, NEW w \in Worker, Ask(w)
    PROVE  Inv'
<1> USE DEF Start
<1>1. ASSUME NEW r \in Handler, req' = [req EXCEPT ![w] = r], UNCHANGED <<parent, crossed>>,
             r.at \notin {"walk", "write"}
      PROVE  Inv'
  BY <1>1, ReplaceTyped, NotMoving, Frame DEF Inv
<1>2. CASE CreateStart(w)
  <2>1. PICK to \in DOMAIN parent \cup {None} :
           req' = [req EXCEPT ![w] = [Idle EXCEPT !.at = "insert", !.to = to]]
    BY <1>2 DEF CreateStart
  <2> DEFINE r == [Idle EXCEPT !.at = "insert", !.to = to]
  <2>2. r \in Handler /\ r.at = "insert"
    BY DEF Inv, TypeOK, Idle, Handler
  <2>3. UNCHANGED <<parent, crossed>>
    BY <1>2 DEF CreateStart
  <2>4. req' = [req EXCEPT ![w] = r]
    BY <2>1
  <2> HIDE DEF r
  <2> QED
    BY <1>1, <2>2, <2>3, <2>4
<1>3. ASSUME NEW d \in Department, RemoveRead(w, d) PROVE Inv'
  <2> DEFINE r == [Idle EXCEPT !.at = "delete", !.id = d]
  <2>1. r \in Handler /\ r.at = "delete"
    BY DEF Idle, Handler
  <2>2. req' = [req EXCEPT ![w] = r] /\ UNCHANGED <<parent, crossed>>
    BY <1>3 DEF RemoveRead
  <2> HIDE DEF r
  <2> QED
    BY <1>1, <2>1, <2>2
<1>4. ASSUME NEW d \in Department, Move(w, d) PROVE Inv'
  <2>1. PICK to \in (DOMAIN parent \ {d}) \cup {None} :
           req' = [req EXCEPT ![w] = [Idle EXCEPT
                      !.at = IF to = None THEN "write" ELSE "walk",
                      !.id = d, !.to = to, !.todo = IF to = None THEN {} ELSE {d}]]
    BY <1>4 DEF Move
  <2> DEFINE r == [Idle EXCEPT !.at = IF to = None THEN "write" ELSE "walk",
                               !.id = d, !.to = to, !.todo = IF to = None THEN {} ELSE {d}]
  <2>2. /\ r \in Handler /\ r.to = to /\ r.id = d
        /\ to # None => r.at = "walk" /\ r.todo = {d}
    BY DEF Inv, TypeOK, Idle, Handler
  <2>3. req' = [req EXCEPT ![w] = r] /\ UNCHANGED <<parent, crossed>>
    BY <1>4, <2>1 DEF Move
  <2> HIDE DEF r
  <2>4. /\ req' \in [Worker -> Handler] /\ req'[w] = r
        /\ \A v \in Worker \ {w} : req'[v] = req[v]
    BY <2>2, <2>3, ReplaceTyped DEF Inv
  <2>5. WalkOk(w)'
    <3> SUFFICES ASSUME to # None
                 PROVE  /\ to # d
                        /\ \E U \in SUBSET Department : d \in U \cup {d} /\ to \notin U /\ Encloses(U, {d})'
      BY <2>2, <2>4 DEF WalkOk
    <3>1. Encloses({}, {d})'
      BY DEF Encloses
    <3>2. to # d
      BY <2>1
    <3> QED
      BY <3>1, <3>2
  <2> QED
    BY <2>3, <2>4, <2>5, Frame
<1> QED
  BY <1>2, <1>3, <1>4 DEF Ask

\* A department was visited: it joins what is below.
LEMMA WalkInv ==
    ASSUME Inv, NEW w \in Worker, Walk(w)
    PROVE  Inv'
<1>1. PICK d \in req[w].todo :
         \/ d = req[w].to /\ d # req[w].id /\ Answer(w)
         \/ /\ d # req[w].to \/ d = req[w].id
            /\ req' = [req EXCEPT
                  ![w].todo = (req[w].todo \ {d}) \cup Children(d),
                  ![w].at = IF (req[w].todo \ {d}) \cup Children(d) = {} THEN "write" ELSE "walk"]
  BY DEF Walk, Below
<1>2. UNCHANGED <<parent, crossed>> /\ req[w].at = "walk"
  BY DEF Walk
<1>3. CASE Answer(w)
  BY <1>2, <1>3, AnswerOnly
<1>4. CASE ~Answer(w)
  <2> DEFINE todo == (req[w].todo \ {d}) \cup Children(d)
             r == [req[w] EXCEPT !.todo = todo, !.at = IF todo = {} THEN "write" ELSE "walk"]
  <2>1. /\ r \in Handler /\ r.todo = todo /\ r.id = req[w].id /\ r.to = req[w].to
        /\ r.at \in {"walk", "write"} /\ (r.at = "write" => todo = {})
    BY DEF Inv, TypeOK, Handler, Children
  <2>2. req' = [req EXCEPT ![w] = r]
    BY <1>1, <1>4 DEF Inv, TypeOK
  <2> HIDE DEF r
  <2>3. /\ req' \in [Worker -> Handler] /\ req'[w] = r
        /\ \A v \in Worker \ {w} : req'[v] = req[v]
    BY <2>1, <2>2, ReplaceTyped DEF Inv
  <2>4. ASSUME ~crossed, req[w].to # None PROVE WalkOk(w)'
    <3>1. WalkOk(w) /\ Moving(w)
      BY <1>2, <2>4 DEF Inv, TreeInv, Moving
    <3>2. PICK U \in SUBSET Department :
             /\ req[w].id \in U \cup req[w].todo /\ req[w].to \notin U
             /\ Encloses(U, req[w].todo)
      BY <2>4, <3>1 DEF WalkOk
    <3>3. req[w].to # req[w].id
      BY <2>4, <3>1 DEF WalkOk
    <3> DEFINE V == U \cup {d}
    <3>4. V \in SUBSET Department /\ req[w].to \notin V /\ req[w].id \in V \cup todo
      BY <1>1, <1>4, <3>2, <3>3 DEF Inv, TypeOK, Handler
    <3>5. Encloses(V, todo)
      BY <3>2 DEF Encloses, Children
    <3> QED
      BY <2>1, <2>3, <3>3, <3>4, <3>5, <1>2 DEF WalkOk, Encloses
  <2>5. crossed \/ WalkOk(w)'
    <3> SUFFICES ASSUME req[w].to = None PROVE WalkOk(w)'
      BY <2>4
    <3> QED
      BY <2>1, <2>3 DEF WalkOk
  <2> QED
    BY <1>2, <2>3, <2>5, Frame
<1> QED
  BY <1>3, <1>4

-----------------------------------------------------------------------------
\* w inserts department d under `to': d is nobody's parent yet, and no handler
\* names it.  In a walk through `to' it counts as visited.
LEMMA CreateInv ==
    ASSUME Inv, NEW w \in Worker, CreateInsert(w)
    PROVE  Inv'
<1>1. PICK d \in Fresh :
         parent' = [e \in DOMAIN parent \cup {d} |-> IF e = d THEN req[w].to ELSE parent[e]]
  BY DEF CreateInsert
<1>2. /\ d \in Department /\ d \notin DOMAIN parent /\ d # None
      /\ \A v \in Worker : d # req[v].id /\ d # req[v].to
  BY DepartmentConstants DEF Fresh
<1>3. /\ req' \in [Worker -> Handler] /\ req'[w].at = "idle"
      /\ \A v \in Worker \ {w} : req'[v] = req[v]
  BY ReplaceTyped, IdleTyped DEF Inv, CreateInsert, Answer
<1>4. req[w].to \in DOMAIN parent \cup {None} /\ UNCHANGED crossed
  BY DEF CreateInsert
<1>5. \A x \in DOMAIN parent : parent[x] # d /\ parent'[x] = parent[x]
  BY <1>1, <1>2 DEF Inv, TypeOK
<1>6. DOMAIN parent' = DOMAIN parent \cup {d} /\ parent'[d] = req[w].to
  BY <1>1
<1>7. TypeOK'
  BY <1>1, <1>2, <1>3, <1>4 DEF Inv, TypeOK
<1>8. ASSUME ~crossed PROVE Acyclic'
  <2> SUFFICES ASSUME NEW S \in SUBSET DOMAIN parent', S # {}
               PROVE  \E x \in S : parent'[x] \notin S
    BY DEF Acyclic
  <2>1. CASE S \ {d} = {}
    BY <1>2, <1>4, <1>6, <2>1
  <2>2. CASE S \ {d} # {}
    <3>1. PICK x \in S \ {d} : parent[x] \notin S \ {d}
      BY <1>6, <1>8, <2>2 DEF Inv, TreeInv, Acyclic
    <3> QED
      BY <1>5, <1>6, <3>1
  <2> QED
    BY <2>1, <2>2
<1>9. ASSUME ~crossed, NEW v \in Worker PROVE WalkOk(v)'
  <2>1. CASE v = w
    BY <1>3, <2>1, NotMoving
  <2>2. CASE v # w /\ Moving(v) /\ req[v].to # None
    <3>1. PICK U \in SUBSET Department :
             /\ req[v].id \in U \cup req[v].todo /\ req[v].to \notin U
             /\ Encloses(U, req[v].todo)
      BY <1>9, <2>2 DEF Inv, TreeInv, WalkOk
    <3> DEFINE V == U \cup {d}
    <3>2. \A x \in DOMAIN parent' : parent'[x] \in V => x \in V \cup req[v].todo
      BY <1>5, <1>6, <3>1 DEF Encloses
    <3>3. V \in SUBSET Department /\ req[v].id \in V \cup req[v].todo /\ req[v].to \notin V
      BY <1>2, <3>1
    <3>4. WalkOk(v)
      BY <1>9 DEF Inv, TreeInv
    <3> QED
      BY <1>3, <2>2, <3>2, <3>3, <3>4 DEF WalkOk, Encloses
  <2>3. CASE v # w /\ ~(Moving(v) /\ req[v].to # None)
    BY <1>3, <2>3 DEF WalkOk, Moving
  <2> QED
    BY <2>1, <2>2, <2>3
<1> QED
  BY <1>4, <1>7, <1>8, <1>9 DEF Inv, TreeInv

\* A removed department leaves the sets it was in; its children become roots.
LEMMA RemoveInv ==
    ASSUME Inv, NEW w \in Worker, RemoveDelete(w)
    PROVE  Inv'
<1>1. /\ req' \in [Worker -> Handler] /\ req'[w].at = "idle"
      /\ \A v \in Worker \ {w} : req'[v] = req[v]
  BY ReplaceTyped, IdleTyped DEF Inv, RemoveDelete, Answer
<1>2. /\ DOMAIN parent' = DOMAIN parent \ {req[w].id}
      /\ \A x \in DOMAIN parent' : parent'[x] = IF parent[x] = req[w].id THEN None ELSE parent[x]
      /\ UNCHANGED crossed
  BY DEF RemoveDelete
<1>3. DOMAIN parent \subseteq Department
  BY DEF Inv, TypeOK
<1>4. TypeOK'
  BY <1>1, <1>2 DEF Inv, TypeOK, RemoveDelete
<1>5. ASSUME ~crossed PROVE Acyclic'
  <2> SUFFICES ASSUME NEW S \in SUBSET DOMAIN parent', S # {}
               PROVE  \E x \in S : parent'[x] \notin S
    BY DEF Acyclic
  <2>1. PICK x \in S : parent[x] \notin S
    BY <1>2, <1>5 DEF Inv, TreeInv, Acyclic
  <2>2. None \notin S
    BY <1>2, <1>3, DepartmentConstants
  <2> QED
    BY <1>2, <2>1, <2>2
<1>6. ASSUME ~crossed, NEW v \in Worker PROVE WalkOk(v)'
  <2>1. CASE v = w
    BY <1>1, <2>1, NotMoving
  <2>2. CASE v # w
    <3>1. \A todo : \A U \in SUBSET Department : Encloses(U, todo) =>
             \A x \in DOMAIN parent' : parent'[x] \in U => x \in U \cup todo
      BY <1>2, DepartmentConstants DEF Encloses
    <3>2. WalkOk(v)
      BY <1>6 DEF Inv, TreeInv
    <3> QED
      BY <1>1, <2>2, <3>1, <3>2 DEF WalkOk, Moving, Encloses
  <2> QED
    BY <2>1, <2>2
<1> QED
  BY <1>2, <1>4, <1>5, <1>6 DEF Inv, TreeInv

\* A move that nobody crosses: what is below the department that moves leaves
\* the parent to be out, so that a cycle would have been one before.
LEMMA MoveInv ==
    ASSUME Inv, NEW w \in Worker, MoveWrite(w)
    PROVE  Inv'
<1>1. /\ req' \in [Worker -> Handler] /\ req'[w].at = "idle"
      /\ \A v \in Worker \ {w} : req'[v] = req[v]
  BY ReplaceTyped, IdleTyped DEF Inv, MoveWrite, Answer
<1>2. CASE UNCHANGED <<parent, crossed>>
  BY <1>1, <1>2, NotMoving, Frame
<1>3. CASE /\ req[w].id \in DOMAIN parent /\ req[w].to \in DOMAIN parent \cup {None}
           /\ parent' = [parent EXCEPT ![req[w].id] = req[w].to]
           /\ crossed' = (crossed \/ \E v \in Worker \ {w} : Moving(v))
  <2>1. /\ DOMAIN parent' = DOMAIN parent /\ parent'[req[w].id] = req[w].to
        /\ \A x \in DOMAIN parent \ {req[w].id} : parent'[x] = parent[x]
    BY <1>3
  <2>2. TypeOK'
    BY <1>1, <1>3 DEF Inv, TypeOK
  <2>3. ASSUME ~crossed' PROVE Acyclic'
    <3>1. ~crossed /\ Acyclic /\ WalkOk(w)
      BY <1>3, <2>3 DEF Inv, TreeInv
    <3>2. SUFFICES ASSUME NEW S \in SUBSET DOMAIN parent', S # {}, \A x \in S : parent'[x] \in S
                   PROVE  FALSE
      BY DEF Acyclic
    <3>3. req[w].id \in S /\ req[w].to \in S
      BY <2>1, <3>1, <3>2 DEF Acyclic
    <3>4. req[w].to # None
      BY <2>1, <3>2, <3>3, DepartmentConstants DEF Inv, TypeOK
    <3>5. PICK U \in SUBSET Department :
             /\ req[w].id \in U /\ req[w].to \notin U
             /\ \A x \in DOMAIN parent : parent[x] \in U => x \in U
      BY <3>1, <3>4 DEF WalkOk, Moving, MoveWrite, Encloses
    <3>6. \A x \in S \ U : parent[x] \in S \ U
      BY <2>1, <3>2, <3>5
    <3>7. S \ U # {} /\ S \ U \in SUBSET DOMAIN parent
      BY <2>1, <3>2, <3>3, <3>5
    <3> QED
      BY <3>1, <3>6, <3>7 DEF Acyclic
  <2>4. ASSUME ~crossed', NEW v \in Worker PROVE WalkOk(v)'
    BY <1>1, <1>3, <2>4 DEF WalkOk, Moving
  <2> QED
    BY <2>2, <2>3, <2>4 DEF Inv, TreeInv
<1> QED
  BY <1>2, <1>3 DEF MoveWrite

-----------------------------------------------------------------------------
LEMMA InvInit == Init => Inv
<1> SUFFICES ASSUME Init PROVE Inv
  OBVIOUS
<1>1. TypeOK
  BY IdleTyped DEF Init, TypeOK
<1>2. Acyclic
  BY DEF Init, Acyclic
<1>3. \A w \in Worker : WalkOk(w)
  BY IdleTyped DEF Init, WalkOk, Moving
<1> QED
  BY <1>1, <1>2, <1>3 DEF Inv, TreeInv

LEMMA InvNext == Inv /\ [Next]_vars => Inv'
<1> SUFFICES ASSUME Inv, [Next]_vars PROVE Inv'
  OBVIOUS
<1>1. ASSUME NEW w \in Worker, Ask(w) \/ Step(w) \/ Fail(w) PROVE Inv'
  <2>1. CASE Ask(w)
    BY <2>1, AskInv
  <2>2. CASE Step(w)
    BY <2>2, CreateInv, WalkInv, MoveInv, RemoveInv DEF Step
  <2>3. CASE Fail(w)
    BY <2>3, AnswerOnly DEF Fail
  <2> QED
    BY <1>1, <2>1, <2>2, <2>3
<1>2. CASE UNCHANGED vars
  BY <1>2 DEF vars, Inv, TypeOK, TreeInv, Acyclic, WalkOk, Moving, Encloses
<1> QED
  BY <1>1, <1>2 DEF Next

\* No department is above itself unless two moves overlapped (update with
\* isChildDepartment), whatever is created, removed or fails meanwhile.
THEOREM TreeCorrect == Spec => []AcyclicUnlessCrossed
<1>1. Inv => AcyclicUnlessCrossed
  BY DEF Inv, TreeInv, AcyclicUnlessCrossed
<1> QED
  BY <1>1, InvInit, InvNext, PTL DEF Spec

-----------------------------------------------------------------------------
(***************************************************************************)
(* Users.                                                                  *)
(*                                                                         *)
(* Between its count and its write a removal knows of an administrator     *)
(* other than the user it removes.  Every write of another handler makes   *)
(* that uncertain, and is remembered in `raced'.                           *)
(***************************************************************************)
AnotherAdmin(w) == \E a \in Accounts!ActiveAdmins : a # userReq[w].id

AdminsInv ==
    /\ Accounts!TypeOK
    /\ \A w \in Worker :
          /\ userReq[w].at = "insert" => userReq[w].admin \in BOOLEAN
          /\ (userReq[w].at = "deactivate" /\ ~userReq[w].raced) => AnotherAdmin(w)

-----------------------------------------------------------------------------
LEMMA UserIdle == Accounts!Idle \in Accounts!Handler /\ Accounts!Idle.at = "idle"
BY DEF Accounts!Idle, Accounts!Handler

\* A handler goes on and the table stays.
LEMMA UserFrame ==
    ASSUME AdminsInv, NEW w \in Worker, NEW r \in Accounts!Handler,
           userReq' = [userReq EXCEPT ![w] = r],
           UNCHANGED user,
           r.at = "insert" => r.admin \in BOOLEAN,
           r.at = "deactivate" => \E a \in Accounts!ActiveAdmins : a # r.id
    PROVE  AdminsInv'
<1>1. Accounts!TypeOK' /\ Accounts!ActiveAdmins' = Accounts!ActiveAdmins
  BY DEF AdminsInv, Accounts!TypeOK, Accounts!ActiveAdmins
<1>2. userReq'[w] = r /\ \A v \in Worker \ {w} : userReq'[v] = userReq[v]
  BY DEF AdminsInv, Accounts!TypeOK
<1> QED
  BY <1>1, <1>2 DEF AdminsInv, AnotherAdmin

\* An instance of a module has its own copy of the operators it extends.
LEMMA SameCardinality == \A S : Accounts!Cardinality(S) = Cardinality(S)
BY Zenon DEF Cardinality, Accounts!Cardinality

\* Of two administrators one is not the user to be removed.
LEMMA TwoAdmins ==
    ASSUME Accounts!TypeOK, ~(Cardinality(Accounts!ActiveAdmins) <= 1), NEW u
    PROVE  \E a \in Accounts!ActiveAdmins : a # u
<1> SUFFICES ASSUME \A a \in Accounts!ActiveAdmins : a = u PROVE FALSE
  OBVIOUS
<1>1. Accounts!ActiveAdmins \subseteq {u}
  OBVIOUS
<1>2. IsFiniteSet({u}) /\ Cardinality({u}) = 1
  BY FS_Singleton
<1>3. Cardinality(Accounts!ActiveAdmins) <= 1
  BY <1>1, <1>2, FS_Subset
<1> QED
  BY <1>3

LEMMA UserAskInv ==
    ASSUME AdminsInv, NEW w \in Worker, Accounts!Ask(w)
    PROVE  AdminsInv'
<1> USE DEF Accounts!Start
<1>1. CASE Accounts!CreateStart(w)
  <2>1. PICK admin \in BOOLEAN : userReq' = [userReq EXCEPT ![w] = [Accounts!Idle EXCEPT !.at = "insert", !.admin = admin]]
    BY <1>1 DEF Accounts!CreateStart
  <2> DEFINE r == [Accounts!Idle EXCEPT !.at = "insert", !.admin = admin]
  <2>2. r \in Accounts!Handler /\ r.at = "insert" /\ r.admin = admin
    BY DEF Accounts!Idle, Accounts!Handler
  <2>3. userReq' = [userReq EXCEPT ![w] = r] /\ UNCHANGED user
    BY <1>1, <2>1 DEF Accounts!CreateStart
  <2> HIDE DEF r
  <2> QED
    BY <2>2, <2>3, UserFrame
<1>2. ASSUME NEW u \in User, Accounts!UpdateRead(w, u) PROVE AdminsInv'
  <2>1. PICK admin \in BOOLEAN \cup {None}, isActive \in BOOLEAN \cup {None} :
           userReq' = [userReq EXCEPT ![w] = [Accounts!Idle EXCEPT !.at = "write", !.id = u, !.admin = admin,
                                                  !.isActive = isActive]]
    BY <1>2 DEF Accounts!UpdateRead
  <2> DEFINE r == [Accounts!Idle EXCEPT !.at = "write", !.id = u, !.admin = admin, !.isActive = isActive]
  <2>2. r \in Accounts!Handler /\ r.at = "write"
    BY DEF Accounts!Idle, Accounts!Handler
  <2>3. userReq' = [userReq EXCEPT ![w] = r] /\ UNCHANGED user
    BY <1>2, <2>1 DEF Accounts!UpdateRead
  <2> HIDE DEF r
  <2> QED
    BY <2>2, <2>3, UserFrame
<1>3. ASSUME NEW u \in User, Accounts!RemoveRead(w, u) PROVE AdminsInv'
  <2> DEFINE r == [Accounts!Idle EXCEPT !.at = IF u \in Accounts!ActiveAdmins THEN "count" ELSE "deactivate", !.id = u]
  <2>1. r \in Accounts!Handler /\ r.at \in {"count", "deactivate"} /\ r.id = u
    BY DEF Accounts!Idle, Accounts!Handler
  <2>2. /\ userReq' = [userReq EXCEPT ![w] = r] /\ UNCHANGED user
        /\ \E operator \in Accounts!ActiveAdmins : operator # u
    BY <1>3 DEF Accounts!RemoveRead
  <2> HIDE DEF r
  <2> QED
    BY <2>1, <2>2, UserFrame
<1> QED
  BY <1>1, <1>2, <1>3 DEF Accounts!Ask

\* w has written: whoever is about to deactivate has been raced.
LEMMA UserWrittenInv ==
    ASSUME AdminsInv, NEW w \in Worker, Accounts!Written(w),
           DOMAIN user' \subseteq User, user' \in [DOMAIN user' -> Accounts!Row]
    PROVE  AdminsInv'
<1>1. \A v \in Worker : [userReq[v] EXCEPT !.raced = TRUE] \in Accounts!Handler
  BY DEF AdminsInv, Accounts!TypeOK, Accounts!Handler
<1>2. Accounts!TypeOK'
  BY <1>1, UserIdle DEF AdminsInv, Accounts!TypeOK, Accounts!Written
<1>3. ASSUME NEW v \in Worker
      PROVE  /\ userReq'[v].at = "insert" => userReq'[v].admin \in BOOLEAN
             /\ userReq'[v].at = "deactivate" => userReq'[v].raced
  <2>1. CASE v = w
    BY <2>1, UserIdle DEF Accounts!Written
  <2>2. CASE v # w /\ userReq[v].at = "deactivate"
    <3>1. userReq'[v] = [userReq[v] EXCEPT !.raced = TRUE] /\ userReq[v] \in Accounts!Handler
      BY <2>2 DEF Accounts!Written, AdminsInv, Accounts!TypeOK
    <3> QED
      BY <2>2, <3>1 DEF Accounts!Handler
  <2>3. CASE v # w /\ userReq[v].at # "deactivate"
    BY <2>3 DEF Accounts!Written, AdminsInv
  <2> QED
    BY <2>1, <2>2, <2>3
<1> QED
  BY <1>2, <1>3 DEF AdminsInv

LEMMA UserStepInv ==
    ASSUME AdminsInv, NEW w \in Worker, Accounts!Step(w)
    PROVE  AdminsInv'
<1>1. CASE Accounts!CreateInsert(w)
  <2>1. PICK u \in User \ DOMAIN user :
           user' = [v \in DOMAIN user \cup {u} |->
                       IF v = u THEN [admin |-> userReq[w].admin, isActive |-> TRUE] ELSE user[v]]
    BY <1>1 DEF Accounts!CreateInsert
  <2>2. [admin |-> userReq[w].admin, isActive |-> TRUE] \in Accounts!Row
    BY <1>1 DEF Accounts!CreateInsert, AdminsInv, Accounts!Row
  <2>3. DOMAIN user' \subseteq User /\ user' \in [DOMAIN user' -> Accounts!Row]
    BY <2>1, <2>2 DEF AdminsInv, Accounts!TypeOK
  <2> QED
    BY <1>1, <2>3, UserWrittenInv DEF Accounts!CreateInsert
<1>2. CASE Accounts!UpdateWrite(w)
  <2> DEFINE row(u) == [admin |-> Accounts!Sent(userReq[w].admin, user[u].admin),
                        isActive |-> Accounts!Sent(userReq[w].isActive, user[u].isActive)]
  <2>1. \A u \in DOMAIN user : row(u) \in Accounts!Row
    BY UserConstants DEF AdminsInv, Accounts!TypeOK, Accounts!Sent, Accounts!Row, Accounts!Handler
  <2>2. user' = [user EXCEPT ![userReq[w].id] = row(userReq[w].id)]
    BY <1>2 DEF Accounts!UpdateWrite
  <2> HIDE DEF row
  <2>3. DOMAIN user' \subseteq User /\ user' \in [DOMAIN user' -> Accounts!Row]
    BY <2>1, <2>2 DEF AdminsInv, Accounts!TypeOK
  <2> QED
    BY <1>2, <2>3, UserWrittenInv DEF Accounts!UpdateWrite
<1>3. CASE Accounts!RemoveCount(w)
  <2>1. CASE Accounts!Answer(w)
    BY <1>3, <2>1, UserIdle, UserFrame DEF Accounts!RemoveCount, Accounts!Answer
  <2>2. CASE ~Accounts!Answer(w)
    <3> DEFINE r == [userReq[w] EXCEPT !.at = "deactivate"]
    <3>1. r \in Accounts!Handler /\ r.at = "deactivate" /\ r.id = userReq[w].id
      BY DEF AdminsInv, Accounts!TypeOK, Accounts!Handler
    <3>2. userReq' = [userReq EXCEPT ![w] = r] /\ UNCHANGED user /\ ~(Cardinality(Accounts!ActiveAdmins) <= 1)
      BY <1>3, <2>2, SameCardinality DEF Accounts!RemoveCount
    <3> HIDE DEF r
    <3>3. \E a \in Accounts!ActiveAdmins : a # r.id
      BY <3>2, TwoAdmins DEF AdminsInv
    <3> QED
      BY <3>1, <3>2, <3>3, UserFrame
  <2> QED
    BY <2>1, <2>2
<1>4. CASE Accounts!RemoveWrite(w)
  <2> DEFINE row(u) == [user[u] EXCEPT !.isActive = FALSE]
  <2>1. \A u \in DOMAIN user : row(u) \in Accounts!Row
    BY DEF AdminsInv, Accounts!TypeOK, Accounts!Row
  <2>2. user' = [user EXCEPT ![userReq[w].id] = row(userReq[w].id)]
    BY <1>4 DEF Accounts!RemoveWrite
  <2> HIDE DEF row
  <2>3. DOMAIN user' \subseteq User /\ user' \in [DOMAIN user' -> Accounts!Row]
    BY <2>1, <2>2 DEF AdminsInv, Accounts!TypeOK
  <2> QED
    BY <1>4, <2>3, UserWrittenInv DEF Accounts!RemoveWrite
<1> QED
  BY <1>1, <1>2, <1>3, <1>4 DEF Accounts!Step

LEMMA AdminsInit == Accounts!Init => AdminsInv
<1> SUFFICES ASSUME Accounts!Init PROVE AdminsInv
  OBVIOUS
<1>1. [admin |-> TRUE, isActive |-> TRUE] \in Accounts!Row
  BY DEF Accounts!Row
<1>2. Accounts!TypeOK
  BY <1>1, UserIdle, UserConstants DEF Accounts!Init, Accounts!TypeOK
<1> QED
  BY <1>2, UserIdle DEF Accounts!Init, AdminsInv

LEMMA AdminsNext == AdminsInv /\ [Accounts!Next]_(Accounts!vars) => AdminsInv'
<1> SUFFICES ASSUME AdminsInv, [Accounts!Next]_(Accounts!vars) PROVE AdminsInv'
  OBVIOUS
<1>1. ASSUME NEW w \in Worker, Accounts!Fail(w) PROVE AdminsInv'
  BY <1>1, UserIdle, UserFrame DEF Accounts!Fail, Accounts!Answer
<1>2. CASE UNCHANGED Accounts!vars
  BY <1>2 DEF Accounts!vars, AdminsInv, Accounts!TypeOK, AnotherAdmin, Accounts!ActiveAdmins
<1> QED
  BY <1>1, <1>2, UserAskInv, UserStepInv DEF Accounts!Next

\* The administrator that a removal counted besides is still there after it.
LEMMA RemovalStep ==
    ASSUME AdminsInv, NEW w \in Worker, Accounts!RemoveWrite(w), ~userReq[w].raced
    PROVE  Accounts!ActiveAdmins' # {}
<1>1. PICK a \in Accounts!ActiveAdmins : a # userReq[w].id
  BY DEF AdminsInv, AnotherAdmin, Accounts!RemoveWrite
<1>2. a \in DOMAIN user' /\ user'[a] = user[a]
  BY <1>1 DEF Accounts!RemoveWrite, Accounts!ActiveAdmins, AdminsInv, Accounts!TypeOK
<1> QED
  BY <1>1, <1>2 DEF Accounts!ActiveAdmins

\* To remove a user takes the last active administrator away only when another
\* request wrote between the count and the write (remove).
THEOREM RemovalCorrect == Accounts!Spec => RemovalKeepsAdmin
<1>1. AdminsInv /\ [Accounts!Next]_(Accounts!vars) => [\A w \in Worker : (Accounts!RemoveWrite(w) /\ ~userReq[w].raced) => Accounts!ActiveAdmins' # {}]_(Accounts!vars)
  BY RemovalStep
<1> QED
  BY <1>1, AdminsInit, AdminsNext, PTL DEF Accounts!Spec, RemovalKeepsAdmin, Accounts!RemovalKeepsAdmin

-----------------------------------------------------------------------------
(***************************************************************************)
(* Permissions.                                                            *)
(*                                                                         *)
(* The menus of a role come from one list L, and from the defaults.  If    *)
(* there is such a list there is the system menu too, on which a second    *)
(* list would collide; and a handler that deletes the rows it found takes  *)
(* nothing of L and the system menu, or all but the defaults.              *)
(***************************************************************************)
ChosenMenus(r) == Roles!KeysOf(rows, r) \cap Menu

\* The menus of r that a handler found and is about to delete.
Doomed(request, r) ==
    IF request.at \in {"lock", "commit"} THEN Roles!KeysOf(request.seen, r) \cap Menu ELSE {}

FromOneList(list) ==
    list \cap Menu = {} \/ \E m \in MenuLists : list \cap Menu = Roles!WithSystem(m)

RequestOk(request) ==
    /\ request.at \in {"lock", "commit"} => request.seen \subseteq rows
    /\ request.at \in {"lock", "commit", "create"} =>
          request.role \in Role /\ FromOneList(request.list)

\* K are the menus of a role, D its defaults and L the list.
OneList(K, D, L) ==
    /\ L \in MenuLists \cup {{}}
    /\ L \subseteq K
    /\ K \subseteq L \cup D \cup {SystemMenu}
    /\ L # {} => SystemMenu \in K

\* What is about to be deleted spares the list, or the defaults at most.
Spares(S, K, D, L) ==
    \/ S \cap (L \cup {SystemMenu}) = {}
    \/ K \ S \subseteq D \cup {SystemMenu}

MenusInv ==
    \A r \in Role : \E L :
        /\ OneList(ChosenMenus(r), DefaultMenus[r], L)
        /\ \A w \in Worker : Spares(Doomed(roleReq[w], r), ChosenMenus(r), DefaultMenus[r], L)

CommitsApart ==
    \A v, w \in Worker :
        (v # w /\ roleReq[v].at = "commit" /\ roleReq[w].at = "commit")
        => roleReq[v].seen \cap roleReq[w].seen = {}

RolesInv ==
    /\ Roles!TypeOK
    /\ CommitsApart
    /\ \A w \in Worker : RequestOk(roleReq[w])
    /\ MenusInv

LEMMA RoleIdle == Roles!Idle \in Roles!Handler /\ Roles!Idle.at = "idle"
BY DEF Roles!Idle, Roles!Handler

\* One handler moves and no row changes.
LEMMA RoleFrame ==
    ASSUME RolesInv, NEW w \in Worker, NEW q \in Roles!Handler,
           roleReq' = [roleReq EXCEPT ![w] = q],
           rows' = rows, cache' \in [Role -> (SUBSET Roles!Key) \cup {None}],
           RequestOk(q),
           q.at = "commit" => \A v \in Worker \ {w} :
               roleReq[v].at = "commit" => roleReq[v].seen \cap q.seen = {},
           \A r \in Role : Doomed(q, r) \in {{}, ChosenMenus(r), Doomed(roleReq[w], r)}
    PROVE  RolesInv'
<1>1. roleReq'[w] = q /\ \A v \in Worker \ {w} : roleReq'[v] = roleReq[v]
  BY DEF RolesInv, Roles!TypeOK
<1>2. Roles!TypeOK'
  BY DEF RolesInv, Roles!TypeOK
<1>3. CommitsApart'
  BY <1>1 DEF RolesInv, CommitsApart
<1>4. \A v \in Worker : RequestOk(roleReq[v])'
  BY <1>1 DEF RolesInv, RequestOk
<1>5. ASSUME NEW r \in Role
      PROVE  \E L : /\ OneList(ChosenMenus(r)', DefaultMenus[r], L)
                    /\ \A v \in Worker : Spares(Doomed(roleReq'[v], r), ChosenMenus(r)', DefaultMenus[r], L)
  <2>1. PICK L : /\ OneList(ChosenMenus(r), DefaultMenus[r], L)
                 /\ \A v \in Worker : Spares(Doomed(roleReq[v], r), ChosenMenus(r), DefaultMenus[r], L)
    BY DEF RolesInv, MenusInv
  <2>2. ChosenMenus(r)' = ChosenMenus(r)
    BY DEF ChosenMenus, Roles!KeysOf
  <2>3. Spares(Doomed(q, r), ChosenMenus(r), DefaultMenus[r], L)
    BY <2>1 DEF Spares
  <2> QED
    BY <1>1, <2>1, <2>2, <2>3
<1>6. MenusInv'
  BY <1>5 DEF MenusInv, Doomed, Roles!KeysOf
<1> QED
  BY <1>2, <1>3, <1>4, <1>6 DEF RolesInv

\* The rows of S are replaced by those that a handler adds, which are new.
LEMMA MenusSwapped ==
    ASSUME NEW K, NEW D, NEW L, NEW S, NEW M,
           OneList(K, D, L),
           S = {} \/ Spares(S, K, D, L),
           M = {} \/ \E m \in MenuLists : M = Roles!WithSystem(m),
           M \cap (K \ S) = {}
    PROVE  \E N : /\ OneList((K \ S) \cup M, D, N)
                  /\ \A T : (T \subseteq K /\ Spares(T, K, D, L))
                            => Spares(T \ S, (K \ S) \cup M, D, N)
<1>1. Spares(S, K, D, L)
  BY DEF Spares
<1>2. CASE M = {} /\ S \cap (L \cup {SystemMenu}) = {}
  <2>1. OneList((K \ S) \cup M, D, L)
    BY <1>2 DEF OneList
  <2>2. \A T : Spares(T, K, D, L) => Spares(T \ S, (K \ S) \cup M, D, L)
    BY <1>2 DEF Spares
  <2> QED
    BY <2>1, <2>2
<1>3. CASE M = {} /\ K \ S \subseteq D \cup {SystemMenu}
  <2>1. OneList((K \ S) \cup M, D, {})
    BY <1>3 DEF OneList
  <2>2. \A T : Spares(T \ S, (K \ S) \cup M, D, {})
    BY <1>3 DEF Spares
  <2> QED
    BY <2>1, <2>2
<1>4. ASSUME NEW m \in MenuLists, M = Roles!WithSystem(m)
      PROVE  /\ OneList((K \ S) \cup M, D, m)
             /\ \A T : (T \subseteq K /\ Spares(T, K, D, L))
                       => Spares(T \ S, (K \ S) \cup M, D, m)
  <2>1. M = m \cup {SystemMenu}
    BY <1>4 DEF Roles!WithSystem
  <2>2. K \ S \subseteq D \cup {SystemMenu}
    BY <1>1, <2>1 DEF Spares, OneList
  <2>3. OneList((K \ S) \cup M, D, m)
    BY <2>1, <2>2 DEF OneList
  <2>4. \A T : T \subseteq K => (T \ S) \cap (m \cup {SystemMenu}) = {}
    BY <2>1
  <2> QED
    BY <2>3, <2>4 DEF Spares
<1> QED
  BY <1>1, <1>2, <1>3, <1>4 DEF Spares

\* A statement of w deletes the rows of S and inserts those of A.
LEMMA RowsSwapped ==
    ASSUME RolesInv, NEW w \in Worker, NEW S, NEW A,
           rows' = (rows \ S) \cup A,
           S = {} \/ (roleReq[w].at \in {"lock", "commit"} /\ S = roleReq[w].seen),
           roleReq[w].role \in Role,
           A = {} \/ (A = Roles!Added(w) /\ FromOneList(roleReq[w].list)),
           A \cap (rows \ S) = {},
           \A r \in Role : Doomed(roleReq'[w], r) = {},
           \A v \in Worker \ {w}, r \in Role :
               Doomed(roleReq'[v], r) = Doomed(roleReq[v], r) \ Roles!KeysOf(S, r)
    PROVE  MenusInv'
<1>1. ASSUME NEW r \in Role
      PROVE  \E N : /\ OneList(ChosenMenus(r)', DefaultMenus[r], N)
                    /\ \A v \in Worker : Spares(Doomed(roleReq'[v], r), ChosenMenus(r)', DefaultMenus[r], N)
  <2> DEFINE K == ChosenMenus(r)
             s == Roles!KeysOf(S, r) \cap Menu
             M == Roles!KeysOf(A, r) \cap Menu
  <2>1. PICK L : /\ OneList(K, DefaultMenus[r], L)
                 /\ \A v \in Worker : Spares(Doomed(roleReq[v], r), K, DefaultMenus[r], L)
    BY DEF RolesInv, MenusInv
  <2>2. s = {} \/ Spares(s, K, DefaultMenus[r], L)
    <3>1. CASE S = {}
      BY <3>1 DEF Roles!KeysOf
    <3>2. CASE roleReq[w].at \in {"lock", "commit"} /\ S = roleReq[w].seen
      <4>1. s = Doomed(roleReq[w], r)
        BY <3>2 DEF Doomed
      <4> QED
        BY <2>1, <4>1
    <3> QED
      BY <3>1, <3>2
  <2>3. M = {} \/ \E m \in MenuLists : M = Roles!WithSystem(m)
    <3>1. CASE A = {}
      BY <3>1 DEF Roles!KeysOf
    <3>2. CASE A = Roles!Added(w) /\ roleReq[w].role # r
      BY <3>2 DEF Roles!KeysOf, Roles!Added
    <3>3. CASE A = Roles!Added(w) /\ roleReq[w].role = r /\ FromOneList(roleReq[w].list)
      <4>1. M = roleReq[w].list \cap Menu
        BY <3>3 DEF Roles!KeysOf, Roles!Added, Roles!Key
      <4> QED
        BY <3>3, <4>1 DEF FromOneList
    <3> QED
      BY <3>1, <3>2, <3>3
  <2>4. M \cap (K \ s) = {}
    BY DEF ChosenMenus, Roles!KeysOf
  <2>5. ChosenMenus(r)' = (K \ s) \cup M
    BY DEF ChosenMenus, Roles!KeysOf
  <2>6. ASSUME NEW v \in Worker PROVE Doomed(roleReq[v], r) \subseteq K
    BY DEF RolesInv, RequestOk, Doomed, ChosenMenus, Roles!KeysOf
  <2>7. \A v \in Worker \ {w} : Doomed(roleReq'[v], r) = Doomed(roleReq[v], r) \ s
    BY DEF Doomed
  <2> HIDE DEF K, s, M
  <2>8. PICK N : /\ OneList((K \ s) \cup M, DefaultMenus[r], N)
                 /\ \A T : (T \subseteq K /\ Spares(T, K, DefaultMenus[r], L))
                           => Spares(T \ s, (K \ s) \cup M, DefaultMenus[r], N)
    BY <2>1, <2>2, <2>3, <2>4, MenusSwapped
  <2>9. ASSUME NEW v \in Worker PROVE Spares(Doomed(roleReq'[v], r), (K \ s) \cup M, DefaultMenus[r], N)
    <3>1. CASE v = w
      BY <3>1 DEF Spares
    <3>2. CASE v # w
      BY <2>1, <2>6, <2>7, <2>8, <3>2
    <3> QED
      BY <3>1, <3>2
  <2> QED
    BY <2>5, <2>8, <2>9
<1> QED
  BY <1>1 DEF MenusInv, Doomed, Roles!KeysOf

\* w becomes q, and those that wait to delete rows of S no longer find them.
Taken(w, S, q) ==
    /\ roleReq' \in [Worker -> Roles!Handler]
    /\ roleReq'[w] = q
    /\ \A v \in Worker \ {w} :
          /\ roleReq'[v].at = roleReq[v].at
          /\ roleReq'[v].role = roleReq[v].role
          /\ roleReq'[v].list = roleReq[v].list
          /\ roleReq'[v].seen = IF roleReq[v].at = "lock" THEN roleReq[v].seen \ S
                                ELSE roleReq[v].seen

LEMMA DeletedTakes ==
    ASSUME RolesInv, NEW w \in Worker, NEW q \in Roles!Handler, Roles!Deleted(w, q)
    PROVE  Taken(w, roleReq[w].seen, q)
<1>1. \A v \in Worker : roleReq[v] \in Roles!Handler
  BY DEF RolesInv, Roles!TypeOK
<1>2. ASSUME NEW v \in Worker \ {w}, roleReq[v].at = "lock"
      PROVE  /\ roleReq'[v] = [roleReq[v] EXCEPT !.seen = roleReq[v].seen \ roleReq[w].seen]
             /\ roleReq'[v] \in Roles!Handler
  <2>1. roleReq'[v] = [roleReq[v] EXCEPT !.seen = roleReq[v].seen \ roleReq[w].seen]
    BY <1>2 DEF Roles!Deleted
  <2>2. roleReq[v] \in Roles!Handler
    BY <1>1
  <2> QED
    BY <2>1, <2>2 DEF Roles!Handler
<1>3. ASSUME NEW v \in Worker \ {w}, roleReq[v].at # "lock" PROVE roleReq'[v] = roleReq[v]
  BY <1>3 DEF Roles!Deleted
<1>4. roleReq'[w] = q
  BY DEF Roles!Deleted
<1>5. roleReq' \in [Worker -> Roles!Handler]
  BY <1>1, <1>2, <1>3, <1>4 DEF Roles!Deleted
<1>6. ASSUME NEW v \in Worker \ {w}
      PROVE  /\ roleReq'[v].at = roleReq[v].at
             /\ roleReq'[v].role = roleReq[v].role
             /\ roleReq'[v].list = roleReq[v].list
             /\ roleReq'[v].seen = IF roleReq[v].at = "lock" THEN roleReq[v].seen \ roleReq[w].seen
                                   ELSE roleReq[v].seen
  BY <1>1, <1>2, <1>3 DEF Roles!Handler
<1> QED
  BY <1>4, <1>5, <1>6 DEF Taken

\* The statements of w that delete and insert end with w holding nothing.
LEMMA RoleWrites ==
    ASSUME RolesInv, NEW w \in Worker, NEW S, NEW A, NEW q,
           rows' = (rows \ S) \cup A,
           roleReq[w].at \in {"lock", "commit", "create"},
           S = {} \/ (roleReq[w].at \in {"lock", "commit"} /\ S = roleReq[w].seen),
           A = {} \/ A = Roles!Added(w),
           A \cap (rows \ S) = {},
           \A v \in Worker \ {w} : roleReq[v].at = "commit" => roleReq[v].seen \cap S = {},
           Taken(w, S, q),
           q.at \notin {"lock", "commit"}, RequestOk(q),
           cache' = cache
    PROVE  RolesInv'
<1>1. /\ \A v \in Worker : roleReq[v] \in Roles!Handler
      /\ rows \subseteq Role \X Roles!Key
      /\ \A v \in Worker : RequestOk(roleReq[v])
  BY DEF RolesInv, Roles!TypeOK
<1>2. roleReq[w].role \in Role /\ FromOneList(roleReq[w].list) /\ roleReq[w].list \subseteq Roles!Key
  BY <1>1 DEF RequestOk, Roles!Handler
<1>3. Roles!TypeOK'
  <2>1. rows' \subseteq Role \X Roles!Key
    BY <1>1, <1>2 DEF Roles!Added
  <2> QED
    BY <2>1 DEF RolesInv, Roles!TypeOK, Taken
<1>4. CommitsApart'
  BY DEF RolesInv, CommitsApart, Taken
<1>5. ASSUME NEW v \in Worker PROVE RequestOk(roleReq[v])'
  <2>1. CASE v = w
    BY <2>1 DEF RequestOk, Taken
  <2>2. CASE v # w
    BY <1>1, <2>2 DEF RequestOk, Taken
  <2> QED
    BY <2>1, <2>2
<1>6. \A r \in Role : Doomed(roleReq'[w], r) = {}
  BY DEF Doomed, Taken
<1>7. \A v \in Worker \ {w}, r \in Role :
          Doomed(roleReq'[v], r) = Doomed(roleReq[v], r) \ Roles!KeysOf(S, r)
  BY DEF Doomed, Roles!KeysOf, Taken
<1>8. MenusInv'
  BY <1>2, <1>6, <1>7, RowsSwapped
<1> QED
  BY <1>3, <1>4, <1>5, <1>8 DEF RolesInv

LEMMA RoleAnswers ==
    ASSUME RolesInv, NEW w \in Worker, Roles!Answer(w), rows' = rows,
           cache' \in [Role -> (SUBSET Roles!Key) \cup {None}]
    PROVE  RolesInv'
<1>1. RequestOk(Roles!Idle) /\ \A r \in Role : Doomed(Roles!Idle, r) = {}
  BY RoleIdle DEF RequestOk, Doomed
<1> QED
  BY <1>1, RoleIdle, RoleFrame DEF Roles!Answer

LEMMA RolesAsk ==
    ASSUME RolesInv, NEW w \in Worker, Roles!Ask(w)
    PROVE  RolesInv'
<1> USE DEF Roles!Start
<1>1. cache \in [Role -> (SUBSET Roles!Key) \cup {None}] /\ rows \subseteq Role \X Roles!Key
  BY DEF RolesInv, Roles!TypeOK
<1>2. ASSUME NEW q \in Roles!Handler, roleReq' = [roleReq EXCEPT ![w] = q], UNCHANGED <<rows, cache>>,
             q.at \notin {"lock", "commit", "create"}
      PROVE  RolesInv'
  BY <1>1, <1>2, RoleFrame DEF RequestOk, Doomed
<1>3. CASE Roles!InitializeRead(w)
  <2> DEFINE q == [Roles!Idle EXCEPT !.at = "insert", !.op = "initialize", !.seen = rows]
  <2>1. q \in Roles!Handler /\ q.at = "insert"
    BY <1>1 DEF Roles!Idle, Roles!Handler, Roles!Ops
  <2>2. roleReq' = [roleReq EXCEPT ![w] = q] /\ UNCHANGED <<rows, cache>>
    BY <1>3 DEF Roles!InitializeRead
  <2> HIDE DEF q
  <2> QED
    BY <1>2, <2>1, <2>2
<1>4. ASSUME NEW r \in Role, Roles!Get(w, r) PROVE RolesInv'
  <2> DEFINE q == [Roles!Idle EXCEPT !.at = "query", !.op = "get", !.role = r]
  <2>1. q \in Roles!Handler /\ q.at = "query"
    BY DEF Roles!Idle, Roles!Handler, Roles!Ops
  <2>2. roleReq' = [roleReq EXCEPT ![w] = q] /\ UNCHANGED <<rows, cache>>
    BY <1>4 DEF Roles!Get
  <2> HIDE DEF q
  <2> QED
    BY <1>2, <2>1, <2>2
<1>5. ASSUME NEW r \in Role, NEW op \in {"menus", "functions", "both", "reset"},
             NEW list \in SUBSET Roles!Key, FromOneList(list), Roles!DeleteStart(w, op, r, list)
      PROVE  RolesInv'
  <2> DEFINE found == {r} \X (Roles!KeysOf(rows, r) \cap Roles!Replaced(op))
             q == [at |-> "lock", op |-> op, role |-> r, list |-> list, seen |-> found]
  <2>1. found \subseteq rows
    BY DEF Roles!KeysOf
  <2>2. Roles!Replaced(op) \cap Menu \in {{}, Menu}
    BY PermissionConstants DEF Roles!Replaced, Roles!Key
  <2>3. \A x \in Role : Roles!KeysOf(found, x) \cap Menu \in {{}, ChosenMenus(x)}
    <3>1. \A x \in Role \ {r} : Roles!KeysOf(found, x) = {}
      BY DEF Roles!KeysOf
    <3>2. Roles!KeysOf(found, r) \cap Menu = ChosenMenus(r) \cap Roles!Replaced(op)
      BY DEF Roles!KeysOf, ChosenMenus
    <3>3. ChosenMenus(r) \cap Roles!Replaced(op) \in {{}, ChosenMenus(r)}
      BY <2>2 DEF ChosenMenus
    <3> QED
      BY <3>1, <3>2, <3>3
  <2> HIDE DEF found
  <2>4. q \in Roles!Handler
    BY <1>1, <2>1 DEF Roles!Handler, Roles!Ops
  <2>5. RequestOk(q) /\ \A x \in Role : Doomed(q, x) \in {{}, ChosenMenus(x)}
    BY <1>5, <2>1, <2>3 DEF RequestOk, Doomed
  <2>6. roleReq' = [roleReq EXCEPT ![w] = q] /\ UNCHANGED <<rows, cache>> /\ q.at # "commit"
    BY <1>5 DEF Roles!DeleteStart, found
  <2> HIDE DEF q
  <2> QED
    BY <1>1, <2>4, <2>5, <2>6, RoleFrame
<1>6. ASSUME NEW r \in Role, Roles!Update(w, r) PROVE RolesInv'
  <2>1. PICK m \in MenuLists, f \in FunctionLists :
           \/ Roles!DeleteStart(w, "menus", r, Roles!WithSystem(m))
           \/ Roles!DeleteStart(w, "functions", r, f)
           \/ Roles!DeleteStart(w, "both", r, Roles!WithSystem(m) \cup f)
    BY <1>6 DEF Roles!Update
  <2>2. /\ m \subseteq Menu /\ f \subseteq Function /\ f \cap Menu = {}
        /\ Roles!WithSystem(m) = m \cup {SystemMenu} /\ SystemMenu \in Menu
    BY PermissionConstants DEF Roles!WithSystem
  <2>3. /\ Roles!WithSystem(m) \cap Menu = Roles!WithSystem(m)
        /\ (Roles!WithSystem(m) \cup f) \cap Menu = Roles!WithSystem(m)
    BY <2>2
  <2>4. /\ FromOneList(Roles!WithSystem(m)) /\ FromOneList(f) /\ FromOneList(Roles!WithSystem(m) \cup f)
        /\ Roles!WithSystem(m) \in SUBSET Roles!Key /\ f \in SUBSET Roles!Key
        /\ Roles!WithSystem(m) \cup f \in SUBSET Roles!Key
    BY <2>2, <2>3 DEF FromOneList, Roles!Key
  <2> QED
    BY <1>5, <2>1, <2>4
<1>7. ASSUME NEW r \in Role, Roles!Reset(w, r) PROVE RolesInv'
  BY <1>5, <1>7 DEF Roles!Reset, FromOneList
<1> QED
  BY <1>3, <1>4, <1>6, <1>7 DEF Roles!Ask

LEMMA RolesDeleteMany ==
    ASSUME RolesInv, NEW w \in Worker, Roles!DeleteMany(w)
    PROVE  RolesInv'
<1>1. /\ roleReq[w] \in Roles!Handler /\ RequestOk(roleReq[w])
      /\ cache \in [Role -> (SUBSET Roles!Key) \cup {None}]
      /\ roleReq \in [Worker -> Roles!Handler]
  BY DEF RolesInv, Roles!TypeOK
<1>2. /\ roleReq[w].at = "lock" /\ cache' = cache
      /\ \A v \in Worker \ {w} : roleReq[v].at = "commit" => roleReq[v].seen \cap roleReq[w].seen = {}
  BY DEF Roles!DeleteMany, Roles!Free
<1>3. CASE roleReq[w].op = "both"
  <2> DEFINE q == [roleReq[w] EXCEPT !.at = "commit"]
  <2>1. roleReq' = [roleReq EXCEPT ![w] = q] /\ rows' = rows
    BY <1>1, <1>3 DEF Roles!DeleteMany, Roles!GoTo
  <2>2. /\ q \in Roles!Handler /\ q.at = "commit" /\ q.seen = roleReq[w].seen
        /\ q.role = roleReq[w].role /\ q.list = roleReq[w].list
    BY <1>1 DEF Roles!Handler
  <2> HIDE DEF q
  <2>3. RequestOk(q) /\ \A r \in Role : Doomed(q, r) = Doomed(roleReq[w], r)
    BY <1>1, <1>2, <2>2 DEF RequestOk, Doomed
  <2> QED
    BY <1>1, <1>2, <2>1, <2>2, <2>3, RoleFrame
<1>4. CASE roleReq[w].op # "both"
  <2> DEFINE q == [roleReq[w] EXCEPT !.at = IF roleReq[w].list = {} THEN "answer" ELSE "create",
                                     !.seen = {}]
  <2>1. rows' = rows \ roleReq[w].seen /\ Roles!Deleted(w, q)
    BY <1>4 DEF Roles!DeleteMany
  <2>2. /\ q \in Roles!Handler /\ q.at \in {"answer", "create"}
        /\ q.role = roleReq[w].role /\ q.list = roleReq[w].list
    BY <1>1 DEF Roles!Handler
  <2> HIDE DEF q
  <2>3. RequestOk(q)
    BY <1>1, <1>2, <2>2 DEF RequestOk
  <2>4. rows' = (rows \ roleReq[w].seen) \cup {} /\ {} \cap (rows \ roleReq[w].seen) = {}
    BY <2>1
  <2>5. Taken(w, roleReq[w].seen, q)
    BY <2>1, <2>2, DeletedTakes
  <2> QED
    BY <1>2, <2>2, <2>3, <2>4, <2>5, RoleWrites
<1> QED
  BY <1>3, <1>4

LEMMA RolesInsert ==
    ASSUME RolesInv, NEW w \in Worker, Roles!CreateMany(w) \/ Roles!Commit(w)
    PROVE  RolesInv'
<1>1. /\ roleReq[w] \in Roles!Handler /\ RequestOk(roleReq[w])
      /\ cache \in [Role -> (SUBSET Roles!Key) \cup {None}] /\ cache' = cache
      /\ roleReq \in [Worker -> Roles!Handler]
  BY DEF RolesInv, Roles!TypeOK, Roles!CreateMany, Roles!Commit
<1>2. CASE Roles!Answer(w) /\ rows' = rows
  BY <1>1, <1>2, RoleAnswers
<1>3. CASE /\ roleReq[w].at = "create" /\ Roles!Added(w) \cap rows = {}
           /\ rows' = rows \cup Roles!Added(w) /\ Roles!GoTo(w, "answer")
  <2> DEFINE q == [roleReq[w] EXCEPT !.at = "answer"]
  <2>1. q \in Roles!Handler /\ q.at = "answer"
    BY <1>1 DEF Roles!Handler
  <2>2. roleReq' = [roleReq EXCEPT ![w] = q]
    BY <1>1, <1>3 DEF Roles!GoTo
  <2> HIDE DEF q
  <2>3. Taken(w, {}, q)
    BY <1>1, <2>1, <2>2 DEF Taken
  <2>4. RequestOk(q)
    BY <2>1 DEF RequestOk
  <2>5. rows' = (rows \ {}) \cup Roles!Added(w) /\ Roles!Added(w) \cap (rows \ {}) = {}
    BY <1>3
  <2> QED
    BY <1>1, <1>3, <2>1, <2>3, <2>4, <2>5, RoleWrites
<1>4. CASE /\ roleReq[w].at = "commit" /\ Roles!Added(w) \cap (rows \ roleReq[w].seen) = {}
           /\ rows' = (rows \ roleReq[w].seen) \cup Roles!Added(w)
           /\ Roles!Deleted(w, [roleReq[w] EXCEPT !.at = "answer", !.seen = {}])
  <2> DEFINE q == [roleReq[w] EXCEPT !.at = "answer", !.seen = {}]
  <2>1. q \in Roles!Handler /\ q.at = "answer"
    BY <1>1 DEF Roles!Handler
  <2>2. Roles!Deleted(w, q)
    BY <1>4
  <2>3. RequestOk(q)
    BY <2>1 DEF RequestOk
  <2> HIDE DEF q
  <2>4. \A v \in Worker \ {w} : roleReq[v].at = "commit" => roleReq[v].seen \cap roleReq[w].seen = {}
    BY <1>4 DEF RolesInv, CommitsApart
  <2> QED
    BY <1>1, <1>4, <2>1, <2>2, <2>3, <2>4, DeletedTakes, RoleWrites
<1> QED
  BY <1>2, <1>3, <1>4 DEF Roles!CreateMany, Roles!Commit

\* What initialize inserts are defaults, and the system menu.
LEMMA RolesInitialize ==
    ASSUME RolesInv, NEW w \in Worker, Roles!InitializeInsert(w)
    PROVE  RolesInv'
<1> DEFINE added == Roles!Defaults \ roleReq[w].seen
           q == [roleReq[w] EXCEPT !.at = "answer", !.seen = {}]
<1>1. /\ roleReq \in [Worker -> Roles!Handler]
      /\ rows \subseteq Role \X Roles!Key
  BY DEF RolesInv, Roles!TypeOK
<1>2. Roles!Defaults \subseteq Role \X Roles!Key
  BY PermissionConstants DEF Roles!Defaults, Roles!WithSystem, Roles!Key
<1>3. rows' = rows \cup added /\ roleReq' = [roleReq EXCEPT ![w] = q] /\ cache' = cache
  BY <1>1 DEF Roles!InitializeInsert
<1>4. q \in Roles!Handler /\ q.at = "answer"
  BY <1>1 DEF Roles!Handler
<1> HIDE DEF q, added
<1>5. roleReq'[w] = q /\ \A v \in Worker \ {w} : roleReq'[v] = roleReq[v]
  BY <1>1, <1>3
<1>6. Roles!TypeOK'
  BY <1>1, <1>2, <1>3, <1>4 DEF RolesInv, Roles!TypeOK, added
<1>7. CommitsApart' /\ \A v \in Worker : RequestOk(roleReq[v])'
  BY <1>3, <1>4, <1>5 DEF RolesInv, CommitsApart, RequestOk
<1>8. ASSUME NEW r \in Role
      PROVE  \E L : /\ OneList(ChosenMenus(r)', DefaultMenus[r], L)
                    /\ \A v \in Worker : Spares(Doomed(roleReq'[v], r), ChosenMenus(r)', DefaultMenus[r], L)
  <2>1. PICK L : /\ OneList(ChosenMenus(r), DefaultMenus[r], L)
                 /\ \A v \in Worker : Spares(Doomed(roleReq[v], r), ChosenMenus(r), DefaultMenus[r], L)
    BY DEF RolesInv, MenusInv
  <2>2. Roles!KeysOf(added, r) \cap Menu \subseteq DefaultMenus[r] \cup {SystemMenu}
    BY PermissionConstants DEF added, Roles!KeysOf, Roles!Defaults, Roles!WithSystem
  <2>3. ChosenMenus(r)' = ChosenMenus(r) \cup (Roles!KeysOf(added, r) \cap Menu)
    BY <1>3 DEF ChosenMenus, Roles!KeysOf
  <2>4. OneList(ChosenMenus(r)', DefaultMenus[r], L)
    BY <2>1, <2>2, <2>3 DEF OneList
  <2>5. ASSUME NEW v \in Worker PROVE Spares(Doomed(roleReq'[v], r), ChosenMenus(r)', DefaultMenus[r], L)
    <3>1. Doomed(roleReq'[v], r) \in {{}, Doomed(roleReq[v], r)}
      BY <1>4, <1>5 DEF Doomed
    <3> QED
      BY <2>1, <2>2, <2>3, <3>1 DEF Spares
  <2> QED
    BY <2>4, <2>5
<1>9. MenusInv'
  BY <1>8 DEF MenusInv, Doomed, Roles!KeysOf
<1> QED
  BY <1>6, <1>7, <1>9 DEF RolesInv

-----------------------------------------------------------------------------
\* Every handler but that of initialize is about a role.
Named(request) ==
    /\ request.at = "idle" \/ request.op = "initialize" \/ request.role \in Role
    /\ request.op = "initialize" => request.at \in {"idle", "insert", "answer"}

RolesNamed == \A w \in Worker : Named(roleReq[w])

\* The request of w begins, goes on for the same role, or ends.
LEMMA NamedMoves ==
    ASSUME RolesNamed, NEW w \in Worker, NEW q, Named(q),
           \A v \in Worker \ {w} :
              /\ roleReq'[v].at = roleReq[v].at /\ roleReq'[v].op = roleReq[v].op
              /\ roleReq'[v].role = roleReq[v].role,
           roleReq'[w] = q
    PROVE  RolesNamed'
BY DEF RolesNamed, Named

LEMMA NamedNext == RolesInv /\ RolesNamed /\ [Roles!Next]_(Roles!vars) => RolesNamed'
<1> SUFFICES ASSUME RolesInv, RolesNamed, [Roles!Next]_(Roles!vars) PROVE RolesNamed'
  OBVIOUS
<1>1. roleReq \in [Worker -> Roles!Handler] /\ Named(Roles!Idle)
  BY DEF RolesInv, Roles!TypeOK, Roles!Idle, Named
<1>2. ASSUME NEW w \in Worker, NEW q, roleReq' = [roleReq EXCEPT ![w] = q], Named(q)
      PROVE  RolesNamed'
  BY <1>1, <1>2, NamedMoves
<1>3. ASSUME NEW w \in Worker, NEW q, Roles!Deleted(w, q), Named(q) PROVE RolesNamed'
  <2>1. \A v \in Worker : roleReq[v] \in Roles!Handler
    BY <1>1
  <2>2. /\ roleReq'[w] = q
        /\ \A v \in Worker \ {w} :
              /\ roleReq'[v].at = roleReq[v].at /\ roleReq'[v].op = roleReq[v].op
              /\ roleReq'[v].role = roleReq[v].role
    BY <1>3, <2>1 DEF Roles!Deleted, Roles!Handler
  <2> QED
    BY <1>3, <2>2, NamedMoves
<1>4. ASSUME NEW w \in Worker, NEW at \in {"query", "fill", "commit", "create", "answer"},
             NEW seen, roleReq[w].at # "idle", roleReq[w].op = "initialize" => at = "answer"
      PROVE  /\ Named([roleReq[w] EXCEPT !.at = at])
             /\ Named([roleReq[w] EXCEPT !.at = at, !.seen = seen])
  BY <1>1, <1>4 DEF RolesNamed, Named, Roles!Handler
<1>5. ASSUME NEW w \in Worker, Roles!Answer(w) PROVE RolesNamed'
  BY <1>1, <1>2, <1>5 DEF Roles!Answer
<1>6. ASSUME NEW w \in Worker, Roles!Ask(w) PROVE RolesNamed'
  BY <1>2, <1>6
     DEF Roles!Ask, Roles!InitializeRead, Roles!Get, Roles!Update, Roles!Reset,
         Roles!DeleteStart, Roles!Start, Roles!Idle, Named
<1>7. ASSUME NEW w \in Worker, NEW at \in {"query", "fill", "commit", "create", "answer"},
             Roles!GoTo(w, at), roleReq[w].at # "idle",
             roleReq[w].op = "initialize" => at = "answer"
      PROVE  RolesNamed'
  BY <1>1, <1>2, <1>4, <1>7 DEF Roles!GoTo
<1>8. ASSUME NEW w \in Worker, Roles!Query(w) PROVE RolesNamed'
  <2>1. PICK keys : roleReq' = [roleReq EXCEPT ![w] =
                        [roleReq[w] EXCEPT !.at = "fill", !.seen = {roleReq[w].role} \X keys]]
    BY <1>1, <1>8 DEF Roles!Query
  <2>2. roleReq[w].op # "initialize" /\ roleReq[w].at = "query"
    BY <1>8 DEF Roles!Query, RolesNamed, Named
  <2> QED
    BY <1>2, <1>4, <2>1, <2>2
<1>9. ASSUME NEW w \in Worker, Roles!DeleteMany(w) PROVE RolesNamed'
  <2>1. roleReq[w].op # "initialize" /\ roleReq[w].at = "lock"
    BY <1>9 DEF Roles!DeleteMany, RolesNamed, Named
  <2> DEFINE at == IF roleReq[w].list = {} THEN "answer" ELSE "create"
  <2>2. CASE Roles!GoTo(w, "commit")
    BY <1>7, <2>1, <2>2
  <2>3. CASE Roles!Deleted(w, [roleReq[w] EXCEPT !.at = at, !.seen = {}])
    <3>1. at \in {"answer", "create"}
      OBVIOUS
    <3> HIDE DEF at
    <3> QED
      BY <1>3, <1>4, <2>1, <2>3, <3>1
  <2> QED
    BY <1>9, <2>2, <2>3 DEF Roles!DeleteMany
<1>10. ASSUME NEW w \in Worker, Roles!CreateMany(w) \/ Roles!Commit(w) PROVE RolesNamed'
  <2>1. roleReq[w].op # "initialize" /\ roleReq[w].at \in {"create", "commit"}
    BY <1>10 DEF Roles!CreateMany, Roles!Commit, RolesNamed, Named
  <2>2. \/ Roles!Answer(w)
        \/ Roles!GoTo(w, "answer")
        \/ Roles!Deleted(w, [roleReq[w] EXCEPT !.at = "answer", !.seen = {}])
    BY <1>10 DEF Roles!CreateMany, Roles!Commit
  <2>3. Named([roleReq[w] EXCEPT !.at = "answer", !.seen = {}])
    BY <1>4, <2>1
  <2> QED
    BY <1>3, <1>5, <1>7, <2>1, <2>2, <2>3
<1>11. ASSUME NEW w \in Worker, Roles!InitializeInsert(w) PROVE RolesNamed'
  <2>1. roleReq' = [roleReq EXCEPT ![w] = [roleReq[w] EXCEPT !.at = "answer", !.seen = {}]]
        /\ roleReq[w].at = "insert"
    BY <1>1, <1>11 DEF Roles!InitializeInsert
  <2> QED
    BY <1>2, <1>4, <2>1
<1>12. ASSUME NEW w \in Worker, Roles!Invalidate(w) PROVE RolesNamed'
  <2>1. roleReq[w].at = "answer"
        /\ (Roles!Answer(w) \/ (roleReq[w].op # "initialize" /\ Roles!GoTo(w, "query")))
    BY <1>12 DEF Roles!Invalidate
  <2> QED
    BY <1>5, <1>7, <2>1
<1>13. ASSUME NEW w \in Worker, Roles!Fill(w) \/ Roles!Fail(w) PROVE RolesNamed'
  BY <1>5, <1>13 DEF Roles!Fill, Roles!Fail
<1>14. CASE Roles!Restart
  BY <1>1, <1>14 DEF Roles!Restart, RolesNamed
<1>15. CASE UNCHANGED Roles!vars \/ \E r \in Role : Roles!Expire(r)
  BY <1>15 DEF Roles!vars, Roles!Expire, RolesNamed
<1> QED
  BY <1>6, <1>8, <1>9, <1>10, <1>11, <1>12, <1>13, <1>14, <1>15 DEF Roles!Next, Roles!Step

LEMMA NamedInit == Roles!Init => RolesNamed
BY DEF Roles!Init, Roles!Idle, RolesNamed, Named

-----------------------------------------------------------------------------
LEMMA RolesStep ==
    ASSUME RolesInv, RolesNamed, NEW w \in Worker, Roles!Step(w)
    PROVE  RolesInv'
<1>1. /\ roleReq \in [Worker -> Roles!Handler] /\ roleReq[w] \in Roles!Handler
      /\ rows \subseteq Role \X Roles!Key
      /\ cache \in [Role -> (SUBSET Roles!Key) \cup {None}]
  BY DEF RolesInv, Roles!TypeOK
<1>2. ASSUME NEW q \in Roles!Handler, roleReq' = [roleReq EXCEPT ![w] = q], rows' = rows,
             cache' \in [Role -> (SUBSET Roles!Key) \cup {None}],
             q.at \notin {"lock", "commit", "create"}
      PROVE  RolesInv'
  BY <1>2, RoleFrame DEF RequestOk, Doomed
<1>3. CASE Roles!Query(w)
  <2> DEFINE role == roleReq[w].role
  <2>0. PICK keys \in Roles!Answers(role) :
           roleReq' = [roleReq EXCEPT ![w].at = "fill", ![w].seen = {role} \X keys]
    BY <1>3 DEF Roles!Query
  <2> DEFINE q == [roleReq[w] EXCEPT !.at = "fill", !.seen = {role} \X keys]
  <2>1. {role} \X keys \subseteq Role \X Roles!Key
    <3>1. keys \subseteq Roles!Key
      <4>1. keys \in {{}, {SystemMenu}, Roles!KeysOf(rows, role)}
        <5> HIDE DEF role
        <5> QED
          BY <2>0 DEF Roles!Answers
      <4>2. Roles!KeysOf(rows, role) \subseteq Roles!Key
        BY DEF Roles!KeysOf
      <4>3. SystemMenu \in Roles!Key
        BY PermissionConstants DEF Roles!Key
      <4> HIDE DEF role
      <4> QED
        BY <4>1, <4>2, <4>3
    <3>2. role \in Role
      BY <1>3 DEF Roles!Query, RolesNamed, Named
    <3> QED
      BY <3>1, <3>2
  <2>2. q \in Roles!Handler /\ q.at = "fill"
    BY <1>1, <2>1 DEF Roles!Handler
  <2>3. roleReq' = [roleReq EXCEPT ![w] = q] /\ UNCHANGED <<rows, cache>>
    BY <1>1, <1>3, <2>0 DEF Roles!Query
  <2> HIDE DEF q
  <2> QED
    BY <1>1, <1>2, <2>2, <2>3
<1>4. CASE Roles!Fill(w)
  <2>1. cache' \in [Role -> (SUBSET Roles!Key) \cup {None}]
    BY <1>1, <1>4 DEF Roles!Fill, Roles!KeysOf
  <2> QED
    BY <1>4, <2>1, RoleAnswers DEF Roles!Fill
<1>5. CASE Roles!Invalidate(w)
  <2>1. cache' \in [Role -> (SUBSET Roles!Key) \cup {None}]
    BY <1>1, <1>5 DEF Roles!Invalidate
  <2>2. CASE Roles!Answer(w)
    BY <1>5, <2>1, <2>2, RoleAnswers DEF Roles!Invalidate
  <2>3. CASE Roles!GoTo(w, "query")
    <3> DEFINE q == [roleReq[w] EXCEPT !.at = "query"]
    <3>1. q \in Roles!Handler /\ q.at = "query"
      BY <1>1 DEF Roles!Handler
    <3>2. roleReq' = [roleReq EXCEPT ![w] = q] /\ rows' = rows
      BY <1>1, <1>5, <2>3 DEF Roles!Invalidate, Roles!GoTo
    <3> HIDE DEF q
    <3> QED
      BY <1>2, <2>1, <3>1, <3>2
  <2> QED
    BY <1>5, <2>2, <2>3 DEF Roles!Invalidate
<1> QED
  BY <1>3, <1>4, <1>5, RolesDeleteMany, RolesInsert, RolesInitialize DEF Roles!Step

LEMMA RolesNext == RolesInv /\ RolesNamed /\ [Roles!Next]_(Roles!vars) => RolesInv'
<1> SUFFICES ASSUME RolesInv, RolesNamed, [Roles!Next]_(Roles!vars) PROVE RolesInv'
  OBVIOUS
<1>1. cache \in [Role -> (SUBSET Roles!Key) \cup {None}] /\ roleReq \in [Worker -> Roles!Handler]
  BY DEF RolesInv, Roles!TypeOK
<1>2. ASSUME NEW w \in Worker, Roles!Fail(w) PROVE RolesInv'
  BY <1>1, <1>2, RoleAnswers DEF Roles!Fail
<1>3. ASSUME UNCHANGED rows, cache' \in [Role -> (SUBSET Roles!Key) \cup {None}],
             UNCHANGED roleReq \/ roleReq' = [w \in Worker |-> Roles!Idle]
      PROVE  RolesInv'
  <2>1. \A w \in Worker : roleReq'[w] \in {roleReq[w], Roles!Idle}
    BY <1>3
  <2>2. Roles!TypeOK'
    BY <1>1, <1>3, RoleIdle DEF RolesInv, Roles!TypeOK
  <2>3. CommitsApart' /\ \A w \in Worker : RequestOk(roleReq[w])'
    BY <1>3, <2>1, RoleIdle DEF RolesInv, CommitsApart, RequestOk
  <2>4. \A r \in Role : ChosenMenus(r)' = ChosenMenus(r)
    BY <1>3 DEF ChosenMenus, Roles!KeysOf
  <2>5. \A w \in Worker, r \in Role : Doomed(roleReq'[w], r) \in {{}, Doomed(roleReq[w], r)}
    BY <2>1, RoleIdle DEF Doomed
  <2>6. ASSUME NEW r \in Role
        PROVE  \E L : /\ OneList(ChosenMenus(r)', DefaultMenus[r], L)
                      /\ \A v \in Worker : Spares(Doomed(roleReq'[v], r), ChosenMenus(r)', DefaultMenus[r], L)
    <3>1. PICK L : /\ OneList(ChosenMenus(r), DefaultMenus[r], L)
                   /\ \A v \in Worker : Spares(Doomed(roleReq[v], r), ChosenMenus(r), DefaultMenus[r], L)
      BY DEF RolesInv, MenusInv
    <3>2. \A v \in Worker : Spares(Doomed(roleReq'[v], r), ChosenMenus(r), DefaultMenus[r], L)
      BY <2>5, <3>1 DEF Spares
    <3> QED
      BY <2>4, <3>1, <3>2
  <2>7. MenusInv'
    BY <2>6 DEF MenusInv, Doomed, Roles!KeysOf
  <2> QED
    BY <2>2, <2>3, <2>7 DEF RolesInv
<1>4. ASSUME NEW r \in Role, Roles!Expire(r) PROVE RolesInv'
  <2>1. cache' \in [Role -> (SUBSET Roles!Key) \cup {None}]
    BY <1>1, <1>4 DEF Roles!Expire
  <2> QED
    BY <1>3, <1>4, <2>1 DEF Roles!Expire
<1>5. CASE Roles!Restart
  <2>1. cache' \in [Role -> (SUBSET Roles!Key) \cup {None}]
    BY <1>5 DEF Roles!Restart
  <2> QED
    BY <1>3, <1>5, <2>1 DEF Roles!Restart
<1>6. CASE UNCHANGED Roles!vars
  BY <1>1, <1>3, <1>6 DEF Roles!vars
<1> QED
  BY <1>2, <1>4, <1>5, <1>6, RolesAsk, RolesStep DEF Roles!Next

LEMMA RolesInit == Roles!Init => RolesInv
<1> SUFFICES ASSUME Roles!Init PROVE RolesInv
  OBVIOUS
<1>1. Roles!TypeOK
  BY RoleIdle DEF Roles!Init, Roles!TypeOK
<1>2. CommitsApart /\ \A w \in Worker : RequestOk(roleReq[w])
  BY RoleIdle DEF Roles!Init, CommitsApart, RequestOk
<1>3. \A r \in Role : ChosenMenus(r) = {} /\ \A w \in Worker : Doomed(roleReq[w], r) = {}
  BY RoleIdle DEF Roles!Init, ChosenMenus, Doomed, Roles!KeysOf
<1>4. MenusInv
  BY <1>3 DEF MenusInv, OneList, Spares
<1> QED
  BY <1>1, <1>2, <1>4 DEF RolesInv

\* The menus of a role are never parts of two lists, however the updates of any
\* number of administrators overlap, fail or are cut off by a restart
\* (updateRoleMenuPermissions, updateRolePermissions, initializeDefaultPermissions).
THEOREM MenusCorrect == Roles!Spec => []MenusAreChosen
<1>1. RolesInv => MenusAreChosen
  BY DEF RolesInv, MenusInv, OneList, ChosenMenus, MenusAreChosen, Roles!MenusAreChosen,
         Roles!WithSystem
<1> QED
  BY <1>1, RolesInit, RolesNext, NamedInit, NamedNext, PTL DEF Roles!Spec

-----------------------------------------------------------------------------
(***************************************************************************)
(* The data dictionary: a handler that inserts an item has been given its  *)
(* type and whether it is the default.                                     *)
(***************************************************************************)
Inserts(request) == request.at = "insert" \/ (request.at = "clear" /\ request.id = None)

ItemOk(request) == Inserts(request) => request.type \in Type /\ request.isDefault \in BOOLEAN

ValuesInv == Values!TypeOK /\ \A w \in Worker : ItemOk(itemReq[w])

LEMMA ItemIdle == Values!Idle \in Values!Handler /\ Values!Idle.at = "idle"
BY DEF Values!Idle, Values!Handler

LEMMA ItemFrame ==
    ASSUME ValuesInv, NEW w \in Worker, NEW q \in Values!Handler,
           itemReq' = [itemReq EXCEPT ![w] = q], ItemOk(q),
           DOMAIN dictionary' \subseteq Item, dictionary' \in [DOMAIN dictionary' -> Values!Row],
           byTypeCache' \in [Type -> {None} \cup SUBSET Values!Option]
    PROVE  ValuesInv'
<1>1. itemReq' \in [Worker -> Values!Handler] /\ \A v \in Worker : itemReq'[v] \in {q, itemReq[v]}
  BY DEF ValuesInv, Values!TypeOK
<1> QED
  BY <1>1 DEF ValuesInv, Values!TypeOK, ItemOk, Inserts

\* A handler answers, or goes on to an await that inserts nothing.
LEMMA ItemGoesOn ==
    ASSUME ValuesInv, NEW w \in Worker,
           \/ Values!Answer(w)
           \/ \E at \in {"answer", "write"} : Values!GoTo(w, at),
           DOMAIN dictionary' \subseteq Item, dictionary' \in [DOMAIN dictionary' -> Values!Row],
           byTypeCache' \in [Type -> {None} \cup SUBSET Values!Option]
    PROVE  ValuesInv'
<1>1. CASE Values!Answer(w)
  BY <1>1, ItemIdle, ItemFrame DEF Values!Answer, ItemOk, Inserts
<1>2. ASSUME NEW at \in {"answer", "write"}, Values!GoTo(w, at) PROVE ValuesInv'
  <2> DEFINE q == [itemReq[w] EXCEPT !.at = at]
  <2>1. q \in Values!Handler /\ q.at = at
    BY DEF ValuesInv, Values!TypeOK, Values!Handler
  <2>2. itemReq' = [itemReq EXCEPT ![w] = q]
    BY <1>2 DEF Values!GoTo, ValuesInv, Values!TypeOK
  <2> HIDE DEF q
  <2> QED
    BY <2>1, <2>2, ItemFrame DEF ItemOk, Inserts
<1> QED
  BY <1>1, <1>2

LEMMA ItemAsk ==
    ASSUME ValuesInv, NEW w \in Worker, Values!Ask(w)
    PROVE  ValuesInv'
<1> USE DEF Values!Start
<1>1. ASSUME NEW q \in Values!Handler, itemReq' = [itemReq EXCEPT ![w] = q], ItemOk(q),
             UNCHANGED <<dictionary, byTypeCache>>
      PROVE  ValuesInv'
  BY <1>1, ItemFrame DEF ValuesInv, Values!TypeOK
<1>2. CASE Values!Create(w)
  <2>1. PICK t \in Type, default \in BOOLEAN :
           itemReq' = [itemReq EXCEPT ![w] = [Values!Idle EXCEPT
                          !.at = IF default THEN "clear" ELSE "insert", !.type = t, !.isDefault = default]]
    BY <1>2 DEF Values!Create
  <2> DEFINE q == [Values!Idle EXCEPT !.at = IF default THEN "clear" ELSE "insert",
                                      !.type = t, !.isDefault = default]
  <2>2. q \in Values!Handler /\ ItemOk(q)
    BY DEF Values!Idle, Values!Handler, ItemOk, Inserts
  <2>3. itemReq' = [itemReq EXCEPT ![w] = q] /\ UNCHANGED <<dictionary, byTypeCache>>
    BY <1>2, <2>1 DEF Values!Create
  <2> HIDE DEF q
  <2> QED
    BY <1>1, <2>2, <2>3
<1>3. ASSUME NEW t \in Type, Values!FindByType(w, t) PROVE ValuesInv'
  <2> DEFINE q == [Values!Idle EXCEPT !.at = "query", !.type = t]
  <2>1. q \in Values!Handler /\ ItemOk(q)
    BY DEF Values!Idle, Values!Handler, ItemOk, Inserts
  <2>2. itemReq' = [itemReq EXCEPT ![w] = q] /\ UNCHANGED <<dictionary, byTypeCache>>
    BY <1>3 DEF Values!FindByType
  <2> HIDE DEF q
  <2> QED
    BY <1>1, <2>1, <2>2
<1>4. ASSUME NEW i \in Item, Values!Update(w, i) PROVE ValuesInv'
  <2>1. PICK body \in Bodies :
           itemReq' = [itemReq EXCEPT ![w] = [Values!Idle EXCEPT
                          !.at = IF body.isDefault = TRUE THEN "clear" ELSE "write",
                          !.id = i, !.was = dictionary[i].type, !.type = body.type,
                          !.isDefault = body.isDefault, !.isEnabled = body.isEnabled]]
    BY <1>4 DEF Values!Update
  <2> DEFINE q == [Values!Idle EXCEPT
                      !.at = IF body.isDefault = TRUE THEN "clear" ELSE "write",
                      !.id = i, !.was = dictionary[i].type, !.type = body.type,
                      !.isDefault = body.isDefault, !.isEnabled = body.isEnabled]
  <2>2. /\ dictionary[i].type \in Type
        /\ body \in [type : Type \cup {None}, isDefault : BOOLEAN \cup {None},
                     isEnabled : BOOLEAN \cup {None}]
    BY <1>4, DictionaryConstants DEF Values!Update, ValuesInv, Values!TypeOK, Values!Row
  <2>3. q \in Values!Handler /\ q.at \in {"clear", "write"} /\ q.id = i /\ i # None
    BY <2>2, DictionaryConstants DEF Values!Idle, Values!Handler
  <2>4. itemReq' = [itemReq EXCEPT ![w] = q] /\ UNCHANGED <<dictionary, byTypeCache>>
    BY <1>4, <2>1 DEF Values!Update
  <2> HIDE DEF q
  <2> QED
    BY <1>1, <2>3, <2>4 DEF ItemOk, Inserts
<1>5. ASSUME NEW i \in Item, Values!RemoveRead(w, i) PROVE ValuesInv'
  <2> DEFINE q == [Values!Idle EXCEPT !.at = "delete", !.id = i, !.was = dictionary[i].type]
  <2>1. dictionary[i].type \in Type
    BY <1>5 DEF Values!RemoveRead, ValuesInv, Values!TypeOK, Values!Row
  <2>2. q \in Values!Handler /\ ItemOk(q)
    BY <2>1 DEF Values!Idle, Values!Handler, ItemOk, Inserts
  <2>3. itemReq' = [itemReq EXCEPT ![w] = q] /\ UNCHANGED <<dictionary, byTypeCache>>
    BY <1>5 DEF Values!RemoveRead
  <2> HIDE DEF q
  <2> QED
    BY <1>1, <2>2, <2>3
<1> QED
  BY <1>2, <1>3, <1>4, <1>5 DEF Values!Ask

LEMMA ItemStep ==
    ASSUME ValuesInv, NEW w \in Worker, Values!Step(w)
    PROVE  ValuesInv'
<1>1. /\ itemReq \in [Worker -> Values!Handler] /\ itemReq[w] \in Values!Handler /\ ItemOk(itemReq[w])
      /\ DOMAIN dictionary \subseteq Item /\ \A i \in DOMAIN dictionary : dictionary[i] \in Values!Row
      /\ dictionary \in [DOMAIN dictionary -> Values!Row]
      /\ byTypeCache \in [Type -> {None} \cup SUBSET Values!Option]
  BY DEF ValuesInv, Values!TypeOK
<1>2. CASE Values!Query(w)
  <2> DEFINE q == [itemReq[w] EXCEPT !.at = "fill", !.items = Values!Options(itemReq[w].type)]
  <2>1. Values!Options(itemReq[w].type) \subseteq Values!Option
    BY <1>1 DEF Values!Options, Values!Option, Values!Row
  <2>2. q \in Values!Handler /\ ItemOk(q)
    BY <1>1, <2>1 DEF Values!Handler, ItemOk, Inserts
  <2>3. itemReq' = [itemReq EXCEPT ![w] = q] /\ UNCHANGED <<dictionary, byTypeCache>>
    BY <1>1, <1>2 DEF Values!Query
  <2> HIDE DEF q
  <2> QED
    BY <1>1, <2>2, <2>3, ItemFrame
<1>3. CASE Values!Fill(w)
  <2>1. byTypeCache' \in [Type -> {None} \cup SUBSET Values!Option]
    BY <1>1, <1>3 DEF Values!Fill, Values!Handler
  <2> QED
    BY <1>1, <1>3, <2>1, ItemGoesOn DEF Values!Fill
<1>4. CASE Values!ClearOthers(w)
  <2> DEFINE row(i) == IF i \in Values!Default(Values!Sent(itemReq[w].type, itemReq[w].was)) \ {itemReq[w].id}
                       THEN [dictionary[i] EXCEPT !.isDefault = FALSE] ELSE dictionary[i]
  <2>1. \A i \in DOMAIN dictionary : row(i) \in Values!Row
    BY <1>1 DEF Values!Row
  <2>2. dictionary' = [i \in DOMAIN dictionary |-> row(i)] /\ UNCHANGED byTypeCache
    BY <1>4 DEF Values!ClearOthers
  <2> HIDE DEF row
  <2>3. DOMAIN dictionary' \subseteq Item /\ dictionary' \in [DOMAIN dictionary' -> Values!Row]
    BY <1>1, <2>1, <2>2
  <2>4. CASE itemReq[w].id = None
    <3> DEFINE q == [itemReq[w] EXCEPT !.at = "insert"]
    <3>1. q \in Values!Handler /\ q.type = itemReq[w].type /\ q.isDefault = itemReq[w].isDefault
      BY <1>1 DEF Values!Handler
    <3>2. itemReq' = [itemReq EXCEPT ![w] = q]
      BY <1>1, <1>4, <2>4 DEF Values!ClearOthers, Values!GoTo
    <3> HIDE DEF q
    <3>3. ItemOk(q)
      BY <1>1, <1>4, <2>4, <3>1 DEF Values!ClearOthers, ItemOk, Inserts
    <3> QED
      BY <1>1, <2>2, <2>3, <3>1, <3>2, <3>3, ItemFrame
  <2>5. CASE itemReq[w].id # None
    BY <1>1, <1>4, <2>2, <2>3, <2>5, ItemGoesOn DEF Values!ClearOthers
  <2> QED
    BY <2>4, <2>5
<1>5. CASE Values!Insert(w)
  <2>1. PICK i \in Item \ DOMAIN dictionary :
           dictionary' = [j \in DOMAIN dictionary \cup {i} |->
                             IF j = i THEN [type |-> itemReq[w].type, isDefault |-> itemReq[w].isDefault,
                                            isEnabled |-> TRUE]
                             ELSE dictionary[j]]
    BY <1>5 DEF Values!Insert
  <2>2. [type |-> itemReq[w].type, isDefault |-> itemReq[w].isDefault, isEnabled |-> TRUE] \in Values!Row
    BY <1>1, <1>5 DEF Values!Insert, ItemOk, Inserts, Values!Row
  <2>3. DOMAIN dictionary' \subseteq Item /\ dictionary' \in [DOMAIN dictionary' -> Values!Row]
    BY <1>1, <2>1, <2>2
  <2> QED
    BY <1>1, <1>5, <2>3, ItemGoesOn DEF Values!Insert
<1>6. CASE Values!Write(w)
  <2> DEFINE row(i) == [type |-> Values!Sent(itemReq[w].type, dictionary[i].type),
                        isDefault |-> Values!Sent(itemReq[w].isDefault, dictionary[i].isDefault),
                        isEnabled |-> Values!Sent(itemReq[w].isEnabled, dictionary[i].isEnabled)]
  <2>1. \A i \in DOMAIN dictionary : row(i) \in Values!Row
    BY <1>1, DictionaryConstants DEF Values!Sent, Values!Row, Values!Handler
  <2>2. \/ dictionary' = [dictionary EXCEPT ![itemReq[w].id] = row(itemReq[w].id)]
        \/ UNCHANGED dictionary
    BY <1>6 DEF Values!Write
  <2> HIDE DEF row
  <2>3. DOMAIN dictionary' \subseteq Item /\ dictionary' \in [DOMAIN dictionary' -> Values!Row]
    BY <1>1, <2>1, <2>2
  <2> QED
    BY <1>1, <1>6, <2>3, ItemGoesOn DEF Values!Write
<1>7. CASE Values!RemoveDelete(w)
  <2>1. DOMAIN dictionary' \subseteq Item /\ dictionary' \in [DOMAIN dictionary' -> Values!Row]
    BY <1>1, <1>7 DEF Values!RemoveDelete
  <2> QED
    BY <1>1, <1>7, <2>1, ItemGoesOn DEF Values!RemoveDelete
<1>8. CASE Values!Invalidate(w)
  <2>1. byTypeCache' \in [Type -> {None} \cup SUBSET Values!Option]
    BY <1>1, <1>8 DEF Values!Invalidate
  <2> QED
    BY <1>1, <1>8, <2>1, ItemGoesOn DEF Values!Invalidate
<1> QED
  BY <1>2, <1>3, <1>4, <1>5, <1>6, <1>7, <1>8 DEF Values!Step

LEMMA ValuesNext == ValuesInv /\ [Values!Next]_(Values!vars) => ValuesInv'
<1> SUFFICES ASSUME ValuesInv, [Values!Next]_(Values!vars) PROVE ValuesInv'
  OBVIOUS
<1>1. ASSUME NEW w \in Worker, Values!Fail(w) PROVE ValuesInv'
  BY <1>1, ItemGoesOn DEF Values!Fail, ValuesInv, Values!TypeOK
<1>2. ASSUME NEW t \in Type, Values!Expire(t) PROVE ValuesInv'
  BY <1>2 DEF Values!Expire, ValuesInv, Values!TypeOK, ItemOk, Inserts
<1>3. CASE UNCHANGED Values!vars
  BY <1>3 DEF Values!vars, ValuesInv, Values!TypeOK, ItemOk, Inserts
<1> QED
  BY <1>1, <1>2, <1>3, ItemAsk, ItemStep DEF Values!Next

LEMMA ValuesInit == Values!Init => ValuesInv
<1> SUFFICES ASSUME Values!Init PROVE ValuesInv
  OBVIOUS
<1>1. Values!TypeOK
  BY ItemIdle DEF Values!Init, Values!TypeOK
<1> QED
  BY <1>1, ItemIdle DEF Values!Init, ValuesInv, ItemOk, Inserts

-----------------------------------------------------------------------------
(***************************************************************************)
(* The four services together, whatever steps they take at one time.       *)
(***************************************************************************)
AllInv == Inv /\ RolesInv /\ RolesNamed /\ AdminsInv /\ ValuesInv

LEMMA AllNext ==
    /\ AllInv
    /\ [Next]_vars /\ [Roles!Next]_(Roles!vars) /\ [Accounts!Next]_(Accounts!vars)
    /\ [Values!Next]_(Values!vars)
    => AllInv'
BY InvNext, RolesNext, NamedNext, AdminsNext, ValuesNext DEF AllInv

\* Interleaved, each service takes its own steps or rests.
LEMMA EachNext ==
    ASSUME [NextOfOne]_allVars
    PROVE  /\ [Next]_vars
           /\ [Roles!Next]_(Roles!vars)
           /\ [Accounts!Next]_(Accounts!vars)
           /\ [Values!Next]_(Values!vars)
<1>1. UNCHANGED roleVars => UNCHANGED Roles!vars
  BY DEF roleVars, Roles!vars
<1>2. UNCHANGED userVars => UNCHANGED Accounts!vars
  BY DEF userVars, Accounts!vars
<1>3. UNCHANGED itemVars => UNCHANGED Values!vars
  BY DEF itemVars, Values!vars
<1>4. CASE UNCHANGED allVars
  BY <1>1, <1>2, <1>3, <1>4 DEF allVars
<1>5. CASE NextOfOne
  BY <1>1, <1>2, <1>3, <1>5 DEF NextOfOne, OnlyTree, OnlyRoles, OnlyUsers, OnlyValues
<1> QED
  BY <1>4, <1>5

LEMMA AllAlways == SpecAll => []AllInv
<1>1. InitAll => AllInv
  BY InvInit, RolesInit, NamedInit, AdminsInit, ValuesInit DEF InitAll, AllInv
<1>2. AllInv /\ [NextOfOne]_allVars => AllInv'
  BY AllNext, EachNext
<1> QED
  BY <1>1, <1>2, PTL DEF SpecAll

\* Every table and every handler has its type: roles and their keys, the tree
\* of departments, users, items of the dictionary and what is cached of them.
THEOREM TypesCorrect == SpecAll => []TypesOK
<1>1. AllInv => TypesOK
  BY DEF AllInv, Inv, RolesInv, AdminsInv, ValuesInv, TypesOK
<1> QED
  BY <1>1, AllAlways, PTL

\* The services interleaved keep what each of them keeps by itself: the tree,
\* the menus and the last administrator.
THEOREM TogetherCorrect ==
    SpecAll => [](AcyclicUnlessCrossed /\ MenusAreChosen) /\ RemovalKeepsAdmin
<1> DEFINE Kept ==
              [\A w \in Worker : (Accounts!RemoveWrite(w) /\ ~userReq[w].raced)
                                    => Accounts!ActiveAdmins' # {}]_(Accounts!vars)
<1>1. AllInv => AcyclicUnlessCrossed /\ MenusAreChosen
  BY DEF AllInv, Inv, TreeInv, AcyclicUnlessCrossed, RolesInv, MenusInv, OneList, ChosenMenus,
         MenusAreChosen, Roles!MenusAreChosen, Roles!WithSystem
<1>2. AllInv /\ [NextOfOne]_allVars => Kept
  BY EachNext, RemovalStep DEF AllInv
<1> QED
  BY <1>1, <1>2, AllAlways, PTL
  DEF SpecAll, RemovalKeepsAdmin, Accounts!RemovalKeepsAdmin

=============================================================================
