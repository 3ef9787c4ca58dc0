------------------------------- MODULE Users --------------------------------
(***************************************************************************)
(* The accounts of users and their roles (users.service.ts), as far as the *)
(* administrators go.  An administrator, the operator, sends each request. *)
(***************************************************************************)
EXTENDS Administration

VARIABLES
    user,     \* the users table
    req       \* what each worker is handling

vars == <<user, req>>

Row == [admin : BOOLEAN, isActive : BOOLEAN]

Handler == [at : {"idle", "insert", "write", "count", "deactivate"},
            id : User \cup {None},
            admin : BOOLEAN \cup {None},      \* what an update writes
            isActive : BOOLEAN \cup {None},
            raced : BOOLEAN]                  \* was anything written since the count?

Idle == [at |-> "idle", id |-> None, admin |-> None, isActive |-> None, raced |-> FALSE]

TypeOK ==
    /\ DOMAIN user \subseteq User
    /\ user \in [DOMAIN user -> Row]
    /\ req \in [Worker -> Handler]

ActiveAdmins == {u \in DOMAIN user : user[u].admin /\ user[u].isActive}

-----------------------------------------------------------------------------
Start(w, request) ==
    /\ req[w].at = "idle"
    /\ req' = [req EXCEPT ![w] = request]
Answer(w) == req' = [req EXCEPT ![w] = Idle]

\* w answers after a write, which overtakes whoever is about to deactivate.
Written(w) ==
    req' = [v \in Worker |-> IF v = w THEN Idle
                             ELSE IF req[v].at = "deactivate" THEN [req[v] EXCEPT !.raced = TRUE]
                             ELSE req[v]]

\* create, with an email nobody has
CreateStart(w) ==
    /\ ActiveAdmins # {}
    /\ \E admin \in BOOLEAN : Start(w, [Idle EXCEPT !.at = "insert", !.admin = admin])
    /\ UNCHANGED user

CreateInsert(w) ==
    /\ req[w].at = "insert"
    /\ \E u \in User \ DOMAIN user :
          user' = [v \in DOMAIN user \cup {u} |->
                      IF v = u THEN [admin |-> req[w].admin, isActive |-> TRUE] ELSE user[v]]
    /\ Written(w)

\* update writes what the request sends, of the operator too.
UpdateRead(w, u) ==
    /\ ActiveAdmins # {}
    /\ u \in DOMAIN user
    /\ \E admin, isActive \in BOOLEAN \cup {None} :
          Start(w, [Idle EXCEPT !.at = "write", !.id = u, !.admin = admin, !.isActive = isActive])
    /\ UNCHANGED user

SentAsIs(value, old) == value
Sent(value, old) == IF value = None THEN old ELSE value

UpdateWrite(w) ==
    /\ req[w].at = "write"
    /\ user' = [user EXCEPT ![req[w].id] =
                   [admin |-> Sent(req[w].admin, @.admin),
                    isActive |-> Sent(req[w].isActive, @.isActive)]]
    /\ Written(w)

\* remove disables a user other than the operator.
RemoveRead(w, u) ==
    /\ \E operator \in ActiveAdmins : operator # u
    /\ u \in DOMAIN user
    /\ Start(w, [Idle EXCEPT !.at = IF u \in ActiveAdmins THEN "count" ELSE "deactivate", !.id = u])
    /\ UNCHANGED user

RemoveCountNone(w) ==
    /\ req[w].at = "count"
    /\ IF Cardinality(ActiveAdmins) < 1
       THEN Answer(w)
       ELSE req' = [req EXCEPT ![w].at = "deactivate"]
    /\ UNCHANGED user
RemoveCount(w) ==
    /\ req[w].at = "count"
    /\ IF Cardinality(ActiveAdmins) <= 1
       THEN Answer(w)
       ELSE req' = [req EXCEPT ![w].at = "deactivate"]
    /\ UNCHANGED user

RemoveWrite(w) ==
    /\ req[w].at = "deactivate"
    /\ user' = [user EXCEPT ![req[w].id].isActive = FALSE]
    /\ Written(w)

\* A statement fails and the handler with it.
Fail(w) ==
    /\ req[w].at # "idle"
    /\ Answer(w)
    /\ UNCHANGED user

-----------------------------------------------------------------------------
Init ==
    /\ user = [u \in {Seeded} |-> [admin |-> TRUE, isActive |-> TRUE]]
    /\ req = [w \in Worker |-> Idle]

Ask(w) == CreateStart(w) \/ \E u \in User : UpdateRead(w, u) \/ RemoveRead(w, u)
Step(w) == CreateInsert(w) \/ UpdateWrite(w) \/ RemoveCount(w) \/ RemoveWrite(w)

Next == \E w \in Worker : Ask(w) \/ Step(w) \/ Fail(w)

Spec == Init /\ [][Next]_vars

-----------------------------------------------------------------------------
(***************************************************************************)
(* Properties.                                                             *)
(***************************************************************************)

\* To remove a user never takes the last active administrator away, unless
\* another request wrote between the count and the write (remove).
RemovalKeepsAdmin ==
    [][\A w \in Worker : (RemoveWrite(w) /\ ~req[w].raced) => ActiveAdmins' # {}]_vars

=============================================================================
