---------------------------- MODULE Permissions -----------------------------
(***************************************************************************)
(* The permissions of roles (permissions.service.ts): the role_permissions *)
(* table, what is made of its rows, and the cache in front of them.        *)
(*                                                                         *)
(* Lists are written in two statements, the delete of the old rows and the *)
(* insert of the new ones; only updateRolePermissions has a transaction    *)
(* around them.                                                            *)
(***************************************************************************)
EXTENDS Administration

Key == Menu \cup Function

VARIABLES
    rows,      \* the role_permissions table: pairs of a role and a key
    cache,     \* rolePermissionsCache: the keys that the cached answer was made of
    req        \* what each worker is handling

vars == <<rows, cache, req>>

Ops == {"get", "menus", "functions", "both", "reset", "initialize"}

Handler == [at : {"idle", "query", "fill", "lock", "create", "commit", "insert", "answer"},
            op : Ops \cup {None},
            role : Role \cup {None},
            list : SUBSET Key,                \* the keys to be written
            seen : SUBSET (Role \X Key)]      \* the rows that were read or deleted

Idle == [at |-> "idle", op |-> None, role |-> None, list |-> {}, seen |-> {}]

TypeOK ==
    /\ rows \subseteq Role \X Key
    /\ cache \in [Role -> (SUBSET Key) \cup {None}]
    /\ req \in [Worker -> Handler]

-----------------------------------------------------------------------------
KeysOf(table, r) == {k \in Key : <<r, k>> \in table}

\* withSystemMenus
WithSystemNone(menus) == menus
WithSystem(menus) == menus \cup {SystemMenu}

\* What getRolePermissions answers from the rows with these keys.
Menus(r, keys) == WithSystem(IF keys = {} THEN DefaultMenus[r] ELSE keys \cap Menu)

\* Rows of a role that were written before a function existed: it has the
\* function if it has the menu and the functions given, and none of some others.
Packed(r, keys) ==
    LET functions == keys \cap Function
        applies(p) == /\ p.role = r
                      /\ p.menu \in Menus(r, keys)
                      /\ p.given \subseteq functions
                      /\ p.unless \cap functions = {}
    IN  functions \cup UNION {p.adds : p \in {q \in Packs : applies(q)}}

\* The least set with everything that its menus and its own functions bring.
Inherited(r, keys) ==
    LET start == Packed(r, keys) \cup UNION {Base[m] : m \in Menus(r, keys)}
        closed(S) == \A f \in S : Requires[f] \subseteq S
    IN  {f \in Function : \A S \in SUBSET Function : (start \subseteq S /\ closed(S)) => f \in S}

Functions(r, keys) ==
    IF keys = {} THEN DefaultFunctions[r] ELSE Inherited(r, keys)

-----------------------------------------------------------------------------
Start(w, request) ==
    /\ req[w].at = "idle"
    /\ req' = [req EXCEPT ![w] = request]
GoTo(w, at) == req' = [req EXCEPT ![w].at = at]
Answer(w) == req' = [req EXCEPT ![w] = Idle]

\* getRolePermissions: a hit is answered at once, a miss asks the table.
Get(w, r) ==
    /\ cache[r] = None
    /\ Start(w, [Idle EXCEPT !.at = "query", !.op = "get", !.role = r])
    /\ UNCHANGED <<rows, cache>>

\* Rows are looked up for the role in capitals, defaults for the role as the
\* client wrote it: in small letters a role without rows has the system menu only.
Answers(r) ==
    IF KeysOf(rows, r) = {} THEN {{}, {SystemMenu}} ELSE {KeysOf(rows, r)}

Query(w) ==
    /\ req[w].at = "query"
    /\ \E keys \in Answers(req[w].role) :
          req' = [req EXCEPT ![w].at = "fill", ![w].seen = {req[w].role} \X keys]
    /\ UNCHANGED <<rows, cache>>

Fill(w) ==
    /\ req[w].at = "fill"
    /\ cache' = [cache EXCEPT ![req[w].role] = KeysOf(req[w].seen, req[w].role)]
    /\ Answer(w)
    /\ UNCHANGED rows

\* updateRoleMenuPermissions, updateRoleFunctionPermissions, updateRolePermissions
\* and reset begin with a deleteMany, which deletes the rows there are as it begins.
Replaced(op) ==
    CASE op = "menus" -> Menu [] op = "functions" -> Function [] OTHER -> Key

DeleteStart(w, op, r, list) ==
    /\ Start(w, [at |-> "lock", op |-> op, role |-> r, list |-> list,
                 seen |-> {r} \X (KeysOf(rows, r) \cap Replaced(op))])
    /\ UNCHANGED <<rows, cache>>

Update(w, r) ==
    \E m \in MenuLists, f \in FunctionLists :
        \/ DeleteStart(w, "menus", r, WithSystem(m))
        \/ DeleteStart(w, "functions", r, f)
        \/ DeleteStart(w, "both", r, WithSystem(m) \cup f)

Reset(w, r) == DeleteStart(w, "reset", r, {})

\* The database makes w wait for a transaction that has deleted these rows.
Free(w, table) == \A v \in Worker \ {w} : req[v].at = "commit" => req[v].seen \cap table = {}

\* The rows that w deleted are gone for those that wait to delete them too.
Deleted(w, request) ==
    req' = [v \in Worker |->
               IF v = w THEN request
               ELSE IF req[v].at = "lock" THEN [req[v] EXCEPT !.seen = @ \ req[w].seen]
               ELSE req[v]]

\* Within the transaction nobody else sees the rows go before the commit.
DeleteMany(w) ==
    /\ req[w].at = "lock"
    /\ Free(w, req[w].seen)
    /\ IF req[w].op = "both"
       THEN GoTo(w, "commit") /\ UNCHANGED rows
       ELSE /\ rows' = rows \ req[w].seen
            /\ Deleted(w, [req[w] EXCEPT !.at = IF req[w].list = {} THEN "answer" ELSE "create",
                                         !.seen = {}])
    /\ UNCHANGED cache

\* createMany, which the unique index on role, type and key may refuse.
Added(w) == {req[w].role} \X req[w].list

CreateMany(w) ==
    /\ req[w].at = "create"
    /\ Free(w, Added(w))
    /\ IF Added(w) \cap rows # {}
       THEN Answer(w) /\ UNCHANGED rows
       ELSE rows' = rows \cup Added(w) /\ GoTo(w, "answer")
    /\ UNCHANGED cache

Commit(w) ==
    /\ req[w].at = "commit"
    /\ IF Added(w) \cap (rows \ req[w].seen) # {}
       THEN Answer(w) /\ UNCHANGED rows
       ELSE /\ rows' = (rows \ req[w].seen) \cup Added(w)
            /\ Deleted(w, [req[w] EXCEPT !.at = "answer", !.seen = {}])
    /\ UNCHANGED cache

\* initializeDefaultPermissions: the rows there are, and later the missing ones.
InitializeRead(w) ==
    /\ Start(w, [Idle EXCEPT !.at = "insert", !.op = "initialize", !.seen = rows])
    /\ UNCHANGED <<rows, cache>>

Defaults == UNION {{r} \X (WithSystem(DefaultMenus[r]) \cup DefaultFunctions[r]) : r \in Role}

InitializeInsert(w) ==
    /\ req[w].at = "insert"
    /\ Free(w, Defaults \ req[w].seen)
    /\ rows' = rows \cup (Defaults \ req[w].seen)
    /\ req' = [req EXCEPT ![w].at = "answer", ![w].seen = {}]
    /\ UNCHANGED cache

\* The database has answered: the role (initialize: every role) is dropped from
\* the cache, and an update goes on to read what it answers.
Invalidate(w) ==
    /\ req[w].at = "answer"
    /\ cache' = [r \in Role |-> IF req[w].role \in {r, None} THEN None ELSE cache[r]]
    /\ IF req[w].op \in {"reset", "initialize"} THEN Answer(w) ELSE GoTo(w, "query")
    /\ UNCHANGED rows

\* ROLE_PERMISSIONS_CACHE_TTL_MS have passed since the entry was set.
NeverExpire(r) == FALSE /\ UNCHANGED vars
Expire(r) ==
    /\ cache[r] # None
    /\ cache' = [cache EXCEPT ![r] = None]
    /\ UNCHANGED <<rows, req>>

\* A statement fails and the handler with it; what committed before stays, as does
\* the cached answer when only the answer of the database was lost.
Fail(w) ==
    /\ req[w].at \notin {"idle", "fill"}
    /\ Answer(w)
    /\ UNCHANGED <<rows, cache>>

\* The process restarts with an empty cache.
Restart ==
    /\ req' = [w \in Worker |-> Idle]
    /\ cache' = [r \in Role |-> None]
    /\ UNCHANGED rows

-----------------------------------------------------------------------------
Init ==
    /\ rows = {}
    /\ cache = [r \in Role |-> None]
    /\ req = [w \in Worker |-> Idle]

Ask(w) == InitializeRead(w) \/ \E r \in Role : Get(w, r) \/ Update(w, r) \/ Reset(w, r)

Step(w) ==
    \/ Query(w) \/ Fill(w) \/ DeleteMany(w) \/ CreateMany(w) \/ Commit(w)
    \/ InitializeInsert(w) \/ Invalidate(w)

Next ==
    \/ \E w \in Worker : Ask(w) \/ Step(w) \/ Fail(w)
    \/ \E r \in Role : Expire(r)
    \/ Restart

\* The database answers every statement, and time passes.
Fairness ==
    /\ \A w \in Worker : WF_vars(Step(w))
    /\ \A r \in Role : WF_vars(Expire(r))

Spec == Init /\ [][Next]_vars /\ Fairness

-----------------------------------------------------------------------------
(***************************************************************************)
(* Properties.                                                             *)
(***************************************************************************)

\* The menus of a role are never parts of two lists: whatever overlaps, fails or
\* dies between its delete and its insert, they come from one list somebody sent
\* or from none, and from the defaults that initialize found missing.  It is the
\* row of the system menu, which is in every list, that two inserts collide on
\* (updateRoleMenuPermissions, updateRolePermissions).
MenusAreChosen ==
    \A r \in Role : \E list \in MenuLists \cup {{}} :
        /\ list \subseteq KeysOf(rows, r) \cap Menu
        /\ KeysOf(rows, r) \cap Menu \subseteq WithSystem(list \cup DefaultMenus[r])

\* A function that a role lost for good is in the end no longer served from the
\* cache either, although a read that overlapped the write may have filled the
\* cache after the write dropped it (getRolePermissions, the TTL of its cache).
Served(r) == IF cache[r] = None THEN KeysOf(rows, r) ELSE cache[r]

RevocationReaches ==
    \A r \in Role, f \in Function :
        <>[](f \notin Functions(r, KeysOf(rows, r))) => <>[](f \notin Functions(r, Served(r)))

=============================================================================
