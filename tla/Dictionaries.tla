---------------------------- MODULE Dictionaries ----------------------------
(***************************************************************************)
(* The data dictionary (dictionaries.service.ts): the values each type of  *)
(* field can take, one of them its default, and the cached list of each    *)
(* type that the forms offer.                                              *)
(***************************************************************************)
EXTENDS Administration

VARIABLES
    dictionary,    \* the dictionaries table
    byTypeCache,   \* what was cached under each key, None if nothing is
    req            \* what each worker is handling

vars == <<dictionary, byTypeCache, req>>

Row == [type : Type, isDefault : BOOLEAN, isEnabled : BOOLEAN]

\* An option of a list: an item, and whether it is the default.
Option == Item \X BOOLEAN

Handler == [at : {"idle", "clear", "insert", "write", "delete", "answer", "query", "fill"},
            id : Item \cup {None},
            was : Type \cup {None},       \* the type the item had when it was read
            type : Type \cup {None},      \* the type it is given, or is asked for
            isDefault : BOOLEAN \cup {None},
            isEnabled : BOOLEAN \cup {None},
            items : SUBSET Option]

Idle == [at |-> "idle", id |-> None, was |-> None, type |-> None,
         isDefault |-> None, isEnabled |-> None, items |-> {}]

TypeOK ==
    /\ DOMAIN dictionary \subseteq Item
    /\ dictionary \in [DOMAIN dictionary -> Row]
    /\ byTypeCache \in [Type -> {None} \cup SUBSET Option]
    /\ req \in [Worker -> Handler]

Default(t) == {i \in DOMAIN dictionary : dictionary[i].type = t /\ dictionary[i].isDefault}

Options(t) ==
    {<<i, dictionary[i].isDefault>> :
        i \in {j \in DOMAIN dictionary : dictionary[j].type = t /\ dictionary[j].isEnabled}}

-----------------------------------------------------------------------------
Start(w, request) ==
    /\ req[w].at = "idle"
    /\ req' = [req EXCEPT ![w] = request]
GoTo(w, at) == req' = [req EXCEPT ![w].at = at]
Answer(w) == req' = [req EXCEPT ![w] = Idle]

\* findByType: a list that is not cached is asked for, and cached as it comes; for
\* the type as it is written, under a key that other spellings share.
FindByType(w, t) ==
    /\ byTypeCache[TypeKey[t]] = None
    /\ Start(w, [Idle EXCEPT !.at = "query", !.type = t])
    /\ UNCHANGED <<dictionary, byTypeCache>>

Query(w) ==
    /\ req[w].at = "query"
    /\ req' = [req EXCEPT ![w].at = "fill", ![w].items = Options(req[w].type)]
    /\ UNCHANGED <<dictionary, byTypeCache>>

Fill(w) ==
    /\ req[w].at = "fill"
    /\ byTypeCache' = [byTypeCache EXCEPT ![TypeKey[req[w].type]] = req[w].items]
    /\ Answer(w)
    /\ UNCHANGED dictionary

\* A code that the type has already refuses create and update.
Create(w) ==
    /\ \E t \in Type, default \in BOOLEAN :
          Start(w, [Idle EXCEPT !.at = IF default THEN "clear" ELSE "insert",
                                !.type = t, !.isDefault = default])
    /\ UNCHANGED <<dictionary, byTypeCache>>

Update(w, i) ==
    /\ i \in DOMAIN dictionary
    /\ \E body \in Bodies :
          Start(w, [Idle EXCEPT !.at = IF body.isDefault = TRUE THEN "clear" ELSE "write",
                                !.id = i, !.was = dictionary[i].type, !.type = body.type,
                                !.isDefault = body.isDefault, !.isEnabled = body.isEnabled])
    /\ UNCHANGED <<dictionary, byTypeCache>>

Sent(value, old) == IF value = None THEN old ELSE value

\* updateMany: the other defaults of the type are cleared before.
ClearOthers(w) ==
    /\ req[w].at = "clear"
    /\ dictionary' = [i \in DOMAIN dictionary |->
                         IF i \in Default(Sent(req[w].type, req[w].was)) \ {req[w].id}
                         THEN [dictionary[i] EXCEPT !.isDefault = FALSE]
                         ELSE dictionary[i]]
    /\ GoTo(w, IF req[w].id = None THEN "insert" ELSE "write")
    /\ UNCHANGED byTypeCache

Insert(w) ==
    /\ req[w].at = "insert"
    /\ \E i \in Item \ DOMAIN dictionary :
          dictionary' = [j \in DOMAIN dictionary \cup {i} |->
                            IF j = i THEN [type |-> req[w].type, isDefault |-> req[w].isDefault,
                                           isEnabled |-> TRUE]
                            ELSE dictionary[j]]
    /\ GoTo(w, "answer")
    /\ UNCHANGED byTypeCache

\* What the request does not send stays as the table has it.
Write(w) ==
    LET i == req[w].id
    IN  /\ req[w].at = "write"
        /\ IF i \in DOMAIN dictionary
           THEN /\ dictionary' = [dictionary EXCEPT ![i] =
                      [type |-> Sent(req[w].type, @.type),
                       isDefault |-> Sent(req[w].isDefault, @.isDefault),
                       isEnabled |-> Sent(req[w].isEnabled, @.isEnabled)]]
                /\ GoTo(w, "answer")
           ELSE Answer(w) /\ UNCHANGED dictionary
        /\ UNCHANGED byTypeCache

RemoveRead(w, i) ==
    /\ i \in DOMAIN dictionary
    /\ Start(w, [Idle EXCEPT !.at = "delete", !.id = i, !.was = dictionary[i].type])
    /\ UNCHANGED <<dictionary, byTypeCache>>

RemoveDelete(w) ==
    /\ req[w].at = "delete"
    /\ dictionary' = [i \in DOMAIN dictionary \ {req[w].id} |-> dictionary[i]]
    /\ IF req[w].id \in DOMAIN dictionary THEN GoTo(w, "answer") ELSE Answer(w)
    /\ UNCHANGED byTypeCache

\* The database has answered: the list of the type the item had when it was
\* read, and of the one it was given, are dropped.
Invalidate(w) ==
    /\ req[w].at = "answer"
    /\ LET types == {req[w].was, req[w].type} \ {None}
       IN  byTypeCache' = [k \in Type |-> IF \E t \in types : TypeKey[t] = k THEN None
                                          ELSE byTypeCache[k]]
    /\ Answer(w)
    /\ UNCHANGED dictionary

\* byTypeCacheTtlMs have passed since the list was cached.
NeverExpire(k) == FALSE /\ UNCHANGED vars
Expire(k) ==
    /\ byTypeCache[k] # None
    /\ byTypeCache' = [byTypeCache EXCEPT ![k] = None]
    /\ UNCHANGED <<dictionary, req>>

\* A statement fails and the handler with it, or only the answer to it is lost.
Fail(w) ==
    /\ req[w].at \notin {"idle", "fill"}
    /\ Answer(w)
    /\ UNCHANGED <<dictionary, byTypeCache>>

-----------------------------------------------------------------------------
Init ==
    /\ dictionary = [i \in {} |-> None]
    /\ byTypeCache = [k \in Type |-> None]
    /\ req = [w \in Worker |-> Idle]

Ask(w) ==
    \/ Create(w)
    \/ \E t \in Type : FindByType(w, t)
    \/ \E i \in Item : Update(w, i) \/ RemoveRead(w, i)

Step(w) ==
    \/ Query(w) \/ Fill(w) \/ ClearOthers(w) \/ Insert(w) \/ Write(w) \/ RemoveDelete(w)
    \/ Invalidate(w)

Next == (\E w \in Worker : Ask(w) \/ Step(w) \/ Fail(w)) \/ \E k \in Type : Expire(k)

\* The database answers every statement, and time passes.
Fairness ==
    /\ \A w \in Worker : WF_vars(Step(w))
    /\ \A k \in Type : WF_vars(Expire(k))

Spec == Init /\ [][Next]_vars /\ Fairness

-----------------------------------------------------------------------------
(***************************************************************************)
(* Properties.                                                             *)
(***************************************************************************)

\* A value that was removed, disabled or moved to another type for good is in
\* the end no longer offered, although a list that was read before may be cached
\* after, and an update drops the list of the type that it read, which another
\* update may have changed since (update, invalidateByTypeCache, byTypeCacheTtlMs).
\* Another type is one with another key: spellings of one are offered each other's
\* values.
OfferedIn(t) ==
    IF byTypeCache[TypeKey[t]] = None THEN Options(t) ELSE byTypeCache[TypeKey[t]]

OptionsUnder(k) == UNION {Options(t) : t \in {u \in Type : TypeKey[u] = k}}

WithdrawalReaches ==
    \A t \in Type, i \in Item :
        <>[]({i} \X BOOLEAN \cap OptionsUnder(TypeKey[t]) = {})
            => <>[]({i} \X BOOLEAN \cap OfferedIn(t) = {})

=============================================================================
