---------------------------- MODULE BankAccounts ----------------------------
(***************************************************************************)
(* The bank accounts that payment requests pay from                        *)
(* (bank-accounts.service.ts).  One of them is the default; whoever makes  *)
(* an account the default clears the others in a statement before.         *)
(***************************************************************************)
EXTENDS Billing

VARIABLES
    account,   \* the bank_accounts table
    used,      \* the accounts that payment requests name
    req        \* what each worker is handling

vars == <<account, used, req>>

Row == [isDefault : BOOLEAN, isEnabled : BOOLEAN]

\* What a request wants of isDefault and of isEnabled: None leaves it alone.
Handler == [at : {"idle", "clear", "insert", "write", "count", "delete"},
            op : {"create", "update", "toggle", "setDefault", "remove", None},
            id : Account \cup {None},
            isDefault : BOOLEAN \cup {None},
            isEnabled : BOOLEAN \cup {None}]

Idle == [at |-> "idle", op |-> None, id |-> None, isDefault |-> None, isEnabled |-> None]

TypeOK ==
    /\ DOMAIN account \subseteq Account
    /\ account \in [DOMAIN account -> Row]
    /\ used \subseteq DOMAIN account
    /\ req \in [Worker -> Handler]

Default == {a \in DOMAIN account : account[a].isDefault}

-----------------------------------------------------------------------------
Start(w, request) ==
    /\ req[w].at = "idle"
    /\ req' = [req EXCEPT ![w] = request]
Answer(w) == req' = [req EXCEPT ![w] = Idle]

\* A number that another account has refuses create and update.
Create(w) ==
    /\ \E default \in BOOLEAN :
          Start(w, [Idle EXCEPT !.at = IF default THEN "clear" ELSE "insert",
                                !.op = "create", !.isDefault = default])
    /\ UNCHANGED <<account, used>>

Update(w, a) ==
    /\ a \in DOMAIN account
    /\ \E default, enabled \in BOOLEAN \cup {None} :
          Start(w, [at |-> IF default = TRUE THEN "clear" ELSE "write", op |-> "update",
                    id |-> a, isDefault |-> default, isEnabled |-> enabled])
    /\ UNCHANGED <<account, used>>

ToggleEnabled(w, a) ==
    /\ a \in DOMAIN account
    /\ Start(w, [Idle EXCEPT !.at = "write", !.op = "toggle", !.id = a,
                             !.isEnabled = ~account[a].isEnabled])
    /\ UNCHANGED <<account, used>>

SetDefault(w, a) ==
    /\ a \in DOMAIN account
    /\ Start(w, [Idle EXCEPT !.at = "clear", !.op = "setDefault", !.id = a, !.isDefault = TRUE])
    /\ UNCHANGED <<account, used>>

\* updateMany; update leaves the account itself as it is.
ClearOthers(w) ==
    LET cleared == IF req[w].op = "update" THEN Default \ {req[w].id} ELSE Default
    IN  /\ req[w].at = "clear"
        /\ account' = [a \in DOMAIN account |->
                          IF a \in cleared THEN [account[a] EXCEPT !.isDefault = FALSE]
                          ELSE account[a]]
        /\ req' = [req EXCEPT ![w].at = IF req[w].op = "create" THEN "insert" ELSE "write"]
        /\ UNCHANGED used

Insert(w) ==
    /\ req[w].at = "insert"
    /\ \E a \in Account \ DOMAIN account :
          account' = [b \in DOMAIN account \cup {a} |->
                         IF b = a THEN [isDefault |-> req[w].isDefault, isEnabled |-> TRUE]
                         ELSE account[b]]
    /\ Answer(w)
    /\ UNCHANGED used

SentAsIs(value, old) == value
Sent(value, old) == IF value = None THEN old ELSE value

Write(w) ==
    /\ req[w].at = "write"
    /\ account' = [a \in DOMAIN account |->
                      IF a # req[w].id THEN account[a]
                      ELSE [isDefault |-> Sent(req[w].isDefault, account[a].isDefault),
                            isEnabled |-> Sent(req[w].isEnabled, account[a].isEnabled)]]
    /\ Answer(w)
    /\ UNCHANGED used

\* remove counts the payment requests of the account, and deletes it later.
RemoveRead(w, a) ==
    /\ a \in DOMAIN account
    /\ Start(w, [Idle EXCEPT !.at = "count", !.op = "remove", !.id = a])
    /\ UNCHANGED <<account, used>>

RemoveCount(w) ==
    /\ req[w].at = "count"
    /\ IF req[w].id \in used THEN Answer(w) ELSE req' = [req EXCEPT ![w].at = "delete"]
    /\ UNCHANGED <<account, used>>

\* The foreign key refuses an account that was named meanwhile.
RemoveDelete(w) ==
    /\ req[w].at = "delete"
    /\ account' = IF req[w].id \in used THEN account
                  ELSE [a \in DOMAIN account \ {req[w].id} |-> account[a]]
    /\ Answer(w)
    /\ UNCHANGED used

\* PaymentRequests names an account.
Use(a) ==
    /\ a \in DOMAIN account \ used
    /\ used' = used \cup {a}
    /\ UNCHANGED <<account, req>>

\* A statement fails and the handler with it: the old default may be gone.
Fail(w) ==
    /\ req[w].at # "idle"
    /\ Answer(w)
    /\ UNCHANGED <<account, used>>

-----------------------------------------------------------------------------
Init ==
    /\ account = [a \in {} |-> None]
    /\ used = {}
    /\ req = [w \in Worker |-> Idle]

Ask(w) ==
    \/ Create(w)
    \/ \E a \in Account :
          Update(w, a) \/ ToggleEnabled(w, a) \/ SetDefault(w, a) \/ RemoveRead(w, a)

Step(w) == ClearOthers(w) \/ Insert(w) \/ Write(w) \/ RemoveCount(w) \/ RemoveDelete(w)

Next == (\E w \in Worker : Ask(w) \/ Step(w) \/ Fail(w)) \/ \E a \in Account : Use(a)

Spec == Init /\ [][Next]_vars

-----------------------------------------------------------------------------
(***************************************************************************)
(* Properties.                                                             *)
(***************************************************************************)

\* Handlers that overlap may each leave a default behind, but only the one they
\* set last: defaults do not pile up, and one handler alone leaves at most one
\* (setDefault, create and update clear, and set in a later statement).
DefaultsBounded == Cardinality(Default) <= Cardinality(Worker)

=============================================================================
