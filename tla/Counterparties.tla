--------------------------- MODULE Counterparties ---------------------------
(***************************************************************************)
(* Customers and suppliers (customers.service.ts, suppliers.service.ts)    *)
(* and the contracts that bring them about: contracts.service.ts creates,  *)
(* shows again and looks up the other side of a contract by its name, and  *)
(* the import of contracts does so row by row.                             *)
(*                                                                         *)
(* A customer that is not visible is deleted, or belongs to contracts that *)
(* are no sales; suppliers stand for the other side of the latter.  Every  *)
(* statement commits and is a step.                                        *)
(***************************************************************************)
EXTENDS Billing, FiniteSetsExt

VARIABLES
    party,       \* the customers and suppliers tables
    contract,    \* the contracts table, by contractNo
    req,         \* what each worker is handling
    unchecked,   \* customers and contracts on which a check was overtaken,
    contested    \* and credit codes on which one was (neither is in the code)

vars == <<party, contract, req, unchecked, contested>>

Kind == {"customer", "supplier"}

PartyRow == [kind : Kind, name : Name, credit : Credit \cup {None}, code : Code,
           status : {"PENDING", "APPROVED", None} \cup Verdicts, visible : BOOLEAN]

\* sales: is the type of the contract one of sales?
ContractRow == [customer : Party, sales : BOOLEAN, deleted : BOOLEAN]

Handler == [at : {"idle", "row", "byCode", "byCredit", "duplicate", "code", "insert", "edit",
                  "count", "hide", "judge", "visible", "hidden", "find", "seen", "restore",
                  "sync", "upsert", "insert contract", "write contract", "remove contract"},
            op : {"create", "edit", "import", "remove", "approve", "create contract",
                  "update contract", "import contracts", "remove contract", None},
            kind : Kind,
            id : Party \cup {None},                 \* the party, or customer of the contract
            name : Name \cup {None},
            credit : Credit \cup {None, Unsent},
            code : Code \cup {None},
            tries : Nat,                            \* inserts that met a code already taken
            verdict : Verdicts \cup {None},
            no : Contract \cup {None},
            sales : BOOLEAN,                        \* is the contract one of sales then?
            new : BOOLEAN,                          \* is the contract to be inserted?
            customer : Party \cup {None},           \* what is written to the contract,
            type : BOOLEAN \cup {None},             \* where it is not None,
            undelete : BOOLEAN,                     \* and is it to be undeleted?
            rows : Seq(PartyInput) \cup Seq(ContractInput),
            named : [Name -> Party \cup {None}],    \* customerIdByName
            synced : SUBSET Name]                   \* the names in supplierIdByName

Idle == [at |-> "idle", op |-> None, kind |-> "customer", id |-> None, name |-> None,
         credit |-> None, code |-> None, tries |-> 0, verdict |-> None, no |-> None,
         sales |-> FALSE, new |-> FALSE, customer |-> None, type |-> None, undelete |-> FALSE,
         rows |-> <<>>, named |-> [n \in Name |-> None], synced |-> {}]

TypeOK ==
    /\ DOMAIN party \subseteq Party
    /\ party \in [DOMAIN party -> PartyRow]
    /\ DOMAIN contract \subseteq Contract
    /\ contract \in [DOMAIN contract -> ContractRow]
    /\ req \in [Worker -> Handler]
    /\ unchecked \subseteq Party \cup Contract
    /\ contested \subseteq Credit

-----------------------------------------------------------------------------
OfKind(kind) == {p \in DOMAIN party : party[p].kind = kind}
Visible(kind) == {p \in OfKind(kind) : party[p].visible}
Codes(kind) == {party[p].code : p \in OfKind(kind)}
Fresh == {p \in Party \ DOMAIN party : \A w \in Worker : req[w].id # p}

\* The greatest code in string order is read back as a number, where it is one.
\* A code of another form that a file brought sorts after all numbers.
NextCode(kind) ==
    CASE Codes(kind) = {} \/ Foreign \in Codes(kind) -> 1
      [] LastNo \in Codes(kind) /\ Foreign \notin Codes(kind) -> LastNo + 1
      [] OTHER -> Max(Codes(kind)) + 1

\* May v still write a contract of customer p?
Involves(v, p) == (req[v].no # None /\ req[v].id = p) \/ \E n \in Name : req[v].named[n] = p

Start(w, request) ==
    /\ req[w].at = "idle"
    /\ req' = [req EXCEPT ![w] = request]
GoTo(w, at) == req' = [req EXCEPT ![w].at = at]

\* A request is answered, a row of an import is done.
Importing(w) == req[w].op \in {"import", "import contracts"}
Done(w) ==
    IF Importing(w)
    THEN [Idle EXCEPT !.at = "row", !.op = req[w].op, !.kind = req[w].kind,
                      !.rows = Tail(req[w].rows), !.named = req[w].named, !.synced = req[w].synced]
    ELSE Idle
Answer(w) == req' = [req EXCEPT ![w] = Done(w)]

\* The customer of the contract at hand is found; its supplier is.
Chosen(w, p, at) ==
    [req[w] EXCEPT !.at = at, !.id = p,
                   !.named = IF Importing(w) THEN [@ EXCEPT ![req[w].name] = p] ELSE @]
Synced(w) ==
    [req[w] EXCEPT !.at = CASE req[w].new -> "insert contract"
                            [] ~req[w].new /\ Importing(w) -> "upsert"
                            [] OTHER -> "write contract",
                   !.synced = IF Importing(w) /\ ~req[w].new /\ ~req[w].sales
                              THEN @ \cup {req[w].name} ELSE @]

-----------------------------------------------------------------------------
\* create: the credit code is looked for, then a code generated.
Create(w, kind) ==
    /\ \E name \in Name, credit \in Credit \cup {None} :
          Start(w, [Idle EXCEPT !.at = IF credit = None THEN "code" ELSE "duplicate",
                                !.op = "create", !.kind = kind, !.name = name, !.credit = credit])
    /\ UNCHANGED <<party, contract, unchecked, contested>>
CreateCustomer(w) == Create(w, "customer")
CreateSupplier(w) == Create(w, "supplier")

\* update: only a credit code that is new to the row is looked for.
Edit(w, kind) ==
    /\ \E p \in Visible(kind), name \in Name, credit \in Credit \cup {None, Unsent} :
          Start(w, [Idle EXCEPT !.at = IF credit \in {None, Unsent, party[p].credit}
                                       THEN "edit" ELSE "duplicate",
                                !.op = "edit", !.kind = kind, !.id = p,
                                !.name = name, !.credit = credit])
    /\ UNCHANGED <<party, contract, unchecked, contested>>
EditCustomer(w) == Edit(w, "customer")
EditSupplier(w) == Edit(w, "supplier")

Duplicate(w) ==
    /\ req[w].at = "duplicate"
    /\ IF \E p \in Visible(req[w].kind) \ {req[w].id} : party[p].credit = req[w].credit
       THEN Answer(w)
       ELSE GoTo(w, IF req[w].id = None THEN "code" ELSE "edit")
    /\ UNCHANGED <<party, contract, unchecked, contested>>

\* An import looks each row up, by its code and then by its credit code.
ImportRows(w, kind) ==
    /\ \E rows \in PartyBatches :
          Start(w, [Idle EXCEPT !.at = "row", !.op = "import", !.kind = kind, !.rows = rows])
    /\ UNCHANGED <<party, contract, unchecked, contested>>
ImportCustomers(w) == ImportRows(w, "customer")
ImportSuppliers(w) == ImportRows(w, "supplier")

Row(w) ==
    /\ req[w].at = "row"
    /\ req[w].op = "import"
    /\ IF req[w].rows = <<>> THEN req' = [req EXCEPT ![w] = Idle]
       ELSE LET row == Head(req[w].rows)
            IN  req' = [req EXCEPT ![w].at = IF row.code # None THEN "byCode"
                                             ELSE IF row.credit # None THEN "byCredit" ELSE "code",
                                   ![w].name = row.name, ![w].code = row.code,
                                   ![w].credit = row.credit]
    /\ UNCHANGED <<party, contract, unchecked, contested>>

ByCodeUnchecked(w) ==
    /\ req[w].at = "byCode"
    /\ \/ \E p \in Visible(req[w].kind) :
             /\ party[p].code = req[w].code
             /\ req' = [req EXCEPT ![w].id = p, ![w].at = "edit"]
       \/ /\ \A p \in Visible(req[w].kind) : party[p].code # req[w].code
          /\ GoTo(w, IF req[w].credit # None THEN "byCredit" ELSE "insert")
    /\ UNCHANGED <<party, contract, unchecked, contested>>
ByCode(w) ==
    /\ req[w].at = "byCode"
    /\ \/ \E p \in Visible(req[w].kind) :
             /\ party[p].code = req[w].code
             /\ req' = [req EXCEPT ![w].id = p,
                                   ![w].at = IF req[w].credit \in {None, party[p].credit}
                                             THEN "edit" ELSE "duplicate"]
       \/ /\ \A p \in Visible(req[w].kind) : party[p].code # req[w].code
          /\ GoTo(w, IF req[w].credit # None THEN "byCredit" ELSE "insert")
    /\ UNCHANGED <<party, contract, unchecked, contested>>

ByCredit(w) ==
    /\ req[w].at = "byCredit"
    /\ \/ \E p \in Visible(req[w].kind) :
             /\ party[p].credit = req[w].credit
             /\ req' = [req EXCEPT ![w].id = p, ![w].at = "edit"]
       \/ /\ \A p \in Visible(req[w].kind) : party[p].credit # req[w].credit
          /\ GoTo(w, IF req[w].code # None THEN "insert" ELSE "code")
    /\ UNCHANGED <<party, contract, unchecked, contested>>

\* Is another request about a credit code while w writes it?
Contested(w, credit) ==
    contested' = IF credit \in Credit /\ \E v \in Worker \ {w} : req[v].credit = credit
                 THEN contested \cup {credit} ELSE contested

Write(w) ==
    /\ req[w].at = "edit"
    /\ party' = [party EXCEPT ![req[w].id].name = req[w].name,
                              ![req[w].id].credit = IF req[w].credit = Unsent THEN @
                                                    ELSE req[w].credit]
    /\ Contested(w, req[w].credit)
    /\ Answer(w)
    /\ UNCHANGED <<contract, unchecked>>

Generate(w) ==
    /\ req[w].at = "code"
    /\ req' = [req EXCEPT ![w].at = "insert", ![w].code = NextCode(req[w].kind)]
    /\ UNCHANGED <<party, contract, unchecked, contested>>

\* Codes are unique.  A generated one that is taken is generated again, one
\* that a row brought refuses the row.
Given(w) == req[w].op = "import" /\ Head(req[w].rows).code # None
Retry(w) ==
    IF ~Given(w) /\ req[w].tries + 1 < MaxTries
    THEN [req[w] EXCEPT !.at = "code", !.tries = @ + 1]
    ELSE Done(w)

NewParty(w) ==
    [kind |-> req[w].kind, name |-> req[w].name, credit |-> req[w].credit, code |-> req[w].code,
     status |-> CASE req[w].kind = "supplier" -> None
                  [] req[w].kind = "customer" /\ req[w].op = "import" -> "APPROVED"
                  [] OTHER -> "PENDING",
     visible |-> req[w].kind = "supplier" \/ req[w].op # "import contracts" \/ req[w].sales]

\* Who asked for the party: the customer of a contract goes on to the supplier,
\* the supplier of a contract to the contract.
Added(w, p) ==
    CASE req[w].no = None -> Done(w)
      [] req[w].no # None /\ req[w].kind = "customer" -> Chosen(w, p, "sync")
      [] OTHER -> Synced(w)

Insert(w) ==
    /\ req[w].at = "insert"
    /\ \/ /\ req[w].code \in Codes(req[w].kind)
          /\ req' = [req EXCEPT ![w] = Retry(w)]
          /\ UNCHANGED <<party, contested>>
       \/ /\ req[w].code \notin Codes(req[w].kind)
          /\ \E p \in Fresh :
                /\ party' = [q \in DOMAIN party \cup {p} |-> IF q = p THEN NewParty(w) ELSE party[q]]
                /\ req' = [req EXCEPT ![w] = Added(w, p)]
          /\ Contested(w, req[w].credit)
    /\ UNCHANGED <<contract, unchecked>>

-----------------------------------------------------------------------------
\* A customer is deleted when no contract is its own, a supplier at any time.
RemoveCustomer(w, p) ==
    /\ p \in Visible("customer")
    /\ Start(w, [Idle EXCEPT !.at = "count", !.op = "remove", !.id = p])
    /\ UNCHANGED <<party, contract, unchecked, contested>>
RemoveSupplier(w, p) ==
    /\ p \in Visible("supplier")
    /\ Start(w, [Idle EXCEPT !.at = "hide", !.op = "remove", !.id = p])
    /\ UNCHANGED <<party, contract, unchecked, contested>>

ContractsOf(p) == {n \in DOMAIN contract : contract[n].customer = p /\ ~contract[n].deleted}

Count(w) ==
    /\ req[w].at = "count"
    /\ IF ContractsOf(req[w].id) # {} THEN Answer(w) ELSE GoTo(w, "hide")
    /\ UNCHANGED <<party, contract, unchecked, contested>>

Hide(w) ==
    /\ req[w].at = "hide"
    /\ party' = [party EXCEPT ![req[w].id].visible = FALSE]
    /\ unchecked' = IF \E v \in Worker : v # w /\ Involves(v, req[w].id)
                    THEN unchecked \cup {req[w].id} ELSE unchecked
    /\ Answer(w)
    /\ UNCHANGED <<contract, contested>>

\* approve judges a customer that is not approved yet.
ApproveRead(w, p) ==
    /\ p \in Visible("customer")
    /\ party[p].status # "APPROVED"
    /\ \E verdict \in Verdicts :
          Start(w, [Idle EXCEPT !.at = "judge", !.op = "approve", !.id = p, !.verdict = verdict])
    /\ UNCHANGED <<party, contract, unchecked, contested>>

ApproveWrite(w) ==
    /\ req[w].at = "judge"
    /\ party' = [party EXCEPT ![req[w].id].status = req[w].verdict]
    /\ Answer(w)
    /\ UNCHANGED <<contract, unchecked, contested>>

-----------------------------------------------------------------------------
\* create takes a visible customer for a sale, any other contract takes any.
CreateContract(w) ==
    /\ \E n \in Contract, p \in OfKind("customer"), sales \in BOOLEAN :
          Start(w, [Idle EXCEPT !.at = "find", !.op = "create contract", !.no = n, !.id = p,
                                !.sales = sales, !.new = TRUE])
    /\ UNCHANGED <<party, contract, unchecked, contested>>

Find(w) ==
    /\ req[w].at = "find"
    /\ IF req[w].sales /\ ~party[req[w].id].visible
       THEN Answer(w)
       ELSE req' = [req EXCEPT ![w].at = "sync", ![w].name = party[req[w].id].name]
    /\ UNCHANGED <<party, contract, unchecked, contested>>

\* update shows the customer of a sale again; another customer has to be visible.
UpdateContract(w, n) ==
    /\ n \in DOMAIN contract
    /\ ~contract[n].deleted
    /\ \E p \in OfKind("customer") \cup {None}, type \in BOOLEAN \cup {None} :
          LET sales == IF type = None THEN contract[n].sales ELSE type
              current == contract[n].customer
          IN  Start(w, [Idle EXCEPT !.at = CASE p # None -> "find"
                                             [] p = None /\ sales -> "seen"
                                             [] OTHER -> "sync",
                                    !.op = "update contract", !.no = n, !.sales = sales,
                                    !.id = IF p # None THEN p ELSE current,
                                    !.name = party[current].name,
                                    !.customer = p, !.type = type])
    /\ UNCHANGED <<party, contract, unchecked, contested>>

SeenHidden(w) ==
    /\ req[w].at = "seen"
    /\ GoTo(w, "sync")
    /\ UNCHANGED <<party, contract, unchecked, contested>>
Seen(w) ==
    /\ req[w].at = "seen"
    /\ GoTo(w, IF party[req[w].id].visible THEN "sync" ELSE "restore")
    /\ UNCHANGED <<party, contract, unchecked, contested>>

Restore(w) ==
    /\ req[w].at = "restore"
    /\ party' = [party EXCEPT ![req[w].id].visible = TRUE]
    /\ contested' = contested \cup ({party[req[w].id].credit} \ {None})
    /\ GoTo(w, "sync")
    /\ UNCHANGED <<contract, unchecked>>

\* The other side of what is no sale is a supplier, made up where there is none.
Sync(w) ==
    /\ req[w].at = "sync"
    /\ IF \/ req[w].sales
          \/ req[w].name \in req[w].synced /\ ~req[w].new
          \/ \E p \in Visible("supplier") : party[p].name = req[w].name
       THEN req' = [req EXCEPT ![w] = Synced(w)]
       ELSE req' = [req EXCEPT ![w].at = "code", ![w].kind = "supplier", ![w].tries = 0]
    /\ UNCHANGED <<party, contract, unchecked, contested>>

\* A contract that w writes while another request is about it, or while its
\* customer is about to be deleted, escapes the checks.
Overtaken(w, n, p) ==
    {m \in {n} : \E v \in Worker \ {w} : req[v].no = m}
        \cup {q \in {p} : \E v \in Worker : req[v].at = "hide" /\ req[v].id = q}

InsertContract(w) ==
    LET n == req[w].no
    IN  /\ req[w].at = "insert contract"
        /\ IF n \in DOMAIN contract
           THEN UNCHANGED <<contract, unchecked>>
           ELSE /\ contract' = [m \in DOMAIN contract \cup {n} |->
                                   IF m = n THEN [customer |-> req[w].id, sales |-> req[w].sales,
                                                  deleted |-> FALSE]
                                   ELSE contract[m]]
                /\ unchecked' = unchecked \cup Overtaken(w, n, req[w].id)
        /\ Answer(w)
        /\ UNCHANGED <<party, contested>>

WriteContract(w) ==
    LET n == req[w].no
        row == contract[n]
        written == [customer |-> IF req[w].customer = None THEN row.customer ELSE req[w].customer,
                    sales |-> IF req[w].type = None THEN row.sales ELSE req[w].type,
                    deleted |-> row.deleted /\ ~req[w].undelete]
    IN  /\ req[w].at = "write contract"
        /\ contract' = [contract EXCEPT ![n] = written]
        /\ unchecked' = unchecked \cup Overtaken(w, n, written.customer)
        /\ Answer(w)
        /\ UNCHANGED <<party, contested>>

RemoveContract(w, n) ==
    /\ n \in DOMAIN contract
    /\ ~contract[n].deleted
    /\ Start(w, [Idle EXCEPT !.at = "remove contract", !.op = "remove contract", !.no = n])
    /\ UNCHANGED <<party, contract, unchecked, contested>>

RemoveContractWrite(w) ==
    /\ req[w].at = "remove contract"
    /\ contract' = [contract EXCEPT ![req[w].no].deleted = TRUE]
    /\ Answer(w)
    /\ UNCHANGED <<party, unchecked, contested>>

-----------------------------------------------------------------------------
\* An import of contracts knows customers by name, and remembers those it used.
ImportContracts(w) ==
    /\ \E rows \in ContractBatches :
          Start(w, [Idle EXCEPT !.at = "row", !.op = "import contracts", !.rows = rows])
    /\ UNCHANGED <<party, contract, unchecked, contested>>

ContractInRow(w) ==
    LET row == Head(req[w].rows)
        known == req[w].named[row.name]
        asked == [req[w] EXCEPT !.kind = "customer", !.no = row.no, !.name = row.name,
                                !.sales = row.sales]
    IN  /\ req[w].at = "row"
        /\ req[w].op = "import contracts"
        /\ \/ /\ req[w].rows = <<>>
              /\ req' = [req EXCEPT ![w] = Idle]
              /\ UNCHANGED unchecked
           \/ /\ req[w].rows # <<>>
              /\ known = None
              /\ req' = [req EXCEPT ![w] = [asked EXCEPT !.at = "visible"]]
              /\ UNCHANGED unchecked
           \/ /\ req[w].rows # <<>>
              /\ known # None
              /\ req' = [req EXCEPT ![w] = [asked EXCEPT !.at = "sync", !.id = known]]
              /\ unchecked' = IF row.sales /\ ~party[known].visible
                              THEN unchecked \cup {known} ELSE unchecked
        /\ UNCHANGED <<party, contract, contested>>

FindVisible(w) ==
    /\ req[w].at = "visible"
    /\ \/ \E p \in Visible("customer") :
             /\ party[p].name = req[w].name
             /\ req' = [req EXCEPT ![w] = Chosen(w, p, "sync")]
       \/ /\ \A p \in Visible("customer") : party[p].name # req[w].name
          /\ GoTo(w, "hidden")
    /\ UNCHANGED <<party, contract, unchecked, contested>>

\* A customer that is not visible is taken as it is, and shown for a sale.
FindHidden(w) ==
    /\ req[w].at = "hidden"
    /\ LET hidden == {p \in OfKind("customer") \ Visible("customer") : party[p].name = req[w].name}
       IN  \/ \E p \in hidden :
                 req' = [req EXCEPT ![w] = Chosen(w, p, IF req[w].sales THEN "restore" ELSE "sync")]
           \/ /\ hidden = {}
              /\ req' = [req EXCEPT ![w].at = "code", ![w].tries = 0]
    /\ UNCHANGED <<party, contract, unchecked, contested>>

\* The contract is created, or what differs is written over it.
Upsert(w) ==
    LET n == req[w].no
        row == contract[n]
        other == [req[w] EXCEPT !.at = "write contract",
                                !.customer = IF row.customer = req[w].id THEN None ELSE req[w].id,
                                !.type = IF row.sales = req[w].sales THEN None ELSE req[w].sales,
                                !.undelete = row.deleted]
    IN  /\ req[w].at = "upsert"
        /\ req' = [req EXCEPT ![w] =
                      CASE n \notin DOMAIN contract -> [@ EXCEPT !.at = "find", !.new = TRUE]
                        [] n \in DOMAIN contract /\ row = [customer |-> req[w].id,
                              sales |-> req[w].sales, deleted |-> FALSE] -> Done(w)
                        [] OTHER -> other]
        /\ UNCHANGED <<party, contract, unchecked, contested>>

\* A statement fails: the row of an import is refused, or the request; or the
\* process restarts and ends an import as well.
Fail(w) ==
    /\ req[w].at # "idle"
    /\ \/ req[w].at # "row" /\ Answer(w)
       \/ Importing(w) /\ req' = [req EXCEPT ![w] = Idle]
    /\ UNCHANGED <<party, contract, unchecked, contested>>

-----------------------------------------------------------------------------
Init ==
    /\ party = [p \in {} |-> None]
    /\ contract = [n \in {} |-> None]
    /\ req = [w \in Worker |-> Idle]
    /\ unchecked = {}
    /\ contested = {}

AskForParty(w) ==
    \/ CreateCustomer(w) \/ EditCustomer(w) \/ ImportCustomers(w)
    \/ CreateSupplier(w) \/ EditSupplier(w) \/ ImportSuppliers(w)
    \/ \E p \in Party : RemoveCustomer(w, p) \/ RemoveSupplier(w, p) \/ ApproveRead(w, p)

AskForContract(w) ==
    \/ CreateContract(w) \/ ImportContracts(w)
    \/ \E n \in Contract : UpdateContract(w, n) \/ RemoveContract(w, n)

Step(w) ==
    \/ Row(w) \/ ByCode(w) \/ ByCredit(w) \/ Duplicate(w) \/ Write(w) \/ Generate(w) \/ Insert(w)
    \/ Count(w) \/ Hide(w) \/ ApproveWrite(w)
    \/ Find(w) \/ Seen(w) \/ Restore(w) \/ Sync(w)
    \/ InsertContract(w) \/ WriteContract(w) \/ RemoveContractWrite(w)
    \/ ContractInRow(w) \/ FindVisible(w) \/ FindHidden(w) \/ Upsert(w)

Next == \E w \in Worker : AskForParty(w) \/ AskForContract(w) \/ Step(w) \/ Fail(w)

Spec == Init /\ [][Next]_vars

-----------------------------------------------------------------------------
(***************************************************************************)
(* Properties.                                                             *)
(***************************************************************************)

\* The customer of a sale is a visible one, whichever of create, update and
\* import made the contract a sale and whatever was deleted before; unless one
\* request overtook the checks of another, or an import took from its memory a
\* customer that it had used for something else (remove, create, update,
\* ensureImportCustomerByDeps).
CustomerKnown ==
    \A n \in DOMAIN contract \ unchecked :
        contract[n].sales /\ ~contract[n].deleted /\ contract[n].customer \notin unchecked
            => party[contract[n].customer].visible

\* Visible customers, and visible suppliers, have a credit code each, if no two
\* requests about one code overlapped and no contract brought a deleted
\* customer back (create, update, importFile).
CreditUnlessContested ==
    \A kind \in Kind : \A p, q \in Visible(kind) :
        p # q /\ party[p].credit = party[q].credit => party[p].credit \in contested \cup {None}

=============================================================================
