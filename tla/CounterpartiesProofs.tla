------------------------ MODULE CounterpartiesProofs -------------------------
(***************************************************************************)
(* The customer of a sale is visible, and credit codes are unique, for any *)
(* number of handlers, parties and contracts.                              *)
(*                                                                         *)
(* A handler finds a visible customer for a sale long before it writes the *)
(* contract, and one that deletes the customer counts the contracts before *)
(* it hides it.  What each has found stays true, or the party is           *)
(* unchecked.  Credit codes and types, which come after, do not matter for *)
(* that.                                                                   *)
(***************************************************************************)
EXTENDS Counterparties, TLAPS, SequenceTheorems, FiniteSetTheorems

Fields == DOMAIN Idle
Columns == {"kind", "name", "credit", "code", "status", "visible"}
Customers == OfKind("customer")

\* Whose contracts are whose, whatever else the rows hold.
Tables ==
    /\ DOMAIN party \subseteq Party
    /\ \A p \in DOMAIN party : DOMAIN party[p] = Columns
    /\ DOMAIN contract \subseteq Contract
    /\ \A n \in DOMAIN contract :
          /\ DOMAIN contract[n] = {"customer", "sales", "deleted"}
          /\ contract[n].customer \in Customers
          /\ contract[n].sales \in BOOLEAN

-----------------------------------------------------------------------------
\* Where a handler has chosen the customer of its contract, and where it is
\* still looking for one.
HasCustomer(r) ==
    \/ r.at \in {"find", "seen", "restore", "sync", "upsert", "insert contract", "write contract"}
    \/ r.at \in {"code", "insert"} /\ r.no # None /\ r.kind # "customer"
Looking(r) ==
    \/ r.at \in {"visible", "hidden"}
    \/ r.at \in {"code", "insert"} /\ r.no # None /\ r.kind = "customer"

\* The request of a handler by itself.
Shape(r) ==
    /\ DOMAIN r = Fields
    /\ DOMAIN r.named = Name
    /\ r.op = "import contracts" =>
          r.rows \in Seq(ContractInput) /\ (r.at \notin {"row", "idle"} => r.rows # <<>>)
    /\ r.no # None => HasCustomer(r) \/ Looking(r) \/ r.at = "remove contract"
    /\ HasCustomer(r) =>
          /\ r.no \in Contract
          /\ r.sales \in BOOLEAN
          /\ r.op \in {"create contract", "update contract", "import contracts"}
          /\ r.op = "create contract" => r.new
    /\ Looking(r) =>
          /\ r.no \in Contract
          /\ r.sales \in BOOLEAN
          /\ r.op = "import contracts"
          /\ r.kind = "customer"
    /\ (HasCustomer(r) /\ r.at \in {"code", "insert"}) => ~r.sales

\* What it has found of its customer: one that a sale may have.
Checked(r) ==
    /\ \A n \in Name : r.named[n] \in Customers \cup {None}
    /\ HasCustomer(r) => r.id \in Customers
    /\ (r.at \in {"sync", "upsert", "insert contract", "write contract"} /\ r.sales)
          => party[r.id].visible \/ r.id \in unchecked

\* What an update has found of the contract that it will write.
Updating(r) == r.at = "write contract" \/ (HasCustomer(r) /\ r.op = "update contract")
Known(r) ==
    Updating(r) =>
        /\ r.no \in DOMAIN contract
        /\ r.type \in {None, r.sales}
        /\ r.customer \in {None, r.id}
        /\ r.no \notin unchecked =>
              /\ r.type = None => contract[r.no].sales = r.sales
              /\ r.customer = None => contract[r.no].customer = r.id

\* What a removal has found of the contracts of the customer.
NotSold(p) ==
    \A n \in DOMAIN contract \ unchecked :
        contract[n].sales /\ ~contract[n].deleted /\ contract[n].customer = p => p \in unchecked
Counted(r) == r.at = "hide" => r.no = None /\ NotSold(r.id)

HandlerOk(r) == Shape(r) /\ Checked(r) /\ Known(r) /\ Counted(r)

Inv ==
    /\ Tables
    /\ CustomerKnown
    /\ DOMAIN req = Worker
    /\ \A r \in {req[w] : w \in Worker} : HandlerOk(r)

-----------------------------------------------------------------------------
LEMMA FieldsAre ==
    /\ Fields = {"at", "op", "kind", "id", "name", "credit", "code", "tries", "verdict", "no",
                 "sales", "new", "customer", "type", "undelete", "rows", "named", "synced"}
    /\ Columns = {"kind", "name", "credit", "code", "status", "visible"}
    /\ DOMAIN Idle = Fields
    /\ Idle.at = "idle" /\ Idle.no = None /\ Idle.rows = <<>>
    /\ Idle.named = [n \in Name |-> None]
    /\ Idle.customer = None /\ Idle.type = None /\ Idle.new = FALSE
BY DEF Fields, Columns, Idle

LEMMA NoneIs == None \notin Party /\ None \notin Contract /\ None \notin BOOLEAN
BY CounterpartyConstants

\* The customers there are stay, and those that are visible stay so.
Grows ==
    /\ DOMAIN party \subseteq DOMAIN party'
    /\ \A p \in DOMAIN party :
          /\ party'[p].kind = party[p].kind
          /\ party[p].visible => party'[p].visible
    /\ contract' = contract
    /\ unchecked \subseteq unchecked'

LEMMA CustomersStay ==
    ASSUME Grows
    PROVE  Customers \subseteq Customers'
BY DEF Grows, Customers, OfKind

LEMMA HandlerStays ==
    ASSUME Grows, NEW r, HandlerOk(r)
    PROVE  HandlerOk(r)'
<1>1. Shape(r)'
  BY DEF HandlerOk, Shape, HasCustomer, Looking
<1>2. Checked(r)'
  BY CustomersStay DEF HandlerOk, Checked, HasCustomer, Grows, Customers, OfKind
<1>3. Known(r)'
  BY DEF HandlerOk, Known, Updating, HasCustomer, Grows
<1>4. Counted(r)'
  BY DEF HandlerOk, Counted, NotSold, Grows
<1> QED
  BY <1>1, <1>2, <1>3, <1>4 DEF HandlerOk

\* Only the handler w goes on.
Moves(w) == DOMAIN req' = Worker /\ \A v \in Worker \ {w} : req'[v] = req[v]

\* One handler goes on, and the others find what they have found.
LEMMA Frame ==
    ASSUME Inv, Grows, NEW w \in Worker, NEW r, Moves(w), req'[w] = r,
           Tables', HandlerOk(r)'
    PROVE  Inv'
<1>1. DOMAIN req' = Worker /\ req'[w] = r /\ \A v \in Worker \ {w} : req'[v] = req[v]
  BY DEF Moves
<1>2. ASSUME NEW q \in {req'[v] : v \in Worker} PROVE HandlerOk(q)'
  <2>1. CASE q = r
    BY <2>1
  <2>2. CASE q # r
    <3>1. HandlerOk(q)
      BY <1>1, <2>2 DEF Inv
    <3> QED
      BY <3>1, HandlerStays
  <2> QED
    BY <2>1, <2>2
<1>3. CustomerKnown'
  BY DEF Inv, Tables, CustomerKnown, Grows, Customers, OfKind
<1> QED
  BY <1>1, <1>2, <1>3 DEF Inv

\* One handler goes on and no table changes.
LEMMA GoesOn ==
    ASSUME Inv, UNCHANGED <<party, contract, unchecked>>,
           NEW w \in Worker, NEW r, req' = [req EXCEPT ![w] = r], HandlerOk(r)
    PROVE  Inv'
<1>1. Grows
  BY DEF Grows
<1>2. Tables'
  BY DEF Inv, Tables, Customers, OfKind
<1>3. HandlerOk(r)'
  BY <1>1, HandlerStays
<1>4. Moves(w) /\ req'[w] = r
  BY DEF Inv, Moves
<1> QED
  BY <1>1, <1>2, <1>3, <1>4, Frame

-----------------------------------------------------------------------------
\* A handler that is not about a contract, or not yet.
LEMMA NoContract ==
    ASSUME NEW r, DOMAIN r = Fields, DOMAIN r.named = Name,
           \A n \in Name : r.named[n] \in Customers \cup {None},
           r.op = "import contracts" =>
              r.rows \in Seq(ContractInput) /\ (r.at \notin {"row", "idle"} => r.rows # <<>>),
           r.no = None,
           r.at \in {"idle", "row", "byCode", "byCredit", "duplicate", "code", "insert", "edit",
                     "count", "hide", "judge"},
           r.at = "hide" => NotSold(r.id)
    PROVE  HandlerOk(r)
BY DEF HandlerOk, Shape, Checked, Known, Counted, Updating, HasCustomer, Looking

LEMMA FromIdle ==
    ASSUME NEW at \in {"row", "duplicate", "code", "edit", "count", "hide", "judge"},
           NEW r, DOMAIN r = Fields, r.at = at, r.named = Idle.named, r.no = None,
           r.op # "import contracts", at = "hide" => NotSold(r.id)
    PROVE  HandlerOk(r)
<1>1. DOMAIN r.named = Name /\ \A n \in Name : r.named[n] = None
  BY FieldsAre
<1> QED
  BY <1>1, NoContract

\* An answered request, or a row of an import that is done.
LEMMA DoneOk ==
    ASSUME Inv, NEW w \in Worker, req[w].at \notin {"row", "idle"}, NEW r, r = Done(w)
    PROVE  HandlerOk(r)
<1>1. HandlerOk(req[w])
  BY DEF Inv
<1>2. CASE Importing(w)
  <2>1. /\ DOMAIN r = Fields /\ r.at = "row" /\ r.op = req[w].op /\ r.no = None
        /\ r.rows = Tail(req[w].rows) /\ r.named = req[w].named
    BY <1>2, FieldsAre DEF Done
  <2>2. req[w].op = "import contracts" => r.rows \in Seq(ContractInput)
    <3>1. req[w].op = "import contracts"
             => req[w].rows \in Seq(ContractInput) /\ req[w].rows # <<>>
      BY <1>1 DEF HandlerOk, Shape
    <3> QED
      BY <2>1, <3>1, HeadTailProperties
  <2>3. DOMAIN r.named = Name /\ \A n \in Name : r.named[n] \in Customers \cup {None}
    BY <1>1, <2>1 DEF HandlerOk, Shape, Checked
  <2> QED
    BY <2>1, <2>2, <2>3, NoContract
<1>3. CASE ~Importing(w)
  <2>1. /\ DOMAIN r = Fields /\ r.at = "idle" /\ r.no = None
        /\ r.rows = <<>> /\ r.named = [n \in Name |-> None]
    BY <1>3, FieldsAre DEF Done
  <2>2. r.rows \in Seq(ContractInput)
    BY <2>1
  <2>3. DOMAIN r.named = Name /\ \A n \in Name : r.named[n] = None
    BY <2>1
  <2> QED
    BY <2>1, <2>2, <2>3, NoContract
<1> QED
  BY <1>2, <1>3

LEMMA AnswerInv ==
    ASSUME Inv, Grows, Tables', NEW w \in Worker, req[w].at \notin {"row", "idle"}, Answer(w)
    PROVE  Inv'
<1>1. PICK r : r = Done(w)
  OBVIOUS
<1>2. HandlerOk(r)'
  BY <1>1, DoneOk, HandlerStays
<1>3. Moves(w) /\ req'[w] = r
  BY <1>1 DEF Inv, Moves, Answer
<1> QED
  BY <1>2, <1>3, Frame

\* Nothing that this proof is about changes.
LEMMA SameTables ==
    ASSUME Inv, UNCHANGED <<party, contract, unchecked>>
    PROVE  Grows /\ Tables'
BY DEF Inv, Tables, Grows, Customers, OfKind

\* A handler that goes on looking after a party.
LEMMA PartyGoesOn ==
    ASSUME Inv, UNCHANGED <<party, contract, unchecked>>, NEW w \in Worker, Moves(w),
           NEW r, r = req'[w], DOMAIN r = Fields, r.no = None,
           r.named = req[w].named, r.rows = req[w].rows, r.op = req[w].op,
           req[w].rows # <<>> \/ r.op # "import contracts",
           r.at \in {"idle", "row", "byCode", "byCredit", "duplicate", "code", "insert", "edit",
                     "count", "hide", "judge"},
           r.at = "hide" => NotSold(r.id)
    PROVE  Inv'
<1>1. HandlerOk(req[w])
  BY DEF Inv
<1>2. DOMAIN r.named = Name /\ \A n \in Name : r.named[n] \in Customers \cup {None}
  BY <1>1 DEF HandlerOk, Shape, Checked
<1>3. r.op = "import contracts" => r.rows \in Seq(ContractInput)
  BY <1>1 DEF HandlerOk, Shape
<1>4. HandlerOk(r)
  BY <1>2, <1>3, NoContract
<1>5. HandlerOk(r)'
  BY <1>4, SameTables, HandlerStays
<1> QED
  BY <1>5, SameTables, Frame

-----------------------------------------------------------------------------
LEMMA AskForPartyInv ==
    ASSUME Inv, NEW w \in Worker, AskForParty(w)
    PROVE  Inv'
<1> USE FieldsAre DEF Start
<1>1. ASSUME NEW kind \in Kind, Create(w, kind) PROVE Inv'
  <2>1. PICK name \in Name, credit \in Credit \cup {None} :
           req' = [req EXCEPT ![w] =
                      [Idle EXCEPT !.at = IF credit = None THEN "code" ELSE "duplicate",
                                   !.op = "create", !.kind = kind, !.name = name,
                                   !.credit = credit]]
    BY <1>1 DEF Create
  <2>2. PICK r : r = [Idle EXCEPT !.at = IF credit = None THEN "code" ELSE "duplicate",
                                  !.op = "create", !.kind = kind, !.name = name,
                                  !.credit = credit]
    OBVIOUS
  <2>3. r.at \in {"code", "duplicate"} /\ r.op = "create" /\ DOMAIN r = Fields
        /\ r.named = Idle.named /\ r.no = None
    BY <2>2
  <2>4. HandlerOk(r)
    BY <2>3, FromIdle
  <2> QED
    BY <1>1, <2>1, <2>2, <2>4, GoesOn DEF Create
<1>2. ASSUME NEW kind \in Kind, Edit(w, kind) PROVE Inv'
  <2>1. PICK p \in Visible(kind), name \in Name, credit \in Credit \cup {None, Unsent} :
           req' = [req EXCEPT ![w] =
                      [Idle EXCEPT !.at = IF credit \in {None, Unsent, party[p].credit}
                                          THEN "edit" ELSE "duplicate",
                                   !.op = "edit", !.kind = kind, !.id = p,
                                   !.name = name, !.credit = credit]]
    BY <1>2 DEF Edit
  <2>2. PICK r : r = [Idle EXCEPT !.at = IF credit \in {None, Unsent, party[p].credit}
                                         THEN "edit" ELSE "duplicate",
                                  !.op = "edit", !.kind = kind, !.id = p,
                                  !.name = name, !.credit = credit]
    OBVIOUS
  <2>3. r.at \in {"edit", "duplicate"} /\ r.op = "edit" /\ DOMAIN r = Fields
        /\ r.named = Idle.named /\ r.no = None
    BY <2>2
  <2>4. HandlerOk(r)
    BY <2>3, FromIdle
  <2> QED
    BY <1>2, <2>1, <2>2, <2>4, GoesOn DEF Edit
<1>3. ASSUME NEW kind \in Kind, ImportRows(w, kind) PROVE Inv'
  <2>1. PICK rows, r :
           /\ r = [Idle EXCEPT !.at = "row", !.op = "import", !.kind = kind, !.rows = rows]
           /\ req' = [req EXCEPT ![w] = r]
    BY <1>3 DEF ImportRows
  <2>2. HandlerOk(r)
    BY <2>1, FromIdle
  <2> QED
    BY <1>3, <2>1, <2>2, GoesOn DEF ImportRows
<1>4. ASSUME NEW p \in Party, RemoveCustomer(w, p) PROVE Inv'
  <2>1. PICK r : /\ r = [Idle EXCEPT !.at = "count", !.op = "remove", !.id = p]
                 /\ req' = [req EXCEPT ![w] = r]
    BY <1>4 DEF RemoveCustomer
  <2>2. HandlerOk(r)
    BY <2>1, FromIdle
  <2> QED
    BY <1>4, <2>1, <2>2, GoesOn DEF RemoveCustomer
<1>5. ASSUME NEW p \in Party, RemoveSupplier(w, p) PROVE Inv'
  <2>1. PICK r : /\ r = [Idle EXCEPT !.at = "hide", !.op = "remove", !.id = p]
                 /\ req' = [req EXCEPT ![w] = r]
    BY <1>5 DEF RemoveSupplier
  <2>2. NotSold(p)
    BY <1>5 DEF RemoveSupplier, Visible, NotSold, Inv, Tables, Customers, OfKind
  <2>3. HandlerOk(r)
    BY <2>1, <2>2, FromIdle
  <2> QED
    BY <1>5, <2>1, <2>3, GoesOn DEF RemoveSupplier
<1>6. ASSUME NEW p \in Party, ApproveRead(w, p) PROVE Inv'
  <2>1. PICK verdict, r :
           /\ r = [Idle EXCEPT !.at = "judge", !.op = "approve", !.id = p, !.verdict = verdict]
           /\ req' = [req EXCEPT ![w] = r]
    BY <1>6 DEF ApproveRead
  <2>2. HandlerOk(r)
    BY <2>1, FromIdle
  <2> QED
    BY <1>6, <2>1, <2>2, GoesOn DEF ApproveRead
<1> QED
  BY <1>1, <1>2, <1>3, <1>4, <1>5, <1>6
  DEF AskForParty, CreateCustomer, CreateSupplier, EditCustomer, EditSupplier,
      ImportCustomers, ImportSuppliers, Kind

LEMMA UpdateContractInv ==
    ASSUME Inv, NEW w \in Worker, NEW n \in Contract, UpdateContract(w, n)
    PROVE  Inv'
<1>1. /\ n \in DOMAIN contract
      /\ UNCHANGED <<party, contract, unchecked>>
  BY DEF UpdateContract
<1>2. PICK p, type, sales :
         /\ p \in Customers \cup {None} /\ type \in BOOLEAN \cup {None}
         /\ sales = IF type = None THEN contract[n].sales ELSE type
         /\ Start(w, [Idle EXCEPT !.at = CASE p # None -> "find"
                                           [] p = None /\ sales -> "seen"
                                           [] OTHER -> "sync",
                                  !.op = "update contract", !.no = n, !.sales = sales,
                                  !.id = IF p # None THEN p ELSE contract[n].customer,
                                  !.name = party[contract[n].customer].name,
                                  !.customer = p, !.type = type])
  BY Zenon DEF UpdateContract, Customers
<1>3. PICK r : r = [Idle EXCEPT !.at = CASE p # None -> "find"
                                         [] p = None /\ sales -> "seen"
                                         [] OTHER -> "sync",
                                !.op = "update contract", !.no = n, !.sales = sales,
                                !.id = IF p # None THEN p ELSE contract[n].customer,
                                !.name = party[contract[n].customer].name,
                                !.customer = p, !.type = type]
  OBVIOUS
<1>4. req' = [req EXCEPT ![w] = r]
  BY <1>2, <1>3 DEF Start
<1>5. /\ DOMAIN r = Fields /\ r.named = [m \in Name |-> None] /\ r.op = "update contract"
      /\ r.no = n /\ r.sales = sales /\ r.customer = p /\ r.type = type
      /\ r.id = IF p # None THEN p ELSE contract[n].customer
  BY <1>3, FieldsAre
<1>6. /\ r.at \in {"find", "seen", "sync"}
      /\ r.at = "sync" => ~sales
  BY <1>3, FieldsAre
<1>7. r.id \in Customers
  BY <1>1, <1>2, <1>5 DEF Inv, Tables
<1>8. Shape(r)
  <2>1. sales \in BOOLEAN
    BY <1>1, <1>2 DEF Inv, Tables
  <2> QED
    BY <1>5, <1>6, <2>1 DEF Shape, HasCustomer, Looking
<1>9. Checked(r)
  BY <1>5, <1>6, <1>7 DEF Checked, HasCustomer
<1>10. Known(r)
  BY <1>1, <1>2, <1>5 DEF Known
<1>11. Counted(r)
  BY <1>6 DEF Counted
<1> QED
  BY <1>1, <1>4, <1>8, <1>9, <1>10, <1>11, GoesOn DEF HandlerOk

LEMMA AskForContractInv ==
    ASSUME Inv, NEW w \in Worker, AskForContract(w)
    PROVE  Inv'
<1> USE FieldsAre DEF Start
<1>1. CASE CreateContract(w)
  <2>1. PICK n \in Contract, p \in OfKind("customer"), sales \in BOOLEAN :
           Start(w, [Idle EXCEPT !.at = "find", !.op = "create contract", !.no = n, !.id = p,
                                 !.sales = sales, !.new = TRUE])
    BY <1>1, Zenon DEF CreateContract
  <2>2. PICK r : r = [Idle EXCEPT !.at = "find", !.op = "create contract", !.no = n, !.id = p,
                                  !.sales = sales, !.new = TRUE]
    OBVIOUS
  <2>3. /\ DOMAIN r = Fields /\ r.at = "find" /\ r.op = "create contract" /\ r.no = n
        /\ r.id = p /\ r.new /\ r.sales = sales /\ r.named = [m \in Name |-> None]
    BY <2>2
  <2>4. HandlerOk(r)
    BY <2>1, <2>3
    DEF HandlerOk, Shape, Checked, Known, Updating, Counted, HasCustomer, Looking, Customers
  <2> QED
    BY <1>1, <2>1, <2>2, <2>4, GoesOn DEF CreateContract
<1>2. CASE ImportContracts(w)
  <2>1. PICK rows, r :
           /\ rows \in ContractBatches
           /\ r = [Idle EXCEPT !.at = "row", !.op = "import contracts", !.rows = rows]
           /\ req' = [req EXCEPT ![w] = r]
    BY <1>2 DEF ImportContracts
  <2>2. /\ DOMAIN r = Fields /\ r.at = "row" /\ r.op = "import contracts" /\ r.no = None
        /\ r.rows \in Seq(ContractInput) /\ r.named = [m \in Name |-> None]
    BY <2>1, CounterpartyConstants
  <2>3. DOMAIN r.named = Name /\ \A n \in Name : r.named[n] = None
    BY <2>2
  <2>4. HandlerOk(r)
    BY <2>2, <2>3, NoContract
  <2> QED
    BY <1>2, <2>1, <2>4, GoesOn DEF ImportContracts
<1>3. ASSUME NEW n \in Contract, RemoveContract(w, n) PROVE Inv'
  <2>1. PICK r : /\ r = [Idle EXCEPT !.at = "remove contract", !.op = "remove contract", !.no = n]
                 /\ req' = [req EXCEPT ![w] = r]
    BY <1>3 DEF RemoveContract
  <2>2. /\ DOMAIN r = Fields /\ r.at = "remove contract" /\ r.op = "remove contract"
        /\ r.no = n /\ r.named = [m \in Name |-> None]
    BY <2>1
  <2>3. HandlerOk(r)
    BY <2>2 DEF HandlerOk, Shape, Checked, Known, Updating, Counted, HasCustomer, Looking
  <2> QED
    BY <1>3, <2>1, <2>3, GoesOn DEF RemoveContract
<1> QED
  BY <1>1, <1>2, <1>3, UpdateContractInv DEF AskForContract

-----------------------------------------------------------------------------
\* Steps of a handler that looks after a party.
LEMMA RowInv ==
    ASSUME Inv, NEW w \in Worker, Row(w)
    PROVE  Inv'
<1>0. HandlerOk(req[w]) /\ req[w].at = "row" /\ req[w].op = "import"
  BY DEF Inv, Row
<1>1. CASE req[w].rows = <<>>
  <2>1. PICK r : r = Idle
    OBVIOUS
  <2>2. DOMAIN r.named = Name /\ \A n \in Name : r.named[n] = None
    BY <2>1, FieldsAre
  <2>3. r.rows \in Seq(ContractInput)
    BY <2>1, FieldsAre
  <2>4. HandlerOk(r)
    BY <2>1, <2>2, <2>3, FieldsAre, NoContract
  <2> QED
    BY <1>1, <2>1, <2>4, GoesOn DEF Row
<1>2. CASE req[w].rows # <<>>
  <2>1. DOMAIN req[w] = Fields /\ req[w].no = None
    BY <1>0 DEF HandlerOk, Shape, HasCustomer, Looking
  <2>2. PICK r : r = req'[w]
    OBVIOUS
  <2>3. Moves(w)
    BY <1>2 DEF Row, Moves, Inv
  <2>4. /\ r.at \in {"byCode", "byCredit", "code"} /\ DOMAIN r = Fields
        /\ r.no = req[w].no /\ r.named = req[w].named /\ r.rows = req[w].rows
        /\ r.op = req[w].op
    BY <1>2, <2>1, <2>2, FieldsAre DEF Row, Inv
  <2> QED
    BY <1>2, <2>1, <2>2, <2>3, <2>4, PartyGoesOn DEF Row
<1> QED
  BY <1>1, <1>2

LEMMA LookUpInv ==
    ASSUME Inv, NEW w \in Worker, ByCode(w) \/ ByCredit(w) \/ Duplicate(w)
    PROVE  Inv'
<1>1. HandlerOk(req[w]) /\ req[w].at \in {"byCode", "byCredit", "duplicate"}
  BY DEF Inv, ByCode, ByCredit, Duplicate
<1>2. /\ req[w].no = None /\ DOMAIN req[w] = Fields
      /\ req[w].rows # <<>> \/ req[w].op # "import contracts"
  BY <1>1 DEF HandlerOk, Shape, HasCustomer, Looking
<1>3. UNCHANGED <<party, contract, unchecked>>
  BY DEF ByCode, ByCredit, Duplicate
<1>4. CASE Duplicate(w) /\ Answer(w)
  BY <1>1, <1>3, <1>4, SameTables, AnswerInv
<1>5. CASE ~(Duplicate(w) /\ Answer(w))
  <2>1. Moves(w)
    BY <1>5 DEF ByCode, ByCredit, Duplicate, GoTo, Moves, Inv
  <2>2. PICK r : r = req'[w]
    OBVIOUS
  <2>3. /\ r.at \in {"edit", "duplicate", "byCredit", "insert", "code"} /\ DOMAIN r = Fields
        /\ r.no = req[w].no /\ r.named = req[w].named /\ r.rows = req[w].rows
        /\ r.op = req[w].op
    <3>1. CASE Duplicate(w)
      BY <1>2, <1>5, <2>2, <3>1, FieldsAre DEF Duplicate, GoTo, Inv
    <3>2. CASE ByCode(w)
      <4>1. CASE \E p : req' = [req EXCEPT ![w].id = p,
                                  ![w].at = IF req[w].credit \in {None, party[p].credit}
                                            THEN "edit" ELSE "duplicate"]
        <5>1. PICK p : req' = [req EXCEPT ![w].id = p,
                                  ![w].at = IF req[w].credit \in {None, party[p].credit}
                                            THEN "edit" ELSE "duplicate"]
          BY <4>1
        <5>2. r = [req[w] EXCEPT !.id = p,
                                 !.at = IF req[w].credit \in {None, party[p].credit}
                                        THEN "edit" ELSE "duplicate"]
          BY <2>2, <5>1 DEF Inv
        <5> QED
          BY <1>2, <5>2, FieldsAre
      <4>2. CASE GoTo(w, IF req[w].credit # None THEN "byCredit" ELSE "insert")
        BY <1>2, <2>2, <4>2, FieldsAre DEF GoTo, Inv
      <4> QED
        BY <3>2, <4>1, <4>2 DEF ByCode
    <3>3. CASE ByCredit(w)
      <4>1. CASE \E p : req' = [req EXCEPT ![w].id = p, ![w].at = "edit"]
        <5>1. PICK p : req' = [req EXCEPT ![w].id = p, ![w].at = "edit"]
          BY <4>1
        <5>2. r = [req[w] EXCEPT !.id = p, !.at = "edit"]
          BY <2>2, <5>1 DEF Inv
        <5> QED
          BY <1>2, <5>2, FieldsAre
      <4>2. CASE GoTo(w, IF req[w].code # None THEN "insert" ELSE "code")
        BY <1>2, <2>2, <4>2, FieldsAre DEF GoTo, Inv
      <4> QED
        BY <3>3, <4>1, <4>2 DEF ByCredit
    <3> QED
      BY <3>1, <3>2, <3>3
  <2> QED
    BY <1>2, <1>3, <2>1, <2>2, <2>3, PartyGoesOn
<1> QED
  BY <1>4, <1>5

\* Writes to a party that keep what it is and whether it is visible.
LEMMA WriteInv ==
    ASSUME Inv, NEW w \in Worker, Write(w) \/ ApproveWrite(w)
    PROVE  Inv'
<1>1. req[w].at \notin {"row", "idle"} /\ Answer(w) /\ UNCHANGED <<contract, unchecked>>
  BY DEF Write, ApproveWrite
<1>2. /\ DOMAIN party' = DOMAIN party
      /\ \A p \in DOMAIN party :
            /\ DOMAIN party'[p] = Columns
            /\ party'[p].kind = party[p].kind
            /\ party'[p].visible = party[p].visible
  BY FieldsAre DEF Write, ApproveWrite, Inv, Tables
<1>3. Grows
  BY <1>1, <1>2 DEF Grows
<1>4. Tables'
  BY <1>1, <1>2 DEF Inv, Tables, Customers, OfKind
<1> QED
  BY <1>1, <1>3, <1>4, AnswerInv

LEMMA CountInv ==
    ASSUME Inv, NEW w \in Worker, Count(w)
    PROVE  Inv'
<1>1. HandlerOk(req[w]) /\ req[w].at = "count" /\ UNCHANGED <<party, contract, unchecked>>
  BY DEF Inv, Count
<1>2. CASE Answer(w)
  BY <1>1, <1>2, SameTables, AnswerInv
<1>3. CASE ~Answer(w)
  <2>1. ContractsOf(req[w].id) = {} /\ GoTo(w, "hide")
    BY <1>3 DEF Count
  <2>2. Moves(w)
    BY <2>1 DEF GoTo, Moves, Inv
  <2>3. PICK r : r = req'[w]
    OBVIOUS
  <2>4. /\ req[w].no = None /\ DOMAIN req[w] = Fields
        /\ req[w].rows # <<>> \/ req[w].op # "import contracts"
    BY <1>1 DEF HandlerOk, Shape, HasCustomer, Looking
  <2>5. r = [req[w] EXCEPT !.at = "hide"]
    BY <2>1, <2>3 DEF GoTo, Inv
  <2>6. NotSold(req[w].id)
    BY <2>1 DEF ContractsOf, NotSold
  <2>7. /\ DOMAIN r = Fields /\ r.at = "hide" /\ r.no = None /\ r.id = req[w].id
        /\ r.named = req[w].named /\ r.rows = req[w].rows /\ r.op = req[w].op
    BY <2>4, <2>5, FieldsAre
  <2> QED
    BY <1>1, <2>2, <2>3, <2>4, <2>6, <2>7, PartyGoesOn
<1> QED
  BY <1>2, <1>3

\* The customer that is hidden has no sales, or handlers that may still write
\* some.
LEMMA HideInv ==
    ASSUME Inv, NEW w \in Worker, Hide(w)
    PROVE  Inv'
<1> DEFINE p == req[w].id
<1>1. /\ HandlerOk(req[w]) /\ req[w].at = "hide" /\ Answer(w) /\ contract' = contract
      /\ unchecked' = IF \E v \in Worker : v # w /\ Involves(v, p)
                      THEN unchecked \cup {p} ELSE unchecked
  BY DEF Inv, Hide
<1>2. /\ DOMAIN party' = DOMAIN party
      /\ \A q \in DOMAIN party :
            /\ DOMAIN party'[q] = Columns
            /\ party'[q].kind = party[q].kind
            /\ q # p => party'[q].visible = party[q].visible
  BY FieldsAre DEF Hide, Inv, Tables
<1>3. Tables' /\ Customers' = Customers
  BY <1>1, <1>2 DEF Inv, Tables, Customers, OfKind
<1>4. CustomerKnown'
  <2>1. NotSold(p)
    BY <1>1 DEF HandlerOk, Counted
  <2> QED
    BY <1>1, <1>2, <2>1 DEF Inv, Tables, CustomerKnown, NotSold, Customers, OfKind
<1>5. PICK r : r = Done(w)
  OBVIOUS
<1>6. Moves(w) /\ req'[w] = r
  BY <1>1, <1>5 DEF Inv, Moves, Answer
<1>7. ASSUME NEW q, HandlerOk(q),
             (q.no # None /\ q.id = p) => p \in unchecked'
      PROVE  HandlerOk(q)'
  <2>1. Shape(q)'
    BY <1>7 DEF HandlerOk, Shape, HasCustomer, Looking
  <2>2. Checked(q)'
    <3>1. HasCustomer(q) => q.no # None
      BY <1>7, NoneIs DEF HandlerOk, Shape
    <3>2. HasCustomer(q) => (party[q.id].visible => party'[q.id].visible \/ q.id \in unchecked')
      BY <1>2, <1>7, <3>1 DEF HandlerOk, Checked, Customers, OfKind
    <3> QED
      BY <1>1, <1>3, <1>7, <3>2 DEF HandlerOk, Checked, HasCustomer
  <2>3. Known(q)'
    BY <1>1, <1>7 DEF HandlerOk, Known, Updating, HasCustomer
  <2>4. Counted(q)'
    BY <1>1, <1>7 DEF HandlerOk, Counted, NotSold
  <2> QED
    BY <2>1, <2>2, <2>3, <2>4 DEF HandlerOk
<1>8. ASSUME NEW q \in {req'[v] : v \in Worker} PROVE HandlerOk(q)'
  <2>1. CASE q = r
    <3>1. HandlerOk(q)
      BY <1>1, <1>5, <2>1, DoneOk
    <3>2. q.no = None
      BY <1>5, <2>1, FieldsAre DEF Done
    <3> QED
      BY <1>7, <3>1, <3>2
  <2>2. CASE q # r
    <3>1. PICK v \in Worker \ {w} : q = req[v]
      BY <1>6, <2>2 DEF Moves
    <3>2. HandlerOk(q)
      BY <3>1 DEF Inv
    <3>3. (q.no # None /\ q.id = p) => p \in unchecked'
      BY <1>1, <3>1 DEF Involves
    <3> QED
      BY <1>7, <3>2, <3>3
  <2> QED
    BY <2>1, <2>2
<1> QED
  BY <1>3, <1>4, <1>6, <1>8 DEF Inv, Moves

-----------------------------------------------------------------------------
\* A handler that stays where it is with its contract and its customer.
LEMMA StaysOk ==
    ASSUME NEW q, HandlerOk(q), NEW r, DOMAIN r = Fields,
           r.op = q.op, r.kind = q.kind, r.no = q.no, r.id = q.id, r.sales = q.sales,
           r.new = q.new, r.customer = q.customer, r.type = q.type, r.rows = q.rows,
           r.named = q.named,
           \/ q.at \in {"code", "insert"} /\ r.at \in {"code", "insert"}
           \/ q.at \in {"find", "seen", "restore"} /\ r.at \in {"seen", "restore", "sync"}
           \/ q.at = "visible" /\ r.at = "hidden",
           (r.at = "sync" /\ r.sales) => party[r.id].visible \/ r.id \in unchecked
    PROVE  HandlerOk(r)
<1>1. /\ HasCustomer(r) <=> HasCustomer(q)
      /\ Looking(r) <=> Looking(q)
  BY DEF HasCustomer, Looking
<1>2. Shape(r)
  BY <1>1 DEF HandlerOk, Shape
<1>3. Checked(r)
  BY <1>1 DEF HandlerOk, Checked
<1>4. Known(r)
  BY <1>1 DEF HandlerOk, Known, Updating
<1>5. Counted(r)
  BY DEF Counted
<1> QED
  BY <1>2, <1>3, <1>4, <1>5 DEF HandlerOk

\* The other side of the contract is taken care of.
LEMMA SyncedOk ==
    ASSUME NEW w \in Worker, HandlerOk(req[w]), HasCustomer(req[w]),
           req[w].at \in {"sync", "code", "insert"}, NEW r, r = Synced(w)
    PROVE  HandlerOk(r)
<1> DEFINE q == req[w]
<1>1. /\ DOMAIN r = Fields
      /\ r.op = q.op /\ r.no = q.no /\ r.id = q.id /\ r.sales = q.sales /\ r.new = q.new
      /\ r.customer = q.customer /\ r.type = q.type /\ r.rows = q.rows /\ r.named = q.named
  BY FieldsAre DEF Synced, HandlerOk, Shape
<1>2. /\ r.at \in {"insert contract", "upsert", "write contract"}
      /\ r.at = "upsert" => Importing(w)
      /\ r.at = "write contract" => ~q.new /\ ~Importing(w)
  BY FieldsAre DEF Synced, HandlerOk, Shape
<1>3. q.sales => party[q.id].visible \/ q.id \in unchecked
  BY DEF HandlerOk, Shape, Checked
<1>4. HasCustomer(r) /\ ~Looking(r)
  BY <1>2 DEF HasCustomer, Looking
<1>5. Shape(r)
  BY <1>1, <1>2, <1>4 DEF HandlerOk, Shape
<1>6. Checked(r)
  BY <1>1, <1>3 DEF HandlerOk, Checked
<1>7. Updating(r) => Updating(q)
  BY <1>1, <1>2 DEF Updating, HandlerOk, Shape, Importing
<1>8. Known(r)
  BY <1>1, <1>7 DEF HandlerOk, Known
<1>9. Counted(r)
  BY <1>2 DEF Counted
<1> QED
  BY <1>5, <1>6, <1>8, <1>9 DEF HandlerOk

LEMMA GenerateInv ==
    ASSUME Inv, NEW w \in Worker, Generate(w)
    PROVE  Inv'
<1>1. HandlerOk(req[w]) /\ req[w].at = "code" /\ UNCHANGED <<party, contract, unchecked>>
  BY DEF Inv, Generate
<1>2. PICK r : r = req'[w]
  OBVIOUS
<1>3. r = [req[w] EXCEPT !.at = "insert", !.code = NextCode(req[w].kind)] /\ Moves(w)
  BY <1>2 DEF Generate, Inv, Moves
<1>4. /\ DOMAIN r = Fields /\ r.at = "insert"
      /\ r.op = req[w].op /\ r.kind = req[w].kind /\ r.no = req[w].no /\ r.id = req[w].id
      /\ r.sales = req[w].sales /\ r.new = req[w].new /\ r.customer = req[w].customer
      /\ r.type = req[w].type /\ r.rows = req[w].rows /\ r.named = req[w].named
  BY <1>1, <1>3, FieldsAre DEF HandlerOk, Shape
<1>5. HandlerOk(r)
  BY <1>1, <1>4, StaysOk
<1> QED
  BY <1>1, <1>2, <1>3, <1>5, SameTables, HandlerStays, Frame

LEMMA RetryInv ==
    ASSUME Inv, NEW w \in Worker, req[w].at = "insert", req' = [req EXCEPT ![w] = Retry(w)],
           UNCHANGED <<party, contract, unchecked>>
    PROVE  Inv'
<1>1. HandlerOk(req[w])
  BY DEF Inv
<1>2. CASE Answer(w)
  BY <1>2, SameTables, AnswerInv
<1>3. CASE ~Answer(w)
  <2>1. PICK r : r = [req[w] EXCEPT !.at = "code", !.tries = @ + 1]
    OBVIOUS
  <2>2. req' = [req EXCEPT ![w] = r]
    BY <1>3, <2>1 DEF Retry, Answer
  <2>3. /\ DOMAIN r = Fields /\ r.at = "code"
        /\ r.op = req[w].op /\ r.kind = req[w].kind /\ r.no = req[w].no /\ r.id = req[w].id
        /\ r.sales = req[w].sales /\ r.new = req[w].new /\ r.customer = req[w].customer
        /\ r.type = req[w].type /\ r.rows = req[w].rows /\ r.named = req[w].named
    BY <1>1, <2>1, FieldsAre DEF HandlerOk, Shape
  <2>4. HandlerOk(r)
    BY <1>1, <2>3, StaysOk
  <2> QED
    BY <2>2, <2>4, GoesOn
<1> QED
  BY <1>2, <1>3

\* The customer of a contract is found or made.
LEMMA ChosenOk ==
    ASSUME NEW w \in Worker, HandlerOk(req[w]), Looking(req[w]), NEW p \in Customers,
           NEW at \in {"sync", "restore"},
           (at = "sync" /\ req[w].sales) => party[p].visible \/ p \in unchecked,
           NEW r, r = Chosen(w, p, at)
    PROVE  HandlerOk(r)
<1> DEFINE q == req[w]
<1>1. /\ DOMAIN r = Fields /\ r.at = at /\ r.id = p
      /\ r.op = q.op /\ r.no = q.no /\ r.sales = q.sales /\ r.rows = q.rows
  BY FieldsAre DEF Chosen, HandlerOk, Shape
<1>2. /\ DOMAIN r.named = DOMAIN q.named
      /\ \A n \in Name : r.named[n] \in {q.named[n], p}
  <2>1. r.named = IF Importing(w) THEN [q.named EXCEPT ![q.name] = p] ELSE q.named
    BY FieldsAre DEF Chosen, HandlerOk, Shape
  <2> QED
    BY <2>1 DEF HandlerOk, Shape
<1>3. HasCustomer(r) /\ ~Looking(r)
  BY <1>1 DEF HasCustomer, Looking
<1>4. Shape(r)
  BY <1>1, <1>2, <1>3 DEF HandlerOk, Shape, Looking
<1>5. Checked(r)
  BY <1>1, <1>2 DEF HandlerOk, Checked
<1>6. Known(r)
  BY <1>1 DEF HandlerOk, Shape, Known, Updating
<1>7. Counted(r)
  BY <1>1 DEF Counted
<1> QED
  BY <1>4, <1>5, <1>6, <1>7 DEF HandlerOk

LEMMA NewPartyIs ==
    ASSUME NEW w \in Worker, NEW row, row = NewParty(w)
    PROVE  /\ DOMAIN row = Columns
           /\ row.kind = req[w].kind
           /\ (req[w].op # "import contracts" \/ req[w].sales) => row.visible
<1>1. PICK status : status = CASE req[w].kind = "supplier" -> None
                               [] req[w].kind = "customer" /\ req[w].op = "import" -> "APPROVED"
                               [] OTHER -> "PENDING"
  OBVIOUS
<1>2. PICK visible : visible = (req[w].kind = "supplier" \/ req[w].op # "import contracts"
                                  \/ req[w].sales)
  OBVIOUS
<1>3. row = [kind |-> req[w].kind, name |-> req[w].name, credit |-> req[w].credit,
             code |-> req[w].code, status |-> status, visible |-> visible]
  BY <1>1, <1>2, Zenon DEF NewParty
<1>4. DOMAIN row = Columns /\ row.kind = req[w].kind /\ row.visible = visible
  BY <1>3, FieldsAre
<1> QED
  BY <1>2, <1>4

LEMMA InsertInv ==
    ASSUME Inv, NEW w \in Worker, Insert(w)
    PROVE  Inv'
<1>1. HandlerOk(req[w]) /\ req[w].at = "insert" /\ UNCHANGED <<contract, unchecked>>
  BY DEF Inv, Insert
<1>2. CASE req' = [req EXCEPT ![w] = Retry(w)] /\ UNCHANGED party
  BY <1>1, <1>2, RetryInv
<1>3. ASSUME NEW p \in Fresh,
             party' = [x \in DOMAIN party \cup {p} |-> IF x = p THEN NewParty(w) ELSE party[x]],
             req' = [req EXCEPT ![w] = Added(w, p)]
      PROVE  Inv'
  <2>1. /\ p \notin DOMAIN party /\ p \in Party
        /\ DOMAIN party' = DOMAIN party \cup {p}
        /\ \A x \in DOMAIN party : party'[x] = party[x]
        /\ party'[p] = NewParty(w)
    BY <1>3 DEF Fresh
  <2>2. Grows
    BY <1>1, <2>1 DEF Grows
  <2>3. DOMAIN party'[p] = Columns /\ party'[p].kind = req[w].kind
    BY <2>1, NewPartyIs
  <2>4. Tables'
    BY <1>1, <2>1, <2>3 DEF Inv, Tables, Customers, OfKind
  <2>5. PICK r : r = Added(w, p)
    OBVIOUS
  <2>6. Moves(w) /\ req'[w] = r
    BY <1>3, <2>5 DEF Inv, Moves
  <2>7. CASE req[w].no = None
    <3>1. HandlerOk(r)
      BY <1>1, <2>5, <2>7, DoneOk DEF Added
    <3> QED
      BY <2>2, <2>4, <2>6, <3>1, HandlerStays, Frame
  <2>8. CASE req[w].no # None /\ req[w].kind = "customer"
    <3>1. Looking(req[w])
      BY <1>1, <2>8 DEF Looking
    <3>2. p \in Customers'
      BY <2>1, <2>3, <2>8 DEF Customers, OfKind
    <3>3. req[w].sales => party'[p].visible
      BY <2>1, NewPartyIs
    <3>4. PICK q : q = req[w]
      OBVIOUS
    <3>5. HandlerOk(q) /\ HandlerOk(q)' /\ Looking(q)
      BY <1>1, <2>2, <3>1, <3>4, HandlerStays
    <3>6. /\ DOMAIN r = Fields /\ r.at = "sync" /\ r.id = p
          /\ r.op = q.op /\ r.no = q.no /\ r.sales = q.sales /\ r.rows = q.rows
      BY <2>5, <2>8, <3>4, <3>5, FieldsAre DEF Added, Chosen, HandlerOk, Shape
    <3>7. /\ DOMAIN r.named = DOMAIN q.named
          /\ \A n \in Name : r.named[n] \in {q.named[n], p}
      <4>1. r.named = IF Importing(w) THEN [q.named EXCEPT ![q.name] = p] ELSE q.named
        BY <2>5, <2>8, <3>4, <3>5, FieldsAre DEF Added, Chosen, HandlerOk, Shape
      <4> QED
        BY <3>5, <4>1 DEF HandlerOk, Shape
    <3>8. HasCustomer(r) /\ ~Looking(r)
      BY <3>6 DEF HasCustomer, Looking
    <3>9. Shape(r)'
      BY <3>5, <3>6, <3>7, <3>8 DEF HandlerOk, Shape, HasCustomer, Looking
    <3>10. Checked(r)'
      BY <3>2, <3>3, <3>4, <3>5, <3>6, <3>7 DEF HandlerOk, Checked
    <3>11. Known(r)' /\ Counted(r)'
      BY <3>5, <3>6 DEF HandlerOk, Shape, Known, Counted, Updating
    <3> QED
      BY <2>2, <2>4, <2>6, <3>9, <3>10, <3>11, Frame DEF HandlerOk
  <2>9. CASE req[w].no # None /\ req[w].kind # "customer"
    <3>1. HasCustomer(req[w])
      BY <1>1, <2>9 DEF HandlerOk, Shape, Looking, HasCustomer
    <3>2. r = Synced(w)
      BY <2>5, <2>9 DEF Added
    <3>3. HandlerOk(r)
      BY <1>1, <3>1, <3>2, SyncedOk
    <3> QED
      BY <2>2, <2>4, <2>6, <3>3, HandlerStays, Frame
  <2> QED
    BY <2>7, <2>8, <2>9
<1> QED
  BY <1>2, <1>3 DEF Insert

-----------------------------------------------------------------------------
\* Steps of a handler that is about to write a contract.
LEMMA FindInv ==
    ASSUME Inv, NEW w \in Worker, Find(w) \/ Seen(w)
    PROVE  Inv'
<1>1. /\ HandlerOk(req[w]) /\ req[w].at \in {"find", "seen"}
      /\ UNCHANGED <<party, contract, unchecked>>
  BY DEF Inv, Find, Seen
<1>2. CASE Answer(w)
  BY <1>1, <1>2, SameTables, AnswerInv
<1>3. CASE ~Answer(w)
  <2>1. PICK r : r = req'[w]
    OBVIOUS
  <2>2. DOMAIN req[w] = Fields
    BY <1>1 DEF HandlerOk, Shape
  <2>3. /\ Moves(w) /\ DOMAIN r = Fields /\ r.at \in {"sync", "restore"}
        /\ r.op = req[w].op /\ r.kind = req[w].kind /\ r.no = req[w].no /\ r.id = req[w].id
        /\ r.sales = req[w].sales /\ r.new = req[w].new /\ r.customer = req[w].customer
        /\ r.type = req[w].type /\ r.rows = req[w].rows /\ r.named = req[w].named
        /\ (r.at = "sync" /\ r.sales) => party[r.id].visible
    <3>1. CASE Find(w)
      <4>1. /\ ~(req[w].sales /\ ~party[req[w].id].visible)
            /\ req' = [req EXCEPT ![w].at = "sync", ![w].name = party[req[w].id].name]
        BY <1>3, <3>1 DEF Find
      <4>2. Moves(w) /\ r = [req[w] EXCEPT !.at = "sync", !.name = party[req[w].id].name]
        BY <2>1, <4>1 DEF Moves, Inv
      <4> QED
        BY <2>2, <4>1, <4>2, FieldsAre
    <3>2. CASE Seen(w)
      <4>1. /\ Moves(w)
            /\ r = [req[w] EXCEPT !.at = IF party[req[w].id].visible THEN "sync" ELSE "restore"]
        BY <2>1, <3>2 DEF Seen, GoTo, Moves, Inv
      <4> QED
        BY <2>2, <4>1, FieldsAre
    <3> QED
      BY <3>1, <3>2
  <2>4. HandlerOk(r)
    BY <1>1, <2>3, StaysOk
  <2> QED
    BY <1>1, <2>1, <2>3, <2>4, SameTables, HandlerStays, Frame
<1> QED
  BY <1>2, <1>3

LEMMA RestoreInv ==
    ASSUME Inv, NEW w \in Worker, Restore(w)
    PROVE  Inv'
<1>1. HandlerOk(req[w]) /\ req[w].at = "restore" /\ UNCHANGED <<contract, unchecked>>
  BY DEF Inv, Restore
<1>2. /\ DOMAIN party' = DOMAIN party
      /\ \A p \in DOMAIN party :
            /\ DOMAIN party'[p] = Columns
            /\ party'[p].kind = party[p].kind
            /\ party[p].visible => party'[p].visible
            /\ p = req[w].id => party'[p].visible
  BY FieldsAre DEF Restore, Inv, Tables
<1>3. Grows
  BY <1>1, <1>2 DEF Grows
<1>4. Tables'
  BY <1>1, <1>2 DEF Inv, Tables, Customers, OfKind
<1>5. PICK q, r : q = req[w] /\ r = req'[w]
  OBVIOUS
<1>6. r = [q EXCEPT !.at = "sync"] /\ Moves(w)
  BY <1>5 DEF Restore, GoTo, Moves, Inv
<1>7. /\ DOMAIN r = Fields /\ r.at = "sync"
      /\ r.op = q.op /\ r.kind = q.kind /\ r.no = q.no /\ r.id = q.id /\ r.sales = q.sales
      /\ r.new = q.new /\ r.customer = q.customer /\ r.type = q.type /\ r.rows = q.rows
      /\ r.named = q.named
  BY <1>1, <1>5, <1>6, FieldsAre DEF HandlerOk, Shape
<1>8. HandlerOk(q) /\ HandlerOk(q)' /\ HasCustomer(q)
  BY <1>1, <1>3, <1>5, HandlerStays DEF HasCustomer
<1>9. party'[r.id].visible
  BY <1>2, <1>5, <1>7, <1>8 DEF HandlerOk, Checked, Customers, OfKind
<1>10. HasCustomer(r) /\ ~Looking(r)
  BY <1>7 DEF HasCustomer, Looking
<1>11. Shape(r)'
  BY <1>1, <1>5, <1>7, <1>8, <1>10 DEF HandlerOk, Shape, HasCustomer, Looking
<1>12. Checked(r)'
  BY <1>7, <1>8, <1>9 DEF HandlerOk, Checked
<1>13. Known(r)'
  BY <1>1, <1>5, <1>7, <1>8, <1>10 DEF HandlerOk, Known, Updating, HasCustomer
<1>14. Counted(r)'
  BY <1>7 DEF Counted
<1> QED
  BY <1>3, <1>4, <1>5, <1>6, <1>11, <1>12, <1>13, <1>14, Frame DEF HandlerOk

LEMMA SyncInv ==
    ASSUME Inv, NEW w \in Worker, Sync(w)
    PROVE  Inv'
<1>1. /\ HandlerOk(req[w]) /\ req[w].at = "sync" /\ HasCustomer(req[w])
      /\ UNCHANGED <<party, contract, unchecked>>
  BY DEF Inv, Sync, HasCustomer
<1>2. CASE req' = [req EXCEPT ![w] = Synced(w)]
  <2>1. PICK r : r = Synced(w)
    OBVIOUS
  <2>2. HandlerOk(r)
    BY <1>1, <2>1, SyncedOk
  <2> QED
    BY <1>1, <1>2, <2>1, <2>2, GoesOn
<1>3. CASE /\ ~req[w].sales
           /\ req' = [req EXCEPT ![w].at = "code", ![w].kind = "supplier", ![w].tries = 0]
  <2>1. PICK r : r = req'[w]
    OBVIOUS
  <2>2. r = [req[w] EXCEPT !.at = "code", !.kind = "supplier", !.tries = 0] /\ Moves(w)
    BY <1>3, <2>1 DEF Moves, Inv
  <2>3. /\ DOMAIN r = Fields /\ r.at = "code" /\ r.kind = "supplier"
        /\ r.op = req[w].op /\ r.no = req[w].no /\ r.id = req[w].id
        /\ r.sales = req[w].sales /\ r.new = req[w].new /\ r.customer = req[w].customer
        /\ r.type = req[w].type /\ r.rows = req[w].rows /\ r.named = req[w].named
    BY <1>1, <2>2, FieldsAre DEF HandlerOk, Shape
  <2>4. HasCustomer(r) /\ ~Looking(r)
    BY <1>1, <2>3, NoneIs DEF HandlerOk, Shape, HasCustomer, Looking
  <2>5. Shape(r)
    BY <1>1, <1>3, <2>3, <2>4 DEF HandlerOk, Shape
  <2>6. Checked(r)
    BY <1>1, <2>3 DEF HandlerOk, Checked
  <2>7. Known(r) /\ Counted(r)
    BY <1>1, <2>3 DEF HandlerOk, Known, Updating, Counted
  <2> QED
    BY <1>1, <2>1, <2>2, <2>5, <2>6, <2>7, SameTables, HandlerStays, Frame DEF HandlerOk
<1> QED
  BY <1>2, <1>3 DEF Sync

LEMMA ContractInRowInv ==
    ASSUME Inv, NEW w \in Worker, ContractInRow(w)
    PROVE  Inv'
<1>1. /\ HandlerOk(req[w]) /\ req[w].at = "row" /\ req[w].op = "import contracts"
      /\ UNCHANGED <<party, contract>>
  BY DEF Inv, ContractInRow
<1>2. CASE req[w].rows = <<>>
  <2>1. req' = [req EXCEPT ![w] = Idle] /\ UNCHANGED unchecked
    BY <1>2 DEF ContractInRow
  <2>2. PICK r : r = Idle
    OBVIOUS
  <2>3. DOMAIN r.named = Name /\ \A n \in Name : r.named[n] = None
    BY <2>2, FieldsAre
  <2>4. r.rows \in Seq(ContractInput)
    BY <2>2, FieldsAre
  <2>5. HandlerOk(r)
    BY <2>2, <2>3, <2>4, FieldsAre, NoContract
  <2> QED
    BY <1>1, <2>1, <2>2, <2>5, GoesOn
<1>3. CASE req[w].rows # <<>>
  <2>1. PICK row : row = Head(req[w].rows)
    OBVIOUS
  <2>2. PICK known : known = req[w].named[row.name]
    OBVIOUS
  <2>3. req[w].rows \in Seq(ContractInput)
    BY <1>1 DEF HandlerOk, Shape
  <2>4. row \in ContractInput
    BY <1>3, <2>1, <2>3, HeadTailProperties
  <2>5. /\ row.no \in Contract /\ row.sales \in BOOLEAN
        /\ known \in Customers \cup {None}
    BY <1>1, <2>2, <2>4 DEF ContractInput, HandlerOk, Checked
  <2>6. PICK asked : asked = [req[w] EXCEPT !.kind = "customer", !.no = row.no, !.name = row.name,
                                            !.sales = row.sales]
    OBVIOUS
  <2>7. /\ DOMAIN asked = Fields /\ asked.kind = "customer" /\ asked.no = row.no
        /\ asked.sales = row.sales /\ asked.op = req[w].op /\ asked.rows = req[w].rows
        /\ asked.named = req[w].named
    BY <1>1, <2>6, FieldsAre DEF HandlerOk, Shape
  <2>8. Grows /\ Tables'
    BY <1>1 DEF ContractInRow, Grows, Inv, Tables, Customers, OfKind
  <2>9. HandlerOk(req[w]) /\ DOMAIN req[w].named = Name
        /\ \A n \in Name : req[w].named[n] \in Customers \cup {None}
    BY <1>1 DEF HandlerOk, Shape, Checked
  <2>10. CASE known = None
    <3>1. /\ req' = [req EXCEPT ![w] = [asked EXCEPT !.at = "visible"]]
          /\ UNCHANGED unchecked
      BY <1>3, <2>1, <2>2, <2>6, <2>10 DEF ContractInRow
    <3>2. PICK r : r = [asked EXCEPT !.at = "visible"]
      OBVIOUS
    <3>3. /\ DOMAIN r = Fields /\ r.at = "visible" /\ r.no = row.no /\ r.op = req[w].op
          /\ r.kind = "customer" /\ r.sales = row.sales
          /\ r.rows = req[w].rows /\ r.named = req[w].named
      BY <2>7, <3>2, FieldsAre
    <3>4. HandlerOk(r)
      BY <1>1, <1>3, <2>3, <2>5, <2>9, <3>3
      DEF HandlerOk, Shape, Checked, Known, Updating, Counted, HasCustomer, Looking
    <3> QED
      BY <1>1, <3>1, <3>2, <3>4, GoesOn
  <2>11. CASE known # None
    <3>1. /\ req' = [req EXCEPT ![w] = [asked EXCEPT !.at = "sync", !.id = known]]
          /\ unchecked' = IF row.sales /\ ~party[known].visible
                          THEN unchecked \cup {known} ELSE unchecked
      BY <1>3, <2>1, <2>2, <2>6, <2>11 DEF ContractInRow
    <3>2. PICK r : r = [asked EXCEPT !.at = "sync", !.id = known]
      OBVIOUS
    <3>3. /\ DOMAIN r = Fields /\ r.at = "sync" /\ r.no = row.no /\ r.op = req[w].op
          /\ r.rows = req[w].rows /\ r.named = req[w].named /\ r.id = known
          /\ r.sales = row.sales
      BY <2>7, <3>2, FieldsAre
    <3>4. Moves(w) /\ req'[w] = r
      BY <3>1, <3>2 DEF Moves, Inv
    <3>5. Customers' = Customers
      BY <1>1 DEF Customers, OfKind
    <3>6. Shape(r)'
      BY <1>1, <1>3, <2>3, <2>5, <2>9, <3>3 DEF Shape, HasCustomer, Looking
    <3>7. Checked(r)'
      BY <1>1, <2>5, <2>9, <2>11, <3>1, <3>3, <3>5 DEF Checked
    <3>8. Known(r)' /\ Counted(r)'
      BY <1>1, <3>3 DEF Known, Updating, Counted
    <3> QED
      BY <2>8, <3>4, <3>6, <3>7, <3>8, Frame DEF HandlerOk
  <2> QED
    BY <2>10, <2>11
<1> QED
  BY <1>2, <1>3

LEMMA FindCustomerInv ==
    ASSUME Inv, NEW w \in Worker, FindVisible(w) \/ FindHidden(w)
    PROVE  Inv'
<1>1. /\ HandlerOk(req[w]) /\ req[w].at \in {"visible", "hidden"} /\ Looking(req[w])
      /\ UNCHANGED <<party, contract, unchecked>>
  BY DEF Inv, FindVisible, FindHidden, Looking
<1>2. ASSUME NEW p \in Customers, NEW at \in {"sync", "restore"},
             (at = "sync" /\ req[w].sales) => party[p].visible,
             req' = [req EXCEPT ![w] = Chosen(w, p, at)]
      PROVE  Inv'
  <2>1. PICK r : r = Chosen(w, p, at)
    OBVIOUS
  <2>2. HandlerOk(r)
    BY <1>1, <1>2, <2>1, ChosenOk
  <2> QED
    BY <1>1, <1>2, <2>1, <2>2, GoesOn
<1>3. CASE GoTo(w, "hidden") /\ req[w].at = "visible"
  <2>1. PICK r : r = [req[w] EXCEPT !.at = "hidden"]
    OBVIOUS
  <2>2. /\ DOMAIN r = Fields /\ r.at = "hidden"
        /\ r.op = req[w].op /\ r.kind = req[w].kind /\ r.no = req[w].no /\ r.id = req[w].id
        /\ r.sales = req[w].sales /\ r.new = req[w].new /\ r.customer = req[w].customer
        /\ r.type = req[w].type /\ r.rows = req[w].rows /\ r.named = req[w].named
    BY <1>1, <2>1, FieldsAre DEF HandlerOk, Shape
  <2>3. HandlerOk(r)
    BY <1>1, <1>3, <2>2, StaysOk
  <2>4. req' = [req EXCEPT ![w] = r]
    BY <1>3, <2>1 DEF GoTo
  <2> QED
    BY <1>1, <2>3, <2>4, GoesOn
<1>4. CASE req' = [req EXCEPT ![w].at = "code", ![w].tries = 0]
  <2>1. PICK r : r = req'[w]
    OBVIOUS
  <2>2. r = [req[w] EXCEPT !.at = "code", !.tries = 0] /\ Moves(w)
    BY <1>4, <2>1 DEF Moves, Inv
  <2>3. /\ DOMAIN r = Fields /\ r.at = "code"
        /\ r.op = req[w].op /\ r.no = req[w].no /\ r.kind = req[w].kind
        /\ r.sales = req[w].sales /\ r.rows = req[w].rows /\ r.named = req[w].named
    BY <1>1, <2>2, FieldsAre DEF HandlerOk, Shape
  <2>4. req[w].kind = "customer"
    BY <1>1 DEF HandlerOk, Shape
  <2>5. HandlerOk(r)
    BY <1>1, <2>3, <2>4, NoneIs
    DEF HandlerOk, Shape, Checked, Known, Updating, Counted, HasCustomer, Looking
  <2> QED
    BY <1>1, <2>1, <2>2, <2>5, SameTables, HandlerStays, Frame
<1>5. CASE FindVisible(w)
  BY <1>2, <1>3, <1>5 DEF FindVisible, Visible, Customers
<1>6. CASE FindHidden(w)
  BY <1>2, <1>4, <1>6 DEF FindHidden, Customers
<1> QED
  BY <1>5, <1>6

LEMMA UpsertInv ==
    ASSUME Inv, NEW w \in Worker, Upsert(w)
    PROVE  Inv'
<1> DEFINE n == req[w].no
           row == contract[n]
<1>1. /\ HandlerOk(req[w]) /\ req[w].at = "upsert" /\ HasCustomer(req[w])
      /\ UNCHANGED <<party, contract, unchecked>>
  BY DEF Inv, Upsert, HasCustomer
<1>2. CASE Answer(w)
  BY <1>1, <1>2, SameTables, AnswerInv
<1>3. CASE n \notin DOMAIN contract
  <2>1. PICK r : r = [req[w] EXCEPT !.at = "find", !.new = TRUE]
    OBVIOUS
  <2>2. req' = [req EXCEPT ![w] = r]
    BY <1>3, <2>1 DEF Upsert
  <2>3. /\ DOMAIN r = Fields /\ r.at = "find" /\ r.new
        /\ r.op = req[w].op /\ r.no = req[w].no /\ r.id = req[w].id
        /\ r.sales = req[w].sales /\ r.rows = req[w].rows /\ r.named = req[w].named
    BY <1>1, <2>1, FieldsAre DEF HandlerOk, Shape
  <2>4. req[w].op # "update contract"
    BY <1>1, <1>3 DEF HandlerOk, Known, Updating
  <2>5. HasCustomer(r) /\ ~Looking(r)
    BY <2>3 DEF HasCustomer, Looking
  <2>6. Shape(r)
    BY <1>1, <2>3, <2>5 DEF HandlerOk, Shape
  <2>7. Checked(r) /\ Known(r) /\ Counted(r)
    BY <1>1, <2>3, <2>4 DEF HandlerOk, Checked, Known, Updating, Counted
  <2> QED
    BY <1>1, <2>2, <2>6, <2>7, GoesOn DEF HandlerOk
<1>4. CASE n \in DOMAIN contract /\ ~Answer(w)
  <2>1. PICK customer, type :
           /\ customer = IF row.customer = req[w].id THEN None ELSE req[w].id
           /\ type = IF row.sales = req[w].sales THEN None ELSE req[w].sales
    OBVIOUS
  <2>2. PICK r : r = [req[w] EXCEPT !.at = "write contract", !.customer = customer,
                                    !.type = type, !.undelete = row.deleted]
    OBVIOUS
  <2>3. req' = [req EXCEPT ![w] = r]
    BY <1>4, <2>1, <2>2 DEF Upsert, Answer
  <2>4. /\ DOMAIN r = Fields /\ r.at = "write contract"
        /\ r.op = req[w].op /\ r.no = n /\ r.id = req[w].id /\ r.sales = req[w].sales
        /\ r.new = req[w].new /\ r.rows = req[w].rows /\ r.named = req[w].named
        /\ r.customer = customer /\ r.type = type
    BY <1>1, <2>2, FieldsAre DEF HandlerOk, Shape
  <2>5. HasCustomer(r) /\ ~Looking(r)
    BY <2>4 DEF HasCustomer, Looking
  <2>6. Shape(r)
    BY <1>1, <2>4, <2>5 DEF HandlerOk, Shape
  <2>7. Checked(r)
    BY <1>1, <2>4 DEF HandlerOk, Checked
  <2>8. req[w].id # None
    BY <1>1, NoneIs DEF HandlerOk, Checked, Customers, OfKind, Inv, Tables
  <2>9. Known(r) /\ Counted(r)
    <3>1. req[w].sales \in BOOLEAN /\ None \notin BOOLEAN
      BY <1>1, CounterpartyConstants DEF HandlerOk, Shape
    <3> QED
      BY <1>4, <2>1, <2>4, <2>8, <3>1 DEF Known, Counted
  <2> QED
    BY <1>1, <2>3, <2>6, <2>7, <2>9, GoesOn DEF HandlerOk
<1> QED
  BY <1>2, <1>3, <1>4

-----------------------------------------------------------------------------
LEMMA DoneIs ==
    ASSUME NEW w \in Worker, NEW r, r = Done(w)
    PROVE  r.no = None /\ r.at \in {"row", "idle"}
BY FieldsAre DEF Done

\* A contract is written of which w knows the customer; those who know of the
\* contract, or have found that the customer has none, have been overtaken.
LEMMA ContractWritten ==
    ASSUME Inv, NEW w \in Worker, req[w].at \notin {"row", "idle"}, Answer(w),
           NEW n \in Contract, NEW row, DOMAIN row = {"customer", "sales", "deleted"},
           row.customer \in Customers, row.sales \in BOOLEAN,
           UNCHANGED party,
           DOMAIN contract' = DOMAIN contract \cup {n}, contract'[n] = row,
           \A m \in DOMAIN contract \ {n} : contract'[m] = contract[m],
           unchecked' = unchecked \cup Overtaken(w, n, row.customer),
           (n \notin unchecked' /\ row.sales) =>
              party[row.customer].visible \/ row.customer \in unchecked
    PROVE  Inv'
<1>1. Tables' /\ Customers' = Customers
  BY DEF Inv, Tables, Customers, OfKind
<1>2. CustomerKnown'
  BY DEF Inv, CustomerKnown
<1>3. PICK r : r = Done(w)
  OBVIOUS
<1>4. Moves(w) /\ req'[w] = r
  BY <1>3 DEF Inv, Moves, Answer
<1>5. ASSUME NEW q, HandlerOk(q), q.no = n => n \in unchecked',
             (q.at = "hide" /\ q.id = row.customer) => q.id \in unchecked'
      PROVE  HandlerOk(q)'
  <2>1. Shape(q)'
    BY <1>5 DEF HandlerOk, Shape, HasCustomer, Looking
  <2>2. Checked(q)'
    BY <1>1, <1>5 DEF HandlerOk, Checked, HasCustomer
  <2>3. Known(q)'
    BY <1>5 DEF HandlerOk, Known, Updating, HasCustomer
  <2>4. Counted(q)'
    BY <1>5 DEF HandlerOk, Counted, NotSold
  <2> QED
    BY <2>1, <2>2, <2>3, <2>4 DEF HandlerOk
<1>6. ASSUME NEW q \in {req'[v] : v \in Worker} PROVE HandlerOk(q)'
  <2>1. CASE q = r
    BY <1>3, <1>5, <2>1, DoneOk, DoneIs, NoneIs
  <2>2. CASE q # r
    <3>1. PICK v \in Worker \ {w} : q = req[v]
      BY <1>4, <2>2 DEF Moves
    <3>2. HandlerOk(q)
      BY <3>1 DEF Inv
    <3>3. q.no = n => n \in unchecked'
      BY <3>1 DEF Overtaken
    <3>4. (q.at = "hide" /\ q.id = row.customer) => q.id \in unchecked'
      BY <3>1 DEF Overtaken
    <3> QED
      BY <1>5, <3>2, <3>3, <3>4
  <2> QED
    BY <2>1, <2>2
<1> QED
  BY <1>1, <1>2, <1>4, <1>6 DEF Inv, Moves

LEMMA InsertContractInv ==
    ASSUME Inv, NEW w \in Worker, InsertContract(w)
    PROVE  Inv'
<1> DEFINE n == req[w].no
<1>1. /\ HandlerOk(req[w]) /\ req[w].at = "insert contract" /\ Answer(w) /\ UNCHANGED party
      /\ HasCustomer(req[w])
  BY DEF Inv, InsertContract, HasCustomer
<1>2. CASE n \in DOMAIN contract
  BY <1>1, <1>2, SameTables, AnswerInv DEF InsertContract
<1>3. CASE n \notin DOMAIN contract
  <2>1. PICK row : row = [customer |-> req[w].id, sales |-> req[w].sales, deleted |-> FALSE]
    OBVIOUS
  <2>2. /\ contract' = [m \in DOMAIN contract \cup {n} |-> IF m = n THEN row ELSE contract[m]]
        /\ unchecked' = unchecked \cup Overtaken(w, n, req[w].id)
    BY <1>3, <2>1 DEF InsertContract
  <2>3. /\ n \in Contract /\ req[w].id \in Customers /\ req[w].sales \in BOOLEAN
        /\ req[w].sales => party[req[w].id].visible \/ req[w].id \in unchecked
    BY <1>1 DEF HandlerOk, Shape, Checked
  <2>4. DOMAIN row = {"customer", "sales", "deleted"} /\ row.customer = req[w].id
        /\ row.sales = req[w].sales
    BY <2>1
  <2> QED
    BY <1>1, <2>2, <2>3, <2>4, ContractWritten
<1> QED
  BY <1>2, <1>3

LEMMA WriteContractInv ==
    ASSUME Inv, NEW w \in Worker, WriteContract(w)
    PROVE  Inv'
<1> DEFINE q == req[w]
           n == req[w].no
<1>1. HandlerOk(q) /\ q.at = "write contract" /\ Answer(w) /\ UNCHANGED party
  BY DEF Inv, WriteContract
<1>2. HasCustomer(q) /\ Updating(q)
  BY <1>1 DEF HasCustomer, Updating
<1>3. /\ n \in Contract /\ n \in DOMAIN contract
      /\ q.id \in Customers /\ q.sales \in BOOLEAN
      /\ q.sales => party[q.id].visible \/ q.id \in unchecked
      /\ q.type \in {None, q.sales} /\ q.customer \in {None, q.id}
      /\ n \notin unchecked =>
            /\ q.type = None => contract[n].sales = q.sales
            /\ q.customer = None => contract[n].customer = q.id
  BY <1>1, <1>2 DEF HandlerOk, Shape, Checked, Known
<1>4. PICK row :
         row = [customer |-> IF q.customer = None THEN contract[n].customer ELSE q.customer,
                sales |-> IF q.type = None THEN contract[n].sales ELSE q.type,
                deleted |-> contract[n].deleted /\ ~q.undelete]
  OBVIOUS
<1>5. /\ DOMAIN row = {"customer", "sales", "deleted"}
      /\ row.customer = IF q.customer = None THEN contract[n].customer ELSE q.customer
      /\ row.sales = IF q.type = None THEN contract[n].sales ELSE q.type
  BY <1>4
<1>6. /\ contract' = [contract EXCEPT ![n] = row]
      /\ unchecked' = unchecked \cup Overtaken(w, n, row.customer)
  BY <1>4, <1>5 DEF WriteContract
<1>7. row.customer \in Customers /\ row.sales \in BOOLEAN
  BY <1>3, <1>5 DEF Inv, Tables
<1>8. n \notin unchecked => row.customer = q.id /\ row.sales = q.sales
  BY <1>3, <1>5
<1>9. /\ DOMAIN contract' = DOMAIN contract \cup {n} /\ contract'[n] = row
      /\ \A m \in DOMAIN contract \ {n} : contract'[m] = contract[m]
  BY <1>3, <1>6
<1>10. (n \notin unchecked' /\ row.sales) =>
          party[row.customer].visible \/ row.customer \in unchecked
  BY <1>3, <1>6, <1>8
<1> QED
  BY <1>1, <1>3, <1>5, <1>6, <1>7, <1>9, <1>10, ContractWritten

LEMMA RemoveContractWriteInv ==
    ASSUME Inv, NEW w \in Worker, RemoveContractWrite(w)
    PROVE  Inv'
<1>1. /\ HandlerOk(req[w]) /\ req[w].at = "remove contract" /\ Answer(w)
      /\ UNCHANGED <<party, unchecked>>
  BY DEF Inv, RemoveContractWrite
<1>2. /\ DOMAIN contract' = DOMAIN contract
      /\ \A n \in DOMAIN contract :
            /\ DOMAIN contract'[n] = {"customer", "sales", "deleted"}
            /\ contract'[n].customer = contract[n].customer
            /\ contract'[n].sales = contract[n].sales
            /\ contract[n].deleted => contract'[n].deleted
  BY DEF RemoveContractWrite, Inv, Tables
<1>3. Tables' /\ Customers' = Customers
  BY <1>1, <1>2 DEF Inv, Tables, Customers, OfKind
<1>4. CustomerKnown'
  BY <1>1, <1>2 DEF Inv, CustomerKnown
<1>5. ASSUME NEW q, HandlerOk(q) PROVE HandlerOk(q)'
  <2>1. Shape(q)'
    BY <1>5 DEF HandlerOk, Shape, HasCustomer, Looking
  <2>2. Checked(q)'
    BY <1>1, <1>3, <1>5 DEF HandlerOk, Checked, HasCustomer
  <2>3. Known(q)'
    BY <1>1, <1>2, <1>5 DEF HandlerOk, Known, Updating, HasCustomer
  <2>4. Counted(q)'
    BY <1>1, <1>2, <1>5 DEF HandlerOk, Counted, NotSold
  <2> QED
    BY <2>1, <2>2, <2>3, <2>4 DEF HandlerOk
<1>6. PICK r : r = Done(w)
  OBVIOUS
<1>7. Moves(w) /\ req'[w] = r
  BY <1>1, <1>6 DEF Inv, Moves, Answer
<1>8. HandlerOk(r)
  BY <1>1, <1>6, DoneOk
<1>9. ASSUME NEW q \in {req'[v] : v \in Worker} PROVE HandlerOk(q)'
  <2>1. HandlerOk(q)
    BY <1>7, <1>8 DEF Inv, Moves
  <2> QED
    BY <1>5, <2>1
<1> QED
  BY <1>3, <1>4, <1>7, <1>9 DEF Inv, Moves

LEMMA FailInv ==
    ASSUME Inv, NEW w \in Worker, Fail(w)
    PROVE  Inv'
<1>1. req[w].at # "idle" /\ UNCHANGED <<party, contract, unchecked>>
  BY DEF Fail
<1>2. CASE req[w].at # "row" /\ Answer(w)
  BY <1>1, <1>2, SameTables, AnswerInv
<1>3. CASE req' = [req EXCEPT ![w] = Idle]
  <2>1. PICK r : r = Idle
    OBVIOUS
  <2>2. DOMAIN r.named = Name /\ \A n \in Name : r.named[n] = None
    BY <2>1, FieldsAre
  <2>3. r.rows \in Seq(ContractInput)
    BY <2>1, FieldsAre
  <2>4. HandlerOk(r)
    BY <2>1, <2>2, <2>3, FieldsAre, NoContract
  <2> QED
    BY <1>1, <1>3, <2>1, <2>4, GoesOn
<1> QED
  BY <1>2, <1>3 DEF Fail

-----------------------------------------------------------------------------
LEMMA InitInv == Init => Inv
<1> SUFFICES ASSUME Init PROVE Inv
  OBVIOUS
<1>1. Tables /\ CustomerKnown /\ DOMAIN req = Worker
  BY DEF Init, Tables, CustomerKnown
<1>2. ASSUME NEW r \in {req[w] : w \in Worker} PROVE HandlerOk(r)
  <2>1. r = Idle
    BY DEF Init
  <2>2. DOMAIN r.named = Name /\ \A n \in Name : r.named[n] = None
    BY <2>1, FieldsAre
  <2>3. r.rows \in Seq(ContractInput)
    BY <2>1, FieldsAre
  <2> QED
    BY <2>1, <2>2, <2>3, FieldsAre, NoContract
<1> QED
  BY <1>1, <1>2 DEF Inv

LEMMA NextInv ==
    ASSUME Inv, [Next]_vars
    PROVE  Inv'
<1>1. CASE UNCHANGED vars
  <2>1. UNCHANGED <<party, contract, unchecked>> /\ req' = req
    BY <1>1 DEF vars
  <2>2. Grows /\ Tables'
    BY <2>1, SameTables
  <2>3. CustomerKnown'
    BY <2>1 DEF Inv, CustomerKnown
  <2>4. ASSUME NEW r \in {req'[w] : w \in Worker} PROVE HandlerOk(r)'
    BY <2>1, <2>2, HandlerStays DEF Inv
  <2> QED
    BY <2>1, <2>2, <2>3, <2>4 DEF Inv
<1>2. ASSUME NEW w \in Worker, Step(w) PROVE Inv'
  BY <1>2, RowInv, LookUpInv, WriteInv, GenerateInv, InsertInv, CountInv, HideInv, FindInv,
     RestoreInv, SyncInv, InsertContractInv, WriteContractInv, RemoveContractWriteInv,
     ContractInRowInv, FindCustomerInv, UpsertInv
  DEF Step
<1> QED
  BY <1>1, <1>2, AskForPartyInv, AskForContractInv, FailInv DEF Next

\* What each handler has found of customers and contracts stays true, or the
\* party or the contract is unchecked: the inductive invariant.
THEOREM InvCorrect == Spec => []Inv
<1>1. Init => Inv
  BY InitInv
<1>2. Inv /\ [Next]_vars => Inv'
  BY NextInv
<1> QED
  BY <1>1, <1>2, PTL DEF Spec

\* The customer of a sale is visible, however creates, updates, imports and
\* removals overlap, fail or restart, for any number of handlers, parties,
\* contracts and rows; except where a request overtook the checks of another,
\* or an import its own memory (customers.service.ts remove, contracts.service.ts
\* create and update, ensureImportCustomerByDeps).
THEOREM CustomersCorrect == Spec => []CustomerKnown
<1>1. Inv => CustomerKnown
  BY DEF Inv
<1> QED
  BY <1>1, InvCorrect, PTL

-----------------------------------------------------------------------------
(***************************************************************************)
(* Credit codes.  A handler that is about to write one saw that no other   *)
(* visible party of the kind has it, and still sees none unless another    *)
(* handler was about that code; so the code is contested, or the visible   *)
(* parties that have it are one.                                           *)
(***************************************************************************)
Cleared(r) ==
    r.at \in {"code", "insert", "edit"} /\ r.credit \in Credit =>
        \A p \in Visible(r.kind) :
            party[p].credit = r.credit /\ (r.at # "edit" \/ p # r.id) => r.credit \in contested

CreditOk(r) ==
    /\ r.credit \in Credit \cup {None, Unsent}
    /\ r.credit = Unsent => r.at = "edit"
    /\ r.no # None \/ r.at = "row" => r.credit = None
    /\ r.at = "edit" \/ (r.at = "duplicate" /\ r.id # None) => r.id \in OfKind(r.kind)
    /\ r.op = "import" =>
          r.rows \in Seq(PartyInput) /\ (r.at \notin {"row", "idle"} => r.rows # <<>>)
    /\ Cleared(r)

\* Visible parties of one kind, whichever kind that is.
OneEach ==
    \A p, q \in DOMAIN party :
        p # q /\ party[p].visible /\ party[q].visible
              /\ party[p].kind = party[q].kind /\ party[p].credit = party[q].credit
           => party[p].credit \in contested \cup {None}

CreditInv ==
    /\ \A p \in DOMAIN party : party[p].credit \in Credit \cup {None}
    /\ OneEach
    /\ \A r \in {req[w] : w \in Worker} : CreditOk(r)

LEMMA UnsentIs == Unsent \notin Credit /\ Unsent # None /\ None \notin Credit
BY CounterpartyConstants

\* What w does to the codes that the others count on.
Careful(w) ==
    /\ DOMAIN party \subseteq DOMAIN party'
    /\ \A p \in DOMAIN party : party'[p].kind = party[p].kind
    /\ contested \subseteq contested'
    /\ \A p \in DOMAIN party' :
          party'[p].visible /\ party'[p].credit \in Credit =>
             \/ p \in DOMAIN party /\ party[p].visible /\ party[p].credit = party'[p].credit
             \/ party'[p].credit \in contested'
             \/ \A v \in Worker \ {w} : req[v].credit # party'[p].credit

LEMMA CreditStays ==
    ASSUME NEW w \in Worker, Careful(w), NEW r, CreditOk(r),
           r.credit = None \/ \E v \in Worker \ {w} : r = req[v]
    PROVE  CreditOk(r)'
<1>1. Cleared(r)'
  <2>1. ASSUME r.at \in {"code", "insert", "edit"}, r.credit \in Credit, r.credit \notin contested',
               NEW p \in DOMAIN party', party'[p].kind = r.kind, party'[p].visible,
               party'[p].credit = r.credit
        PROVE  r.at = "edit" /\ p = r.id
    <3>1. \E v \in Worker \ {w} : r = req[v]
      BY <2>1, UnsentIs
    <3>2. p \in DOMAIN party /\ party[p].visible /\ party[p].credit = r.credit
      BY <2>1, <3>1 DEF Careful
    <3>3. p \in Visible(r.kind) /\ r.credit \notin contested
      BY <2>1, <3>2 DEF Careful, Visible, OfKind
    <3> QED
      BY <2>1, <3>2, <3>3 DEF CreditOk, Cleared
  <2> QED
    BY <2>1 DEF Cleared, Visible, OfKind
<1>2. OfKind(r.kind) \subseteq OfKind(r.kind)'
  BY DEF Careful, OfKind
<1> QED
  BY <1>1, <1>2 DEF CreditOk

\* One handler goes on, carefully.
LEMMA CreditFrame ==
    ASSUME Inv, CreditInv, NEW w \in Worker, NEW r, Moves(w), req'[w] = r, Careful(w),
           CreditOk(r)', OneEach',
           \A p \in DOMAIN party' : party'[p].credit \in Credit \cup {None}
    PROVE  CreditInv'
<1>1. ASSUME NEW q \in {req'[v] : v \in Worker} PROVE CreditOk(q)'
  <2>1. CASE q = r
    BY <2>1
  <2>2. CASE q # r
    <3>1. PICK v \in Worker \ {w} : q = req[v]
      BY <2>2 DEF Moves
    <3>2. CreditOk(q)
      BY <3>1 DEF CreditInv
    <3> QED
      BY <3>1, <3>2, CreditStays
  <2> QED
    BY <2>1, <2>2
<1> QED
  BY <1>1 DEF CreditInv

LEMMA Untouched ==
    ASSUME CreditInv, UNCHANGED <<party, contested>>, NEW w \in Worker
    PROVE  /\ Careful(w) /\ OneEach'
           /\ \A p \in DOMAIN party' : party'[p].credit \in Credit \cup {None}
BY DEF CreditInv, Careful, OneEach

LEMMA CreditGoesOn ==
    ASSUME Inv, CreditInv, UNCHANGED <<party, contested>>,
           NEW w \in Worker, NEW r, Moves(w), req'[w] = r, CreditOk(r)
    PROVE  CreditInv'
<1>1. CreditOk(r)'
  BY DEF CreditOk, Cleared, Visible, OfKind
<1> QED
  BY <1>1, Untouched, CreditFrame

\* A handler that writes no credit code.
LEMMA Uncredited ==
    ASSUME NEW r, r.credit = None, r.at \notin {"edit", "duplicate"},
           r.op = "import" =>
              r.rows \in Seq(PartyInput) /\ (r.at \notin {"row", "idle"} => r.rows # <<>>)
    PROVE  CreditOk(r)
BY UnsentIs DEF CreditOk, Cleared

LEMMA CreditDone ==
    ASSUME CreditInv, NEW w \in Worker, req[w].at \notin {"row", "idle"}, NEW r, r = Done(w)
    PROVE  CreditOk(r) /\ r.credit = None
<1>0. Idle.credit = None
  BY DEF Idle
<1>1. CASE Importing(w)
  <2>1. r.at = "row" /\ r.op = req[w].op /\ r.rows = Tail(req[w].rows) /\ r.credit = None
    BY <1>1, FieldsAre, <1>0 DEF Done
  <2>2. req[w].op = "import" => req[w].rows \in Seq(PartyInput) /\ req[w].rows # <<>>
    BY DEF CreditInv, CreditOk
  <2>3. r.op = "import" => r.rows \in Seq(PartyInput)
    BY <2>1, <2>2, HeadTailProperties
  <2> QED
    BY <2>1, <2>3, Uncredited
<1>2. CASE ~Importing(w)
  <2>1. r.at = "idle" /\ r.op = None /\ r.rows = <<>> /\ r.credit = None
    BY <1>2 DEF Done, Idle
  <2>2. r.rows \in Seq(PartyInput)
    BY <2>1
  <2> QED
    BY <2>1, <2>2, Uncredited
<1> QED
  BY <1>1, <1>2

LEMMA CreditAnswer ==
    ASSUME Inv, CreditInv, NEW w \in Worker, req[w].at \notin {"row", "idle"}, Answer(w),
           Careful(w), OneEach',
           \A p \in DOMAIN party' : party'[p].credit \in Credit \cup {None}
    PROVE  CreditInv'
<1>1. PICK r : r = Done(w)
  OBVIOUS
<1>2. CreditOk(r) /\ r.credit = None
  BY <1>1, CreditDone
<1>3. Moves(w) /\ req'[w] = r
  BY <1>1 DEF Inv, Moves, Answer
<1> QED
  BY <1>2, <1>3, CreditStays, CreditFrame

\* A handler of a contract goes on.
LEMMA ContractGoesOn ==
    ASSUME Inv, CreditInv, UNCHANGED <<party, contested>>, NEW w \in Worker, NEW r,
           Moves(w), req'[w] = r, r.credit = None, r.at \notin {"edit", "duplicate"},
           r.op = req[w].op, r.rows = req[w].rows,
           req[w].at \notin {"row", "idle"} \/ r.op # "import"
    PROVE  CreditInv'
<1>1. CreditOk(req[w])
  BY DEF CreditInv
<1>2. CreditOk(r)
  BY <1>1, Uncredited DEF CreditOk
<1> QED
  BY <1>2, CreditGoesOn

-----------------------------------------------------------------------------
LEMMA CreditUpdates ==
    ASSUME Inv, CreditInv, NEW w \in Worker, NEW n \in Contract, UpdateContract(w, n)
    PROVE  CreditInv'
<1>1. PICK p, type, sales :
         /\ p \in Customers \cup {None} /\ type \in BOOLEAN \cup {None}
         /\ sales = IF type = None THEN contract[n].sales ELSE type
         /\ Start(w, [Idle EXCEPT !.at = CASE p # None -> "find"
                                           [] p = None /\ sales -> "seen"
                                           [] OTHER -> "sync",
                                  !.op = "update contract", !.no = n, !.sales = sales,
                                  !.id = IF p # None THEN p ELSE contract[n].customer,
                                  !.name = party[contract[n].customer].name,
                                  !.customer = p, !.type = type])
  BY Zenon DEF UpdateContract, Customers
<1>2. PICK r : r = [Idle EXCEPT !.at = CASE p # None -> "find"
                                         [] p = None /\ sales -> "seen"
                                         [] OTHER -> "sync",
                                !.op = "update contract", !.no = n, !.sales = sales,
                                !.id = IF p # None THEN p ELSE contract[n].customer,
                                !.name = party[contract[n].customer].name,
                                !.customer = p, !.type = type]
  OBVIOUS
<1>3. req' = [req EXCEPT ![w] = r]
  BY <1>1, <1>2 DEF Start
<1>4. r.op = "update contract" /\ r.credit = None
  BY <1>2 DEF Idle
<1>5. r.at \in {"find", "seen", "sync"}
  BY <1>2, FieldsAre
<1>6. Moves(w) /\ req'[w] = r /\ UNCHANGED <<party, contested>>
  BY <1>3 DEF UpdateContract, Inv, Moves
<1> QED
  BY <1>4, <1>5, <1>6, Uncredited, CreditGoesOn

LEMMA CreditAsks ==
    ASSUME Inv, CreditInv, NEW w \in Worker, AskForParty(w) \/ AskForContract(w)
    PROVE  CreditInv'
<1> USE FieldsAre DEF Start
<1>0. UNCHANGED <<party, contested>> /\ Idle.credit = None /\ Idle.id = None
      /\ Idle.op = None /\ None \notin Party
  BY NoneIs DEF AskForParty, AskForContract, CreateCustomer, CreateSupplier, Create, EditCustomer,
         EditSupplier, Edit, ImportCustomers, ImportSuppliers, ImportRows, RemoveCustomer,
         RemoveSupplier, ApproveRead, CreateContract, ImportContracts, UpdateContract,
         RemoveContract, Idle
<1>1. ASSUME NEW r, req' = [req EXCEPT ![w] = r], CreditOk(r) PROVE CreditInv'
  <2>1. Moves(w) /\ req'[w] = r
    BY <1>1 DEF Inv, Moves
  <2> QED
    BY <1>0, <1>1, <2>1, CreditGoesOn
<1>2. ASSUME NEW r, req' = [req EXCEPT ![w] = r], r.credit = None, r.op # "import",
             r.at \notin {"edit", "duplicate"}
      PROVE  CreditInv'
  BY <1>1, <1>2, Uncredited
<1>3. ASSUME NEW kind \in Kind, Create(w, kind) PROVE CreditInv'
  <2>0. PICK name \in Name, credit \in Credit \cup {None} :
           req' = [req EXCEPT ![w] =
                      [Idle EXCEPT !.at = IF credit = None THEN "code" ELSE "duplicate",
                                   !.op = "create", !.kind = kind, !.name = name,
                                   !.credit = credit]]
    BY <1>3 DEF Create
  <2>1. PICK r : /\ req' = [req EXCEPT ![w] = r]
                 /\ r = [Idle EXCEPT !.at = IF credit = None THEN "code" ELSE "duplicate",
                                     !.op = "create", !.kind = kind, !.name = name,
                                     !.credit = credit]
    BY <2>0
  <2>2. /\ r.at = (IF credit = None THEN "code" ELSE "duplicate") /\ r.op = "create"
        /\ r.credit = credit /\ r.id = None /\ r.no = None
    BY <1>0, <2>1
  <2>3. CreditOk(r)
    BY <2>2, UnsentIs DEF CreditOk, Cleared
  <2> QED
    BY <1>1, <2>1, <2>3
<1>4. ASSUME NEW kind \in Kind, Edit(w, kind) PROVE CreditInv'
  <2>0. PICK p \in Visible(kind), name \in Name, credit \in Credit \cup {None, Unsent} :
           req' = [req EXCEPT ![w] =
                      [Idle EXCEPT !.at = IF credit \in {None, Unsent, party[p].credit}
                                          THEN "edit" ELSE "duplicate",
                                   !.op = "edit", !.kind = kind, !.id = p,
                                   !.name = name, !.credit = credit]]
    BY <1>4 DEF Edit
  <2>1. PICK r : /\ req' = [req EXCEPT ![w] = r]
                 /\ r = [Idle EXCEPT !.at = IF credit \in {None, Unsent, party[p].credit}
                                            THEN "edit" ELSE "duplicate",
                                     !.op = "edit", !.kind = kind, !.id = p,
                                     !.name = name, !.credit = credit]
    BY <2>0
  <2>2. /\ r.at = (IF credit \in {None, Unsent, party[p].credit} THEN "edit" ELSE "duplicate")
        /\ r.op = "edit" /\ r.credit = credit /\ r.id = p /\ r.no = None /\ r.kind = kind
    BY <1>0, <2>1
  <2>3. Cleared(r)
    BY <2>1, <2>2, UnsentIs DEF Cleared, CreditInv, OneEach, Visible, OfKind
  <2>4. CreditOk(r)
    BY <2>1, <2>2, <2>3, UnsentIs DEF CreditOk, Visible
  <2> QED
    BY <1>1, <2>1, <2>4
<1>5. ASSUME NEW kind \in Kind, ImportRows(w, kind) PROVE CreditInv'
  <2>0. PICK rows \in PartyBatches :
           req' = [req EXCEPT ![w] =
                      [Idle EXCEPT !.at = "row", !.op = "import", !.kind = kind, !.rows = rows]]
    BY <1>5 DEF ImportRows
  <2>1. PICK r : /\ r = [Idle EXCEPT !.at = "row", !.op = "import", !.kind = kind, !.rows = rows]
                 /\ req' = [req EXCEPT ![w] = r]
    BY <2>0
  <2>2. /\ r.at = "row" /\ r.op = "import" /\ r.rows = rows /\ r.credit = None
        /\ rows \in Seq(PartyInput)
    BY <1>0, <2>1, CounterpartyConstants
  <2> QED
    BY <1>1, <2>1, <2>2, Uncredited
<1>6. ASSUME NEW p \in Party, RemoveCustomer(w, p) \/ RemoveSupplier(w, p) \/ ApproveRead(w, p)
      PROVE  CreditInv'
  <2>1. CASE RemoveCustomer(w, p)
    <3>1. PICK r : /\ r = [Idle EXCEPT !.at = "count", !.op = "remove", !.id = p]
                   /\ req' = [req EXCEPT ![w] = r]
      BY <2>1 DEF RemoveCustomer
    <3>2. r.at = "count" /\ r.op = "remove" /\ r.credit = None
      BY <1>0, <3>1
    <3> QED
      BY <1>2, <3>1, <3>2
  <2>2. CASE RemoveSupplier(w, p)
    <3>1. PICK r : /\ r = [Idle EXCEPT !.at = "hide", !.op = "remove", !.id = p]
                   /\ req' = [req EXCEPT ![w] = r]
      BY <2>2 DEF RemoveSupplier
    <3>2. r.at = "hide" /\ r.op = "remove" /\ r.credit = None
      BY <1>0, <3>1
    <3> QED
      BY <1>2, <3>1, <3>2
  <2>3. CASE ApproveRead(w, p)
    <3>1. PICK verdict, r :
             /\ r = [Idle EXCEPT !.at = "judge", !.op = "approve", !.id = p, !.verdict = verdict]
             /\ req' = [req EXCEPT ![w] = r]
      BY <2>3 DEF ApproveRead
    <3>2. r.at = "judge" /\ r.op = "approve" /\ r.credit = None
      BY <1>0, <3>1
    <3> QED
      BY <1>2, <3>1, <3>2
  <2> QED
    BY <1>6, <2>1, <2>2, <2>3
<1>7. CASE CreateContract(w)
  <2>0. PICK n \in Contract, p \in OfKind("customer"), sales \in BOOLEAN :
           Start(w, [Idle EXCEPT !.at = "find", !.op = "create contract", !.no = n, !.id = p,
                                 !.sales = sales, !.new = TRUE])
    BY <1>7, Zenon DEF CreateContract
  <2>1. PICK r : /\ req' = [req EXCEPT ![w] = r]
                 /\ r = [Idle EXCEPT !.at = "find", !.op = "create contract", !.no = n, !.id = p,
                                     !.sales = sales, !.new = TRUE]
    BY <2>0
  <2>2. r.at = "find" /\ r.op = "create contract" /\ r.credit = None
    BY <1>0, <2>1
  <2> QED
    BY <1>2, <2>1, <2>2
<1>8. CASE ImportContracts(w)
  <2>1. PICK rows, r :
           /\ r = [Idle EXCEPT !.at = "row", !.op = "import contracts", !.rows = rows]
           /\ req' = [req EXCEPT ![w] = r]
    BY <1>8 DEF ImportContracts
  <2>2. r.at = "row" /\ r.op = "import contracts" /\ r.credit = None
    BY <1>0, <2>1
  <2> QED
    BY <1>2, <2>1, <2>2
<1>9. ASSUME NEW n \in Contract, UpdateContract(w, n) PROVE CreditInv'
  BY <1>9, CreditUpdates
<1>10. ASSUME NEW n \in Contract, RemoveContract(w, n) PROVE CreditInv'
  <2>1. PICK r :
           /\ r = [Idle EXCEPT !.at = "remove contract", !.op = "remove contract", !.no = n]
           /\ req' = [req EXCEPT ![w] = r]
    BY <1>10 DEF RemoveContract
  <2>2. r.at = "remove contract" /\ r.op = "remove contract" /\ r.credit = None
    BY <1>0, <2>1
  <2> QED
    BY <1>2, <2>1, <2>2
<1> QED
  BY <1>3, <1>4, <1>5, <1>6, <1>7, <1>8, <1>9, <1>10
  DEF AskForParty, AskForContract, CreateCustomer, CreateSupplier, EditCustomer, EditSupplier,
      ImportCustomers, ImportSuppliers, Kind

\* An import takes its next row.
LEMMA CreditRow ==
    ASSUME Inv, CreditInv, NEW w \in Worker, Row(w)
    PROVE  CreditInv'
<1>0. /\ CreditOk(req[w]) /\ HandlerOk(req[w]) /\ req[w].at = "row" /\ req[w].op = "import"
      /\ UNCHANGED <<party, contested>>
  BY DEF Inv, CreditInv, Row
<1>1. PICK r : r = req'[w]
  OBVIOUS
<1>2. Moves(w)
  BY DEF Row, Moves, Inv
<1>3. CASE req[w].rows = <<>>
  <2>1. r = Idle
    BY <1>1, <1>3 DEF Row, Inv
  <2>2. r.credit = None /\ r.at = "idle" /\ r.op = None /\ r.rows = <<>>
    BY <2>1 DEF Idle
  <2>3. r.rows \in Seq(PartyInput)
    BY <2>2
  <2> QED
    BY <1>0, <1>1, <1>2, <2>2, <2>3, Uncredited, CreditGoesOn
<1>4. CASE req[w].rows # <<>>
  <2>1. DOMAIN req[w] = Fields /\ req[w].no = None
    BY <1>0 DEF HandlerOk, Shape, HasCustomer, Looking
  <2>2. PICK row : row = Head(req[w].rows)
    OBVIOUS
  <2>3. row \in PartyInput
    BY <1>0, <1>4, <2>2, HeadTailProperties DEF CreditOk
  <2>4. row.credit \in Credit \cup {None}
    BY <2>3 DEF PartyInput
  <2>5. r = [req[w] EXCEPT !.at = IF row.code # None THEN "byCode"
                                  ELSE IF row.credit # None THEN "byCredit" ELSE "code",
                           !.name = row.name, !.code = row.code, !.credit = row.credit]
    BY <1>1, <1>4, <2>2 DEF Row, Inv
  <2>6. /\ r.at = (IF row.code # None THEN "byCode"
                   ELSE IF row.credit # None THEN "byCredit" ELSE "code")
        /\ r.credit = row.credit /\ r.op = "import" /\ r.rows = req[w].rows /\ r.no = None
    BY <1>0, <2>1, <2>5, FieldsAre
  <2>7. CreditOk(r)
    BY <1>0, <1>4, <2>4, <2>6, UnsentIs DEF CreditOk, Cleared
  <2> QED
    BY <1>0, <1>1, <1>2, <2>7, CreditGoesOn
<1> QED
  BY <1>3, <1>4

\* What is looked up, and what follows from what is found.
LEMMA CreditLookUp ==
    ASSUME Inv, CreditInv, NEW w \in Worker, ByCode(w) \/ ByCredit(w) \/ Duplicate(w)
    PROVE  CreditInv'
<1> DEFINE q == req[w]
<1>0. /\ CreditOk(q) /\ HandlerOk(q) /\ q.at \in {"byCode", "byCredit", "duplicate"}
      /\ UNCHANGED <<party, contested>>
  BY DEF Inv, CreditInv, ByCode, ByCredit, Duplicate
<1>1. q.no = None /\ DOMAIN q = Fields /\ q.credit \in Credit \cup {None} /\ q.credit # Unsent
  BY <1>0, UnsentIs DEF HandlerOk, Shape, HasCustomer, Looking, CreditOk
<1>2. ASSUME NEW at \in {"code", "insert", "edit", "duplicate", "byCredit"}, NEW id, NEW r,
             r = [req[w] EXCEPT !.at = at, !.id = id], req' = [req EXCEPT ![w] = r],
             at = "edit" \/ (at = "duplicate" /\ id # None) => id \in OfKind(q.kind),
             at \in {"code", "insert", "edit"} /\ q.credit \in Credit =>
                \A p \in Visible(q.kind) :
                   party[p].credit = q.credit /\ (at # "edit" \/ p # id) => q.credit \in contested
      PROVE  CreditInv'
  <2>1. /\ r.at = at /\ r.id = id /\ r.kind = q.kind /\ r.credit = q.credit /\ r.no = None
        /\ r.op = q.op /\ r.rows = q.rows
    BY <1>1, <1>2, FieldsAre
  <2>2. CreditOk(r)
    BY <1>0, <1>1, <1>2, <2>1 DEF CreditOk, Cleared
  <2>3. Moves(w) /\ req'[w] = r
    BY <1>2 DEF Inv, Moves
  <2> QED
    BY <1>0, <2>2, <2>3, CreditGoesOn
<1>3. ASSUME NEW at \in {"code", "insert", "edit", "byCredit"}, GoTo(w, at),
             at = "edit" => q.id \in OfKind(q.kind),
             at \in {"code", "insert", "edit"} /\ q.credit \in Credit =>
                \A p \in Visible(q.kind) :
                   party[p].credit = q.credit /\ (at # "edit" \/ p # q.id)
                      => q.credit \in contested
      PROVE  CreditInv'
  <2>1. PICK r : r = [req[w] EXCEPT !.at = at, !.id = req[w].id]
    OBVIOUS
  <2>2. [req[w] EXCEPT !.at = at] = [req[w] EXCEPT !.at = at, !.id = req[w].id]
    BY <1>1, FieldsAre
  <2>3. req' = [req EXCEPT ![w] = r]
    BY <1>3, <2>1, <2>2 DEF GoTo
  <2> QED
    BY <1>2, <1>3, <2>1, <2>3
<1>4. CASE Duplicate(w)
  <2>1. CASE Answer(w)
    BY <1>0, <2>1, Untouched, CreditAnswer
  <2>2. CASE ~Answer(w)
    <3>1. /\ q.at = "duplicate" /\ GoTo(w, IF q.id = None THEN "code" ELSE "edit")
          /\ \A p \in Visible(q.kind) \ {q.id} : party[p].credit # q.credit
      BY <1>4, <2>2 DEF Duplicate
    <3>2. None \notin Visible(q.kind)
      BY NoneIs DEF Visible, OfKind, Inv, Tables
    <3>3. q.id # None => q.id \in OfKind(q.kind)
      BY <1>0, <3>1 DEF CreditOk
    <3> HIDE DEF q
    <3>4. CASE q.id = None
      BY <1>3, <3>1, <3>2, <3>4
    <3>5. CASE q.id # None
      BY <1>3, <3>1, <3>3, <3>5
    <3> QED
      BY <3>4, <3>5
  <2> QED
    BY <2>1, <2>2
\* The party that is found has the code that the row brings, or it is looked for.
<1>5. ASSUME NEW p \in Visible(q.kind), NEW at \in {"edit", "duplicate"},
             at = "edit" => q.credit \in {None, party[p].credit},
             req' = [req EXCEPT ![w].id = p, ![w].at = at]
      PROVE  CreditInv'
  <2>1. PICK r : r = [req[w] EXCEPT !.at = at, !.id = p]
    OBVIOUS
  <2>2. [req[w] EXCEPT !.id = p, !.at = at] = [req[w] EXCEPT !.at = at, !.id = p]
    BY <1>1, FieldsAre
  <2>3. req' = [req EXCEPT ![w] = r]
    BY <1>5, <2>1, <2>2
  <2>4. p \in OfKind(q.kind)
    BY DEF Visible
  <2>5. at = "edit" /\ q.credit \in Credit =>
           \A x \in Visible(q.kind) : party[x].credit = q.credit /\ x # p => q.credit \in contested
    BY <1>5, UnsentIs DEF CreditInv, OneEach, Visible, OfKind
  <2> QED
    BY <1>2, <2>1, <2>3, <2>4, <2>5
<1>6. CASE ByCode(w)
  <2>1. CASE \E p \in Visible(q.kind) :
                req' = [req EXCEPT ![w].id = p,
                                   ![w].at = IF q.credit \in {None, party[p].credit}
                                             THEN "edit" ELSE "duplicate"]
    <3>1. PICK p \in Visible(q.kind) :
                req' = [req EXCEPT ![w].id = p,
                                   ![w].at = IF q.credit \in {None, party[p].credit}
                                             THEN "edit" ELSE "duplicate"]
      BY <2>1
    <3>2. PICK at : at = IF q.credit \in {None, party[p].credit} THEN "edit" ELSE "duplicate"
      OBVIOUS
    <3> QED
      BY <1>5, <3>1, <3>2
  <2>2. CASE GoTo(w, IF q.credit # None THEN "byCredit" ELSE "insert")
    <3>1. CASE q.credit = None
      <4>1. GoTo(w, "insert") /\ q.credit \notin Credit
        BY <2>2, <3>1, UnsentIs
      <4> HIDE DEF q
      <4> QED
        BY <1>3, <4>1
    <3>2. CASE q.credit # None
      <4>1. GoTo(w, "byCredit")
        BY <2>2, <3>2
      <4> HIDE DEF q
      <4> QED
        BY <1>3, <4>1
    <3> QED
      BY <3>1, <3>2
  <2> QED
    BY <1>6, <2>1, <2>2 DEF ByCode
<1>7. CASE ByCredit(w)
  <2>1. CASE \E p \in Visible(q.kind) :
                /\ party[p].credit = q.credit
                /\ req' = [req EXCEPT ![w].id = p, ![w].at = "edit"]
    BY <1>5, <2>1
  <2>2. CASE /\ \A p \in Visible(q.kind) : party[p].credit # q.credit
             /\ GoTo(w, IF q.code # None THEN "insert" ELSE "code")
    <3> HIDE DEF q
    <3>1. CASE q.code = None
      BY <1>3, <2>2, <3>1
    <3>2. CASE q.code # None
      BY <1>3, <2>2, <3>2
    <3> QED
      BY <3>1, <3>2
  <2> QED
    BY <1>7, <2>1, <2>2 DEF ByCredit
<1> QED
  BY <1>4, <1>6, <1>7

\* A code is generated, or generated again.
LEMMA CreditGenerates ==
    ASSUME Inv, CreditInv, NEW w \in Worker, UNCHANGED <<party, contested>>,
           Generate(w) \/ (req[w].at = "insert" /\ req' = [req EXCEPT ![w] = Retry(w)])
    PROVE  CreditInv'
<1>0. CreditOk(req[w]) /\ HandlerOk(req[w]) /\ req[w].at \in {"code", "insert"}
  BY DEF Inv, CreditInv, Generate
<1>1. CASE Answer(w)
  BY <1>0, <1>1, Untouched, CreditAnswer
<1>2. CASE ~Answer(w)
  <2>0. DOMAIN req[w] = Fields
    BY <1>0 DEF HandlerOk, Shape
  <2>1. PICK r : r = req'[w]
    OBVIOUS
  <2>2. Moves(w)
    BY DEF Generate, Inv, Moves
  <2>3. /\ r.at \in {"code", "insert"} /\ r.kind = req[w].kind /\ r.credit = req[w].credit
        /\ r.no = req[w].no /\ r.op = req[w].op /\ r.rows = req[w].rows
    <3>1. CASE Generate(w)
      <4>1. r = [req[w] EXCEPT !.at = "insert", !.code = NextCode(req[w].kind)]
        BY <2>1, <3>1 DEF Generate, Inv
      <4> QED
        BY <2>0, <4>1, FieldsAre
    <3>2. CASE req' = [req EXCEPT ![w] = Retry(w)]
      <4>1. r = [req[w] EXCEPT !.at = "code", !.tries = @ + 1]
        BY <1>2, <2>1, <3>2 DEF Retry, Answer, Inv
      <4> QED
        BY <2>0, <4>1, FieldsAre
    <3> QED
      BY <3>1, <3>2
  <2>4. CreditOk(r)
    BY <1>0, <2>3 DEF CreditOk, Cleared
  <2> QED
    BY <2>1, <2>2, <2>4, CreditGoesOn
<1> QED
  BY <1>1, <1>2

-----------------------------------------------------------------------------
\* A write whose code nobody else is about, or that is contested from then on.
LEMMA CreditWrites ==
    ASSUME Inv, CreditInv, NEW w \in Worker, Write(w)
    PROVE  CreditInv'
<1> DEFINE q == req[w]
           p == req[w].id
           new == IF req[w].credit = Unsent THEN party[p].credit ELSE req[w].credit
<1>0. /\ CreditOk(q) /\ q.at = "edit" /\ Answer(w) /\ Contested(w, q.credit)
      /\ p \in DOMAIN party /\ party[p].kind = q.kind
  BY DEF Inv, CreditInv, CreditOk, OfKind, Write
<1>1. /\ DOMAIN party' = DOMAIN party
      /\ \A x \in DOMAIN party :
            /\ party'[x].kind = party[x].kind /\ party'[x].visible = party[x].visible
            /\ party'[x].credit = IF x = p THEN new ELSE party[x].credit
  BY <1>0, FieldsAre DEF Write, Inv, Tables
<1>2. /\ contested \subseteq contested'
      /\ q.credit \in Credit =>
            q.credit \in contested' \/ \A v \in Worker \ {w} : req[v].credit # q.credit
  BY <1>0 DEF Contested
<1>3. new \in Credit \cup {None} /\ (new = party[p].credit \/ (new = q.credit /\ q.credit # Unsent))
  BY <1>0 DEF CreditInv, CreditOk
<1> HIDE DEF new
<1>4. Careful(w)
  BY <1>0, <1>1, <1>2, <1>3 DEF Careful
<1>5. \A x \in DOMAIN party' : party'[x].credit \in Credit \cup {None}
  BY <1>1, <1>3 DEF CreditInv
<1>6. \A x \in DOMAIN party \ {p} :
         party[x].visible /\ party[x].kind = q.kind /\ party[x].credit = q.credit
            /\ q.credit \in Credit => q.credit \in contested
  BY <1>0 DEF CreditOk, Cleared, Visible, OfKind
<1>7. OneEach'
  <2>1. ASSUME NEW x \in DOMAIN party, NEW y \in DOMAIN party, x # y,
               party[x].visible, party[y].visible, party[x].kind = party[y].kind,
               party'[x].credit = party'[y].credit, party'[x].credit \in Credit
        PROVE  party'[x].credit \in contested'
    <3>1. CASE new = party[p].credit
      BY <1>1, <1>2, <2>1, <3>1, UnsentIs DEF CreditInv, OneEach
    <3>2. CASE new = q.credit
      <4>1. CASE x # p /\ y # p
        BY <1>1, <1>2, <2>1, <4>1, UnsentIs DEF CreditInv, OneEach
      <4>2. CASE x = p
        BY <1>0, <1>1, <1>2, <1>6, <2>1, <3>2, <4>2
      <4>3. CASE y = p
        BY <1>0, <1>1, <1>2, <1>6, <2>1, <3>2, <4>3
      <4> QED
        BY <4>1, <4>2, <4>3
    <3> QED
      BY <1>3, <3>1, <3>2
  <2> QED
    BY <1>1, <1>5, <2>1 DEF OneEach
<1> QED
  BY <1>0, <1>4, <1>5, <1>7, CreditAnswer

LEMMA NewCredit ==
    ASSUME NEW w \in Worker, NEW row, row = NewParty(w)
    PROVE  row.kind = req[w].kind /\ row.credit = req[w].credit
<1>1. PICK status : status = CASE req[w].kind = "supplier" -> None
                               [] req[w].kind = "customer" /\ req[w].op = "import" -> "APPROVED"
                               [] OTHER -> "PENDING"
  OBVIOUS
<1>2. PICK visible : visible = (req[w].kind = "supplier" \/ req[w].op # "import contracts"
                                  \/ req[w].sales)
  OBVIOUS
<1>3. row = [kind |-> req[w].kind, name |-> req[w].name, credit |-> req[w].credit,
             code |-> req[w].code, status |-> status, visible |-> visible]
  BY <1>1, <1>2, Zenon DEF NewParty
<1> QED
  BY <1>3

\* What Chosen and Synced keep of a handler.
LEMMA ChosenKeeps ==
    ASSUME NEW w \in Worker, DOMAIN req[w] = Fields, NEW p, NEW at, NEW r, r = Chosen(w, p, at)
    PROVE  r.credit = req[w].credit /\ r.op = req[w].op /\ r.rows = req[w].rows /\ r.at = at
<1>1. PICK named : r = [req[w] EXCEPT !.at = at, !.id = p, !.named = named]
  BY DEF Chosen
<1> QED
  BY <1>1, FieldsAre

LEMMA SyncedKeeps ==
    ASSUME NEW w \in Worker, DOMAIN req[w] = Fields, NEW r, r = Synced(w)
    PROVE  /\ r.credit = req[w].credit /\ r.op = req[w].op /\ r.rows = req[w].rows
           /\ r.at \in {"insert contract", "upsert", "write contract"}
BY FieldsAre DEF Synced

LEMMA CreditInserts ==
    ASSUME Inv, CreditInv, NEW w \in Worker, Insert(w)
    PROVE  CreditInv'
<1> DEFINE q == req[w]
<1>0. CreditOk(q) /\ HandlerOk(q) /\ q.at = "insert" /\ DOMAIN q = Fields
  BY DEF Inv, CreditInv, Insert, HandlerOk, Shape
<1>1. CASE req' = [req EXCEPT ![w] = Retry(w)] /\ UNCHANGED <<party, contested>>
  BY <1>0, <1>1, CreditGenerates
<1>2. ASSUME NEW p \in Fresh,
             party' = [x \in DOMAIN party \cup {p} |-> IF x = p THEN NewParty(w) ELSE party[x]],
             req' = [req EXCEPT ![w] = Added(w, p)],
             Contested(w, q.credit)
      PROVE  CreditInv'
  <2>1. /\ p \notin DOMAIN party /\ DOMAIN party' = DOMAIN party \cup {p}
        /\ \A x \in DOMAIN party : party'[x] = party[x]
        /\ party'[p].kind = q.kind /\ party'[p].credit = q.credit
    BY <1>2, NewCredit DEF Fresh
  <2>2. /\ contested \subseteq contested'
        /\ q.credit \in Credit =>
              q.credit \in contested' \/ \A v \in Worker \ {w} : req[v].credit # q.credit
    BY <1>2 DEF Contested
  <2>3. q.credit \in Credit \cup {None}
    BY <1>0 DEF CreditOk
  <2>4. Careful(w)
    BY <2>1, <2>2, <2>3 DEF Careful
  <2>5. \A x \in DOMAIN party' : party'[x].credit \in Credit \cup {None}
    BY <2>1, <2>3 DEF CreditInv
  <2>6. \A x \in DOMAIN party :
           party[x].visible /\ party[x].kind = q.kind /\ party[x].credit = q.credit
              /\ q.credit \in Credit => q.credit \in contested
    BY <1>0 DEF CreditOk, Cleared, Visible, OfKind
  <2>7. OneEach'
    <3>1. ASSUME NEW x \in DOMAIN party, NEW y \in DOMAIN party, x # y,
                 party[x].visible, party[y].visible, party[x].kind = party[y].kind,
                 party[x].credit = party[y].credit, party[x].credit \in Credit
          PROVE  party[x].credit \in contested'
      BY <2>2, <3>1, UnsentIs DEF CreditInv, OneEach
    <3> HIDE DEF q
    <3> QED
      BY <2>1, <2>2, <2>3, <2>5, <2>6, <3>1 DEF OneEach
  <2>8. PICK r : r = Added(w, p)
    OBVIOUS
  <2>9. Moves(w) /\ req'[w] = r
    BY <1>2, <2>8 DEF Inv, Moves
  <2>10. CreditOk(r) /\ r.credit = None
    <3>1. CASE q.no = None
      BY <1>0, <2>8, <3>1, CreditDone DEF Added
    <3>2. CASE q.no # None
      <4>2. r.credit = q.credit /\ r.op = q.op /\ r.rows = q.rows
            /\ r.at \in {"sync", "insert contract", "upsert", "write contract"}
        <5>1. CASE r = Chosen(w, p, "sync")
          <6>1. DOMAIN req[w] = Fields
            BY <1>0
          <6>2. PICK id, at : id = p /\ at = "sync" /\ r = Chosen(w, id, at)
            BY <5>1
          <6>3. r.credit = req[w].credit /\ r.op = req[w].op /\ r.rows = req[w].rows /\ r.at = at
            BY <6>1, <6>2, ChosenKeeps
          <6> QED
            BY <6>2, <6>3
        <5>2. CASE r = Synced(w)
          BY <1>0, <5>2, SyncedKeeps
        <5> QED
          BY <2>8, <3>2, <5>1, <5>2 DEF Added
      <4>3. q.credit = None
        BY <1>0, <3>2 DEF CreditOk
      <4> QED
        BY <1>0, <4>2, <4>3, Uncredited DEF CreditOk
    <3> QED
      BY <3>1, <3>2
  <2> QED
    BY <2>4, <2>5, <2>7, <2>9, <2>10, CreditStays, CreditFrame
<1> QED
  BY <1>1, <1>2 DEF Insert

\* Writes of other columns; a customer that is shown again brings its code.
LEMMA CreditOthers ==
    ASSUME Inv, CreditInv, NEW w \in Worker, Hide(w) \/ ApproveWrite(w)
    PROVE  CreditInv'
<1>0. req[w].at \notin {"row", "idle"} /\ Answer(w) /\ UNCHANGED contested
  BY DEF Hide, ApproveWrite
<1>1. /\ DOMAIN party' = DOMAIN party
      /\ \A x \in DOMAIN party :
            /\ party'[x].kind = party[x].kind /\ party'[x].credit = party[x].credit
            /\ party'[x].visible => party[x].visible
  BY FieldsAre DEF Hide, ApproveWrite, Inv, Tables
<1>2. Careful(w) /\ OneEach' /\ \A p \in DOMAIN party' : party'[p].credit \in Credit \cup {None}
  BY <1>0, <1>1 DEF CreditInv, Careful, OneEach
<1> QED
  BY <1>0, <1>2, CreditAnswer

LEMMA CreditRestores ==
    ASSUME Inv, CreditInv, NEW w \in Worker, Restore(w)
    PROVE  CreditInv'
<1> DEFINE p == req[w].id
<1>0. /\ CreditOk(req[w]) /\ HandlerOk(req[w]) /\ req[w].at = "restore" /\ DOMAIN req[w] = Fields
      /\ req[w].no # None
  BY NoneIs DEF Inv, CreditInv, Restore, HandlerOk, Shape, HasCustomer
<1>1. /\ DOMAIN party' = DOMAIN party
      /\ \A x \in DOMAIN party :
            /\ party'[x].kind = party[x].kind /\ party'[x].credit = party[x].credit
            /\ x # p => party'[x].visible = party[x].visible
  BY FieldsAre DEF Restore, Inv, Tables
<1>2. contested \subseteq contested' /\ (p \in DOMAIN party => party[p].credit \in contested' \cup {None})
  BY DEF Restore
<1>3. Careful(w) /\ OneEach' /\ \A x \in DOMAIN party' : party'[x].credit \in Credit \cup {None}
  BY <1>1, <1>2, UnsentIs DEF CreditInv, Careful, OneEach
<1>4. PICK r : r = [req[w] EXCEPT !.at = "sync"]
  OBVIOUS
<1>5. Moves(w) /\ req'[w] = r
  BY <1>4 DEF Restore, GoTo, Inv, Moves
<1>6. /\ r.at = "sync" /\ r.credit = req[w].credit /\ r.op = req[w].op /\ r.rows = req[w].rows
  BY <1>0, <1>4, FieldsAre
<1>7. CreditOk(r) /\ r.credit = None
  BY <1>0, <1>6, Uncredited DEF CreditOk
<1> QED
  BY <1>3, <1>5, <1>7, CreditStays, CreditFrame

\* Nothing about a contract is about a credit code.
LEMMA CreditContract ==
    ASSUME Inv, CreditInv, NEW w \in Worker,
           \/ Find(w) \/ Seen(w) \/ Sync(w)
           \/ InsertContract(w) \/ WriteContract(w) \/ RemoveContractWrite(w)
           \/ FindVisible(w) \/ FindHidden(w) \/ Upsert(w)
    PROVE  CreditInv'
<1>0. /\ UNCHANGED <<party, contested>> /\ CreditOk(req[w]) /\ HandlerOk(req[w])
      /\ DOMAIN req[w] = Fields /\ req[w].at \notin {"row", "idle"}
  BY DEF Find, Seen, Sync, InsertContract, WriteContract, RemoveContractWrite, FindVisible, FindHidden,
         Upsert, Inv, CreditInv, HandlerOk, Shape
<1>1. CASE Answer(w)
  BY <1>0, <1>1, Untouched, CreditAnswer
<1>2. CASE ~Answer(w)
  <2>0. Moves(w)
    BY <1>2 DEF Find, Seen, Sync, InsertContract, WriteContract, RemoveContractWrite,
       FindVisible, FindHidden, Upsert, GoTo, Inv, Moves
  <2>1. PICK r : r = req'[w]
    OBVIOUS
  <2>2. /\ r.at \in {"sync", "restore", "insert contract", "upsert", "write contract", "code",
                     "hidden", "find"}
        /\ r.credit = req[w].credit /\ r.op = req[w].op /\ r.rows = req[w].rows
    <3>1. CASE Find(w) \/ Seen(w)
      <4>1. CASE Find(w)
        <5>1. req' = [req EXCEPT ![w].at = "sync", ![w].name = party[req[w].id].name]
          BY <1>2, <4>1 DEF Find
        <5>2. r = [req[w] EXCEPT !.at = "sync", !.name = party[req[w].id].name]
          BY <2>1, <5>1 DEF Inv
        <5> QED
          BY <1>0, <5>2, FieldsAre
      <4>2. CASE Seen(w)
        <5>1. PICK at \in {"sync", "restore"} : req' = [req EXCEPT ![w].at = at]
          BY <4>2 DEF Seen, GoTo
        <5> QED
          BY <1>0, <2>1, <5>1, FieldsAre DEF Inv
      <4> QED
        BY <3>1, <4>1, <4>2
    <3>2. CASE Sync(w)
      <4>1. CASE req' = [req EXCEPT ![w] = Synced(w)]
        <5>1. r = Synced(w)
          BY <2>1, <4>1 DEF Inv
        <5> QED
          BY <1>0, <5>1, SyncedKeeps
      <4>2. CASE req' = [req EXCEPT ![w].at = "code", ![w].kind = "supplier", ![w].tries = 0]
        BY <1>0, <2>1, <4>2, FieldsAre DEF Inv
      <4> QED
        BY <3>2, <4>1, <4>2 DEF Sync
    <3>3. ASSUME NEW p, NEW at \in {"sync", "restore"}, req' = [req EXCEPT ![w] = Chosen(w, p, at)]
          PROVE  r.at \in {"sync", "restore"} /\ r.credit = req[w].credit /\ r.op = req[w].op
                 /\ r.rows = req[w].rows
      <4>1. r = Chosen(w, p, at)
        BY <2>1, <3>3 DEF Inv
      <4> QED
        BY <1>0, <4>1, ChosenKeeps
    <3>4. CASE FindVisible(w)
      <4>1. CASE GoTo(w, "hidden")
        BY <1>0, <2>1, <4>1, FieldsAre DEF GoTo, Inv
      <4> QED
        BY <3>3, <3>4, <4>1 DEF FindVisible
    <3>5. CASE FindHidden(w)
      <4>1. CASE req' = [req EXCEPT ![w].at = "code", ![w].tries = 0]
        BY <1>0, <2>1, <4>1, FieldsAre DEF Inv
      <4> QED
        BY <3>3, <3>5, <4>1 DEF FindHidden
    <3>6. CASE Upsert(w)
      <4>1. CASE req[w].no \notin DOMAIN contract
        <5>1. r = [req[w] EXCEPT !.at = "find", !.new = TRUE]
          BY <2>1, <3>6, <4>1 DEF Upsert, Inv
        <5> QED
          BY <1>0, <5>1, FieldsAre
      <4>2. CASE req[w].no \in DOMAIN contract
        <5>1. PICK customer, type, undelete :
                 r = [req[w] EXCEPT !.at = "write contract", !.customer = customer,
                                    !.type = type, !.undelete = undelete]
          BY <1>2, <2>1, <3>6, <4>2 DEF Upsert, Answer, Inv
        <5> QED
          BY <1>0, <5>1, FieldsAre
      <4> QED
        BY <4>1, <4>2
    <3> QED
      BY <1>2, <3>1, <3>2, <3>4, <3>5, <3>6 DEF InsertContract, WriteContract, RemoveContractWrite
  <2>3. r.credit = None
    <3>1. req[w].no # None
      BY <1>0, <1>2, NoneIs
      DEF Find, Seen, Sync, InsertContract, WriteContract, RemoveContractWrite, FindVisible,
          FindHidden, Upsert, HandlerOk, Shape, HasCustomer, Looking
    <3> QED
      BY <1>0, <2>2, <3>1 DEF CreditOk
  <2> QED
    BY <1>0, <2>0, <2>1, <2>2, <2>3, ContractGoesOn
<1> QED
  BY <1>1, <1>2

LEMMA CreditCount ==
    ASSUME Inv, CreditInv, NEW w \in Worker, Count(w)
    PROVE  CreditInv'
<1>0. /\ UNCHANGED <<party, contested>> /\ CreditOk(req[w]) /\ req[w].at = "count"
      /\ DOMAIN req[w] = Fields
  BY DEF Count, Inv, CreditInv, HandlerOk, Shape
<1>1. CASE Answer(w)
  BY <1>0, <1>1, Untouched, CreditAnswer
<1>2. CASE GoTo(w, "hide")
  <2>1. PICK r : r = [req[w] EXCEPT !.at = "hide"]
    OBVIOUS
  <2>2. Moves(w) /\ req'[w] = r
    BY <1>2, <2>1 DEF GoTo, Inv, Moves
  <2>3. /\ r.at = "hide" /\ r.credit = req[w].credit /\ r.op = req[w].op /\ r.rows = req[w].rows
        /\ r.no = req[w].no
    BY <1>0, <2>1, FieldsAre
  <2>4. CreditOk(r)
    BY <1>0, <2>3 DEF CreditOk, Cleared
  <2> QED
    BY <1>0, <2>2, <2>4, CreditGoesOn
<1> QED
  BY <1>1, <1>2 DEF Count

\* The next row of an import of contracts.
LEMMA CreditContractRow ==
    ASSUME Inv, CreditInv, NEW w \in Worker, ContractInRow(w)
    PROVE  CreditInv'
<1>0. /\ UNCHANGED <<party, contested>> /\ CreditOk(req[w]) /\ req[w].at = "row"
      /\ req[w].op = "import contracts" /\ DOMAIN req[w] = Fields /\ req[w].credit = None
  BY DEF ContractInRow, Inv, CreditInv, HandlerOk, Shape, CreditOk
<1>1. Moves(w)
  BY DEF ContractInRow, Inv, Moves
<1>2. PICK r : r = req'[w]
  OBVIOUS
<1>3. CASE req[w].rows = <<>>
  <2>1. r = Idle
    BY <1>2, <1>3 DEF ContractInRow, Inv
  <2>2. r.credit = None /\ r.at = "idle" /\ r.op = None /\ r.rows = <<>>
    BY <2>1 DEF Idle
  <2>3. r.rows \in Seq(PartyInput)
    BY <2>2
  <2> QED
    BY <1>0, <1>1, <1>2, <2>2, <2>3, Uncredited, CreditGoesOn
<1>4. CASE req[w].rows # <<>>
  <2>1. PICK row : row = Head(req[w].rows)
    OBVIOUS
  <2>2. PICK asked : asked = [req[w] EXCEPT !.kind = "customer", !.no = row.no, !.name = row.name,
                                            !.sales = row.sales]
    OBVIOUS
  <2>3. DOMAIN asked = Fields /\ asked.credit = None /\ asked.op = req[w].op
        /\ asked.rows = req[w].rows
    BY <1>0, <2>2, FieldsAre
  <2>4. \/ r = [asked EXCEPT !.at = "visible"]
        \/ r = [asked EXCEPT !.at = "sync", !.id = req[w].named[row.name]]
    BY <1>2, <1>4, <2>1, <2>2 DEF ContractInRow, Inv
  <2>5. r.at \in {"visible", "sync"} /\ r.credit = None /\ r.op = req[w].op
        /\ r.rows = req[w].rows
    BY <2>3, <2>4, FieldsAre
  <2> QED
    BY <1>0, <1>1, <1>2, <2>5, ContractGoesOn
<1> QED
  BY <1>3, <1>4

LEMMA CreditFails ==
    ASSUME Inv, CreditInv, NEW w \in Worker, Fail(w)
    PROVE  CreditInv'
<1>0. UNCHANGED <<party, contested>> /\ req[w].at # "idle"
  BY DEF Fail
<1>1. CASE req[w].at # "row" /\ Answer(w)
  BY <1>0, <1>1, Untouched, CreditAnswer
<1>2. CASE req' = [req EXCEPT ![w] = Idle]
  <2>1. PICK r : r = Idle
    OBVIOUS
  <2>2. r.credit = None /\ r.at = "idle" /\ r.op = None /\ r.rows = <<>>
    BY <2>1 DEF Idle
  <2>3. r.rows \in Seq(PartyInput)
    BY <2>2
  <2>4. Moves(w) /\ req'[w] = r
    BY <1>2, <2>1 DEF Inv, Moves
  <2> QED
    BY <1>0, <2>2, <2>3, <2>4, Uncredited, CreditGoesOn
<1> QED
  BY <1>1, <1>2 DEF Fail

-----------------------------------------------------------------------------
LEMMA CreditInit == Init => CreditInv
<1> SUFFICES ASSUME Init PROVE CreditInv
  OBVIOUS
<1>1. ASSUME NEW r \in {req[w] : w \in Worker} PROVE CreditOk(r)
  <2>1. r = Idle
    BY DEF Init
  <2>2. r.credit = None /\ r.at = "idle" /\ r.op = None /\ r.rows = <<>>
    BY <2>1 DEF Idle
  <2>3. r.rows \in Seq(PartyInput)
    BY <2>2
  <2> QED
    BY <2>2, <2>3, Uncredited
<1> QED
  BY <1>1 DEF Init, CreditInv, OneEach

LEMMA CreditNext ==
    ASSUME Inv, CreditInv, [Next]_vars
    PROVE  CreditInv'
<1>1. CASE UNCHANGED vars
  BY <1>1 DEF vars, CreditInv, OneEach, CreditOk, Cleared, Visible, OfKind
<1>2. ASSUME NEW w \in Worker, Step(w) PROVE CreditInv'
  <2>1. Generate(w) => UNCHANGED <<party, contested>>
    BY DEF Generate
  <2> QED
    BY <1>2, <2>1, CreditRow, CreditLookUp, CreditWrites, CreditGenerates, CreditInserts,
       CreditCount, CreditOthers, CreditRestores, CreditContract, CreditContractRow
    DEF Step
<1> QED
  BY <1>1, <1>2, CreditAsks, CreditFails DEF Next

\* Visible customers, and visible suppliers, have a credit code each, however
\* creates, updates and imports overlap and fail, for any number of handlers,
\* parties and rows; unless two requests about a code overlapped or a contract
\* brought a deleted customer back (customers.service.ts and
\* suppliers.service.ts create, update and importFile).
THEOREM CreditCorrect == Spec => []CreditUnlessContested
<1>1. CreditInv => CreditUnlessContested
  BY DEF CreditInv, OneEach, CreditUnlessContested, Visible, OfKind
<1> QED
  BY <1>1, InvCorrect, CreditInit, CreditNext, PTL DEF Spec

-----------------------------------------------------------------------------
(***************************************************************************)
(* Types, and the codes of parties.  A code past the last number is only   *)
(* generated when the last number is taken, and no code is ever given up:  *)
(* so the number after it is not reached.                                  *)
(***************************************************************************)
Sums == INSTANCE RowsProofs

Naming == {"byCode", "byCredit", "duplicate", "code", "insert", "edit", "visible", "hidden",
           "seen", "restore", "sync"}

Fits(r) ==
    /\ r \in Handler
    /\ r.at \in Naming => r.name \in Name
    /\ r.at = "byCode" => r.code \in Brought
    /\ r.at = "byCredit" => r.code \in Brought \cup {None}
    /\ r.at = "insert" => r.code \in Code
    /\ r.at \in {"count", "hide"} => r.id \in Party
    /\ r.at = "judge" => r.verdict \in Verdicts

PastLast(code, kind) == code = LastNo + 1 => LastNo \in Codes(kind)

Typed(r) == Fits(r) /\ (r.at = "insert" => PastLast(r.code, r.kind))

TypeInv ==
    /\ TypeOK
    /\ \A r \in {req[w] : w \in Worker} : Typed(r)
    /\ \A row \in {party[p] : p \in DOMAIN party} : PastLast(row.code, row.kind)

LEMMA IdleFits == Fits(Idle) /\ Idle.at = "idle"
<1>1. <<>> \in Seq(PartyInput)
  OBVIOUS
<1>2. [n \in Name |-> None] \in [Name -> Party \cup {None}]
  OBVIOUS
<1> QED
  BY <1>1, <1>2 DEF Fits, Naming, Idle, Handler, Kind

\* The number that follows is a code, and past the last one only if that is taken.
LEMMA NextCodeFits ==
    ASSUME TypeInv, NEW kind \in Kind
    PROVE  NextCode(kind) \in Code /\ PastLast(NextCode(kind), kind)
<1>0. LastNo \in Nat \ {0} /\ Foreign \notin Nat
  BY PaymentRequestConstants, CounterpartyConstants
<1>1. Codes(kind) \subseteq Code
  BY DEF Codes, OfKind, TypeInv, TypeOK, PartyRow
<1>2. CASE Codes(kind) = {} \/ Foreign \in Codes(kind)
  <2>1. NextCode(kind) = 1
    BY <1>2 DEF NextCode
  <2> QED
    BY <1>0, <2>1 DEF Code, PastLast
<1>3. CASE LastNo \in Codes(kind) /\ Foreign \notin Codes(kind)
  <2>1. NextCode(kind) = LastNo + 1
    BY <1>3 DEF NextCode
  <2> QED
    BY <1>0, <1>3, <2>1 DEF Code, PastLast
<1>4. CASE Codes(kind) # {} /\ Foreign \notin Codes(kind) /\ LastNo \notin Codes(kind)
  <2>1. LastNo + 1 \notin Codes(kind)
    BY <1>4 DEF TypeInv, PastLast, Codes, OfKind
  <2>2. \A c \in Codes(kind) : c \in 1 .. LastNo - 1
    BY <1>0, <1>1, <1>4, <2>1 DEF Code
  <2>3. IsFiniteSet(Codes(kind))
    <3>1. IsFiniteSet(1 .. LastNo - 1)
      BY <1>0, FS_Interval
    <3>2. Codes(kind) \in SUBSET (1 .. LastNo - 1)
      BY <2>2
    <3> QED
      BY <3>1, <3>2, FS_Subset
  <2>4. Max(Codes(kind)) \in 1 .. LastNo - 1
    <3>1. PICK A : A = Codes(kind)
      OBVIOUS
    <3>2. A \subseteq Nat /\ IsFiniteSet(A) /\ A # {}
      BY <1>4, <2>2, <2>3, <3>1
    <3>3. Sums!Max(A) \in A
      BY <3>2, Sums!GreatestExists DEF IsFiniteSet, Sums!IsFiniteSet
    <3>4. Max(A) = Sums!Max(A)
      BY DEF Max, Sums!Max
    <3> QED
      BY <2>2, <3>1, <3>3, <3>4
  <2>5. NextCode(kind) = Max(Codes(kind)) + 1
    BY <1>4 DEF NextCode
  <2> QED
    BY <1>0, <2>4, <2>5 DEF Code, PastLast
<1> QED
  BY <1>2, <1>3, <1>4

-----------------------------------------------------------------------------
\* A handler goes on, parties and their codes stay, and what is written fits.
LEMMA TypedFrame ==
    ASSUME TypeInv, NEW w \in Worker, NEW r, req' = [req EXCEPT ![w] = r], Typed(r),
           DOMAIN party \subseteq DOMAIN party', DOMAIN party' \subseteq Party,
           party' \in [DOMAIN party' -> PartyRow],
           \A p \in DOMAIN party : party'[p].kind = party[p].kind /\ party'[p].code = party[p].code,
           \A p \in DOMAIN party' \ DOMAIN party : PastLast(party'[p].code, party'[p].kind),
           DOMAIN contract' \subseteq Contract,
           contract' \in [DOMAIN contract' -> ContractRow],
           unchecked' \subseteq Party \cup Contract, contested' \subseteq Credit
    PROVE  TypeInv'
<1>1. \A kind : Codes(kind) \subseteq Codes(kind)'
  BY DEF Codes, OfKind
<1>2. req' \in [Worker -> Handler] /\ req'[w] = r /\ \A v \in Worker \ {w} : req'[v] = req[v]
  BY DEF TypeInv, TypeOK, Typed, Fits
<1>3. TypeOK'
  BY <1>2 DEF TypeOK
<1>4. ASSUME NEW q, Typed(q) PROVE Typed(q)'
  BY <1>1, <1>4 DEF Typed, Fits, PastLast
<1>5. ASSUME NEW q \in {req'[v] : v \in Worker} PROVE Typed(q)'
  <2>1. CASE q = r
    BY <2>1, <1>4
  <2>2. CASE q # r
    <3>1. Typed(q)
      BY <1>2, <2>2 DEF TypeInv
    <3> QED
      BY <3>1, <1>4
  <2> QED
    BY <2>1, <2>2
<1>6. ASSUME NEW row \in {party'[p] : p \in DOMAIN party'} PROVE PastLast(row.code, row.kind)'
  <2>1. PICK p \in DOMAIN party' : row = party'[p]
    OBVIOUS
  <2>2. PastLast(row.code, row.kind)
    BY <2>1 DEF TypeInv
  <2> QED
    BY <1>1, <2>2 DEF PastLast
<1> QED
  BY <1>3, <1>5, <1>6 DEF TypeInv

LEMMA TypedGoesOn ==
    ASSUME TypeInv, UNCHANGED <<party, contract, contested>>,
           unchecked' \subseteq Party \cup Contract,
           NEW w \in Worker, NEW r, req' = [req EXCEPT ![w] = r], Typed(r)
    PROVE  TypeInv'
<1>1. /\ DOMAIN party \subseteq Party /\ party \in [DOMAIN party -> PartyRow]
      /\ DOMAIN contract \subseteq Contract /\ contract \in [DOMAIN contract -> ContractRow]
      /\ contested \subseteq Credit
  BY DEF TypeInv, TypeOK
<1> QED
  BY <1>1, TypedFrame

\* The same where several fields are replaced one after the other.
LEMMA Replaced ==
    ASSUME TypeInv, NEW w \in Worker, NEW a, NEW r
    PROVE  [[req EXCEPT ![w] = a] EXCEPT ![w] = r] = [req EXCEPT ![w] = r]
BY DEF TypeInv, TypeOK

\* An answered request, or a row of an import that is done.
LEMMA DoneFits ==
    ASSUME Inv, CreditInv, TypeInv, NEW w \in Worker, req[w].at \notin {"row", "idle"},
           NEW r, r = Done(w)
    PROVE  Typed(r)
<1>1. CASE Importing(w)
  <2> DEFINE q == req[w]
  <2>1. Tail(q.rows) \in Seq(PartyInput) \cup Seq(ContractInput)
    <3>1. CASE q.op = "import"
      <4>1. q.rows \in Seq(PartyInput) /\ q.rows # <<>>
        BY <3>1 DEF CreditInv, CreditOk
      <4> QED
        BY <4>1, HeadTailProperties
    <3>2. CASE q.op = "import contracts"
      <4>1. q.rows \in Seq(ContractInput) /\ q.rows # <<>>
        BY <3>2 DEF Inv, HandlerOk, Shape
      <4> QED
        BY <4>1, HeadTailProperties
    <3> QED
      BY <1>1, <3>1, <3>2 DEF Importing
  <2>2. q \in Handler /\ Idle \in Handler
    BY IdleFits DEF TypeInv, Typed, Fits
  <2>3. PICK rows : rows = Tail(q.rows)
    OBVIOUS
  <2>4. r = [Idle EXCEPT !.at = "row", !.op = q.op, !.kind = q.kind, !.rows = rows,
                         !.named = q.named, !.synced = q.synced]
    BY <1>1, <2>3 DEF Done
  <2>5. rows \in Seq(PartyInput) \cup Seq(ContractInput)
    BY <2>1, <2>3
  <2> HIDE DEF q
  <2>6. r \in Handler
    BY <2>2, <2>4, <2>5, Zenon DEF Handler
  <2>7. r.at = "row"
    BY <2>4, FieldsAre
  <2> QED
    BY <2>6, <2>7 DEF Typed, Fits, Naming
<1>2. CASE ~Importing(w)
  BY <1>2, IdleFits DEF Done, Typed
<1> QED
  BY <1>1, <1>2

LEMMA TypedAnswer ==
    ASSUME Inv, CreditInv, TypeInv, NEW w \in Worker, req[w].at \notin {"row", "idle"}, Answer(w),
           DOMAIN party' = DOMAIN party, party' \in [DOMAIN party -> PartyRow],
           \A p \in DOMAIN party : party'[p].kind = party[p].kind /\ party'[p].code = party[p].code,
           DOMAIN contract' \subseteq Contract,
           contract' \in [DOMAIN contract' -> ContractRow],
           unchecked' \subseteq Party \cup Contract, contested' \subseteq Credit
    PROVE  TypeInv'
<1>1. PICK r : r = Done(w)
  OBVIOUS
<1>2. Typed(r)
  BY <1>1, DoneFits
<1>3. req' = [req EXCEPT ![w] = r] /\ DOMAIN party \subseteq Party
  BY <1>1 DEF Answer, TypeInv, TypeOK
<1> QED
  BY <1>2, <1>3, TypedFrame

-----------------------------------------------------------------------------
LEMMA TypedNow ==
    ASSUME TypeInv, NEW w \in Worker
    PROVE  Typed(req[w]) /\ req[w] \in Handler /\ DOMAIN req[w] = Fields
<1>1. Typed(req[w]) /\ req[w] \in Handler
  BY DEF TypeInv, Typed, Fits
<1> QED
  BY <1>1, FieldsAre DEF Handler

\* A handler that starts, holding what it was sent.
LEMMA TypedStart ==
    ASSUME TypeInv, UNCHANGED <<party, contract, unchecked, contested>>, NEW w \in Worker,
           NEW r, Start(w, r), r \in Handler,
           r.at \in {"row", "find", "remove contract"}
              \/ (r.at \in {"duplicate", "code", "edit", "seen", "sync"} /\ r.name \in Name)
              \/ (r.at \in {"count", "hide"} /\ r.id \in Party)
              \/ (r.at = "judge" /\ r.verdict \in Verdicts)
    PROVE  TypeInv'
<1>1. Typed(r)
  BY DEF Typed, Fits, Naming
<1>2. unchecked' \subseteq Party \cup Contract /\ req' = [req EXCEPT ![w] = r]
  BY DEF TypeInv, TypeOK, Start
<1> QED
  BY <1>1, <1>2, TypedGoesOn

LEMMA TypedParty ==
    ASSUME TypeInv, NEW p \in DOMAIN party
    PROVE  party[p] \in PartyRow /\ p \in Party
BY DEF TypeInv, TypeOK

LEMMA TypedAskForParty ==
    ASSUME TypeInv, NEW w \in Worker, AskForParty(w)
    PROVE  TypeInv'
<1>0. Idle \in Handler
  BY IdleFits DEF Fits
<1>1. ASSUME NEW kind \in Kind, Create(w, kind) PROVE TypeInv'
  <2>1. PICK name, credit, at, r :
           /\ name \in Name /\ credit \in Credit \cup {None} /\ at \in {"code", "duplicate"}
           /\ r = [Idle EXCEPT !.at = at, !.op = "create", !.kind = kind, !.name = name,
                               !.credit = credit]
           /\ Start(w, r)
    BY <1>1 DEF Create
  <2>2. r \in Handler
    BY <1>0, <2>1, Zenon DEF Handler
  <2>3. r.at = at /\ r.name = name
    BY <2>1, FieldsAre
  <2> QED
    BY <1>1, <2>1, <2>2, <2>3, TypedStart DEF Create
<1>2. ASSUME NEW kind \in Kind, Edit(w, kind) PROVE TypeInv'
  <2>1. PICK p, name, credit, at, r :
           /\ p \in Visible(kind)
           /\ name \in Name
           /\ credit \in Credit \cup {None, Unsent}
           /\ at \in {"edit", "duplicate"}
           /\ r = [Idle EXCEPT !.at = at, !.op = "edit", !.kind = kind, !.id = p, !.name = name,
                               !.credit = credit]
           /\ Start(w, r)
    BY <1>2 DEF Edit
  <2>2. p \in Party
    BY <2>1, TypedParty DEF Visible, OfKind
  <2>3. r \in Handler
    BY <1>0, <2>1, <2>2, Zenon DEF Handler
  <2>4. r.at = at /\ r.name = name
    BY <2>1, FieldsAre
  <2> QED
    BY <1>2, <2>1, <2>3, <2>4, TypedStart DEF Edit
<1>3. ASSUME NEW kind \in Kind, ImportRows(w, kind) PROVE TypeInv'
  <2>1. PICK rows, r :
           /\ rows \in PartyBatches
           /\ r = [Idle EXCEPT !.at = "row", !.op = "import", !.kind = kind, !.rows = rows]
           /\ Start(w, r)
    BY <1>3 DEF ImportRows
  <2>2. rows \in Seq(PartyInput)
    BY <2>1, CounterpartyConstants
  <2>3. r \in Handler
    BY <1>0, <2>1, <2>2, Zenon DEF Handler
  <2>4. r.at = "row"
    BY <2>1, FieldsAre
  <2> QED
    BY <1>3, <2>1, <2>3, <2>4, TypedStart DEF ImportRows
<1>4. ASSUME NEW p \in Party, RemoveCustomer(w, p) \/ RemoveSupplier(w, p) PROVE TypeInv'
  <2>1. ASSUME NEW at \in {"count", "hide"}, Start(w, [Idle EXCEPT !.at = at, !.op = "remove", !.id = p])
        PROVE  TypeInv'
    <3>1. PICK r : r = [Idle EXCEPT !.at = at, !.op = "remove", !.id = p]
      OBVIOUS
    <3>2. r \in Handler
      BY <1>0, <3>1, Zenon DEF Handler
    <3>3. r.at = at /\ r.id = p
      BY <3>1, FieldsAre
    <3> QED
      BY <1>4, <2>1, <3>1, <3>2, <3>3, TypedStart DEF RemoveCustomer, RemoveSupplier
  <2>2. CASE RemoveCustomer(w, p)
    BY <2>1, <2>2 DEF RemoveCustomer
  <2>3. CASE RemoveSupplier(w, p)
    BY <2>1, <2>3 DEF RemoveSupplier
  <2> QED
    BY <1>4, <2>2, <2>3
<1>5. ASSUME NEW p \in Party, ApproveRead(w, p) PROVE TypeInv'
  <2>1. PICK verdict, r :
           /\ verdict \in Verdicts
           /\ r = [Idle EXCEPT !.at = "judge", !.op = "approve", !.id = p, !.verdict = verdict]
           /\ Start(w, r)
    BY <1>5 DEF ApproveRead
  <2>2. r \in Handler
    BY <1>0, <2>1, Zenon DEF Handler
  <2>3. r.at = "judge" /\ r.verdict = verdict
    BY <2>1, FieldsAre
  <2> QED
    BY <1>5, <2>1, <2>2, <2>3, TypedStart DEF ApproveRead
<1> QED
  BY <1>1, <1>2, <1>3, <1>4, <1>5 DEF AskForParty, CreateCustomer, CreateSupplier, EditCustomer,
     EditSupplier, ImportCustomers, ImportSuppliers, Kind

LEMMA TypedAskForContract ==
    ASSUME Inv, TypeInv, NEW w \in Worker, AskForContract(w)
    PROVE  TypeInv'
<1>0. Idle \in Handler
  BY IdleFits DEF Fits
<1>1. CASE CreateContract(w)
  <2>1. PICK n, p, sales, r :
           /\ n \in Contract /\ p \in OfKind("customer") /\ sales \in BOOLEAN
           /\ r = [Idle EXCEPT !.at = "find", !.op = "create contract", !.no = n, !.id = p,
                               !.sales = sales, !.new = TRUE]
           /\ Start(w, r)
    BY <1>1 DEF CreateContract
  <2>2. p \in Party
    BY <2>1, TypedParty DEF OfKind
  <2>3. r \in Handler
    BY <1>0, <2>1, <2>2, ZenonT(90) DEF Handler
  <2>4. r.at = "find"
    BY <2>1, FieldsAre
  <2> QED
    BY <1>1, <2>1, <2>3, <2>4, TypedStart DEF CreateContract
<1>2. CASE ImportContracts(w)
  <2>1. PICK rows, r :
           /\ rows \in ContractBatches
           /\ r = [Idle EXCEPT !.at = "row", !.op = "import contracts", !.rows = rows]
           /\ Start(w, r)
    BY <1>2 DEF ImportContracts
  <2>2. rows \in Seq(ContractInput)
    BY <2>1, CounterpartyConstants
  <2>3. r \in Handler
    BY <1>0, <2>1, <2>2, Zenon DEF Handler
  <2>4. r.at = "row"
    BY <2>1, FieldsAre
  <2> QED
    BY <1>2, <2>1, <2>3, <2>4, TypedStart DEF ImportContracts
<1>3. ASSUME NEW n \in Contract, UpdateContract(w, n) PROVE TypeInv'
  <2>1. PICK p, type, sales, id, name, at, r :
           /\ p \in OfKind("customer") \cup {None} /\ type \in BOOLEAN \cup {None}
           /\ sales = IF type = None THEN contract[n].sales ELSE type
           /\ id = IF p # None THEN p ELSE contract[n].customer
           /\ name = party[contract[n].customer].name
           /\ at = CASE p # None -> "find"
                     [] p = None /\ sales -> "seen"
                     [] OTHER -> "sync"
           /\ r = [Idle EXCEPT !.at = at, !.op = "update contract", !.no = n, !.sales = sales,
                               !.id = id, !.name = name, !.customer = p, !.type = type]
           /\ Start(w, r)
    BY <1>3, Zenon DEF UpdateContract
  <2>2. contract[n].customer \in DOMAIN party /\ contract[n].sales \in BOOLEAN
    BY <1>3 DEF UpdateContract, Inv, Tables, Customers, OfKind
  <2>3. name \in Name /\ p \in Party \cup {None} /\ id \in Party
    BY <2>1, <2>2, TypedParty DEF PartyRow, OfKind
  <2>4. sales \in BOOLEAN /\ at \in {"find", "seen", "sync"}
    BY <2>1, <2>2, NoneIs
  <2>5. r \in Handler
    <3>1. PICK half : half = [Idle EXCEPT !.at = at, !.op = "update contract", !.no = n, !.sales = sales]
      OBVIOUS
    <3>2. half \in Handler
      BY <1>0, <2>4, <3>1, Zenon DEF Handler
    <3>3. r = [half EXCEPT !.id = id, !.name = name, !.customer = p, !.type = type]
      BY <2>1, <3>1, FieldsAre
    <3> QED
      BY <2>1, <2>3, <3>2, <3>3, ZenonT(30) DEF Handler
  <2>6. r.at = at /\ r.name = name
    BY <2>1, FieldsAre
  <2> QED
    BY <1>3, <2>1, <2>3, <2>4, <2>5, <2>6, TypedStart DEF UpdateContract
<1>4. ASSUME NEW n \in Contract, RemoveContract(w, n) PROVE TypeInv'
  <2>1. PICK r :
           /\ r = [Idle EXCEPT !.at = "remove contract", !.op = "remove contract", !.no = n]
           /\ Start(w, r)
    BY <1>4 DEF RemoveContract
  <2>2. r \in Handler
    BY <1>0, <2>1, Zenon DEF Handler
  <2>3. r.at = "remove contract"
    BY <2>1, FieldsAre
  <2> QED
    BY <1>4, <2>1, <2>2, <2>3, TypedStart DEF RemoveContract
<1> QED
  BY <1>1, <1>2, <1>3, <1>4 DEF AskForContract

-----------------------------------------------------------------------------
LEMMA TypedGoTo ==
    ASSUME TypeInv, UNCHANGED <<party, contract, unchecked, contested>>, NEW w \in Worker,
           NEW at \in {"code", "insert", "edit", "hide", "hidden", "sync", "restore", "byCredit"},
           GoTo(w, at),
           at = "hide" \/ req[w].name \in Name,
           at = "hide" => req[w].id \in Party,
           at = "insert" => req[w].code \in Brought,
           at = "byCredit" => req[w].code \in Brought \cup {None}
    PROVE  TypeInv'
<1>1. PICK r : r = [req[w] EXCEPT !.at = at]
  OBVIOUS
<1>2. r \in Handler
  <2>1. req[w] \in Handler
    BY TypedNow
  <2> QED
    BY <1>1, <2>1, Zenon DEF Handler
<1>3. r.at = at /\ r.name = req[w].name /\ r.id = req[w].id /\ r.code = req[w].code
  BY <1>1, TypedNow, FieldsAre
<1>4. at = "insert" => r.code \in Code /\ PastLast(r.code, r.kind)
  BY <1>3, PaymentRequestConstants, CounterpartyConstants DEF Brought, Code, PastLast
<1>5. Typed(r)
  BY <1>2, <1>3, <1>4 DEF Typed, Fits, Naming
<1>6. unchecked' \subseteq Party \cup Contract /\ req' = [req EXCEPT ![w] = r]
  BY <1>1 DEF TypeInv, TypeOK, GoTo
<1> QED
  BY <1>5, <1>6, TypedGoesOn

LEMMA TypedEnds ==
    ASSUME Inv, CreditInv, TypeInv, UNCHANGED <<party, contract, unchecked, contested>>,
           NEW w \in Worker, req[w].at \notin {"row", "idle"}, Answer(w)
    PROVE  TypeInv'
<1>1. DOMAIN party' = DOMAIN party /\ party' \in [DOMAIN party -> PartyRow]
      /\ DOMAIN contract' \subseteq Contract /\ contract' \in [DOMAIN contract' -> ContractRow]
      /\ unchecked' \subseteq Party \cup Contract /\ contested' \subseteq Credit
  BY DEF TypeInv, TypeOK
<1> QED
  BY <1>1, TypedAnswer

\* An import takes its next row.
LEMMA TypedRow ==
    ASSUME CreditInv, TypeInv, NEW w \in Worker, Row(w)
    PROVE  TypeInv'
<1>0. req[w].at = "row" /\ req[w].op = "import" /\ UNCHANGED <<party, contract, contested>>
      /\ unchecked' \subseteq Party \cup Contract /\ req[w].rows \in Seq(PartyInput)
  BY DEF Row, TypeInv, TypeOK, CreditInv, CreditOk
<1>1. CASE req[w].rows = <<>>
  <2>1. PICK r : r = Idle
    OBVIOUS
  <2>2. req' = [req EXCEPT ![w] = r] /\ Typed(r)
    BY <1>1, <2>1, IdleFits DEF Row, Typed
  <2> QED
    BY <1>0, <2>2, TypedGoesOn
<1>2. CASE req[w].rows # <<>>
  <2>1. PICK row : row = Head(req[w].rows)
    OBVIOUS
  <2>2. /\ row \in PartyInput /\ row.name \in Name /\ row.credit \in Credit \cup {None}
        /\ row.code \in Brought \cup {None}
    <3>1. row \in PartyInput
      BY <1>0, <1>2, <2>1, HeadTailProperties
    <3> QED
      BY <3>1 DEF PartyInput
  <2>3. PICK at, name, code, credit, r :
           /\ at = IF row.code # None THEN "byCode"
                   ELSE IF row.credit # None THEN "byCredit" ELSE "code"
           /\ name = row.name /\ code = row.code /\ credit = row.credit
           /\ r = [req[w] EXCEPT !.at = at, !.name = name, !.code = code, !.credit = credit]
    OBVIOUS
  <2>4. req' = [req EXCEPT ![w] = r]
    BY <1>2, <2>1, <2>3 DEF Row, TypeInv, TypeOK
  <2>5. Brought \subseteq Code /\ at \in {"byCode", "byCredit", "code"}
    BY <2>3, PaymentRequestConstants DEF Brought, Code
  <2>6. r \in Handler
    <3>1. req[w] \in Handler /\ name \in Name /\ code \in Code \cup {None}
          /\ credit \in Credit \cup {None, Unsent}
      BY <2>2, <2>3, <2>5, TypedNow
    <3>2. r = [req[w] EXCEPT !.at = at, !.name = name, !.code = code, !.credit = credit]
      BY <2>3
    <3>3. at \in {"byCode", "byCredit", "code"}
      BY <2>5
    <3> QED
      BY <3>1, <3>2, <3>3, Zenon DEF Handler
  <2>7. r.at = at /\ r.name = name /\ r.code = code
    BY <2>3, TypedNow, FieldsAre
  <2>8. Typed(r)
    BY <2>2, <2>3, <2>5, <2>6, <2>7 DEF Typed, Fits, Naming
  <2> QED
    BY <1>0, <2>4, <2>8, TypedGoesOn
<1> QED
  BY <1>1, <1>2

\* What is looked up, and what follows from what is found.
LEMMA TypedLookUp ==
    ASSUME Inv, CreditInv, TypeInv, NEW w \in Worker, ByCode(w) \/ ByCredit(w) \/ Duplicate(w)
    PROVE  TypeInv'
<1>0. /\ UNCHANGED <<party, contract, unchecked, contested>>
      /\ req[w].at \in {"byCode", "byCredit", "duplicate"} /\ req[w].name \in Name
      /\ unchecked' \subseteq Party \cup Contract
  BY TypedNow DEF ByCode, ByCredit, Duplicate, Typed, Fits, Naming, TypeInv, TypeOK
<1>1. ASSUME NEW p \in DOMAIN party, NEW at \in {"edit", "duplicate"},
             req' = [req EXCEPT ![w].id = p, ![w].at = at]
      PROVE  TypeInv'
  <2>1. PICK r : r = [req[w] EXCEPT !.id = p, !.at = at]
    OBVIOUS
  <2>2. req' = [req EXCEPT ![w] = r]
    BY <1>1, <2>1 DEF TypeInv, TypeOK
  <2>3. r \in Handler
    <3>1. req[w] \in Handler /\ p \in Party
      BY TypedNow, TypedParty
    <3> QED
      BY <2>1, <3>1, Zenon DEF Handler
  <2>4. r.at = at /\ r.name = req[w].name
    BY <2>1, TypedNow, FieldsAre
  <2>5. Typed(r)
    BY <1>0, <2>3, <2>4 DEF Typed, Fits, Naming
  <2> QED
    BY <1>0, <2>2, <2>5, TypedGoesOn
<1>2. CASE ByCode(w)
  <2>1. req[w].code \in Brought
    BY <1>2, TypedNow DEF ByCode, Typed, Fits
  <2>2. CASE GoTo(w, IF req[w].credit # None THEN "byCredit" ELSE "insert")
    BY <1>0, <2>1, <2>2, TypedGoTo
  <2> QED
    BY <1>1, <1>2, <2>2 DEF ByCode, Visible, OfKind
<1>3. CASE ByCredit(w)
  <2>1. req[w].code \in Brought \cup {None}
    BY <1>3, TypedNow DEF ByCredit, Typed, Fits
  <2>2. CASE GoTo(w, IF req[w].code # None THEN "insert" ELSE "code")
    BY <1>0, <2>1, <2>2, TypedGoTo
  <2> QED
    BY <1>1, <1>3, <2>2 DEF ByCredit, Visible, OfKind
<1>4. CASE Duplicate(w)
  <2>1. CASE Answer(w)
    BY <1>0, <2>1, TypedEnds
  <2>2. CASE GoTo(w, IF req[w].id = None THEN "code" ELSE "edit")
    BY <1>0, <2>2, TypedGoTo
  <2> QED
    BY <1>4, <2>1, <2>2 DEF Duplicate
<1> QED
  BY <1>2, <1>3, <1>4

LEMMA TypedWrite ==
    ASSUME Inv, CreditInv, TypeInv, NEW w \in Worker, Write(w)
    PROVE  TypeInv'
<1> DEFINE p == req[w].id
<1>0. /\ req[w].at = "edit" /\ req[w].name \in Name /\ req[w].credit \in Credit \cup {None, Unsent}
      /\ Answer(w) /\ UNCHANGED <<contract, unchecked>>
      /\ p \in DOMAIN party
  BY TypedNow DEF Write, Typed, Fits, Naming, CreditInv, CreditOk, OfKind
<1>1. PICK credit : credit = IF req[w].credit = Unsent THEN party[p].credit ELSE req[w].credit
  OBVIOUS
<1>2. party[p] \in PartyRow
  BY <1>0, TypedParty
<1>3. credit \in Credit \cup {None}
  BY <1>0, <1>1, <1>2 DEF PartyRow
<1>4. party' = [party EXCEPT ![p] = [@ EXCEPT !.name = req[w].name, !.credit = credit]]
  BY <1>1, <1>2 DEF Write, PartyRow, TypeInv, TypeOK
<1>5. [party[p] EXCEPT !.name = req[w].name, !.credit = credit] \in PartyRow
      /\ [party[p] EXCEPT !.name = req[w].name, !.credit = credit].kind = party[p].kind
      /\ [party[p] EXCEPT !.name = req[w].name, !.credit = credit].code = party[p].code
  BY <1>0, <1>2, <1>3 DEF PartyRow
<1>6. contested' \subseteq Credit
  BY DEF Write, Contested, TypeInv, TypeOK
<1>7. /\ DOMAIN party' = DOMAIN party /\ party' \in [DOMAIN party -> PartyRow]
      /\ \A x \in DOMAIN party : party'[x].kind = party[x].kind /\ party'[x].code = party[x].code
  BY <1>4, <1>5 DEF TypeInv, TypeOK
<1>8. /\ unchecked' \subseteq Party \cup Contract /\ DOMAIN contract' \subseteq Contract
      /\ contract' \in [DOMAIN contract' -> ContractRow]
  BY <1>0 DEF TypeInv, TypeOK
<1> QED
  BY <1>0, <1>6, <1>7, <1>8, TypedAnswer

LEMMA TypedGenerate ==
    ASSUME TypeInv, NEW w \in Worker, Generate(w)
    PROVE  TypeInv'
<1>0. req[w].at = "code" /\ req[w].name \in Name /\ req[w] \in Handler
  BY TypedNow DEF Generate, Typed, Fits, Naming
<1>1. PICK code : code = NextCode(req[w].kind)
  OBVIOUS
<1>2. code \in Code /\ PastLast(code, req[w].kind)
  <2>1. req[w].kind \in Kind
    BY <1>0 DEF Handler
  <2> QED
    BY <1>1, <2>1, NextCodeFits
<1>3. PICK r : r = [req[w] EXCEPT !.at = "insert", !.code = code]
  OBVIOUS
<1>4. req' = [req EXCEPT ![w] = r]
  BY <1>1, <1>3 DEF Generate, TypeInv, TypeOK
<1>5. r \in Handler
  BY <1>0, <1>2, <1>3, Zenon DEF Handler
<1>6. r.at = "insert" /\ r.code = code /\ r.name = req[w].name /\ r.kind = req[w].kind
  BY <1>3, TypedNow, FieldsAre
<1>7. Typed(r)
  BY <1>0, <1>2, <1>5, <1>6 DEF Typed, Fits, Naming
<1> QED
  BY <1>4, <1>7, TypedGoesOn DEF Generate, TypeInv, TypeOK

\* What goes on from a party that is found or made, and from a supplier.
LEMMA ChosenFits ==
    ASSUME TypeInv, NEW w \in Worker, req[w].name \in Name, NEW p \in Party,
           NEW at \in {"sync", "restore"}, NEW r, r = Chosen(w, p, at)
    PROVE  Typed(r)
<1>1. PICK named : named = IF Importing(w) THEN [req[w].named EXCEPT ![req[w].name] = p]
                           ELSE req[w].named
  OBVIOUS
<1>2. req[w] \in Handler /\ req[w].named \in [Name -> Party \cup {None}]
  BY TypedNow DEF Handler
<1>3. named \in [Name -> Party \cup {None}]
  BY <1>1, <1>2
<1>4. r = [req[w] EXCEPT !.at = at, !.id = p, !.named = named]
  BY <1>1, TypedNow, FieldsAre DEF Chosen
<1>5. r \in Handler
  BY <1>2, <1>3, <1>4, Zenon DEF Handler
<1>6. r.at = at /\ r.name = req[w].name
  BY <1>4, TypedNow, FieldsAre
<1> QED
  BY <1>5, <1>6 DEF Typed, Fits, Naming

LEMMA SyncedFits ==
    ASSUME TypeInv, NEW w \in Worker, req[w].name \in Name, NEW r, r = Synced(w)
    PROVE  Typed(r)
<1>1. PICK at, synced :
         /\ at = CASE req[w].new -> "insert contract"
                   [] ~req[w].new /\ Importing(w) -> "upsert"
                   [] OTHER -> "write contract"
         /\ synced = IF Importing(w) /\ ~req[w].new /\ ~req[w].sales
                     THEN req[w].synced \cup {req[w].name} ELSE req[w].synced
  OBVIOUS
<1>2. req[w] \in Handler /\ req[w].synced \in SUBSET Name
  BY TypedNow DEF Handler
<1>3. synced \in SUBSET Name /\ at \in {"insert contract", "upsert", "write contract"}
  BY <1>1, <1>2
<1>4. r = [req[w] EXCEPT !.at = at, !.synced = synced]
  BY <1>1, TypedNow, FieldsAre DEF Synced
<1>5. r \in Handler
  BY <1>2, <1>3, <1>4, Zenon DEF Handler
<1>6. r.at = at
  BY <1>4, TypedNow, FieldsAre
<1> QED
  BY <1>3, <1>5, <1>6 DEF Typed, Fits, Naming

LEMMA TypedRetry ==
    ASSUME Inv, CreditInv, TypeInv, NEW w \in Worker, req[w].at = "insert", NEW r, r = Retry(w)
    PROVE  Typed(r)
<1>1. CASE r = Done(w)
  BY <1>1, DoneFits
<1>2. CASE r = [req[w] EXCEPT !.at = "code", !.tries = @ + 1]
  <2>1. req[w] \in Handler /\ req[w].tries + 1 \in Nat /\ req[w].name \in Name
    <3>1. req[w] \in Handler /\ req[w].name \in Name
      BY TypedNow DEF Typed, Fits, Naming
    <3>2. req[w].tries \in Nat
      BY <3>1 DEF Handler
    <3> QED
      BY <3>1, <3>2
  <2>2. PICK tries : tries = req[w].tries + 1
    OBVIOUS
  <2>3. r = [req[w] EXCEPT !.at = "code", !.tries = tries]
    BY <1>2, <2>2
  <2>4. r \in Handler
    BY <2>1, <2>2, <2>3, Zenon DEF Handler
  <2>5. r.at = "code" /\ r.name = req[w].name
    BY <2>3, TypedNow, FieldsAre
  <2> QED
    BY <2>1, <2>4, <2>5 DEF Typed, Fits, Naming
<1> QED
  BY <1>1, <1>2 DEF Retry

LEMMA NewPartyFits ==
    ASSUME CreditInv, TypeInv, NEW w \in Worker, req[w].at = "insert", NEW row, row = NewParty(w)
    PROVE  row \in PartyRow /\ row.kind = req[w].kind /\ row.code = req[w].code
<1>1. PICK status, visible :
         /\ status = CASE req[w].kind = "supplier" -> None
                       [] req[w].kind = "customer" /\ req[w].op = "import" -> "APPROVED"
                       [] OTHER -> "PENDING"
         /\ visible = (req[w].kind = "supplier" \/ req[w].op # "import contracts" \/ req[w].sales)
  OBVIOUS
<1>2. row = [kind |-> req[w].kind, name |-> req[w].name, credit |-> req[w].credit,
             code |-> req[w].code, status |-> status, visible |-> visible]
  BY <1>1, Zenon DEF NewParty
<1>3. /\ req[w].kind \in Kind /\ req[w].name \in Name /\ req[w].credit \in Credit \cup {None}
      /\ req[w].code \in Code
  BY TypedNow, UnsentIs DEF Typed, Fits, Naming, Handler, CreditInv, CreditOk
<1>4. status \in {"PENDING", "APPROVED", None} /\ visible \in BOOLEAN
  BY <1>1
<1> QED
  BY <1>2, <1>3, <1>4 DEF PartyRow

LEMMA TypedInsert ==
    ASSUME Inv, CreditInv, TypeInv, NEW w \in Worker, Insert(w)
    PROVE  TypeInv'
<1>0. /\ req[w].at = "insert" /\ req[w].name \in Name /\ UNCHANGED <<contract, unchecked>>
      /\ PastLast(req[w].code, req[w].kind)
  BY TypedNow DEF Insert, Typed, Fits, Naming
<1>1. CASE req' = [req EXCEPT ![w] = Retry(w)] /\ UNCHANGED <<party, contested>>
  <2>1. PICK r : r = Retry(w)
    OBVIOUS
  <2>2. Typed(r) /\ req' = [req EXCEPT ![w] = r]
    BY <1>0, <1>1, <2>1, TypedRetry
  <2> QED
    BY <1>0, <1>1, <2>2, TypedGoesOn DEF TypeInv, TypeOK
<1>2. ASSUME NEW p \in Fresh,
             party' = [q \in DOMAIN party \cup {p} |-> IF q = p THEN NewParty(w) ELSE party[q]],
             req' = [req EXCEPT ![w] = Added(w, p)],
             Contested(w, req[w].credit)
      PROVE  TypeInv'
  <2>1. PICK row : row = NewParty(w)
    OBVIOUS
  <2>2. row \in PartyRow /\ row.kind = req[w].kind /\ row.code = req[w].code
    BY <1>0, <2>1, NewPartyFits
  <2>3. p \in Party /\ p \notin DOMAIN party
    BY DEF Fresh
  <2>4. /\ DOMAIN party' = DOMAIN party \cup {p} /\ party'[p] = row
        /\ \A x \in DOMAIN party : party'[x] = party[x]
        /\ party' \in [DOMAIN party' -> PartyRow] /\ DOMAIN party' \subseteq Party
    BY <1>2, <2>1, <2>2, <2>3 DEF TypeInv, TypeOK
  <2>5. PICK r : r = Added(w, p)
    OBVIOUS
  <2>6. Typed(r)
    <3>1. CASE r = Done(w)
      BY <1>0, <3>1, DoneFits
    <3>2. CASE r = Chosen(w, p, "sync")
      <4>1. PICK at : at = "sync" /\ r = Chosen(w, p, at)
        BY <3>2
      <4> QED
        BY <1>0, <2>3, <4>1, ChosenFits
    <3>3. CASE r = Synced(w)
      BY <1>0, <3>3, SyncedFits
    <3> QED
      BY <2>5, <3>1, <3>2, <3>3 DEF Added
  <2>7. contested' \subseteq Credit
    BY <1>2 DEF Contested, TypeInv, TypeOK
  <2>8. req' = [req EXCEPT ![w] = r]
    BY <1>2, <2>5
  <2>9. \A x \in DOMAIN party' \ DOMAIN party : PastLast(party'[x].code, party'[x].kind)
    BY <1>0, <2>2, <2>4
  <2>10. /\ unchecked' \subseteq Party \cup Contract /\ DOMAIN contract' \subseteq Contract
         /\ contract' \in [DOMAIN contract' -> ContractRow]
    BY <1>0 DEF TypeInv, TypeOK
  <2> QED
    BY <2>4, <2>6, <2>7, <2>8, <2>9, <2>10, TypedFrame
<1> QED
  BY <1>1, <1>2 DEF Insert

\* One column of one party is written.
LEMMA TypedColumn ==
    ASSUME Inv, CreditInv, TypeInv, NEW w \in Worker, Hide(w) \/ ApproveWrite(w)
    PROVE  TypeInv'
<1> DEFINE p == req[w].id
<1>0. req[w].at \notin {"row", "idle"} /\ Answer(w) /\ UNCHANGED <<contract, contested>>
  BY DEF Hide, ApproveWrite
<1>1. /\ DOMAIN party' = DOMAIN party /\ party' \in [DOMAIN party -> PartyRow]
      /\ \A x \in DOMAIN party : party'[x].kind = party[x].kind /\ party'[x].code = party[x].code
  <2>1. CASE Hide(w)
    BY <2>1 DEF Hide, TypeInv, TypeOK, PartyRow
  <2>2. CASE ApproveWrite(w)
    <3>1. req[w].verdict \in Verdicts
      BY <2>2, TypedNow DEF ApproveWrite, Typed, Fits
    <3> QED
      BY <2>2, <3>1 DEF ApproveWrite, TypeInv, TypeOK, PartyRow
  <2> QED
    BY <2>1, <2>2
<1>2. unchecked' \subseteq Party \cup Contract
  <2>1. CASE Hide(w)
    <3>1. p \in Party
      BY <2>1, TypedNow DEF Hide, Typed, Fits
    <3> QED
      BY <2>1, <3>1 DEF Hide, TypeInv, TypeOK
  <2>2. CASE ApproveWrite(w)
    BY <2>2 DEF ApproveWrite, TypeInv, TypeOK
  <2> QED
    BY <2>1, <2>2
<1>3. /\ contested' \subseteq Credit /\ DOMAIN contract' \subseteq Contract
      /\ contract' \in [DOMAIN contract' -> ContractRow]
  BY <1>0 DEF TypeInv, TypeOK
<1> QED
  BY <1>0, <1>1, <1>2, <1>3, TypedAnswer

LEMMA TypedCount ==
    ASSUME Inv, CreditInv, TypeInv, NEW w \in Worker, Count(w)
    PROVE  TypeInv'
<1>0. /\ UNCHANGED <<party, contract, unchecked, contested>> /\ req[w].at = "count"
      /\ req[w].id \in Party
  BY TypedNow DEF Count, Typed, Fits
<1>1. CASE Answer(w)
  BY <1>0, <1>1, TypedEnds
<1>2. CASE GoTo(w, "hide")
  BY <1>0, <1>2, TypedGoTo
<1> QED
  BY <1>1, <1>2 DEF Count

-----------------------------------------------------------------------------
\* What a handler of a contract holds of it.
LEMMA OfContract ==
    ASSUME Inv, TypeInv, NEW w \in Worker,
           req[w].at \in {"find", "seen", "restore", "sync", "upsert", "insert contract",
                          "write contract"}
    PROVE  /\ req[w].id \in DOMAIN party /\ req[w].id \in Party
           /\ req[w].no \in Contract
           /\ party[req[w].id] \in PartyRow
           /\ req[w].at \in {"seen", "restore", "sync"} => req[w].name \in Name
<1>1. HandlerOk(req[w]) /\ HasCustomer(req[w])
  BY DEF Inv, HasCustomer
<1>2. req[w].id \in DOMAIN party /\ req[w].no \in Contract
  BY <1>1 DEF HandlerOk, Shape, Checked, Customers, OfKind
<1> QED
  BY <1>2, TypedParty, TypedNow DEF Typed, Fits, Naming

LEMMA TypedFind ==
    ASSUME Inv, CreditInv, TypeInv, NEW w \in Worker, Find(w) \/ Seen(w)
    PROVE  TypeInv'
<1>0. UNCHANGED <<party, contract, unchecked, contested>> /\ req[w].at \in {"find", "seen"}
  BY DEF Find, Seen
<1>1. CASE Seen(w)
  <2>1. req[w].name \in Name
    BY <1>1, OfContract DEF Seen
  <2> QED
    BY <1>0, <1>1, <2>1, TypedGoTo DEF Seen
<1>2. CASE Find(w)
  <2>1. CASE Answer(w)
    BY <1>0, <2>1, TypedEnds
  <2>2. CASE req' = [req EXCEPT ![w].at = "sync", ![w].name = party[req[w].id].name]
    <3>1. PICK name : name = party[req[w].id].name
      OBVIOUS
    <3>2. name \in Name
      BY <1>0, <3>1, OfContract DEF PartyRow
    <3>3. PICK r : r = [req[w] EXCEPT !.at = "sync", !.name = name]
      OBVIOUS
    <3>4. req[w] \in Handler
      BY TypedNow
    <3>5. r \in Handler
      BY <3>2, <3>3, <3>4, Zenon DEF Handler
    <3>6. r.at = "sync" /\ r.name = name
      BY <3>3, TypedNow, FieldsAre
    <3>7. req' = [req EXCEPT ![w] = r] /\ Typed(r)
      BY <2>2, <3>1, <3>2, <3>3, <3>5, <3>6 DEF Typed, Fits, Naming, TypeInv, TypeOK
    <3> QED
      BY <1>0, <3>7, TypedGoesOn DEF TypeInv, TypeOK
  <2> QED
    BY <1>2, <2>1, <2>2 DEF Find
<1> QED
  BY <1>1, <1>2

LEMMA TypedRestore ==
    ASSUME Inv, TypeInv, NEW w \in Worker, Restore(w)
    PROVE  TypeInv'
<1>0. /\ req[w].at = "restore" /\ UNCHANGED <<contract, unchecked>>
      /\ req[w].id \in DOMAIN party /\ party[req[w].id] \in PartyRow /\ req[w].name \in Name
      /\ req[w] \in Handler
  BY OfContract, TypedNow DEF Restore
<1>1. PICK r : r = [req[w] EXCEPT !.at = "sync"]
  OBVIOUS
<1>2. r \in Handler
  BY <1>0, <1>1, Zenon DEF Handler
<1>3. r.at = "sync" /\ r.name = req[w].name
  BY <1>1, TypedNow, FieldsAre
<1>4. req' = [req EXCEPT ![w] = r] /\ Typed(r)
  BY <1>0, <1>1, <1>2, <1>3 DEF Restore, GoTo, Typed, Fits, Naming
<1>5. /\ DOMAIN party' = DOMAIN party /\ party' \in [DOMAIN party -> PartyRow]
      /\ \A x \in DOMAIN party : party'[x].kind = party[x].kind /\ party'[x].code = party[x].code
  BY DEF Restore, TypeInv, TypeOK, PartyRow
<1>6. contested' \subseteq Credit
  BY <1>0 DEF Restore, TypeInv, TypeOK, PartyRow
<1>7. /\ unchecked' \subseteq Party \cup Contract /\ DOMAIN contract' \subseteq Contract
      /\ contract' \in [DOMAIN contract' -> ContractRow] /\ DOMAIN party \subseteq Party
  BY <1>0 DEF TypeInv, TypeOK
<1> QED
  BY <1>4, <1>5, <1>6, <1>7, TypedFrame

LEMMA TypedSync ==
    ASSUME Inv, TypeInv, NEW w \in Worker, Sync(w)
    PROVE  TypeInv'
<1>0. /\ req[w].at = "sync" /\ UNCHANGED <<party, contract, unchecked, contested>>
      /\ req[w].name \in Name /\ req[w] \in Handler
  BY OfContract, TypedNow DEF Sync
<1>1. CASE req' = [req EXCEPT ![w] = Synced(w)]
  <2>1. PICK r : r = Synced(w)
    OBVIOUS
  <2>2. Typed(r) /\ req' = [req EXCEPT ![w] = r]
    BY <1>0, <1>1, <2>1, SyncedFits
  <2> QED
    BY <1>0, <2>2, TypedGoesOn DEF TypeInv, TypeOK
<1>2. CASE req' = [req EXCEPT ![w].at = "code", ![w].kind = "supplier", ![w].tries = 0]
  <2>1. PICK r : r = [req[w] EXCEPT !.at = "code", !.kind = "supplier", !.tries = 0]
    OBVIOUS
  <2>2. r \in Handler
    BY <1>0, <2>1, Zenon DEF Handler, Kind
  <2>3. r.at = "code" /\ r.name = req[w].name
    BY <2>1, TypedNow, FieldsAre
  <2>4. req' = [req EXCEPT ![w] = r] /\ Typed(r)
    BY <1>0, <1>2, <2>1, <2>2, <2>3 DEF Typed, Fits, Naming, TypeInv, TypeOK
  <2> QED
    BY <1>0, <2>4, TypedGoesOn DEF TypeInv, TypeOK
<1> QED
  BY <1>1, <1>2 DEF Sync

\* A contract is written.
LEMMA TypedContract ==
    ASSUME Inv, CreditInv, TypeInv, NEW w \in Worker,
           InsertContract(w) \/ WriteContract(w) \/ RemoveContractWrite(w)
    PROVE  TypeInv'
<1> DEFINE n == req[w].no
<1>0. /\ req[w].at \in {"insert contract", "write contract", "remove contract"}
      /\ Answer(w) /\ UNCHANGED <<party, contested>> /\ req[w] \in Handler
  BY TypedNow DEF InsertContract, WriteContract, RemoveContractWrite
<1>1. /\ DOMAIN contract' \subseteq Contract /\ contract' \in [DOMAIN contract' -> ContractRow]
      /\ unchecked' \subseteq Party \cup Contract
  <2>1. CASE InsertContract(w)
    <3>1. /\ req[w].id \in Party /\ n \in Contract /\ req[w].sales \in BOOLEAN
      BY <1>0, <2>1, OfContract DEF InsertContract, Handler
    <3>2. PICK row : row = [customer |-> req[w].id, sales |-> req[w].sales, deleted |-> FALSE]
      OBVIOUS
    <3>3. row \in ContractRow
      BY <3>1, <3>2 DEF ContractRow
    <3>4. CASE UNCHANGED <<contract, unchecked>>
      BY <3>4 DEF TypeInv, TypeOK
    <3>5. CASE /\ contract' = [m \in DOMAIN contract \cup {n} |-> IF m = n THEN row ELSE contract[m]]
               /\ unchecked' = unchecked \cup Overtaken(w, n, req[w].id)
      BY <3>1, <3>3, <3>5 DEF TypeInv, TypeOK, Overtaken
    <3> QED
      BY <2>1, <3>2, <3>4, <3>5 DEF InsertContract
  <2>2. CASE WriteContract(w)
    <3>1. n \in Contract /\ n \in DOMAIN contract /\ req[w].at = "write contract"
      BY <2>2, OfContract DEF WriteContract, Inv, HandlerOk, Known, Updating
    <3>2. PICK customer, sales, deleted :
             /\ customer = IF req[w].customer = None THEN contract[n].customer ELSE req[w].customer
             /\ sales = IF req[w].type = None THEN contract[n].sales ELSE req[w].type
             /\ deleted = (contract[n].deleted /\ ~req[w].undelete)
      OBVIOUS
    <3>3. /\ req[w].customer \in Party \cup {None} /\ req[w].type \in BOOLEAN \cup {None}
          /\ req[w].undelete \in BOOLEAN
      BY <1>0 DEF Handler
    <3>4. contract[n] \in ContractRow
      BY <3>1 DEF TypeInv, TypeOK
    <3>5. customer \in Party /\ sales \in BOOLEAN /\ deleted \in BOOLEAN
      BY <3>2, <3>3, <3>4 DEF ContractRow
    <3>6. PICK row : row = [customer |-> customer, sales |-> sales, deleted |-> deleted]
      OBVIOUS
    <3>7. row \in ContractRow
      BY <3>5, <3>6 DEF ContractRow
    <3>8. /\ contract' = [contract EXCEPT ![n] = row]
          /\ unchecked' = unchecked \cup Overtaken(w, n, customer)
      BY <2>2, <3>2, <3>6, Zenon DEF WriteContract
    <3> QED
      BY <3>1, <3>5, <3>7, <3>8 DEF TypeInv, TypeOK, Overtaken
  <2>3. CASE RemoveContractWrite(w)
    BY <2>3 DEF RemoveContractWrite, TypeInv, TypeOK, ContractRow
  <2> QED
    BY <2>1, <2>2, <2>3
<1>2. /\ DOMAIN party' = DOMAIN party /\ party' \in [DOMAIN party -> PartyRow]
      /\ \A x \in DOMAIN party : party'[x].kind = party[x].kind /\ party'[x].code = party[x].code
      /\ contested' \subseteq Credit
  BY <1>0 DEF TypeInv, TypeOK
<1> QED
  BY <1>0, <1>1, <1>2, TypedAnswer

\* The next row of an import of contracts.
LEMMA TypedContractRow ==
    ASSUME Inv, TypeInv, NEW w \in Worker, ContractInRow(w)
    PROVE  TypeInv'
<1>0. /\ req[w].op = "import contracts" /\ UNCHANGED <<party, contract, contested>>
      /\ req[w].rows \in Seq(ContractInput) /\ req[w] \in Handler
  BY TypedNow DEF ContractInRow, Inv, HandlerOk, Shape
<1>1. CASE req[w].rows = <<>>
  <2>1. PICK r : r = Idle
    OBVIOUS
  <2>2. req' = [req EXCEPT ![w] = r] /\ Typed(r) /\ unchecked' \subseteq Party \cup Contract
    BY <1>1, <2>1, IdleFits DEF ContractInRow, Typed, TypeInv, TypeOK
  <2> QED
    BY <1>0, <2>2, TypedGoesOn
<1>2. CASE req[w].rows # <<>>
  <2>1. PICK row : row = Head(req[w].rows)
    OBVIOUS
  <2>2. row.no \in Contract /\ row.name \in Name /\ row.sales \in BOOLEAN
    <3>1. row \in ContractInput
      BY <1>0, <1>2, <2>1, HeadTailProperties
    <3> QED
      BY <3>1 DEF ContractInput
  <2>3. PICK no, name, sales, known :
           no = row.no /\ name = row.name /\ sales = row.sales /\ known = req[w].named[row.name]
    OBVIOUS
  <2>4. no \in Contract /\ name \in Name /\ sales \in BOOLEAN /\ known \in Party \cup {None}
    BY <1>0, <2>2, <2>3 DEF Handler
  <2>5. PICK asked : asked = [req[w] EXCEPT !.kind = "customer", !.no = no, !.name = name,
                                            !.sales = sales]
    OBVIOUS
  <2>6. asked \in Handler
    BY <1>0, <2>4, <2>5, Zenon DEF Handler, Kind
  <2>7. DOMAIN asked = Fields /\ asked.name = name
    BY <2>5, TypedNow, FieldsAre
  <2>8. CASE req' = [req EXCEPT ![w] = [asked EXCEPT !.at = "visible"]] /\ UNCHANGED unchecked
    <3>1. PICK r : r = [asked EXCEPT !.at = "visible"]
      OBVIOUS
    <3>2. r \in Handler
      BY <2>6, <3>1, Zenon DEF Handler
    <3>3. r.at = "visible" /\ r.name = name
      BY <2>7, <3>1, FieldsAre
    <3>4. Typed(r) /\ req' = [req EXCEPT ![w] = r] /\ unchecked' \subseteq Party \cup Contract
      BY <2>4, <2>8, <3>1, <3>2, <3>3 DEF Typed, Fits, Naming, TypeInv, TypeOK
    <3> QED
      BY <1>0, <3>4, TypedGoesOn
  <2>9. CASE /\ req' = [req EXCEPT ![w] = [asked EXCEPT !.at = "sync", !.id = known]]
             /\ known # None /\ unchecked' \in {unchecked, unchecked \cup {known}}
    <3>1. PICK r : r = [asked EXCEPT !.at = "sync", !.id = known]
      OBVIOUS
    <3>2. r \in Handler
      BY <2>4, <2>6, <3>1, Zenon DEF Handler
    <3>3. r.at = "sync" /\ r.name = name
      BY <2>7, <3>1, FieldsAre
    <3>4. Typed(r) /\ req' = [req EXCEPT ![w] = r] /\ unchecked' \subseteq Party \cup Contract
      BY <2>4, <2>9, <3>1, <3>2, <3>3 DEF Typed, Fits, Naming, TypeInv, TypeOK
    <3> QED
      BY <1>0, <3>4, TypedGoesOn
  <2> QED
    BY <1>2, <2>1, <2>3, <2>5, <2>8, <2>9 DEF ContractInRow
<1> QED
  BY <1>1, <1>2

LEMMA TypedFindCustomer ==
    ASSUME Inv, CreditInv, TypeInv, NEW w \in Worker, FindVisible(w) \/ FindHidden(w)
    PROVE  TypeInv'
<1>0. /\ UNCHANGED <<party, contract, unchecked, contested>> /\ req[w].at \in {"visible", "hidden"}
      /\ req[w].name \in Name /\ req[w] \in Handler
  BY TypedNow DEF FindVisible, FindHidden, Typed, Fits, Naming
<1>1. ASSUME NEW p \in DOMAIN party, NEW at \in {"sync", "restore"},
             req' = [req EXCEPT ![w] = Chosen(w, p, at)]
      PROVE  TypeInv'
  <2>1. PICK r : r = Chosen(w, p, at)
    OBVIOUS
  <2>2. Typed(r)
    BY <1>0, <2>1, ChosenFits, TypedParty
  <2> QED
    BY <1>0, <1>1, <2>1, <2>2, TypedGoesOn DEF TypeInv, TypeOK
<1>2. CASE FindVisible(w)
  <2>1. CASE GoTo(w, "hidden")
    BY <1>0, <2>1, TypedGoTo
  <2> QED
    BY <1>1, <1>2, <2>1 DEF FindVisible, Visible, OfKind
<1>3. CASE FindHidden(w)
  <2>1. CASE req' = [req EXCEPT ![w].at = "code", ![w].tries = 0]
    <3>1. PICK r : r = [req[w] EXCEPT !.at = "code", !.tries = 0]
      OBVIOUS
    <3>2. r \in Handler
      BY <1>0, <3>1, Zenon DEF Handler
    <3>3. r.at = "code" /\ r.name = req[w].name
      BY <3>1, TypedNow, FieldsAre
    <3>4. req' = [req EXCEPT ![w] = r] /\ Typed(r)
      BY <1>0, <2>1, <3>1, <3>2, <3>3 DEF Typed, Fits, Naming, TypeInv, TypeOK
    <3> QED
      BY <1>0, <3>4, TypedGoesOn DEF TypeInv, TypeOK
  <2> QED
    BY <1>1, <1>3, <2>1 DEF FindHidden, OfKind
<1> QED
  BY <1>2, <1>3

LEMMA TypedUpsert ==
    ASSUME Inv, CreditInv, TypeInv, NEW w \in Worker, Upsert(w)
    PROVE  TypeInv'
<1> DEFINE row == contract[req[w].no]
<1>0. /\ req[w].at = "upsert" /\ UNCHANGED <<party, contract, unchecked, contested>>
      /\ req[w] \in Handler /\ req[w].id \in Party
  BY OfContract, TypedNow DEF Upsert
<1>1. ASSUME NEW r \in Handler, r.at \in {"find", "write contract"}, req' = [req EXCEPT ![w] = r]
      PROVE  TypeInv'
  <2>1. Typed(r)
    BY <1>1 DEF Typed, Fits, Naming
  <2> QED
    BY <1>0, <1>1, <2>1, TypedGoesOn DEF TypeInv, TypeOK
<1>2. CASE req' = [req EXCEPT ![w] = Done(w)]
  BY <1>0, <1>2, TypedEnds DEF Answer
<1>3. CASE req[w].no \notin DOMAIN contract
  <2>1. PICK r : r = [req[w] EXCEPT !.at = "find", !.new = TRUE]
    OBVIOUS
  <2>2. r \in Handler
    BY <1>0, <2>1, Zenon DEF Handler
  <2>3. r.at = "find"
    BY <2>1, TypedNow, FieldsAre
  <2>4. req' = [req EXCEPT ![w] = r]
    BY <1>3, <2>1 DEF Upsert, TypeInv, TypeOK
  <2> QED
    BY <1>1, <2>2, <2>3, <2>4
<1>4. CASE req[w].no \in DOMAIN contract /\ req' # [req EXCEPT ![w] = Done(w)]
  <2>1. row \in ContractRow
    BY <1>4 DEF TypeInv, TypeOK
  <2>2. PICK customer, type, undelete :
           /\ customer = IF row.customer = req[w].id THEN None ELSE req[w].id
           /\ type = IF row.sales = req[w].sales THEN None ELSE req[w].sales
           /\ undelete = row.deleted
    OBVIOUS
  <2>3. /\ customer \in Party \cup {None} /\ type \in BOOLEAN \cup {None} /\ undelete \in BOOLEAN
    BY <1>0, <2>1, <2>2 DEF ContractRow, Handler
  <2>4. PICK r : r = [req[w] EXCEPT !.at = "write contract", !.customer = customer, !.type = type,
                                    !.undelete = undelete]
    OBVIOUS
  <2>5. r \in Handler
    <3>1. PICK half : half = [req[w] EXCEPT !.at = "write contract", !.undelete = undelete]
      OBVIOUS
    <3>2. half \in Handler
      <4>1. req[w] \in Handler /\ undelete \in BOOLEAN
        BY <1>0, <2>3
      <4> QED
        BY <3>1, <4>1, Zenon DEF Handler
    <3>3. r = [half EXCEPT !.customer = customer, !.type = type]
      BY <2>4, <3>1, TypedNow, FieldsAre
    <3>4. customer \in Party \cup {None} /\ type \in BOOLEAN \cup {None}
      BY <2>3
    <3> QED
      BY <3>2, <3>3, <3>4, Zenon DEF Handler
  <2>6. r.at = "write contract"
    BY <2>4, TypedNow, FieldsAre
  <2>7. req' = [req EXCEPT ![w] = r]
    BY <1>4, <2>2, <2>4 DEF Upsert, TypeInv, TypeOK
  <2> QED
    BY <1>1, <2>5, <2>6, <2>7
<1> QED
  BY <1>2, <1>3, <1>4

LEMMA TypedFails ==
    ASSUME Inv, CreditInv, TypeInv, NEW w \in Worker, Fail(w)
    PROVE  TypeInv'
<1>0. UNCHANGED <<party, contract, unchecked, contested>> /\ req[w].at # "idle"
  BY DEF Fail
<1>1. CASE req[w].at # "row" /\ Answer(w)
  BY <1>0, <1>1, TypedEnds
<1>2. CASE req' = [req EXCEPT ![w] = Idle]
  <2>1. PICK r : r = Idle
    OBVIOUS
  <2>2. req' = [req EXCEPT ![w] = r] /\ Typed(r)
    BY <1>2, <2>1, IdleFits DEF Typed
  <2> QED
    BY <1>0, <2>2, TypedGoesOn DEF TypeInv, TypeOK
<1> QED
  BY <1>1, <1>2 DEF Fail

-----------------------------------------------------------------------------
LEMMA TypedInit == Init => TypeInv
<1> SUFFICES ASSUME Init PROVE TypeInv
  OBVIOUS
<1>1. ASSUME NEW r \in {req[w] : w \in Worker} PROVE Typed(r)
  <2>1. r = Idle
    BY DEF Init
  <2> QED
    BY <2>1, IdleFits DEF Typed
<1>2. TypeOK
  BY IdleFits DEF Init, TypeOK, Fits
<1> QED
  BY <1>1, <1>2 DEF Init, TypeInv

LEMMA TypedNext ==
    ASSUME Inv, CreditInv, TypeInv, [Next]_vars
    PROVE  TypeInv'
<1>1. CASE UNCHANGED vars
  BY <1>1 DEF vars, TypeInv, TypeOK, Typed, Fits, PastLast, Codes, OfKind
<1>2. ASSUME NEW w \in Worker, Step(w) PROVE TypeInv'
  BY <1>2, TypedRow, TypedLookUp, TypedWrite, TypedGenerate, TypedInsert, TypedCount, TypedColumn,
     TypedFind, TypedRestore, TypedSync, TypedContract, TypedContractRow, TypedFindCustomer,
     TypedUpsert
  DEF Step
<1> QED
  BY <1>1, <1>2, TypedAskForParty, TypedAskForContract, TypedFails DEF Next

LEMMA TogetherCorrect == Spec => [](Inv /\ CreditInv /\ TypeInv)
<1>1. Init => Inv /\ CreditInv /\ TypeInv
  BY InitInv, CreditInit, TypedInit
<1>2. Inv /\ CreditInv /\ TypeInv /\ [Next]_vars => (Inv /\ CreditInv /\ TypeInv)'
  BY NextInv, CreditNext, TypedNext
<1> QED
  BY <1>1, <1>2, PTL DEF Spec

\* Parties, contracts and handlers are as their types say, however creates,
\* updates, imports, removals and failures overlap; a code in particular is one
\* that a file brought, a number of the code's width, or the one after the last
\* such number, and no later one is generated (generatePrefixedCode,
\* createWithGeneratedCode in code-generator.utils.ts).
THEOREM TypeCorrect == Spec => []TypeOK
<1>1. TypeInv => TypeOK
  BY DEF TypeInv
<1> QED
  BY <1>1, TogetherCorrect, PTL

=============================================================================
