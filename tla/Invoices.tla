------------------------------ MODULE Invoices ------------------------------
(***************************************************************************)
(* Invoices (invoices.service.ts) and the files attached to them           *)
(* (upload.service.ts).  An import creates its rows one after the other,   *)
(* each with the statements of create and its own attachment; the form     *)
(* sends one row with a file it uploaded before.  Contracts are those of   *)
(* contracts.service.ts; here their amounts change at any time.            *)
(*                                                                         *)
(* No transaction is opened: every statement commits.  Files are written   *)
(* and deleted synchronously, with the statement before or after them.     *)
(***************************************************************************)
EXTENDS Billing, Rows

VARIABLES
    invoice,   \* the invoices table
    disk,      \* the files under uploads/invoices
    lost,      \* files of invoices whose INSERT was not answered (not in the code)
    req,       \* what each worker is handling
    amountWithTax,   \* of the contracts
    highest          \* the highest that it was for each of them (not in the code)

contractVars == <<amountWithTax, highest>>
vars == <<invoice, disk, lost, req, contractVars>>

Row == [contract : Contract, no : No, amount : Amounts,
        status : {"ISSUED", "VOIDED"}, file : File \cup {None}]

Handler == [at : {"idle", "row", "check", "sum", "insert", "void", "delete", "unlink"},
            import : BOOLEAN,             \* is it an import, which owns its files?
            queue : Seq(ImportRow),       \* the rows that are not created yet
            id : Invoice \cup {None},
            file : File \cup {None},      \* the file just stored, or about to be deleted
            limit : ContractAmounts \cup {0}]   \* amountWithTax of the contract as it was read

Idle == [at |-> "idle", import |-> FALSE, queue |-> <<>>, id |-> None, file |-> None,
         limit |-> 0]

TypeOK ==
    /\ DOMAIN invoice \subseteq Invoice
    /\ invoice \in [DOMAIN invoice -> Row]
    /\ disk \subseteq File
    /\ lost \subseteq File
    /\ req \in [Worker -> Handler]
    /\ amountWithTax \in [Contract -> ContractAmounts]
    /\ highest \in [Contract -> ContractAmounts]

-----------------------------------------------------------------------------
IssuedOn(c) == {i \in DOMAIN invoice : invoice[i].contract = c /\ invoice[i].status = "ISSUED"}
Issued(c) == Total(invoice, IssuedOn(c))

FreshInvoice == {i \in Invoice \ DOMAIN invoice : \A w \in Worker : req[w].id # i}
FreshFile ==
    {f \in File \ (disk \cup lost) :
        /\ \A i \in DOMAIN invoice : invoice[i].file # f
        /\ \A w \in Worker : req[w].file # f}

Start(w, request) ==
    /\ req[w].at = "idle"
    /\ req' = [req EXCEPT ![w] = request]
GoTo(w, at) == req' = [req EXCEPT ![w].at = at]
Answer(w) == req' = [req EXCEPT ![w] = Idle]
SkipRow(w) ==
    req' = [req EXCEPT ![w] =
               IF req[w].import
               THEN [Idle EXCEPT !.at = "row", !.import = TRUE, !.queue = Tail(req[w].queue)]
               ELSE Idle]

-----------------------------------------------------------------------------
\* prepareImportData: of two rows with one number only the first is kept.
Import(w) ==
    /\ \E queue \in Batches :
          /\ \A m, n \in DOMAIN queue : queue[m].no = queue[n].no => m = n
          /\ Start(w, [Idle EXCEPT !.at = "row", !.import = TRUE, !.queue = queue])
    /\ UNCHANGED <<invoice, disk, lost>>

\* The form uploads a file, and sends its url with the invoice, once.  create reads
\* the contract first.
Create(w) ==
    /\ \E row \in ImportRow, f \in FreshFile \cup {None} :
          /\ row.upload <=> f # None
          /\ Start(w, [Idle EXCEPT !.at = "check", !.queue = <<row>>, !.file = f,
                                !.limit = amountWithTax[row.contract]])
          /\ disk' = disk \cup ({f} \ {None})
    /\ UNCHANGED <<invoice, lost>>

\* The next row: its file, if it has one, is stored before create begins.
StoreFile(w) ==
    /\ req[w].at = "row"
    /\ IF req[w].queue = <<>> THEN Answer(w) /\ UNCHANGED disk
       ELSE LET row == Head(req[w].queue)
            IN  \E f \in FreshFile \cup {None} :
                   /\ row.upload <=> f # None
                   /\ disk' = disk \cup ({f} \ {None})
                   /\ req' = [req EXCEPT ![w].at = "check", ![w].file = f,
                                         ![w].limit = amountWithTax[row.contract]]
    /\ UNCHANGED <<invoice, lost>>

\* create throws: an import deletes the file of the row and takes the next one.
Refuse(w) ==
    /\ SkipRow(w)
    /\ disk' = IF req[w].import THEN disk \ {req[w].file} ELSE disk

CreateCheck(w) ==
    /\ req[w].at = "check"
    /\ IF \E i \in DOMAIN invoice : invoice[i].no = Head(req[w].queue).no
       THEN Refuse(w)
       ELSE GoTo(w, "sum") /\ UNCHANGED disk
    /\ UNCHANGED <<invoice, lost>>

FitsAlone(row, limit) == row.amount <= limit
Fits(row, limit) == Issued(row.contract) + row.amount <= limit

CreateSum(w) ==
    /\ req[w].at = "sum"
    /\ IF Fits(Head(req[w].queue), req[w].limit)
       THEN GoTo(w, "insert") /\ UNCHANGED disk
       ELSE Refuse(w)
    /\ UNCHANGED <<invoice, lost>>

Inserted(w, i) ==
    LET row == Head(req[w].queue)
    IN  [j \in DOMAIN invoice \cup {i} |->
            IF j = i THEN [contract |-> row.contract, no |-> row.no, amount |-> row.amount,
                           status |-> "ISSUED", file |-> req[w].file]
            ELSE invoice[j]]

CreateInsert(w) ==
    /\ req[w].at = "insert"
    /\ \E i \in FreshInvoice : invoice' = Inserted(w, i)
    /\ SkipRow(w)
    /\ UNCHANGED <<disk, lost>>

\* The INSERT commits and its answer does not arrive: the handler takes it for
\* a failure and deletes the file.
InsertLost(w) ==
    /\ req[w].at = "insert"
    /\ \E i \in FreshInvoice : invoice' = Inserted(w, i)
    /\ lost' = lost \cup ({req[w].file} \ {None})
    /\ Refuse(w)

VoidRead(w, i) ==
    /\ i \in DOMAIN invoice
    /\ invoice[i].status = "ISSUED"
    /\ Start(w, [Idle EXCEPT !.at = "void", !.id = i])
    /\ UNCHANGED <<invoice, disk, lost>>

VoidWrite(w) ==
    /\ req[w].at = "void"
    /\ invoice' = IF req[w].id \in DOMAIN invoice
                  THEN [invoice EXCEPT ![req[w].id].status = "VOIDED"]
                  ELSE invoice
    /\ Answer(w)
    /\ UNCHANGED <<disk, lost>>

RemoveRead(w, i) ==
    /\ i \in DOMAIN invoice
    /\ Start(w, [Idle EXCEPT !.at = "delete", !.id = i, !.file = invoice[i].file])
    /\ UNCHANGED <<invoice, disk, lost>>

\* The row goes first and its file after it; a row that is gone refuses.
RemoveDeleteFileFirst(w) ==
    /\ req[w].at = "delete"
    /\ disk' = disk \ {req[w].file}
    /\ GoTo(w, "unlink")
    /\ UNCHANGED <<invoice, lost>>
RemoveDelete(w) ==
    /\ req[w].at = "delete"
    /\ IF req[w].id \in DOMAIN invoice THEN GoTo(w, "unlink") ELSE Answer(w)
    /\ invoice' = [i \in DOMAIN invoice \ {req[w].id} |-> invoice[i]]
    /\ UNCHANGED <<disk, lost>>

RemoveUnlink(w) ==
    /\ req[w].at = "unlink"
    /\ disk' = disk \ {req[w].file}
    /\ Answer(w)
    /\ UNCHANGED <<invoice, lost>>

\* A statement fails: a row of an import is refused, any other request ends.
Fail(w) ==
    /\ \/ req[w].at \in {"check", "sum", "insert"} /\ Refuse(w)
       \/ req[w].at \in {"void", "delete"} /\ Answer(w) /\ UNCHANGED disk
    /\ UNCHANGED <<invoice, lost>>

\* The process restarts: what is on disk and in the table stays.
Restart ==
    /\ req' = [w \in Worker |-> Idle]
    /\ UNCHANGED <<invoice, disk, lost>>

\* The amount of a contract is edited, in whatever status its invoices are.
EditContract(c) ==
    /\ \E amount \in ContractAmounts :
          /\ amountWithTax' = [amountWithTax EXCEPT ![c] = amount]
          /\ highest' = [highest EXCEPT ![c] = IF amount > @ THEN amount ELSE @]
    /\ UNCHANGED <<invoice, disk, lost, req>>

-----------------------------------------------------------------------------
Init ==
    /\ invoice = [i \in {} |-> None]
    /\ disk = {}
    /\ lost = {}
    /\ req = [w \in Worker |-> Idle]
    /\ amountWithTax \in [Contract -> ContractAmounts]
    /\ highest = amountWithTax

Ask(w) == Import(w) \/ Create(w) \/ \E i \in Invoice : VoidRead(w, i) \/ RemoveRead(w, i)

Step(w) ==
    \/ StoreFile(w) \/ CreateCheck(w) \/ CreateSum(w) \/ CreateInsert(w) \/ InsertLost(w)
    \/ VoidWrite(w) \/ RemoveDelete(w) \/ RemoveUnlink(w)

\* Nothing in the service of invoices writes a contract.
Next ==
    \/ ((\E w \in Worker : Ask(w) \/ Step(w) \/ Fail(w)) \/ Restart) /\ UNCHANGED contractVars
    \/ \E c \in Contract : EditContract(c)

Spec == Init /\ [][Next]_vars

-----------------------------------------------------------------------------
(***************************************************************************)
(* Properties.                                                             *)
(***************************************************************************)

\* An invoice never points to a file that is gone, at whatever point imports and
\* removals overlap, fail or die with the process; unless the answer to its
\* INSERT was lost (importFiles stores first and deletes on failure, remove
\* deletes the row first).
AttachmentsExist ==
    \A i \in DOMAIN invoice : invoice[i].file \in disk \cup lost \cup {None}

\* Creates that overlap each fit into the contract as they saw it, and exceed the
\* highest amount that it had by no more than their number allows (create: contract,
\* sum, then insert), whatever is voided, removed and edited meanwhile.  What it is
\* lowered to afterwards binds nobody.
InvoicedBounded ==
    \A c \in Contract : Issued(c) <= Cardinality(Worker) * highest[c]

=============================================================================
