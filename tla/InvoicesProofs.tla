---------------------------- MODULE InvoicesProofs ----------------------------
(***************************************************************************)
(* No invoice points to a file that is gone, for any number of handlers,   *)
(* invoices and files.                                                     *)
(*                                                                         *)
(* A file belongs to one invoice, or to one handler that is about to       *)
(* attach it, or to the handlers that are about to delete it after its     *)
(* invoice; so whoever deletes a file deletes one that no invoice has.     *)
(***************************************************************************)
EXTENDS Invoices, RowsProofs, SequenceTheorems, TLAPS

\* The parts of the type invariant: what requests write, and what they read.
Typed ==
    /\ DOMAIN invoice \subseteq Invoice
    /\ invoice \in [DOMAIN invoice -> Row]
    /\ disk \subseteq File
    /\ lost \subseteq File
    /\ req \in [Worker -> Handler]
ContractsTyped ==
    /\ amountWithTax \in [Contract -> ContractAmounts]
    /\ highest \in [Contract -> ContractAmounts]

Attaching(w) == req[w].at \in {"check", "sum", "insert"}

\* What a handler knows of its file.
Own(w) ==
    /\ req[w].at \in {"idle", "row", "void"} => req[w].file = None
    /\ Attaching(w) => req[w].queue # <<>> /\ req[w].file \in disk \cup {None}
    /\ (Attaching(w) \/ req[w].at = "unlink") =>
          \A i \in DOMAIN invoice : invoice[i].file = req[w].file => req[w].file = None
    /\ (req[w].at = "delete" /\ req[w].id \in DOMAIN invoice) =>
          invoice[req[w].id].file = req[w].file

\* Only removals of one invoice share its file.
Apart(v, w) ==
    (v # w /\ req[v].file = req[w].file /\ req[w].file # None)
        => {req[v].at, req[w].at} \subseteq {"delete", "unlink"}

OneInvoice ==
    \A i, j \in DOMAIN invoice :
        invoice[i].file = invoice[j].file => (i = j \/ invoice[i].file = None)

AttachmentInv ==
    /\ AttachmentsExist
    /\ OneInvoice
    /\ \A w \in Worker : Own(w)
    /\ \A v, w \in Worker : Apart(v, w)

Inv == Typed /\ AttachmentInv

-----------------------------------------------------------------------------
LEMMA IdleTyped == Idle \in Handler /\ Idle.at = "idle" /\ Idle.file = None
BY DEF Idle, Handler

LEMMA ReplaceTyped ==
    ASSUME Typed, NEW w \in Worker, NEW r \in Handler, req' = [req EXCEPT ![w] = r]
    PROVE  /\ req' \in [Worker -> Handler]
           /\ req'[w] = r
           /\ \A v \in Worker \ {w} : req'[v] = req[v]
BY DEF Typed

\* The request of w goes on and no table changes.
LEMMA Frame ==
    ASSUME Inv, NEW w \in Worker, NEW r \in Handler, req' = [req EXCEPT ![w] = r],
           UNCHANGED <<invoice, disk, lost>>,
           Own(w)',
           \A v \in Worker : Apart(v, w)'
    PROVE  Inv'
<1>1. /\ req' \in [Worker -> Handler] /\ req'[w] = r
      /\ \A v \in Worker \ {w} : req'[v] = req[v]
  BY ReplaceTyped DEF Inv
<1>2. Typed'
  BY <1>1 DEF Inv, Typed
<1>3. AttachmentsExist' /\ OneInvoice'
  BY DEF Inv, AttachmentInv, AttachmentsExist, OneInvoice
<1>4. ASSUME NEW v \in Worker \ {w} PROVE Own(v)'
  BY <1>1 DEF Inv, AttachmentInv, Own, Attaching
<1>5. ASSUME NEW u \in Worker, NEW v \in Worker PROVE Apart(u, v)'
  BY <1>1 DEF Inv, AttachmentInv, Apart
<1> QED
  BY <1>2, <1>3, <1>4, <1>5 DEF Inv, AttachmentInv

\* A handler that has no file left.
LEMMA NoFile ==
    ASSUME Inv, NEW w \in Worker, NEW r \in Handler, req' = [req EXCEPT ![w] = r],
           r.file = None, r.at \in {"idle", "row", "void"}
    PROVE  Own(w)' /\ \A v \in Worker : Apart(v, w)'
<1>1. req'[w] = r
  BY ReplaceTyped DEF Inv
<1> QED
  BY <1>1 DEF Own, Attaching, Apart

LEMMA AnswerOnly ==
    ASSUME Inv, NEW w \in Worker, Answer(w), UNCHANGED <<invoice, disk, lost>>
    PROVE  Inv'
BY IdleTyped, NoFile, Frame DEF Answer

\* From one statement of create to the next.
LEMMA GoOn ==
    ASSUME Inv, NEW w \in Worker, Attaching(w), NEW at \in {"sum", "insert"}, GoTo(w, at),
           UNCHANGED <<invoice, disk, lost>>
    PROVE  Inv'
<1> DEFINE r == [req[w] EXCEPT !.at = at]
<1>1. r \in Handler /\ r.at = at /\ r.file = req[w].file /\ r.queue = req[w].queue
  BY DEF Inv, Typed, Handler
<1>2. req' = [req EXCEPT ![w] = r]
  BY DEF GoTo
<1> HIDE DEF r
<1>3. req'[w] = r /\ \A v \in Worker \ {w} : req'[v] = req[v]
  BY <1>1, <1>2, ReplaceTyped DEF Inv
<1>4. Own(w)'
  BY <1>1, <1>3 DEF Inv, AttachmentInv, Own, Attaching
<1>5. ASSUME NEW v \in Worker PROVE Apart(v, w)'
  BY <1>1, <1>3 DEF Inv, AttachmentInv, Apart, Attaching
<1> QED
  BY <1>1, <1>2, <1>4, <1>5, Frame

\* What SkipRow makes of a handler.
LEMMA Skipped ==
    ASSUME Inv, NEW w \in Worker, Attaching(w), SkipRow(w)
    PROVE  \E r \in Handler :
              req' = [req EXCEPT ![w] = r] /\ r.file = None /\ r.at \in {"idle", "row"}
<1>1. Tail(req[w].queue) \in Seq(ImportRow)
  BY DEF Inv, AttachmentInv, Own, Typed, Handler
<1> DEFINE next == [Idle EXCEPT !.at = "row", !.import = TRUE, !.queue = Tail(req[w].queue)]
<1>2. next \in Handler /\ next.file = None /\ next.at = "row"
  BY <1>1 DEF Idle, Handler
<1>3. req' = [req EXCEPT ![w] = next] \/ req' = [req EXCEPT ![w] = Idle]
  BY DEF SkipRow
<1> HIDE DEF next
<1> QED
  BY <1>2, <1>3, IdleTyped

-----------------------------------------------------------------------------
\* A handler stores a file that nobody has.
LEMMA Stores ==
    ASSUME Inv, NEW w \in Worker, NEW r \in Handler, req' = [req EXCEPT ![w] = r],
           NEW f \in FreshFile \cup {None}, disk' = disk \cup ({f} \ {None}),
           r.file = f, r.at = "check", r.queue # <<>>,
           UNCHANGED <<invoice, lost>>
    PROVE  Inv'
<1>1. /\ req' \in [Worker -> Handler] /\ req'[w] = r
      /\ \A v \in Worker \ {w} : req'[v] = req[v]
  BY ReplaceTyped DEF Inv
<1>2. /\ f # None => f \in File
      /\ f # None => \A i \in DOMAIN invoice : invoice[i].file # f
      /\ f # None => \A v \in Worker : req[v].file # f
  BY DEF FreshFile
<1>3. Typed'
  BY <1>1, <1>2 DEF Inv, Typed
<1>4. AttachmentsExist' /\ OneInvoice'
  BY DEF Inv, AttachmentInv, AttachmentsExist, OneInvoice
<1>5. Own(w)'
  BY <1>1, <1>2 DEF Own, Attaching
<1>6. ASSUME NEW v \in Worker \ {w} PROVE Own(v)'
  BY <1>1 DEF Inv, AttachmentInv, Own, Attaching
<1>7. ASSUME NEW u \in Worker, NEW v \in Worker PROVE Apart(u, v)'
  BY <1>1, <1>2 DEF Inv, AttachmentInv, Apart
<1> QED
  BY <1>3, <1>4, <1>5, <1>6, <1>7 DEF Inv, AttachmentInv

\* A handler is done with its file, and deletes it or not.
LEMMA LetsGo ==
    ASSUME Inv, NEW w \in Worker, NEW r \in Handler, req' = [req EXCEPT ![w] = r],
           r.file = None, r.at \in {"idle", "row"},
           Attaching(w) \/ req[w].at = "unlink",
           disk' \in {disk, disk \ {req[w].file}},
           UNCHANGED <<invoice, lost>>
    PROVE  Inv'
<1>1. /\ req' \in [Worker -> Handler] /\ req'[w] = r
      /\ \A v \in Worker \ {w} : req'[v] = req[v]
  BY ReplaceTyped DEF Inv
<1>2. Typed'
  BY <1>1 DEF Inv, Typed
<1>3. Own(w)' /\ \A v \in Worker : Apart(v, w)'
  BY NoFile
<1>4. AttachmentsExist' /\ OneInvoice'
  <2>1. \A i \in DOMAIN invoice : invoice[i].file = req[w].file => req[w].file = None
    BY DEF Inv, AttachmentInv, Own
  <2> QED
    BY <2>1 DEF Inv, AttachmentInv, AttachmentsExist, OneInvoice
<1>5. ASSUME NEW v \in Worker \ {w} PROVE Own(v)'
  <2>1. Attaching(v) /\ req[v].file # None => req[v].file # req[w].file
    BY DEF Inv, AttachmentInv, Apart, Attaching
  <2> QED
    BY <1>1, <2>1, InvoiceConstants DEF Inv, AttachmentInv, Own, Attaching
<1>6. ASSUME NEW u \in Worker, NEW v \in Worker PROVE Apart(u, v)'
  BY <1>1, <1>3 DEF Inv, AttachmentInv, Apart
<1> QED
  BY <1>2, <1>4, <1>3, <1>5, <1>6 DEF Inv, AttachmentInv

LEMMA RefuseInv ==
    ASSUME Inv, NEW w \in Worker, Attaching(w), Refuse(w), UNCHANGED <<invoice, lost>>
    PROVE  Inv'
<1>1. SkipRow(w) /\ disk' \in {disk, disk \ {req[w].file}}
  BY DEF Refuse
<1> QED
  BY <1>1, Skipped, LetsGo

\* The invoice of w is inserted with its file; the answer may get lost, and the
\* file be deleted.
LEMMA Inserts ==
    ASSUME Inv, NEW w \in Worker, NEW r \in Handler, req' = [req EXCEPT ![w] = r],
           r.file = None, r.at \in {"idle", "row"},
           req[w].at = "insert",
           NEW i \in FreshInvoice, invoice' = Inserted(w, i),
           \/ UNCHANGED <<disk, lost>>
           \/ /\ disk' \in {disk, disk \ {req[w].file}}
              /\ lost' = lost \cup ({req[w].file} \ {None})
    PROVE  Inv'
<1>1. /\ req' \in [Worker -> Handler] /\ req'[w] = r
      /\ \A v \in Worker \ {w} : req'[v] = req[v]
  BY ReplaceTyped DEF Inv
<1>2. i \in Invoice /\ i \notin DOMAIN invoice /\ \A v \in Worker : req[v].id # i
  BY DEF FreshInvoice
<1> DEFINE row == Head(req[w].queue)
           new == [contract |-> row.contract, no |-> row.no, amount |-> row.amount,
                   status |-> "ISSUED", file |-> req[w].file]
<1>3. row \in ImportRow /\ req[w].file \in File \cup {None}
  <2>1. req[w].queue \in Seq(ImportRow) /\ req[w].queue # <<>>
    BY DEF Inv, AttachmentInv, Own, Attaching, Typed, Handler
  <2> QED
    BY <2>1, HeadTailProperties DEF Inv, Typed, Handler
<1>4. new \in Row /\ new.file = req[w].file
  BY <1>3 DEF Row, ImportRow
<1>5. invoice' = [j \in DOMAIN invoice \cup {i} |-> IF j = i THEN new ELSE invoice[j]]
  BY DEF Inserted
<1> HIDE DEF new, row
<1>6. /\ DOMAIN invoice' = DOMAIN invoice \cup {i} /\ invoice'[i] = new
      /\ \A j \in DOMAIN invoice : invoice'[j] = invoice[j]
  BY <1>2, <1>5
<1>7. Typed'
  BY <1>1, <1>2, <1>3, <1>4, <1>5 DEF Inv, Typed
<1>8. /\ req[w].file \in disk \cup {None}
      /\ \A j \in DOMAIN invoice : invoice[j].file = req[w].file => req[w].file = None
  BY DEF Inv, AttachmentInv, Own, Attaching
<1>9. AttachmentsExist' /\ OneInvoice'
  BY <1>4, <1>6, <1>8 DEF Inv, AttachmentInv, AttachmentsExist, OneInvoice
<1>10. Own(w)' /\ \A v \in Worker : Apart(v, w)'
  BY NoFile
<1>11. ASSUME NEW v \in Worker \ {w} PROVE Own(v)'
  <2>1. req[v].file = req[w].file /\ req[w].file # None => FALSE
    BY DEF Inv, AttachmentInv, Apart
  <2>2. Own(v)
    BY DEF Inv, AttachmentInv
  <2>3. req[v].id # i
    BY <1>2
  <2> QED
    BY <1>1, <1>4, <1>6, <2>1, <2>2, <2>3, InvoiceConstants DEF Own, Attaching
<1>12. ASSUME NEW u \in Worker, NEW v \in Worker PROVE Apart(u, v)'
  BY <1>1, <1>10 DEF Inv, AttachmentInv, Apart
<1> QED
  BY <1>7, <1>9, <1>10, <1>11, <1>12 DEF Inv, AttachmentInv

-----------------------------------------------------------------------------
LEMMA AskInv ==
    ASSUME Inv, ContractsTyped, NEW w \in Worker, Ask(w)
    PROVE  Inv'
<1> USE DEF Start
<1>1. CASE Import(w)
  <2>1. PICK queue \in Batches :
           req' = [req EXCEPT ![w] = [Idle EXCEPT !.at = "row", !.import = TRUE, !.queue = queue]]
    BY <1>1 DEF Import
  <2> DEFINE r == [Idle EXCEPT !.at = "row", !.import = TRUE, !.queue = queue]
  <2>2. r \in Handler /\ r.file = None /\ r.at = "row"
    BY InvoiceConstants DEF Idle, Handler
  <2>3. req' = [req EXCEPT ![w] = r] /\ UNCHANGED <<invoice, disk, lost>>
    BY <1>1, <2>1 DEF Import
  <2> HIDE DEF r
  <2> QED
    BY <2>2, <2>3, NoFile, Frame
<1>2. CASE Create(w)
  <2>1. PICK row \in ImportRow, f \in FreshFile \cup {None} :
           /\ req' = [req EXCEPT ![w] = [Idle EXCEPT !.at = "check", !.queue = <<row>>, !.file = f,
                                                   !.limit = amountWithTax[row.contract]]]
           /\ disk' = disk \cup ({f} \ {None})
    BY <1>2 DEF Create
  <2> DEFINE r == [Idle EXCEPT !.at = "check", !.queue = <<row>>, !.file = f,
                               !.limit = amountWithTax[row.contract]]
  <2>2. /\ <<row>> \in Seq(ImportRow) /\ <<row>> # <<>>
        /\ amountWithTax[row.contract] \in ContractAmounts
    BY DEF ImportRow, ContractsTyped
  <2>3. r \in Handler /\ r.file = f /\ r.at = "check" /\ r.queue = <<row>>
    BY <2>2 DEF Idle, Handler, FreshFile
  <2>4. req' = [req EXCEPT ![w] = r] /\ UNCHANGED <<invoice, lost>>
    BY <1>2, <2>1 DEF Create
  <2> HIDE DEF r
  <2> QED
    BY <2>1, <2>2, <2>3, <2>4, Stores
<1>3. ASSUME NEW i \in Invoice, VoidRead(w, i) PROVE Inv'
  <2> DEFINE r == [Idle EXCEPT !.at = "void", !.id = i]
  <2>1. r \in Handler /\ r.file = None /\ r.at = "void"
    BY IdleTyped DEF Handler
  <2>2. req' = [req EXCEPT ![w] = r] /\ UNCHANGED <<invoice, disk, lost>>
    BY <1>3 DEF VoidRead
  <2> HIDE DEF r
  <2> QED
    BY <2>1, <2>2, NoFile, Frame
<1>4. ASSUME NEW i \in Invoice, RemoveRead(w, i) PROVE Inv'
  <2> DEFINE r == [Idle EXCEPT !.at = "delete", !.id = i, !.file = invoice[i].file]
  <2>1. i \in DOMAIN invoice /\ req' = [req EXCEPT ![w] = r] /\ UNCHANGED <<invoice, disk, lost>>
    BY <1>4 DEF RemoveRead
  <2>2. r \in Handler /\ r.file = invoice[i].file /\ r.at = "delete" /\ r.id = i
    <3>1. invoice[i].file \in File \cup {None}
      BY <2>1 DEF Inv, Typed, Row
    <3> QED
      BY <3>1, IdleTyped DEF Handler
  <2> HIDE DEF r
  <2>3. req'[w] = r /\ \A v \in Worker \ {w} : req'[v] = req[v]
    BY <2>1, <2>2, ReplaceTyped DEF Inv
  <2>4. Own(w)'
    BY <2>1, <2>2, <2>3 DEF Own, Attaching
  <2>5. ASSUME NEW v \in Worker PROVE Apart(v, w)'
    <3>1. Own(v) /\ req[v].at \in {"idle", "row", "check", "sum", "insert", "void", "delete", "unlink"}
      BY DEF Inv, AttachmentInv, Typed, Handler
    <3> QED
      BY <2>1, <2>2, <2>3, <3>1 DEF Own, Attaching, Apart
  <2> QED
    BY <2>1, <2>2, <2>4, <2>5, Frame
<1> QED
  BY <1>1, <1>2, <1>3, <1>4 DEF Ask

LEMMA StoreInv ==
    ASSUME Inv, ContractsTyped, NEW w \in Worker, StoreFile(w)
    PROVE  Inv'
<1>1. req[w].at = "row" /\ UNCHANGED <<invoice, lost>>
  BY DEF StoreFile
<1>2. CASE req[w].queue = <<>>
  BY <1>1, <1>2, AnswerOnly DEF StoreFile
<1>3. CASE req[w].queue # <<>>
  <2> DEFINE row == Head(req[w].queue)
  <2>1. PICK f \in FreshFile \cup {None} :
           /\ disk' = disk \cup ({f} \ {None})
           /\ req' = [req EXCEPT ![w].at = "check", ![w].file = f,
                                 ![w].limit = amountWithTax[row.contract]]
    BY <1>3 DEF StoreFile
  <2>2. amountWithTax[row.contract] \in ContractAmounts
    <3>1. row \in ImportRow
      BY <1>3, HeadTailProperties DEF Inv, Typed, Handler
    <3> QED
      BY <3>1 DEF ImportRow, ContractsTyped
  <2> DEFINE r == [req[w] EXCEPT !.at = "check", !.file = f,
                                 !.limit = amountWithTax[row.contract]]
  <2>3. req' = [req EXCEPT ![w] = r]
    BY <2>1 DEF Inv, Typed
  <2> HIDE DEF row
  <2>4. r \in Handler /\ r.file = f /\ r.at = "check" /\ r.queue = req[w].queue
    BY <2>2 DEF Inv, Typed, Handler, FreshFile
  <2> HIDE DEF r
  <2> QED
    BY <1>1, <1>3, <2>1, <2>3, <2>4, Stores
<1> QED
  BY <1>2, <1>3

\* The status of an invoice changes, and nothing about files.
LEMMA VoidInv ==
    ASSUME Inv, NEW w \in Worker, VoidWrite(w)
    PROVE  Inv'
<1>1. /\ req' \in [Worker -> Handler] /\ req'[w] = Idle
      /\ \A v \in Worker \ {w} : req'[v] = req[v]
      /\ UNCHANGED <<disk, lost>>
  BY IdleTyped, ReplaceTyped DEF VoidWrite, Answer, Inv
<1> DEFINE row == [invoice[req[w].id] EXCEPT !.status = "VOIDED"]
<1>2. req[w].id \in DOMAIN invoice => row \in Row /\ row.file = invoice[req[w].id].file
  BY DEF Inv, Typed, Row
<1>3. invoice' = invoice \/ (req[w].id \in DOMAIN invoice /\ invoice' = [invoice EXCEPT ![req[w].id] = row])
  BY DEF VoidWrite
<1> HIDE DEF row
<1>4. /\ DOMAIN invoice' = DOMAIN invoice /\ invoice' \in [DOMAIN invoice -> Row]
      /\ \A i \in DOMAIN invoice : invoice'[i].file = invoice[i].file
  BY <1>2, <1>3 DEF Inv, Typed
<1>5. Typed'
  BY <1>1, <1>4 DEF Inv, Typed
<1>6. AttachmentsExist' /\ OneInvoice'
  BY <1>1, <1>4 DEF Inv, AttachmentInv, AttachmentsExist, OneInvoice
<1>7. Own(w)' /\ \A v \in Worker : Apart(v, w)'
  BY <1>1, IdleTyped DEF Own, Attaching, Apart
<1>8. ASSUME NEW v \in Worker \ {w} PROVE Own(v)'
  BY <1>1, <1>4 DEF Inv, AttachmentInv, Own, Attaching
<1>9. ASSUME NEW u \in Worker, NEW v \in Worker PROVE Apart(u, v)'
  BY <1>1, <1>7 DEF Inv, AttachmentInv, Apart
<1> QED
  BY <1>5, <1>6, <1>7, <1>8, <1>9 DEF Inv, AttachmentInv

\* The row is deleted, if it is there, before its file.
LEMMA DeleteInv ==
    ASSUME Inv, NEW w \in Worker, RemoveDelete(w)
    PROVE  Inv'
<1>1. /\ req[w].at = "delete" /\ UNCHANGED <<disk, lost>>
      /\ DOMAIN invoice' = DOMAIN invoice \ {req[w].id}
      /\ \A i \in DOMAIN invoice' : invoice'[i] = invoice[i]
      /\ invoice' \in [DOMAIN invoice' -> Row]
  BY DEF RemoveDelete, Inv, Typed
<1>2. CASE Answer(w) /\ req[w].id \notin DOMAIN invoice
  <2>1. invoice' = invoice
    BY <1>2 DEF RemoveDelete, Inv, Typed
  <2> QED
    BY <1>1, <1>2, <2>1, AnswerOnly
<1>3. CASE GoTo(w, "unlink") /\ req[w].id \in DOMAIN invoice
  <2> DEFINE r == [req[w] EXCEPT !.at = "unlink"]
  <2>1. r \in Handler /\ r.at = "unlink" /\ r.file = req[w].file
    BY DEF Inv, Typed, Handler
  <2>2. req' = [req EXCEPT ![w] = r]
    BY <1>3 DEF GoTo
  <2> HIDE DEF r
  <2>3. /\ req' \in [Worker -> Handler] /\ req'[w] = r
        /\ \A v \in Worker \ {w} : req'[v] = req[v]
    BY <2>1, <2>2, ReplaceTyped DEF Inv
  <2>4. Typed'
    BY <1>1, <2>3 DEF Inv, Typed
  <2>5. AttachmentsExist' /\ OneInvoice'
    BY <1>1 DEF Inv, AttachmentInv, AttachmentsExist, OneInvoice
  <2>6. Own(w)'
    <3>1. invoice[req[w].id].file = req[w].file
      BY <1>1, <1>3 DEF Inv, AttachmentInv, Own
    <3>2. \A i \in DOMAIN invoice' : invoice'[i].file = req[w].file => req[w].file = None
      BY <1>1, <1>3, <3>1 DEF Inv, AttachmentInv, OneInvoice
    <3> QED
      BY <2>1, <2>3, <3>2 DEF Own, Attaching
  <2>7. ASSUME NEW v \in Worker \ {w} PROVE Own(v)'
    BY <1>1, <2>3 DEF Inv, AttachmentInv, Own, Attaching
  <2>8. ASSUME NEW u \in Worker, NEW v \in Worker PROVE Apart(u, v)'
    BY <1>1, <2>1, <2>3 DEF Inv, AttachmentInv, Apart
  <2> QED
    BY <2>4, <2>5, <2>6, <2>7, <2>8 DEF Inv, AttachmentInv
<1> QED
  BY <1>2, <1>3 DEF RemoveDelete

LEMMA StepInv ==
    ASSUME Inv, ContractsTyped, NEW w \in Worker, Step(w)
    PROVE  Inv'
<1>1. CASE CreateCheck(w) \/ CreateSum(w)
  <2>1. Attaching(w) /\ UNCHANGED <<invoice, lost>>
    BY <1>1 DEF CreateCheck, CreateSum, Attaching
  <2>2. \/ Refuse(w)
        \/ (GoTo(w, "sum") \/ GoTo(w, "insert")) /\ UNCHANGED disk
    BY <1>1 DEF CreateCheck, CreateSum
  <2> QED
    BY <2>1, <2>2, RefuseInv, GoOn
<1>2. CASE CreateInsert(w) \/ InsertLost(w)
  <2>1. req[w].at = "insert" /\ Attaching(w) /\ SkipRow(w)
    BY <1>2 DEF CreateInsert, InsertLost, Refuse, Attaching
  <2>2. PICK i \in FreshInvoice : invoice' = Inserted(w, i)
    BY <1>2 DEF CreateInsert, InsertLost
  <2>3. \/ UNCHANGED <<disk, lost>>
        \/ /\ disk' \in {disk, disk \ {req[w].file}}
           /\ lost' = lost \cup ({req[w].file} \ {None})
    BY <1>2 DEF CreateInsert, InsertLost, Refuse
  <2> QED
    BY <2>1, <2>2, <2>3, Skipped, Inserts
<1>3. CASE RemoveUnlink(w)
  BY <1>3, IdleTyped, LetsGo DEF RemoveUnlink, Answer
<1> QED
  BY <1>1, <1>2, <1>3, StoreInv, VoidInv, DeleteInv DEF Step

LEMMA InvInit == Init => Inv
BY IdleTyped DEF Init, Inv, Typed, AttachmentInv, AttachmentsExist, OneInvoice, Own, Attaching, Apart

LEMMA InvNext == Inv /\ ContractsTyped /\ [Next]_vars => Inv'
<1> SUFFICES ASSUME Inv, ContractsTyped, [Next]_vars PROVE Inv'
  OBVIOUS
<1>1. ASSUME NEW w \in Worker, Fail(w) PROVE Inv'
  <2>1. CASE Attaching(w) /\ Refuse(w)
    BY <1>1, <2>1, RefuseInv DEF Fail
  <2>2. CASE Answer(w) /\ UNCHANGED disk
    BY <1>1, <2>2, AnswerOnly DEF Fail
  <2> QED
    BY <1>1, <2>1, <2>2 DEF Fail, Attaching
<1>2. CASE Restart
  <2>1. \A w \in Worker : req'[w] = Idle
    BY <1>2 DEF Restart
  <2>2. Typed' /\ AttachmentsExist' /\ OneInvoice'
    BY <1>2, IdleTyped DEF Restart, Inv, Typed, AttachmentInv, AttachmentsExist, OneInvoice
  <2> QED
    BY <2>1, <2>2, IdleTyped DEF Inv, AttachmentInv, Own, Attaching, Apart
<1>3. CASE (\E c \in Contract : EditContract(c)) \/ UNCHANGED vars
  <2>1. UNCHANGED <<invoice, disk, lost, req>>
    BY <1>3 DEF EditContract, vars
  <2> QED
    BY <2>1 DEF Inv, Typed, AttachmentInv, AttachmentsExist, OneInvoice, Own, Attaching, Apart
<1> QED
  BY <1>1, <1>2, <1>3, AskInv, StepInv DEF Next

LEMMA ContractsTypedInit == Init => ContractsTyped
BY DEF Init, ContractsTyped

LEMMA ContractsTypedNext == ContractsTyped /\ [Next]_vars => ContractsTyped'
<1> SUFFICES ASSUME ContractsTyped, [Next]_vars PROVE ContractsTyped'
  OBVIOUS
<1>1. ASSUME NEW c \in Contract, EditContract(c) PROVE ContractsTyped'
  BY <1>1 DEF EditContract, ContractsTyped
<1>2. CASE UNCHANGED contractVars
  BY <1>2 DEF contractVars, ContractsTyped
<1> QED
  BY <1>1, <1>2 DEF Next, vars

\* Invoices, files, contracts and handlers have their types.
THEOREM TypeCorrect == Spec => []TypeOK
<1>1. Inv /\ ContractsTyped => TypeOK
  BY DEF Inv, Typed, ContractsTyped, TypeOK
<1> QED
  BY <1>1, InvInit, InvNext, ContractsTypedInit, ContractsTypedNext, PTL DEF Spec

\* However imports and removals overlap, fail or die with the process, no
\* invoice points to a file that was deleted (importFiles, create, remove),
\* unless the answer to its INSERT was lost.
THEOREM AttachmentsCorrect == Spec => []AttachmentsExist
<1>1. Inv => AttachmentsExist
  BY DEF Inv, AttachmentInv
<1> QED
  BY <1>1, InvInit, InvNext, ContractsTypedInit, ContractsTypedNext, PTL DEF Spec

-----------------------------------------------------------------------------
(***************************************************************************)
(* What is invoiced on a contract.  A handler that is about to insert has  *)
(* a claim on the contract, that fitted when it was made, by itself, into  *)
(* the amount that it had read before.                                     *)
(***************************************************************************)
Claim(w, c) ==
    IF req[w].at = "insert" /\ Head(req[w].queue).contract = c
    THEN Head(req[w].queue).amount ELSE 0
Claims(c) == [w \in Worker |-> [amount |-> Claim(w, c)]]
Claimed(c) == Total(Claims(c), Worker)

ReadInv ==
    /\ \A c \in Contract : amountWithTax[c] <= highest[c]
    /\ \A w \in Worker : Attaching(w) => req[w].limit <= highest[Head(req[w].queue).contract]

BoundInv ==
    \A c \in Contract :
        /\ \A w \in Worker : Claim(w, c) <= highest[c]
        /\ Issued(c) + Claimed(c) <= Cardinality(Worker) * highest[c]

LEMMA HighestType == ASSUME ContractsTyped PROVE \A c \in Contract : highest[c] \in Nat
BY InvoiceConstants DEF ContractsTyped

LEMMA RowToInsert ==
    ASSUME Inv, NEW w \in Worker, Attaching(w)
    PROVE  Head(req[w].queue) \in ImportRow
<1>1. req[w].queue \in Seq(ImportRow) /\ req[w].queue # <<>>
  BY DEF Inv, AttachmentInv, Own, Typed, Handler
<1> QED
  BY <1>1, HeadTailProperties

LEMMA ClaimType ==
    ASSUME Inv, NEW w \in Worker, NEW c \in Contract
    PROVE  Claim(w, c) \in Nat
<1>1. CASE Attaching(w)
  <2>1. Head(req[w].queue).amount \in Amounts
    BY <1>1, RowToInsert DEF ImportRow
  <2> QED
    BY <2>1, InvoiceConstants DEF Claim
<1>2. CASE ~Attaching(w)
  BY <1>2 DEF Claim, Attaching
<1> QED
  BY <1>1, <1>2

LEMMA ClaimedType ==
    ASSUME Inv, NEW c \in Contract
    PROVE  /\ Amounted(Claims(c), Worker) /\ Claimed(c) \in Nat
           /\ \A w \in Worker : Claims(c)[w].amount = Claim(w, c)
<1>1. \A w \in Worker : Claims(c)[w].amount = Claim(w, c)
  BY DEF Claims
<1>2. Amounted(Claims(c), Worker)
  BY <1>1, ClaimType DEF Amounted
<1> QED
  BY <1>1, <1>2, TotalType, InvoiceConstants DEF Claimed

LEMMA IssuedType ==
    ASSUME Typed, NEW c \in Contract
    PROVE  /\ IsFiniteSet(IssuedOn(c)) /\ Amounted(invoice, IssuedOn(c)) /\ Issued(c) \in Nat
<1>1. IsFiniteSet(IssuedOn(c))
  BY InvoiceConstants, FS_Subset DEF IssuedOn, Typed
<1>2. Amounted(invoice, IssuedOn(c))
  BY InvoiceConstants DEF IssuedOn, Amounted, Typed, Row
<1> QED
  BY <1>1, <1>2, TotalType DEF Issued

\* The claims of the others are what they were.
LEMMA ClaimMoves ==
    ASSUME Inv, ContractsTyped, NEW w \in Worker, NEW c \in Contract, Claim(w, c)' \in Nat,
           \A v \in Worker \ {w} : req'[v] = req[v]
    PROVE  /\ \E others \in Nat :
                 /\ Claimed(c) = Claim(w, c) + others
                 /\ Claimed(c)' = Claim(w, c)' + others
                 /\ (\A v \in Worker : Claim(v, c) <= highest[c]) =>
                       others + highest[c] <= Cardinality(Worker) * highest[c]
           /\ \A v \in Worker \ {w} : Claim(v, c)' = Claim(v, c)
<1> DEFINE rest == Worker \ {w}
           others == Total(Claims(c), rest)
<1>1. /\ IsFiniteSet(Worker) /\ IsFiniteSet(rest)
      /\ Cardinality(rest) \in Nat /\ Cardinality(Worker) = Cardinality(rest) + 1
  <2>1. IsFiniteSet(Worker) /\ Cardinality(Worker) \in Nat
    BY InvoiceConstants, FS_CardinalityType
  <2>2. IsFiniteSet(rest) /\ Cardinality(rest) = Cardinality(Worker) - 1
    BY <2>1, FS_RemoveElement
  <2>3. Cardinality(rest) \in Nat
    BY <2>2, FS_CardinalityType
  <2> QED
    BY <2>1, <2>2, <2>3
<1>2. /\ Amounted(Claims(c), Worker)
      /\ \A v \in Worker : Claims(c)[v].amount = Claim(v, c)
  BY ClaimedType
<1>3. /\ Amounted(Claims(c)', Worker)
      /\ \A v \in Worker : Claims(c)'[v].amount = Claim(v, c)'
  <2>1. \A v \in Worker : Claims(c)'[v].amount = Claim(v, c)'
    BY DEF Claims
  <2>2. \A v \in rest : Claim(v, c)' = Claim(v, c) /\ Claim(v, c) \in Nat
    BY ClaimType DEF Claim
  <2> QED
    BY <2>1, <2>2 DEF Amounted
<1>4. \A v \in rest : Claim(v, c)' = Claim(v, c)
  BY DEF Claim
<1>5. Claimed(c) = Claim(w, c) + others
  BY <1>1, <1>2, TotalWithout DEF Claimed
<1>6. Claimed(c)' = Claim(w, c)' + Total(Claims(c)', rest)
  BY <1>1, <1>3, TotalWithout DEF Claimed
<1>7. Total(Claims(c)', rest) = others
  <2>1. \A v \in rest : Claims(c)'[v].amount = Claims(c)[v].amount
    BY <1>2, <1>3, <1>4
  <2> QED
    BY <1>1, <2>1, TotalSame
<1>8. others \in Nat
  BY <1>1, <1>2, TotalType DEF Amounted
<1>9. ASSUME \A v \in Worker : Claim(v, c) <= highest[c]
      PROVE  others + highest[c] <= Cardinality(Worker) * highest[c]
  <2>1. highest[c] \in Nat
    BY HighestType
  <2>2. others <= Cardinality(rest) * highest[c]
    <3>1. Amounted(Claims(c), rest) /\ \A v \in rest : Claims(c)[v].amount <= highest[c]
      BY <1>2, <1>9 DEF Amounted
    <3> HIDE DEF rest
    <3> QED
      BY <1>1, <2>1, <3>1, TotalBounded
  <2>3. (Cardinality(rest) + 1) * highest[c] = Cardinality(rest) * highest[c] + highest[c]
    BY <1>1, <2>1
  <2>4. Cardinality(rest) * highest[c] \in Nat
    BY <1>1, <2>1
  <2> HIDE DEF others
  <2> QED
    BY <1>1, <1>8, <2>1, <2>2, <2>3, <2>4
<1> HIDE DEF others
<1> QED
  BY <1>4, <1>5, <1>6, <1>7, <1>8, <1>9

\* What voiding and removing do: no contract has more.
LEMMA IssuedShrinks ==
    ASSUME Typed, Typed', NEW c \in Contract,
           \A i \in DOMAIN invoice' :
              /\ i \in DOMAIN invoice /\ invoice'[i].amount = invoice[i].amount
              /\ invoice'[i].contract = invoice[i].contract
              /\ invoice'[i].status = "ISSUED" => invoice[i].status = "ISSUED"
    PROVE  Issued(c)' <= Issued(c)
<1>1. IssuedOn(c)' \subseteq IssuedOn(c)
  BY DEF IssuedOn
<1>2. \A i \in IssuedOn(c)' : invoice'[i].amount = invoice[i].amount
  BY DEF IssuedOn
<1>3. IsFiniteSet(IssuedOn(c)) /\ Amounted(invoice, IssuedOn(c))
  BY IssuedType
<1>4. IsFiniteSet(IssuedOn(c)')
  BY <1>1, <1>3, FS_Subset
<1>5. Total(invoice', IssuedOn(c)') = Total(invoice, IssuedOn(c)')
  BY <1>2, <1>4, TotalSame
<1> QED
  BY <1>1, <1>3, <1>5, TotalGrows DEF Issued

-----------------------------------------------------------------------------
OnlyHandler(w) == req'[w].at # "insert" /\ \A v \in Worker \ {w} : req'[v] = req[v]

\* A handler that has no claim afterwards, while no contract has more.
LEMMA LessBound ==
    ASSUME Inv, ContractsTyped, BoundInv, UNCHANGED highest, NEW w \in Worker, OnlyHandler(w), Typed',
           \A i \in DOMAIN invoice' :
              /\ i \in DOMAIN invoice /\ invoice'[i].amount = invoice[i].amount
              /\ invoice'[i].contract = invoice[i].contract
              /\ invoice'[i].status = "ISSUED" => invoice[i].status = "ISSUED"
    PROVE  BoundInv'
<1> SUFFICES ASSUME NEW c \in Contract
             PROVE  /\ \A v \in Worker : Claim(v, c)' <= highest[c]
                    /\ Issued(c)' + Claimed(c)' <= Cardinality(Worker) * highest[c]
  BY DEF BoundInv
<1>1. req'[w].at # "insert" /\ \A v \in Worker \ {w} : req'[v] = req[v]
  BY DEF OnlyHandler
<1>2. Claim(w, c)' = 0
  BY <1>1 DEF Claim
<1>3. PICK others \in Nat : Claimed(c) = Claim(w, c) + others /\ Claimed(c)' = others
  BY <1>1, <1>2, ClaimMoves
<1>4. highest[c] \in Nat /\ Claim(w, c) \in Nat
  BY ClaimType, HighestType
<1>5. \A v \in Worker : Claim(v, c)' <= highest[c]
  BY <1>1, <1>2, <1>4 DEF Claim, BoundInv
<1>6. Issued(c) \in Nat /\ Issued(c)' <= Issued(c)
  BY IssuedType, IssuedShrinks DEF Inv
<1>7. Issued(c)' \in Nat
  <2>1. IsFiniteSet(IssuedOn(c)')
    BY InvoiceConstants, FS_Subset DEF IssuedOn, Typed
  <2>2. Amounted(invoice', IssuedOn(c)')
    BY InvoiceConstants DEF IssuedOn, Amounted, Typed, Row
  <2> QED
    BY <2>1, <2>2, TotalType DEF Issued
<1>8. Cardinality(Worker) * highest[c] \in Nat
  BY <1>4, InvoiceConstants, FS_CardinalityType
<1>9. Issued(c) + Claimed(c) <= Cardinality(Worker) * highest[c]
  BY DEF BoundInv
<1> QED
  BY <1>3, <1>4, <1>5, <1>6, <1>7, <1>8, <1>9

LEMMA SameBound ==
    ASSUME Inv, ContractsTyped, BoundInv, UNCHANGED highest, NEW w \in Worker, OnlyHandler(w), Typed', UNCHANGED invoice
    PROVE  BoundInv'
BY LessBound

LEMMA SkipBound ==
    ASSUME Inv, ContractsTyped, BoundInv, UNCHANGED highest, NEW w \in Worker, SkipRow(w), Typed', UNCHANGED invoice
    PROVE  BoundInv'
<1>1. OnlyHandler(w)
  BY DEF SkipRow, OnlyHandler, Idle, Inv, Typed
<1> QED
  BY <1>1, SameBound

\* The claim that fits, all others being within the highest amount one by one.
LEMMA SumBound ==
    ASSUME Inv, ContractsTyped, ReadInv, BoundInv, UNCHANGED highest, NEW w \in Worker, CreateSum(w), Typed'
    PROVE  BoundInv'
<1>1. req[w].at = "sum" /\ UNCHANGED invoice
  BY DEF CreateSum
<1>2. CASE Refuse(w)
  BY <1>1, <1>2, SkipBound DEF Refuse
<1>3. CASE Fits(Head(req[w].queue), req[w].limit) /\ GoTo(w, "insert")
  <2> DEFINE row == Head(req[w].queue)
  <2>1. row.contract \in Contract /\ row.amount \in Nat
    <3>1. row \in ImportRow
      BY <1>1, RowToInsert DEF Attaching
    <3> QED
      BY <3>1, InvoiceConstants DEF ImportRow
  <2>2. /\ req'[w].at = "insert" /\ req'[w].queue = req[w].queue
        /\ \A v \in Worker \ {w} : req'[v] = req[v]
    BY <1>3 DEF GoTo, Inv, Typed, Handler
  <2>3. Issued(row.contract) + row.amount <= highest[row.contract]
    <3>1. Issued(row.contract) + row.amount <= req[w].limit
      BY <1>3 DEF Fits
    <3>2. req[w].limit <= highest[row.contract]
      BY <1>1 DEF ReadInv, Attaching
    <3>3. req[w].limit \in Nat /\ highest[row.contract] \in Nat /\ Issued(row.contract) \in Nat
      BY <2>1, HighestType, IssuedType, InvoiceConstants DEF Inv, Typed, Handler
    <3> HIDE DEF row
    <3> QED
      BY <2>1, <3>1, <3>2, <3>3
  <2> SUFFICES ASSUME NEW c \in Contract
               PROVE  /\ \A v \in Worker : Claim(v, c)' <= highest[c]
                      /\ Issued(c)' + Claimed(c)' <= Cardinality(Worker) * highest[c]
    BY DEF BoundInv
  <2>4. Issued(c) \in Nat /\ Issued(c)' = Issued(c) /\ highest[c] \in Nat
    BY <1>1, IssuedType, HighestType DEF Inv, Issued, IssuedOn
  <2>5. Claim(w, c) = 0
    BY <1>1 DEF Claim
  <2>6. Claim(w, c)' = IF row.contract = c THEN row.amount ELSE 0
    BY <2>2 DEF Claim
  <2> HIDE DEF row
  <2>7. Issued(c) + Claim(w, c)' <= highest[c] \/ Claim(w, c)' = 0
    BY <2>1, <2>3, <2>4, <2>6
  <2>8. Claim(w, c)' \in Nat
    BY <2>1, <2>6
  <2>9. PICK others \in Nat :
           /\ Claimed(c) = others /\ Claimed(c)' = Claim(w, c)' + others
           /\ others + highest[c] <= Cardinality(Worker) * highest[c]
    BY <2>2, <2>5, <2>8, ClaimMoves DEF BoundInv
  <2>10. \A v \in Worker : Claim(v, c)' <= highest[c]
    <3>1. Claim(w, c)' <= highest[c]
      BY <2>4, <2>7, <2>8
    <3>2. \A v \in Worker \ {w} : Claim(v, c)' = Claim(v, c)
      BY <2>2 DEF Claim
    <3> QED
      BY <3>1, <3>2 DEF BoundInv
  <2>11. Cardinality(Worker) * highest[c] \in Nat
    BY <2>4, InvoiceConstants, FS_CardinalityType
  <2>12. Issued(c) + Claimed(c) <= Cardinality(Worker) * highest[c]
    BY DEF BoundInv
  <2> QED
    BY <2>4, <2>7, <2>8, <2>9, <2>10, <2>11, <2>12
<1> QED
  BY <1>2, <1>3 DEF CreateSum

\* The claim becomes an invoice.
LEMMA InsertBound ==
    ASSUME Inv, ContractsTyped, BoundInv, UNCHANGED highest, NEW w \in Worker, req[w].at = "insert", SkipRow(w), Typed',
           NEW i \in FreshInvoice, invoice' = Inserted(w, i)
    PROVE  BoundInv'
<1> DEFINE row == Head(req[w].queue)
<1>1. row.contract \in Contract /\ row.amount \in Nat
  <2>1. row \in ImportRow
    BY RowToInsert DEF Attaching
  <2> QED
    BY <2>1, InvoiceConstants DEF ImportRow
<1>2. req'[w].at # "insert" /\ \A v \in Worker \ {w} : req'[v] = req[v]
  BY DEF SkipRow, Idle, Inv, Typed
<1>3. /\ DOMAIN invoice' = DOMAIN invoice \cup {i} /\ i \notin DOMAIN invoice
      /\ invoice'[i].contract = row.contract /\ invoice'[i].amount = row.amount
      /\ invoice'[i].status = "ISSUED"
      /\ \A j \in DOMAIN invoice : invoice'[j] = invoice[j]
  BY DEF Inserted, FreshInvoice
<1> SUFFICES ASSUME NEW c \in Contract
             PROVE  /\ \A v \in Worker : Claim(v, c)' <= highest[c]
                    /\ Issued(c)' + Claimed(c)' <= Cardinality(Worker) * highest[c]
  BY DEF BoundInv
<1>4. Claim(w, c)' = 0 /\ Claim(w, c) = IF row.contract = c THEN row.amount ELSE 0
  BY <1>2 DEF Claim
<1> HIDE DEF row
<1>5. PICK others \in Nat : Claimed(c) = Claim(w, c) + others /\ Claimed(c)' = others
  BY <1>2, <1>4, ClaimMoves
<1>6. /\ IsFiniteSet(IssuedOn(c)) /\ Amounted(invoice, IssuedOn(c)) /\ Issued(c) \in Nat
  BY IssuedType DEF Inv
<1>7. \A j \in IssuedOn(c) : invoice'[j].amount = invoice[j].amount /\ j \in DOMAIN invoice
  BY <1>3 DEF IssuedOn
<1>8. Total(invoice', IssuedOn(c)) = Issued(c)
  BY <1>6, <1>7, TotalSame DEF Issued
<1>9. Issued(c)' = Issued(c) + Claim(w, c)
  <2>1. CASE row.contract = c
    <3>1. IssuedOn(c)' = IssuedOn(c) \cup {i} /\ i \notin IssuedOn(c)
      BY <1>3, <2>1 DEF IssuedOn
    <3>2. Amounted(invoice', IssuedOn(c) \cup {i})
      BY <1>1, <1>3, <1>6, <1>7 DEF Amounted
    <3>3. Total(invoice', IssuedOn(c) \cup {i})
             = invoice'[i].amount + Total(invoice', IssuedOn(c))
      BY <1>6, <3>1, <3>2, TotalWith
    <3> QED
      BY <1>1, <1>3, <1>4, <1>6, <1>8, <2>1, <3>1, <3>3 DEF Issued
  <2>2. CASE row.contract # c
    <3>1. IssuedOn(c)' = IssuedOn(c)
      BY <1>3, <2>2 DEF IssuedOn
    <3> QED
      BY <1>4, <1>6, <1>8, <2>2, <3>1 DEF Issued
  <2> QED
    BY <2>1, <2>2
<1>10. \A v \in Worker : Claim(v, c)' <= highest[c]
  <2>1. highest[c] \in Nat
    BY HighestType
  <2> QED
    BY <1>2, <1>4, <2>1 DEF Claim, BoundInv
<1>11. Claim(w, c) \in Nat /\ Issued(c) + Claimed(c) <= Cardinality(Worker) * highest[c]
  BY ClaimType DEF BoundInv
<1>12. Cardinality(Worker) * highest[c] \in Nat
  BY HighestType, InvoiceConstants, FS_CardinalityType
<1> QED
  BY <1>5, <1>6, <1>9, <1>10, <1>11, <1>12

LEMMA BoundInit == Init => BoundInv
<1> SUFFICES ASSUME Init, NEW c \in Contract
             PROVE  /\ \A w \in Worker : Claim(w, c) <= highest[c]
                    /\ Issued(c) + Claimed(c) <= Cardinality(Worker) * highest[c]
  BY DEF BoundInv
<1>1. highest[c] \in Nat /\ IsFiniteSet(Worker)
  BY InvoiceConstants, HighestType, ContractsTypedInit
<1>2. \A w \in Worker : Claim(w, c) = 0
  BY DEF Init, Claim, Idle
<1>3. IssuedOn(c) = {}
  BY DEF Init, IssuedOn
<1>4. Issued(c) = 0
  BY <1>3, TotalEmpty DEF Issued
<1>5. \A w \in Worker : Claims(c)[w].amount = 0
  BY <1>2 DEF Claims
<1>6. Amounted(Claims(c), Worker)
  BY <1>5 DEF Amounted
<1>7. Claimed(c) <= Cardinality(Worker) * 0
  BY <1>1, <1>5, <1>6, TotalBounded DEF Claimed
<1>8. Claimed(c) \in Nat /\ Cardinality(Worker) \in Nat
  BY <1>1, <1>6, TotalType, FS_CardinalityType DEF Claimed
<1>9. Cardinality(Worker) * 0 = 0 /\ Cardinality(Worker) * highest[c] \in Nat
  BY <1>1, <1>8
<1> QED
  BY <1>1, <1>2, <1>4, <1>7, <1>8, <1>9

\* What requests do.
LEMMA RequestsBound ==
    ASSUME Inv, ContractsTyped, ReadInv, BoundInv, Inv', UNCHANGED highest,
           (\E w \in Worker : Ask(w) \/ Step(w) \/ Fail(w)) \/ Restart
    PROVE  BoundInv'
<1>0. Typed'
  BY DEF Inv
<1>1. ASSUME NEW w \in Worker, Ask(w) PROVE BoundInv'
  <2>1. OnlyHandler(w)
    BY <1>1 DEF Ask, Import, Create, VoidRead, RemoveRead, Start, Idle, Inv, Typed, OnlyHandler
  <2>2. UNCHANGED invoice
    BY <1>1 DEF Ask, Import, Create, VoidRead, RemoveRead
  <2> QED
    BY <1>0, <2>1, <2>2, SameBound
<1>2. ASSUME NEW w \in Worker, StoreFile(w) PROVE BoundInv'
  <2>1. OnlyHandler(w)
    <3>1. CASE Answer(w)
      BY <3>1 DEF Answer, Idle, Inv, Typed, OnlyHandler
    <3>2. ASSUME NEW f, NEW limit,
                 req' = [req EXCEPT ![w].at = "check", ![w].file = f, ![w].limit = limit]
          PROVE  OnlyHandler(w)
      BY <3>2 DEF Inv, Typed, Handler, OnlyHandler
    <3> QED
      BY <1>2, <3>1, <3>2 DEF StoreFile
  <2>2. UNCHANGED invoice
    BY <1>2 DEF StoreFile
  <2> QED
    BY <1>0, <2>1, <2>2, SameBound
<1>3. ASSUME NEW w \in Worker, CreateCheck(w) PROVE BoundInv'
  <2>1. CASE Refuse(w)
    BY <1>0, <1>3, <2>1, SkipBound DEF CreateCheck, Refuse
  <2>2. CASE GoTo(w, "sum")
    <3>1. OnlyHandler(w)
      BY <2>2 DEF GoTo, Inv, Typed, Handler, OnlyHandler
    <3> QED
      BY <1>0, <1>3, <3>1, SameBound DEF CreateCheck
  <2> QED
    BY <1>3, <2>1, <2>2 DEF CreateCheck
<1>4. ASSUME NEW w \in Worker, CreateInsert(w) \/ InsertLost(w) PROVE BoundInv'
  <2>1. req[w].at = "insert" /\ SkipRow(w)
    BY <1>4 DEF CreateInsert, InsertLost, Refuse
  <2>2. PICK i \in FreshInvoice : invoice' = Inserted(w, i)
    BY <1>4 DEF CreateInsert, InsertLost
  <2> QED
    BY <1>0, <2>1, <2>2, InsertBound
<1>5. ASSUME NEW w \in Worker, VoidWrite(w) PROVE BoundInv'
  <2>1. OnlyHandler(w)
    BY <1>5 DEF VoidWrite, Answer, Idle, Inv, Typed, OnlyHandler
  <2>2. ASSUME NEW i \in DOMAIN invoice'
        PROVE  /\ i \in DOMAIN invoice /\ invoice'[i].amount = invoice[i].amount
               /\ invoice'[i].contract = invoice[i].contract
               /\ invoice'[i].status = "ISSUED" => invoice[i].status = "ISSUED"
    <3>1. i \in DOMAIN invoice
      BY <1>5, <2>2 DEF VoidWrite
    <3>2. invoice[i] \in Row
      BY <3>1 DEF Inv, Typed
    <3>3. invoice'[i] = invoice[i] \/ invoice'[i] = [invoice[i] EXCEPT !.status = "VOIDED"]
      BY <1>5, <3>1 DEF VoidWrite
    <3> QED
      BY <3>1, <3>2, <3>3 DEF Row
  <2> QED
    BY <1>0, <2>1, <2>2, LessBound
<1>6. ASSUME NEW w \in Worker, RemoveDelete(w) PROVE BoundInv'
  <2>1. OnlyHandler(w)
    BY <1>6 DEF RemoveDelete, Answer, GoTo, Idle, Inv, Typed, Handler, OnlyHandler
  <2>2. \A i \in DOMAIN invoice' : i \in DOMAIN invoice /\ invoice'[i] = invoice[i]
    BY <1>6 DEF RemoveDelete
  <2> QED
    BY <1>0, <2>1, <2>2, LessBound
<1>7. ASSUME NEW w \in Worker, RemoveUnlink(w) PROVE BoundInv'
  <2>1. OnlyHandler(w)
    BY <1>7 DEF RemoveUnlink, Answer, Idle, Inv, Typed, OnlyHandler
  <2> QED
    BY <1>0, <1>7, <2>1, SameBound DEF RemoveUnlink
<1>8. ASSUME NEW w \in Worker, Fail(w) PROVE BoundInv'
  <2>1. CASE Refuse(w)
    BY <1>0, <1>8, <2>1, SkipBound DEF Fail, Refuse
  <2>2. CASE Answer(w)
    <3>1. OnlyHandler(w)
      BY <2>2 DEF Answer, Idle, Inv, Typed, OnlyHandler
    <3> QED
      BY <1>0, <1>8, <3>1, SameBound DEF Fail
  <2> QED
    BY <1>8, <2>1, <2>2 DEF Fail
<1>9. CASE Restart
  <2>1. \A w \in Worker, c \in Contract : Claim(w, c)' = 0
    BY <1>9 DEF Restart, Claim, Idle
  <2> SUFFICES ASSUME NEW c \in Contract
               PROVE  /\ \A v \in Worker : Claim(v, c)' <= highest[c]
                      /\ Issued(c)' + Claimed(c)' <= Cardinality(Worker) * highest[c]
    BY DEF BoundInv
  <2>2. /\ Amounted(Claims(c), Worker) /\ Claimed(c) \in Nat
        /\ \A w \in Worker : Claims(c)[w].amount = Claim(w, c)
    BY ClaimedType
  <2>3. highest[c] \in Nat /\ IsFiniteSet(Worker) /\ Cardinality(Worker) \in Nat
    BY HighestType, InvoiceConstants, FS_CardinalityType
  <2>4. Claimed(c)' = 0
    <3>1. \A w \in Worker : Claims(c)'[w].amount = 0
      BY <2>1 DEF Claims
    <3>2. Amounted(Claims(c)', Worker)
      BY <3>1 DEF Amounted
    <3>3. Claimed(c)' <= Cardinality(Worker) * 0
      BY <2>3, <3>1, <3>2, TotalBounded DEF Claimed
    <3>4. Claimed(c)' \in Nat
      BY <2>3, <3>2, TotalType DEF Claimed
    <3>5. Cardinality(Worker) * 0 = 0
      BY <2>3
    <3> QED
      BY <3>3, <3>4, <3>5
  <2>5. Issued(c)' = Issued(c) /\ Issued(c) \in Nat
    BY <1>9, IssuedType DEF Restart, Issued, IssuedOn, Inv
  <2>6. Issued(c) + Claimed(c) <= Cardinality(Worker) * highest[c]
    BY DEF BoundInv
  <2>7. Cardinality(Worker) * highest[c] \in Nat
    BY <2>3
  <2> QED
    BY <2>1, <2>2, <2>3, <2>4, <2>5, <2>6, <2>7
<1> QED
  BY <1>0, <1>1, <1>2, <1>3, <1>4, <1>5, <1>6, <1>7, <1>8, <1>9, SumBound DEF Step

\* The highest amount of a contract only grows.
LEMMA EditBound ==
    ASSUME Inv, ContractsTyped, BoundInv, NEW d \in Contract, EditContract(d)
    PROVE  BoundInv'
<1>1. ASSUME NEW c \in Contract PROVE highest'[c] \in Nat /\ highest[c] <= highest'[c]
  <2>1. highest[c] \in Nat /\ highest[d] \in Nat
    BY HighestType
  <2> QED
    BY <2>1, InvoiceConstants DEF EditContract, ContractsTyped
<1> SUFFICES ASSUME NEW c \in Contract
             PROVE  /\ \A v \in Worker : Claim(v, c)' <= highest'[c]
                    /\ Issued(c)' + Claimed(c)' <= Cardinality(Worker) * highest'[c]
  BY DEF BoundInv
<1>2. UNCHANGED <<invoice, req>>
  BY DEF EditContract
<1>3. /\ Issued(c)' = Issued(c) /\ Claimed(c)' = Claimed(c)
      /\ \A v \in Worker : Claim(v, c)' = Claim(v, c)
  BY <1>2 DEF Issued, IssuedOn, Claimed, Claims, Claim
<1>4. highest[c] \in Nat /\ highest'[c] \in Nat /\ highest[c] <= highest'[c]
  BY <1>1, HighestType
<1>5. Cardinality(Worker) \in Nat
  BY InvoiceConstants, FS_CardinalityType
<1>6. /\ Cardinality(Worker) * highest[c] \in Nat /\ Cardinality(Worker) * highest'[c] \in Nat
      /\ Cardinality(Worker) * highest[c] <= Cardinality(Worker) * highest'[c]
  BY <1>4, <1>5
<1>7. \A v \in Worker : Claim(v, c) <= highest[c] /\ Claim(v, c) \in Nat
  BY ClaimType DEF BoundInv
<1>8. Issued(c) \in Nat /\ Claimed(c) \in Nat
  BY IssuedType, ClaimedType DEF Inv
<1>9. Issued(c) + Claimed(c) <= Cardinality(Worker) * highest[c]
  BY DEF BoundInv
<1> QED
  BY <1>3, <1>4, <1>6, <1>7, <1>8, <1>9

LEMMA BoundNext ==
    ASSUME Inv, ContractsTyped, ReadInv, BoundInv, Inv', [Next]_vars
    PROVE  BoundInv'
<1>1. CASE UNCHANGED vars
  BY <1>1 DEF vars, contractVars, BoundInv, Issued, IssuedOn, Claim, Claims, Claimed
<1>2. ASSUME NEW c \in Contract, EditContract(c) PROVE BoundInv'
  BY <1>2, EditBound
<1>3. CASE /\ (\E w \in Worker : Ask(w) \/ Step(w) \/ Fail(w)) \/ Restart
           /\ UNCHANGED contractVars
  BY <1>3, RequestsBound DEF contractVars
<1> QED
  BY <1>1, <1>2, <1>3 DEF Next

-----------------------------------------------------------------------------
(***************************************************************************)
(* What a handler has read of a contract was its amount at some time.      *)
(***************************************************************************)
LEMMA ReadInit == Init => ReadInv
<1> SUFFICES ASSUME Init PROVE ReadInv
  OBVIOUS
<1>1. \A c \in Contract : highest[c] \in Nat /\ amountWithTax[c] = highest[c]
  BY ContractsTypedInit, HighestType DEF Init
<1> QED
  BY <1>1 DEF Init, ReadInv, Attaching, Idle

\* A handler that goes on with what it had, or no longer creates.
LEMMA KeepsRead ==
    ASSUME Inv, ReadInv, UNCHANGED contractVars,
           \A w \in Worker :
              \/ ~Attaching(w)'
              \/ /\ Attaching(w)
                 /\ req'[w].limit = req[w].limit /\ req'[w].queue = req[w].queue
    PROVE  ReadInv'
BY DEF ReadInv, contractVars

LEMMA ReadNext ==
    ASSUME Inv, ContractsTyped, ReadInv, [Next]_vars
    PROVE  ReadInv'
<1>1. CASE UNCHANGED vars
  BY <1>1 DEF vars, contractVars, ReadInv, Attaching
<1>2. ASSUME NEW d \in Contract, EditContract(d) PROVE ReadInv'
  <2>1. PICK amount \in ContractAmounts :
           /\ amountWithTax' = [amountWithTax EXCEPT ![d] = amount]
           /\ highest' = [highest EXCEPT ![d] = IF amount > @ THEN amount ELSE @]
    BY <1>2 DEF EditContract
  <2>2. UNCHANGED req
    BY <1>2 DEF EditContract
  <2>3. ASSUME NEW c \in Contract
        PROVE  /\ highest'[c] \in Nat /\ highest[c] \in Nat
               /\ highest[c] <= highest'[c] /\ amountWithTax'[c] <= highest'[c]
    <3>1. amount \in Nat /\ highest[c] \in Nat /\ amountWithTax[c] \in Nat
      BY HighestType, InvoiceConstants DEF ContractsTyped
    <3> QED
      BY <2>1, <3>1 DEF ContractsTyped, ReadInv
  <2>4. ASSUME NEW w \in Worker, Attaching(w)
        PROVE  req[w].limit <= highest'[Head(req[w].queue).contract]
    <3>1. Head(req[w].queue).contract \in Contract
      BY <2>4, RowToInsert DEF ImportRow
    <3>2. req[w].limit \in Nat
      BY InvoiceConstants DEF Inv, Typed, Handler
    <3>3. req[w].limit <= highest[Head(req[w].queue).contract]
      BY <2>4 DEF ReadInv
    <3> DEFINE c == Head(req[w].queue).contract
    <3>4. highest'[c] \in Nat /\ highest[c] \in Nat /\ highest[c] <= highest'[c]
      BY <2>3, <3>1
    <3> QED
      BY <3>2, <3>3, <3>4
  <2> QED
    BY <2>2, <2>3, <2>4 DEF ReadInv, Attaching
<1>3. ASSUME NEW w \in Worker, Ask(w), UNCHANGED contractVars PROVE ReadInv'
  <2> USE DEF Start
  <2>1. CASE Create(w)
    <3>1. PICK row \in ImportRow, f \in FreshFile \cup {None} :
             req' = [req EXCEPT ![w] = [Idle EXCEPT !.at = "check", !.queue = <<row>>, !.file = f,
                                                   !.limit = amountWithTax[row.contract]]]
      BY <2>1 DEF Create
    <3>2. req'[w].limit = amountWithTax[row.contract] /\ req'[w].queue = <<row>>
      BY <3>1 DEF Idle, Inv, Typed
    <3>3. row.contract \in Contract /\ Head(<<row>>) = row
      BY DEF ImportRow
    <3>4. \A v \in Worker \ {w} : req'[v] = req[v]
      BY <3>1
    <3> QED
      BY <1>3, <3>2, <3>3, <3>4 DEF ReadInv, contractVars, Attaching
  <2>2. (~Attaching(w)' /\ \A v \in Worker \ {w} : req'[v] = req[v]) \/ Create(w)
    BY <1>3 DEF Ask, Import, VoidRead, RemoveRead, Idle, Inv, Typed, Attaching
  <2> QED
    BY <1>3, <2>1, <2>2, KeepsRead DEF Attaching
<1>4. ASSUME NEW w \in Worker, StoreFile(w), UNCHANGED contractVars PROVE ReadInv'
  <2>1. CASE req[w].queue = <<>>
    <3>1. ~Attaching(w)' /\ \A v \in Worker \ {w} : req'[v] = req[v]
      BY <1>4, <2>1 DEF StoreFile, Answer, Idle, Inv, Typed, Attaching
    <3> QED
      BY <1>4, <3>1, KeepsRead DEF Attaching
  <2>2. CASE req[w].queue # <<>>
    <3> DEFINE row == Head(req[w].queue)
    <3>1. PICK f \in FreshFile \cup {None} :
             req' = [req EXCEPT ![w].at = "check", ![w].file = f,
                               ![w].limit = amountWithTax[row.contract]]
      BY <1>4, <2>2 DEF StoreFile
    <3>2. /\ req'[w].limit = amountWithTax[row.contract] /\ req'[w].queue = req[w].queue
          /\ \A v \in Worker \ {w} : req'[v] = req[v]
      BY <3>1 DEF Inv, Typed, Handler
    <3>3. row.contract \in Contract
      <4>1. row \in ImportRow
        BY <2>2, HeadTailProperties DEF Inv, Typed, Handler
      <4> QED
        BY <4>1 DEF ImportRow
    <3> QED
      BY <1>4, <3>2, <3>3 DEF ReadInv, contractVars, Attaching
  <2> QED
    BY <2>1, <2>2
<1>5. ASSUME NEW w \in Worker, Step(w) \/ Fail(w), ~StoreFile(w), UNCHANGED contractVars
      PROVE  ReadInv'
  <2>1. \/ Attaching(w) /\ (GoTo(w, "sum") \/ GoTo(w, "insert"))
        \/ SkipRow(w) \/ Answer(w) \/ GoTo(w, "unlink")
    BY <1>5 DEF Step, Fail, CreateCheck, CreateSum, CreateInsert, InsertLost, VoidWrite,
                RemoveDelete, RemoveUnlink, Refuse, Attaching
  <2>2. \A v \in Worker \ {w} : req'[v] = req[v]
    <3>1. CASE SkipRow(w)
      BY <3>1 DEF SkipRow, Inv, Typed
    <3>2. CASE Answer(w)
      BY <3>2 DEF Answer, Inv, Typed
    <3>3. ASSUME NEW at, GoTo(w, at) PROVE \A v \in Worker \ {w} : req'[v] = req[v]
      BY <3>3 DEF GoTo, Inv, Typed
    <3> QED
      BY <2>1, <3>1, <3>2, <3>3
  <2>3. CASE Attaching(w) /\ (GoTo(w, "sum") \/ GoTo(w, "insert"))
    <3>1. req'[w].limit = req[w].limit /\ req'[w].queue = req[w].queue
      BY <2>3 DEF GoTo, Inv, Typed, Handler
    <3> QED
      BY <1>5, <2>2, <2>3, <3>1, KeepsRead DEF Attaching
  <2>4. CASE SkipRow(w)
    <3>1. ~Attaching(w)'
      BY <2>4 DEF SkipRow, Idle, Inv, Typed, Attaching
    <3> QED
      BY <1>5, <2>2, <3>1, KeepsRead DEF Attaching
  <2>5. CASE Answer(w) \/ GoTo(w, "unlink")
    <3>1. ~Attaching(w)'
      BY <2>5 DEF Answer, GoTo, Idle, Inv, Typed, Handler, Attaching
    <3> QED
      BY <1>5, <2>2, <3>1, KeepsRead DEF Attaching
  <2> QED
    BY <2>1, <2>3, <2>4, <2>5
<1>6. CASE Restart /\ UNCHANGED contractVars
  <2>1. \A w \in Worker : ~Attaching(w)'
    BY <1>6 DEF Restart, Idle, Attaching
  <2> QED
    BY <1>6, <2>1, KeepsRead
<1> QED
  BY <1>1, <1>2, <1>3, <1>4, <1>5, <1>6 DEF Next, Step

\* Creates that overlap exceed the highest amount that a contract had by no more than
\* their number allows, whatever is voided, removed and edited meanwhile (create:
\* contract, sum, then insert).
THEOREM InvoicedCorrect == Spec => []InvoicedBounded
<1>1. ASSUME Inv, ContractsTyped, BoundInv PROVE InvoicedBounded
  <2>1. ASSUME NEW c \in Contract PROVE Issued(c) <= Cardinality(Worker) * highest[c]
    <3>1. Issued(c) \in Nat /\ Claimed(c) \in Nat
      BY <1>1, IssuedType, ClaimedType DEF Inv
    <3>2. Issued(c) + Claimed(c) <= Cardinality(Worker) * highest[c]
      BY <1>1 DEF BoundInv
    <3>3. Cardinality(Worker) * highest[c] \in Nat
      BY <1>1, HighestType, InvoiceConstants, FS_CardinalityType
    <3> QED
      BY <3>1, <3>2, <3>3
  <2> QED
    BY <2>1 DEF InvoicedBounded
<1> DEFINE All == Inv /\ ContractsTyped /\ ReadInv /\ BoundInv
<1>2. Init => All
  BY InvInit, ContractsTypedInit, ReadInit, BoundInit
<1>3. All /\ [Next]_vars => All'
  BY InvNext, ContractsTypedNext, ReadNext, BoundNext
<1>4. All => InvoicedBounded
  BY <1>1
<1> HIDE DEF All
<1> QED
  BY <1>2, <1>3, <1>4, PTL DEF Spec

=============================================================================
