---------------------------- MODULE BillingProofs ----------------------------
(***************************************************************************)
(* What the company is billed and what it bills, for any number of         *)
(* handlers, requests, accounts, invoices and contracts: payment requests, *)
(* the accounts they are paid from, and, from the theorems about each,     *)
(* invoices and the sides of contracts.                                    *)
(*                                                                         *)
(* A handler that is about to write a payment request found it in a status *)
(* that allows it, and nobody has written since unless the request is      *)
(* disputed.  For the flow of approval the numbers of requests do not      *)
(* matter; the retries of create, which they are about, come after it.     *)
(***************************************************************************)
EXTENDS MCBilling, RowsProofs, FiniteSetTheorems, TLAPS

Fields == DOMAIN Idle
Columns == {"status", "amount", "no", "deleted"}

Shapes ==
    /\ DOMAIN paymentRequest \subseteq Request
    /\ \A p \in DOMAIN paymentRequest :
          /\ DOMAIN paymentRequest[p] = Columns
          /\ paymentRequest[p] = [c \in Columns |-> paymentRequest[p][c]]
          /\ paymentRequest[p].status \in Status
          /\ paymentRequest[p].amount \in Content
    /\ DOMAIN req = Worker
    /\ \A w \in Worker :
          /\ DOMAIN req[w] = Fields
          /\ req[w].at \in {"number", "insert"} => req[w].amount \in Content

\* What a handler knows of the request that it is about to write.
Found(w) ==
    req[w].at = "write" =>
        /\ req[w].id \in DOMAIN paymentRequest
        /\ req[w].op \in Transitions
        /\ req[w].op = "update" => req[w].amount \in Content
        /\ req[w].id \notin disputed =>
              /\ ~paymentRequest[req[w].id].deleted
              /\ Allowed(req[w].op, paymentRequest[req[w].id].status)

OneWriter ==
    \A v, w \in Worker :
        (v # w /\ req[v].at = "write" /\ Writing(w, req[v].id)) => req[v].id \in disputed

Inv == Shapes /\ (\A w \in Worker : Found(w)) /\ OneWriter

LEMMA FieldsAre ==
    /\ Fields = {"at", "op", "id", "amount", "no", "tries", "before", "found"}
    /\ Idle.at = "idle" /\ DOMAIN Idle = Fields
BY DEF Fields, Idle

-----------------------------------------------------------------------------
\* A handler that does not write goes on, or ends; no request changes.
LEMMA Frame ==
    ASSUME Inv, UNCHANGED <<paymentRequest, disputed>>,
           DOMAIN req' = Worker,
           \A w \in Worker :
              \/ req'[w] = req[w]
              \/ req'[w].at = req[w].at /\ req'[w].id = req[w].id /\ req'[w].op = req[w].op
                    /\ req'[w].amount = req[w].amount /\ DOMAIN req'[w] = Fields
              \/ /\ req'[w].at # "write" /\ DOMAIN req'[w] = Fields
                 /\ req'[w].at \in {"number", "insert"} => req'[w].amount \in Content
    PROVE  Inv'
<1>1. Shapes'
  BY DEF Inv, Shapes
<1>2. \A w \in Worker : Found(w)'
  BY DEF Inv, Found
<1>3. OneWriter'
  BY DEF Inv, OneWriter, Writing
<1> QED
  BY <1>1, <1>2, <1>3 DEF Inv

\* The requests that nobody touches stay where they are.
LEMMA OneMoves ==
    ASSUME NEW p \in Request,
           \A q \in Request \ {p} :
              /\ q \in disputed' <=> q \in disputed
              /\ q \in DOMAIN paymentRequest' <=> q \in DOMAIN paymentRequest
              /\ q \in DOMAIN paymentRequest => paymentRequest'[q] = paymentRequest[q]
    PROVE  /\ Life' = [Life EXCEPT ![p] = Life'[p]]
           /\ About' = [About EXCEPT ![p] = About'[p]]
BY DEF Life, About

LEMMA NothingMoves ==
    ASSUME UNCHANGED <<paymentRequest, disputed>>
    PROVE  UNCHANGED Flow!vars
BY DEF Flow!vars, Life, About

-----------------------------------------------------------------------------
\* A handler starts or goes on without writing.
LEMMA ReplaceInv ==
    ASSUME Inv, NEW w \in Worker, NEW r, req' = [req EXCEPT ![w] = r],
           UNCHANGED <<paymentRequest, disputed>>,
           DOMAIN r = Fields, r.at # "write",
           r.at \in {"number", "insert"} => r.amount \in Content
    PROVE  Inv'
<1>1. DOMAIN req' = Worker /\ req'[w] = r /\ \A v \in Worker \ {w} : req'[v] = req[v]
  BY DEF Inv, Shapes
<1> QED
  BY <1>1, Frame

LEMMA EndInv ==
    ASSUME Inv, NEW w \in Worker, req' = [req EXCEPT ![w] = Idle],
           UNCHANGED <<paymentRequest, disputed>>
    PROVE  Inv'
BY FieldsAre, ReplaceInv

\* The other handlers when a statement of w commits.
LEMMA CommittedFrame ==
    ASSUME Inv, NEW w \in Worker, NEW op, Committed(w, [Idle EXCEPT !.at = "answer", !.op = op])
    PROVE  /\ DOMAIN req' = Worker /\ req'[w].at = "answer" /\ DOMAIN req'[w] = Fields
           /\ \A v \in Worker \ {w} :
                 /\ req'[v].at = req[v].at /\ req'[v].id = req[v].id /\ req'[v].op = req[v].op
                 /\ req'[v].amount = req[v].amount /\ DOMAIN req'[v] = Fields
<1> DEFINE r == [Idle EXCEPT !.at = "answer", !.op = op]
<1>1. r.at = "answer" /\ DOMAIN r = Fields
  BY FieldsAre
<1>2. req' = [v \in Worker |-> IF v = w THEN r
                               ELSE IF req[v].at = "compute" THEN [req[v] EXCEPT !.found = Behind(@)]
                               ELSE req[v]]
  BY DEF Committed
<1> HIDE DEF r
<1>3. ASSUME NEW v \in Worker \ {w}
      PROVE  /\ req'[v].at = req[v].at /\ req'[v].id = req[v].id /\ req'[v].op = req[v].op
             /\ req'[v].amount = req[v].amount /\ DOMAIN req'[v] = Fields
  BY <1>2, FieldsAre DEF Inv, Shapes
<1> QED
  BY <1>1, <1>2, <1>3

\* The handlers when that of w ends.
LEMMA EndedFrame ==
    ASSUME Inv, NEW w \in Worker, Ended(w)
    PROVE  /\ DOMAIN req' = Worker /\ req'[w] = Idle
           /\ \A v \in Worker :
                 \/ /\ req'[v].at = req[v].at /\ req'[v].id = req[v].id /\ req'[v].op = req[v].op
                    /\ req'[v].amount = req[v].amount /\ DOMAIN req'[v] = Fields
                 \/ req'[v].at = "idle" /\ DOMAIN req'[v] = Fields
BY FieldsAre DEF Inv, Shapes, Ended

-----------------------------------------------------------------------------
\* A request is created as a draft.
LEMMA InsertStep ==
    ASSUME Inv, NEW w \in Worker, CreateInsert(w)
    PROVE  Inv' /\ [Flow!Next]_Flow!vars
<1>1. UNCHANGED disputed /\ req[w].at = "insert"
  BY DEF CreateInsert
<1>2. CASE req' = [req EXCEPT ![w] = Retry(w)] /\ UNCHANGED paymentRequest
  <2>1. DOMAIN Retry(w) = Fields /\ Retry(w).at # "write"
        /\ (Retry(w).at \in {"number", "insert"} => Retry(w).amount \in Content)
    BY <1>1, FieldsAre DEF Retry, Inv, Shapes
  <2>2. Inv'
    BY <1>1, <1>2, <2>1, ReplaceInv
  <2> QED
    BY <1>1, <1>2, <2>2, NothingMoves
<1>3. ASSUME NEW p \in Request \ DOMAIN paymentRequest,
             paymentRequest' = [q \in DOMAIN paymentRequest \cup {p} |->
                                   IF q = p THEN NewRow(w) ELSE paymentRequest[q]],
             Committed(w, [Idle EXCEPT !.at = "answer", !.op = "create"])
      PROVE  Inv' /\ [Flow!Next]_Flow!vars
  <2>1. /\ DOMAIN NewRow(w) = Columns /\ NewRow(w).status = "DRAFT" /\ ~NewRow(w).deleted
        /\ NewRow(w) = [c \in Columns |-> NewRow(w)[c]]
        /\ NewRow(w).amount \in Content
    BY <1>1 DEF NewRow, Columns, Inv, Shapes
  <2>2. /\ DOMAIN paymentRequest' = DOMAIN paymentRequest \cup {p}
        /\ paymentRequest'[p] = NewRow(w)
        /\ \A q \in DOMAIN paymentRequest : paymentRequest'[q] = paymentRequest[q]
    BY <1>3
  <2>0. /\ DOMAIN req' = Worker /\ req'[w].at = "answer" /\ DOMAIN req'[w] = Fields
        /\ \A v \in Worker \ {w} :
              /\ req'[v].at = req[v].at /\ req'[v].id = req[v].id /\ req'[v].op = req[v].op
              /\ req'[v].amount = req[v].amount /\ DOMAIN req'[v] = Fields
    BY <1>3, CommittedFrame
  <2>3. Shapes'
    BY <2>0, <2>1, <2>2 DEF Inv, Shapes, Status
  <2>4. \A v \in Worker : Found(v)'
    BY <1>1, <2>0, <2>2 DEF Inv, Found
  <2>5. OneWriter'
    BY <1>1, <2>0 DEF Inv, OneWriter, Writing
  <2>6. Life' = [Life EXCEPT ![p] = Life'[p]] /\ About' = [About EXCEPT ![p] = About'[p]]
    BY <1>1, <2>2, OneMoves
  <2>7. CASE p \in disputed
    <3>1. Life'[p] = Life[p] /\ About'[p] = About[p]
      BY <1>1, <2>7 DEF Life, About
    <3>2. Life' = Life /\ About' = About
      BY <2>6, <3>1 DEF Life, About
    <3> QED
      BY <2>3, <2>4, <2>5, <3>2 DEF Inv, Flow!vars
  <2>8. CASE p \notin disputed
    <3>1. Life[p] = "none" /\ Life'[p] = "DRAFT" /\ About'[p] = NewRow(w).amount
      BY <1>1, <2>1, <2>2, <2>8 DEF Life, About
    <3>2. Flow!Create(p)
      BY <2>1, <2>6, <3>1 DEF Flow!Create
    <3> QED
      BY <2>3, <2>4, <2>5, <3>2 DEF Inv, Flow!Next
  <2> QED
    BY <2>7, <2>8
<1> QED
  BY <1>2, <1>3 DEF CreateInsert

\* An operation that reads a request which another one is about to write
\* disputes it.
LEMMA ReadStep ==
    ASSUME Inv, NEW w \in Worker, NEW op \in Transitions, NEW p \in Request, Read(w, op, p)
    PROVE  Inv' /\ [Flow!Next]_Flow!vars
<1>1. PICK a \in IF op = "update" THEN Content ELSE {None} :
         req' = [req EXCEPT ![w] = [Idle EXCEPT !.at = "write", !.op = op, !.id = p, !.amount = a]]
  BY DEF Read, Start
<1> DEFINE r == [Idle EXCEPT !.at = "write", !.op = op, !.id = p, !.amount = a]
<1>2. DOMAIN r = Fields /\ r.at = "write" /\ r.op = op /\ r.id = p /\ r.amount = a
  BY FieldsAre
<1>3. req' = [req EXCEPT ![w] = r]
  BY <1>1
<1> HIDE DEF r
<1>4. /\ DOMAIN req' = Worker /\ req'[w] = r
      /\ \A v \in Worker \ {w} : req'[v] = req[v]
  BY <1>3 DEF Inv, Shapes
<1>5. /\ p \in DOMAIN paymentRequest /\ ~paymentRequest[p].deleted
      /\ Allowed(op, paymentRequest[p].status)
      /\ UNCHANGED paymentRequest
      /\ disputed' = IF \E v \in Worker : Writing(v, p) THEN disputed \cup {p} ELSE disputed
  BY DEF Read
<1>6. Shapes'
  BY <1>2, <1>4, <1>5 DEF Inv, Shapes
<1>7. \A v \in Worker : Found(v)'
  BY <1>1, <1>2, <1>4, <1>5 DEF Inv, Found
<1>8. req[w].at # "write"
  BY DEF Read, Start
<1>9. OneWriter'
  BY <1>2, <1>4, <1>5, <1>8 DEF Inv, OneWriter, Writing
<1>10. Life' = [Life EXCEPT ![p] = Life'[p]] /\ About' = [About EXCEPT ![p] = About'[p]]
  BY <1>5, OneMoves
<1>11. CASE p \in disputed <=> p \in disputed'
  <2>1. Life'[p] = Life[p] /\ About'[p] = About[p]
    BY <1>5, <1>11 DEF Life, About
  <2>2. Life' = Life /\ About' = About
    BY <1>10, <2>1 DEF Life, About
  <2> QED
    BY <1>6, <1>7, <1>9, <2>2 DEF Inv, Flow!vars
<1>12. CASE p \notin disputed /\ p \in disputed'
  <2>1. Life'[p] = "disputed" /\ About'[p] = None
    BY <1>12 DEF Life, About
  <2>2. Flow!Dispute(p)
    BY <1>10, <2>1 DEF Flow!Dispute
  <2> QED
    BY <1>6, <1>7, <1>9, <2>2 DEF Inv, Flow!Next
<1> QED
  BY <1>5, <1>11, <1>12

\* What a write leaves in a row.
LEMMA WrittenIs ==
    ASSUME NEW row, NEW op, NEW about,
           DOMAIN row = Columns, row = [c \in Columns |-> row[c]]
    PROVE  /\ DOMAIN Written(op, row, about) = Columns
           /\ Written(op, row, about) = [c \in Columns |-> Written(op, row, about)[c]]
           /\ Written(op, row, about).status =
                 IF op = "submit" THEN "PENDING" ELSE IF op \in Status THEN op ELSE row.status
           /\ Written(op, row, about).amount = IF op = "update" THEN about ELSE row.amount
           /\ Written(op, row, about).deleted <=> (row.deleted \/ op = "remove")
BY DEF Written, Columns

\* A write by a handler whose request is not disputed takes the request one
\* step further; a write to a disputed one changes nothing that is promised.
LEMMA WriteStep ==
    ASSUME Inv, NEW w \in Worker, Write(w)
    PROVE  Inv' /\ [Flow!Next]_Flow!vars
<1> DEFINE p == req[w].id
           row == paymentRequest[p]
           new == Written(req[w].op, row, req[w].amount)
<1>1. /\ req[w].at = "write" /\ UNCHANGED disputed
      /\ paymentRequest' = [paymentRequest EXCEPT ![p] = new]
      /\ Committed(w, [Idle EXCEPT !.at = "answer", !.op = req[w].op])
  BY DEF Write
<1>2. /\ DOMAIN req' = Worker /\ req'[w].at = "answer" /\ DOMAIN req'[w] = Fields
      /\ \A v \in Worker \ {w} :
            /\ req'[v].at = req[v].at /\ req'[v].id = req[v].id /\ req'[v].op = req[v].op
            /\ req'[v].amount = req[v].amount /\ DOMAIN req'[v] = Fields
  BY <1>1, CommittedFrame
<1>3. /\ p \in DOMAIN paymentRequest /\ p \in Request /\ req[w].op \in Transitions
      /\ req[w].op = "update" => req[w].amount \in Content
      /\ p \notin disputed => ~row.deleted /\ Allowed(req[w].op, row.status)
  BY <1>1 DEF Inv, Found, Shapes
<1>4. /\ DOMAIN row = Columns /\ row = [c \in Columns |-> row[c]]
      /\ row.status \in Status /\ row.amount \in Content
  BY <1>3 DEF Inv, Shapes
<1>5. /\ DOMAIN new = Columns /\ new = [c \in Columns |-> new[c]]
      /\ new.status = IF req[w].op = "submit" THEN "PENDING"
                      ELSE IF req[w].op \in Status THEN req[w].op ELSE row.status
      /\ new.amount = IF req[w].op = "update" THEN req[w].amount ELSE row.amount
      /\ new.deleted <=> (row.deleted \/ req[w].op = "remove")
  BY <1>4, WrittenIs
<1> HIDE DEF new, row
<1>6. /\ DOMAIN paymentRequest' = DOMAIN paymentRequest
      /\ paymentRequest'[p] = new
      /\ \A q \in DOMAIN paymentRequest \ {p} : paymentRequest'[q] = paymentRequest[q]
  BY <1>1, <1>3
<1>7. new.status \in Status /\ new.amount \in Content
  BY <1>3, <1>4, <1>5 DEF Status
<1>8. Shapes'
  BY <1>2, <1>5, <1>6, <1>7 DEF Inv, Shapes
<1>9. \A v \in Worker : Found(v)'
  <2>1. ASSUME NEW v \in Worker \ {w}, req[v].at = "write", req[v].id = p
        PROVE  p \in disputed
    BY <1>1, <2>1 DEF Inv, OneWriter, Writing
  <2> QED
    BY <1>1, <1>2, <1>6, <2>1 DEF Inv, Found
<1>10. OneWriter'
  BY <1>1, <1>2 DEF Inv, OneWriter, Writing
<1>11. Inv'
  BY <1>8, <1>9, <1>10 DEF Inv
<1> HIDE DEF p
<1>12. Life' = [Life EXCEPT ![p] = Life'[p]] /\ About' = [About EXCEPT ![p] = About'[p]]
  BY <1>1, <1>3, <1>6, OneMoves
<1>13. CASE p \in disputed
  <2>1. Life'[p] = Life[p] /\ About'[p] = About[p]
    BY <1>1, <1>3, <1>13 DEF Life, About
  <2>2. Life' = Life /\ About' = About
    BY <1>12, <2>1 DEF Life, About
  <2> QED
    BY <1>11, <2>2 DEF Flow!vars
<1>14. CASE p \notin disputed
  <2>1. /\ Life[p] = row.status /\ About[p] = row.amount
        /\ Life'[p] = (IF new.deleted THEN "removed" ELSE new.status) /\ About'[p] = new.amount
    BY <1>1, <1>3, <1>6, <1>14 DEF Life, About, row
  <2>2. ~row.deleted /\ Allowed(req[w].op, row.status)
    BY <1>3, <1>14
  <2>3. CASE req[w].op = "update"
    <3>1. Life'[p] = Life[p] /\ Life[p] = "DRAFT" /\ About'[p] \in Content
      BY <1>3, <1>5, <2>1, <2>2, <2>3 DEF Allowed, Status
    <3>2. Life' = Life
      BY <1>12, <3>1 DEF Life
    <3> QED
      BY <1>3, <1>11, <1>12, <3>1, <3>2 DEF Flow!Next, Flow!Edit
  <2>4. CASE req[w].op # "update"
    <3>1. About' = About
      BY <1>5, <1>12, <2>1, <2>4 DEF About
    <3>2. \/ Flow!Submit(p) \/ Flow!Judge(p) \/ Flow!Pay(p) \/ Flow!Cancel(p) \/ Flow!Remove(p)
      BY <1>3, <1>5, <1>12, <2>1, <2>2, <2>4, <3>1
      DEF Allowed, Transitions, Status, Flow!Move, Flow!Submit, Flow!Judge, Flow!Pay,
          Flow!Cancel, Flow!Remove
    <3> QED
      BY <1>3, <1>11, <3>2 DEF Flow!Next
  <2> QED
    BY <2>3, <2>4
<1> QED
  BY <1>13, <1>14

-----------------------------------------------------------------------------
LEMMA InitInv == Init => Inv /\ Flow!Init
<1> SUFFICES ASSUME Init PROVE Inv /\ Flow!Init
  OBVIOUS
<1>1. Inv
  BY FieldsAre DEF Init, Inv, Shapes, Found, OneWriter, Writing
<1>2. Flow!Init
  BY DEF Init, Flow!Init, Life, About
<1> QED
  BY <1>1, <1>2

LEMMA Simulation ==
    ASSUME Inv, Next
    PROVE  Inv' /\ [Flow!Next]_Flow!vars
<1>1. ASSUME NEW w \in Worker, CreateStart(w) PROVE Inv' /\ [Flow!Next]_Flow!vars
  <2>1. PICK a \in Content :
          req' = [req EXCEPT ![w] = [Idle EXCEPT !.at = "number", !.op = "create", !.amount = a,
                                       !.before = Cardinality(DOMAIN paymentRequest)]]
    BY <1>1 DEF CreateStart, Start
  <2> DEFINE r == [Idle EXCEPT !.at = "number", !.op = "create", !.amount = a,
                                !.before = Cardinality(DOMAIN paymentRequest)]
  <2>2. DOMAIN r = Fields /\ r.at = "number" /\ r.amount = a
    BY FieldsAre
  <2>3. req' = [req EXCEPT ![w] = r]
    BY <2>1
  <2> HIDE DEF r
  <2>4. UNCHANGED <<paymentRequest, disputed>>
    BY <1>1 DEF CreateStart
  <2>5. Inv'
    BY <2>1, <2>2, <2>3, <2>4, ReplaceInv
  <2> QED
    BY <2>4, <2>5, NothingMoves
<1>2. ASSUME NEW w \in Worker, Compute(w) PROVE Inv' /\ [Flow!Next]_Flow!vars
  <2> DEFINE r == [Idle EXCEPT !.at = "compute", !.op = "statistics"]
  <2>1. DOMAIN r = Fields /\ r.at = "compute"
    BY FieldsAre
  <2>2. req' = [req EXCEPT ![w] = r] /\ UNCHANGED <<paymentRequest, disputed>>
    BY <1>2 DEF Compute, Start
  <2> HIDE DEF r
  <2>3. Inv'
    BY <2>1, <2>2, ReplaceInv
  <2> QED
    BY <2>2, <2>3, NothingMoves
<1>3. ASSUME NEW w \in Worker, CreateNumber(w) PROVE Inv' /\ [Flow!Next]_Flow!vars
  <2> DEFINE r == [req[w] EXCEPT !.at = "insert", !.no = NextNo]
  <2>1. DOMAIN r = Fields /\ r.at = "insert" /\ r.amount \in Content
    BY <1>3, FieldsAre DEF CreateNumber, Inv, Shapes
  <2>2. req' = [req EXCEPT ![w] = r] /\ UNCHANGED <<paymentRequest, disputed>>
    BY <1>3 DEF CreateNumber, Inv, Shapes
  <2> HIDE DEF r
  <2>3. Inv'
    BY <2>1, <2>2, ReplaceInv
  <2> QED
    BY <2>2, <2>3, NothingMoves
<1>4. ASSUME NEW w \in Worker, Answer(w) \/ AnswerLost(w) \/ Fill(w) \/ Fail(w)
      PROVE  Inv' /\ [Flow!Next]_Flow!vars
  <2>1. CASE Ended(w)
    <3>1. UNCHANGED <<paymentRequest, disputed>>
      BY <2>1 DEF Ended
    <3>2. Inv'
      BY <2>1, <3>1, EndedFrame, Frame
    <3> QED
      BY <3>1, <3>2, NothingMoves
  <2>2. CASE req' = [req EXCEPT ![w] = Idle] /\ UNCHANGED <<paymentRequest, disputed>>
    BY <2>2, EndInv, NothingMoves
  <2> QED
    BY <1>4, <2>1, <2>2 DEF Answer, AnswerLost, Fill, Fail
<1>5. ASSUME Expire PROVE Inv' /\ [Flow!Next]_Flow!vars
  <2>1. UNCHANGED <<paymentRequest, req, disputed>>
    BY <1>5 DEF Expire
  <2>2. DOMAIN req' = Worker /\ \A w \in Worker : req'[w] = req[w]
    BY <2>1 DEF Inv, Shapes
  <2>3. Inv'
    BY <2>1, <2>2, Frame
  <2> QED
    BY <2>1, <2>3, NothingMoves
<1>6. ASSUME Restart PROVE Inv' /\ [Flow!Next]_Flow!vars
  <2>1. req' = [w \in Worker |-> Idle] /\ UNCHANGED <<paymentRequest, disputed>>
    BY <1>6 DEF Restart
  <2>2. Inv'
    BY <2>1, FieldsAre, Frame
  <2> QED
    BY <2>1, <2>2, NothingMoves
<1> QED
  BY <1>1, <1>2, <1>3, <1>4, <1>5, <1>6, InsertStep, ReadStep, WriteStep DEF Next, Ask, Step

\* Payment requests implement the approval flow: whatever the handlers of
\* payment-requests.service.ts do side by side, a request on which no two of
\* them overlapped is edited only as a draft, judged once and paid only as judged.
THEOREM FlowImplemented == Spec => FlowKept
<1>1. ASSUME Inv, [Next]_vars PROVE Inv' /\ [Flow!Next]_Flow!vars
  <2>1. CASE UNCHANGED vars
    <3>1. UNCHANGED <<paymentRequest, req, disputed>>
      BY <2>1 DEF vars
    <3>2. DOMAIN req' = Worker /\ \A w \in Worker : req'[w] = req[w]
      BY <1>1, <3>1 DEF Inv, Shapes
    <3>3. Inv'
      BY <1>1, <3>1, <3>2, Frame
    <3> QED
      BY <3>1, <3>3, NothingMoves
  <2> QED
    BY <1>1, <2>1, Simulation
<1> QED
  BY InitInv, <1>1, PTL DEF Spec, FlowKept, Flow!Spec

-----------------------------------------------------------------------------
(***************************************************************************)
(* Types, and the numbers of requests.                                     *)
(***************************************************************************)

\* A number that a handler has generated was free, and is as long as no other
\* handler has inserted it: the insert that took it is one more row.
Lost(w) == IF req[w].at = "insert" /\ req[w].no \in Numbers THEN 1 ELSE 0
Losses ==
    LastNo + 1 \notin Numbers =>
        \A w \in Worker :
            req[w].at \in {"number", "insert"} =>
                req[w].before + req[w].tries + Lost(w) <= Cardinality(DOMAIN paymentRequest)

NumberInv == Inv /\ TypeOK /\ Losses

LEMMA RowsAreFinite ==
    ASSUME TypeOK
    PROVE  /\ IsFiniteSet(DOMAIN paymentRequest)
           /\ Cardinality(DOMAIN paymentRequest) \in Nat
           /\ IsFiniteSet(Numbers) /\ Numbers \subseteq Nat
<1>1. IsFiniteSet(DOMAIN paymentRequest) /\ Cardinality(DOMAIN paymentRequest) \in Nat
  BY PaymentRequestConstants, FS_Subset, FS_CardinalityType DEF TypeOK
<1>2. IsFiniteSet(Numbers)
  <2> DEFINE f == [p \in DOMAIN paymentRequest |-> paymentRequest[p].no]
  <2>1. f \in Surjection(DOMAIN paymentRequest, Numbers)
    BY DEF Numbers, Surjection
  <2> HIDE DEF f
  <2> QED
    BY <1>1, <2>1, FS_Surjection
<1>3. Numbers \subseteq Nat
  BY DEF Numbers, TypeOK, Row
<1> QED
  BY <1>1, <1>2, <1>3

\* Until the numbers of a day are used up, the next one is free.
LEMMA NextIsFree ==
    ASSUME TypeOK
    PROVE  NextNo \in Nat /\ (LastNo + 1 \notin Numbers => NextNo \notin Numbers)
<1>1. LastNo \in Nat
  BY PaymentRequestConstants
<1>2. CASE Numbers = {}
  BY <1>2 DEF NextNo
<1>3. CASE LastNo \in Numbers
  BY <1>1, <1>3 DEF NextNo
<1>4. CASE Numbers # {} /\ LastNo \notin Numbers
  <2>1. Max(Numbers) \in Numbers /\ \A n \in Numbers : n <= Max(Numbers)
    BY <1>4, RowsAreFinite, GreatestExists
  <2>2. Max(Numbers) \in Nat
    BY <2>1, RowsAreFinite
  <2>3. NextNo = Max(Numbers) + 1
    BY <1>4 DEF NextNo
  <2> QED
    BY <2>1, <2>2, <2>3
<1> QED
  BY <1>2, <1>3, <1>4

-----------------------------------------------------------------------------
\* A handler starts, goes on or ends: the table is as before.
LEMMA ReplaceNumbers ==
    ASSUME NumberInv, NEW w \in Worker, NEW r \in Handler, req' = [req EXCEPT ![w] = r],
           UNCHANGED paymentRequest, statistics' \in Cached, disputed' \subseteq Request,
           (r.at \in {"number", "insert"} /\ LastNo + 1 \notin Numbers) =>
              r.before + r.tries + (IF r.at = "insert" /\ r.no \in Numbers THEN 1 ELSE 0)
                 <= Cardinality(DOMAIN paymentRequest)
    PROVE  TypeOK' /\ Losses'
<1>1. /\ req' \in [Worker -> Handler] /\ req'[w] = r
      /\ \A v \in Worker \ {w} : req'[v] = req[v]
  BY DEF NumberInv, TypeOK
<1>2. TypeOK'
  BY <1>1 DEF NumberInv, TypeOK
<1>3. Numbers' = Numbers
  BY DEF Numbers
<1>4. ASSUME LastNo + 1 \notin Numbers, NEW v \in Worker, req'[v].at \in {"number", "insert"}
      PROVE  req'[v].before + req'[v].tries + Lost(v)' <= Cardinality(DOMAIN paymentRequest)
  <2>1. CASE v = w
    BY <1>1, <1>3, <1>4, <2>1 DEF Lost
  <2>2. CASE v # w
    <3>1. req'[v] = req[v] /\ Lost(v)' = Lost(v)
      BY <1>1, <1>3, <2>2 DEF Lost
    <3> QED
      BY <1>4, <3>1 DEF NumberInv, Losses
  <2> QED
    BY <2>1, <2>2
<1>5. Losses'
  BY <1>3, <1>4 DEF Losses
<1> QED
  BY <1>2, <1>5

LEMMA IdleTyped == Idle \in Handler /\ Idle.at = "idle" /\ Idle.tries = 0
BY DEF Idle, Handler, Statistics

LEMMA EndNumbers ==
    ASSUME NumberInv, NEW w \in Worker, req' = [req EXCEPT ![w] = Idle],
           UNCHANGED <<paymentRequest, disputed>>, statistics' \in Cached
    PROVE  TypeOK' /\ Losses'
<1>1. disputed' \subseteq Request
  BY DEF NumberInv, TypeOK
<1> QED
  BY <1>1, IdleTyped, ReplaceNumbers

\* The handlers after a statement of w has committed.
LEMMA CommittedTyped ==
    ASSUME NumberInv, NEW w \in Worker, NEW r \in Handler, Committed(w, r)
    PROVE  /\ req' \in [Worker -> Handler] /\ req'[w] = r /\ statistics' \in Cached
           /\ \A v \in Worker \ {w} :
                 /\ req'[v].at = req[v].at /\ req'[v].no = req[v].no
                 /\ req'[v].before = req[v].before /\ req'[v].tries = req[v].tries
<1>1. req' = [v \in Worker |-> IF v = w THEN r
                               ELSE IF req[v].at = "compute" THEN [req[v] EXCEPT !.found = Behind(@)]
                               ELSE req[v]]
  BY DEF Committed
<1>2. statistics' \in Cached
  BY DEF Committed, Behind, NumberInv, TypeOK, Cached, Statistics
<1>3. \A v \in Worker : req[v] \in Handler
  BY DEF NumberInv, TypeOK
<1>4. \A v \in Worker : [req[v] EXCEPT !.found = Behind(@)] \in Handler
  BY <1>3 DEF Handler, Behind, Statistics
<1>5. \A v \in Worker : [req[v] EXCEPT !.found = Behind(@)].at = req[v].at
                        /\ [req[v] EXCEPT !.found = Behind(@)].no = req[v].no
                        /\ [req[v] EXCEPT !.found = Behind(@)].before = req[v].before
                        /\ [req[v] EXCEPT !.found = Behind(@)].tries = req[v].tries
  BY <1>3 DEF Handler
<1> QED
  BY <1>1, <1>2, <1>3, <1>4, <1>5

\* The handler of a write ends.
LEMMA EndedNumbers ==
    ASSUME NumberInv, NEW w \in Worker, Ended(w), statistics' \in Cached
    PROVE  TypeOK' /\ Losses'
<1>1. \A v \in Worker : req[v] \in Handler
  BY DEF NumberInv, TypeOK
<1> DEFINE late(v) == [req[v] EXCEPT !.found = Late(@)]
<1>2. req' = [v \in Worker |-> IF v = w THEN Idle ELSE late(v)]
  BY DEF Ended
<1>3. ASSUME NEW v \in Worker
      PROVE  /\ late(v) \in Handler
             /\ late(v).at = req[v].at /\ late(v).no = req[v].no
             /\ late(v).before = req[v].before /\ late(v).tries = req[v].tries
  BY <1>1 DEF Handler, Late, Statistics
<1> HIDE DEF late
<1>4. UNCHANGED <<paymentRequest, disputed>>
  BY DEF Ended
<1>5. TypeOK'
  BY <1>2, <1>3, <1>4, IdleTyped DEF NumberInv, TypeOK
<1>6. Numbers' = Numbers
  BY <1>4 DEF Numbers
<1>7. ASSUME LastNo + 1 \notin Numbers, NEW v \in Worker, req'[v].at \in {"number", "insert"}
      PROVE  req'[v].before + req'[v].tries + Lost(v)' <= Cardinality(DOMAIN paymentRequest)
  <2>1. req'[v] = late(v)
    BY <1>2, <1>7, IdleTyped
  <2>2. Lost(v)' = Lost(v)
    BY <1>3, <1>6, <2>1 DEF Lost
  <2> QED
    BY <1>3, <1>7, <2>1, <2>2 DEF NumberInv, Losses
<1>8. Losses'
  BY <1>4, <1>6, <1>7 DEF Losses
<1> QED
  BY <1>5, <1>8

\* An insert adds a row, which may be the one that others lose against.
LEMMA InsertNumbers ==
    ASSUME NumberInv, NEW w \in Worker, CreateInsert(w)
    PROVE  TypeOK' /\ Losses'
<1>1. UNCHANGED disputed /\ req[w].at = "insert"
  BY DEF CreateInsert
<1>2. req[w] \in Handler /\ disputed' \subseteq Request
  BY <1>1 DEF NumberInv, TypeOK
<1>3. CASE /\ req[w].no \in Numbers /\ req' = [req EXCEPT ![w] = Retry(w)]
           /\ UNCHANGED <<paymentRequest, statistics>>
  <2>1. Retry(w) \in Handler
    <3> DEFINE again == req[w].tries + 1
    <3>0. again \in Nat
      BY <1>2 DEF Handler
    <3> HIDE DEF again
    <3>1. [req[w] EXCEPT !.at = "number", !.tries = again] \in Handler
      BY <1>2, <3>0 DEF Handler
    <3> QED
      BY <3>1, IdleTyped DEF Retry, again
  <2>2. CASE req[w].tries + 1 < MaxTries
    <3>1. Retry(w).at = "number" /\ Retry(w).tries = req[w].tries + 1
          /\ Retry(w).before = req[w].before
      BY <1>2, <2>2 DEF Retry, Handler
    <3>2. LastNo + 1 \notin Numbers =>
             req[w].before + req[w].tries + 1 <= Cardinality(DOMAIN paymentRequest)
      BY <1>1, <1>3 DEF NumberInv, Losses, Lost
    <3>3. req[w].before \in Nat /\ req[w].tries \in Nat
      BY <1>2 DEF Handler
    <3>4. statistics' \in Cached
      BY <1>3 DEF NumberInv, TypeOK
    <3>5. Retry(w).at # "insert"
      BY <3>1
    <3>6. LastNo + 1 \notin Numbers =>
             Retry(w).before + Retry(w).tries + 0 <= Cardinality(DOMAIN paymentRequest)
      BY <3>1, <3>2, <3>3
    <3> QED
      BY <1>2, <1>3, <2>1, <3>4, <3>5, <3>6, ReplaceNumbers
  <2>3. CASE ~(req[w].tries + 1 < MaxTries)
    <3>1. req' = [req EXCEPT ![w] = Idle] /\ statistics' \in Cached
      BY <1>3, <2>3 DEF Retry, NumberInv, TypeOK
    <3> QED
      BY <1>1, <1>3, <3>1, EndNumbers
  <2> QED
    BY <2>2, <2>3
<1>4. ASSUME NEW p \in Request \ DOMAIN paymentRequest,
             paymentRequest' = [q \in DOMAIN paymentRequest \cup {p} |->
                                   IF q = p THEN NewRow(w) ELSE paymentRequest[q]],
             Committed(w, [Idle EXCEPT !.at = "answer", !.op = "create"])
      PROVE  TypeOK' /\ Losses'
  <2> DEFINE r == [Idle EXCEPT !.at = "answer", !.op = "create"]
             size == Cardinality(DOMAIN paymentRequest)
  <2>1. r \in Handler /\ r.at = "answer"
    BY DEF Idle, Handler, Statistics
  <2>2. /\ req' \in [Worker -> Handler] /\ req'[w] = r /\ statistics' \in Cached
        /\ \A v \in Worker \ {w} :
              /\ req'[v].at = req[v].at /\ req'[v].no = req[v].no
              /\ req'[v].before = req[v].before /\ req'[v].tries = req[v].tries
    <3>1. Committed(w, r)
      BY <1>4
    <3> HIDE DEF r
    <3> QED
      BY <2>1, <3>1, CommittedTyped
  <2>3. NewRow(w) \in Row
    <3>1. req[w].amount \in Content
      BY <1>1 DEF NumberInv, Inv, Shapes
    <3> QED
      BY <1>2, <3>1 DEF NewRow, Row, Status, Handler
  <2>4. /\ DOMAIN paymentRequest' = DOMAIN paymentRequest \cup {p}
        /\ paymentRequest'[p] = NewRow(w)
        /\ \A q \in DOMAIN paymentRequest : paymentRequest'[q] = paymentRequest[q]
    BY <1>4
  <2>5. TypeOK'
    <3>1. paymentRequest' \in [DOMAIN paymentRequest' -> Row]
      BY <1>4, <2>3, <2>4 DEF NumberInv, TypeOK
    <3> QED
      BY <1>2, <2>2, <2>4, <3>1 DEF NumberInv, TypeOK
  <2>6. /\ size \in Nat /\ IsFiniteSet(DOMAIN paymentRequest)
        /\ Cardinality(DOMAIN paymentRequest \cup {p}) = size + 1
    BY RowsAreFinite, FS_AddElement DEF NumberInv
  <2>7. Numbers' = Numbers \cup {NewRow(w).no}
    BY <2>4 DEF Numbers
  <2> HIDE DEF r, size
  <2>8. ASSUME LastNo + 1 \notin Numbers', NEW v \in Worker, req'[v].at \in {"number", "insert"}
        PROVE  req'[v].before + req'[v].tries + Lost(v)' <= size + 1
    <3>1. v # w
      BY <2>1, <2>2, <2>8
    <3>2. req[v].before + req[v].tries + Lost(v) <= size
      BY <2>2, <2>7, <2>8, <3>1 DEF NumberInv, Losses, size
    <3>3. req[v].before \in Nat /\ req[v].tries \in Nat
      BY DEF NumberInv, TypeOK, Handler
    <3>4. Lost(v)' \in {0, 1} /\ Lost(v) \in {0, 1}
      BY DEF Lost
    <3> QED
      BY <2>2, <2>6, <3>1, <3>2, <3>3, <3>4
  <2>9. Losses'
    BY <2>4, <2>6, <2>8 DEF Losses
  <2> QED
    BY <2>5, <2>9
<1> QED
  BY <1>3, <1>4 DEF CreateInsert

\* A write changes no number.
LEMMA WriteNumbers ==
    ASSUME NumberInv, NEW w \in Worker, Write(w)
    PROVE  TypeOK' /\ Losses'
<1> DEFINE p == req[w].id
           row == paymentRequest[p]
           new == Written(req[w].op, row, req[w].amount)
           r == [Idle EXCEPT !.at = "answer", !.op = req[w].op]
<1>1. /\ req[w].at = "write" /\ UNCHANGED disputed
      /\ paymentRequest' = [paymentRequest EXCEPT ![p] = new]
      /\ Committed(w, r)
  BY DEF Write
<1>2. /\ p \in DOMAIN paymentRequest
      /\ req[w].op \in Transitions /\ (req[w].op = "update" => req[w].amount \in Content)
  BY <1>1 DEF NumberInv, Inv, Found
<1>3. row \in Row
  BY <1>2 DEF NumberInv, TypeOK
<1>4. new \in Row /\ new.no = row.no
  BY <1>2, <1>3 DEF Written, Row, Status, Transitions
<1>5. r \in Handler /\ r.at = "answer"
  BY <1>2 DEF Idle, Handler, Statistics
<1> HIDE DEF r, new
<1>6. /\ req' \in [Worker -> Handler] /\ req'[w] = r /\ statistics' \in Cached
      /\ \A v \in Worker \ {w} :
            /\ req'[v].at = req[v].at /\ req'[v].no = req[v].no
            /\ req'[v].before = req[v].before /\ req'[v].tries = req[v].tries
  BY <1>1, <1>5, CommittedTyped
<1>7. TypeOK'
  BY <1>1, <1>4, <1>6 DEF NumberInv, TypeOK
<1>8. /\ DOMAIN paymentRequest' = DOMAIN paymentRequest
      /\ \A q \in DOMAIN paymentRequest : paymentRequest'[q].no = paymentRequest[q].no
  BY <1>1, <1>2, <1>4
<1>9. Numbers' = Numbers
  BY <1>8 DEF Numbers
<1>10. ASSUME LastNo + 1 \notin Numbers, NEW v \in Worker, req'[v].at \in {"number", "insert"}
       PROVE  req'[v].before + req'[v].tries + Lost(v)' <= Cardinality(DOMAIN paymentRequest)
  <2>1. v # w
    BY <1>5, <1>6, <1>10
  <2>2. Lost(v)' = Lost(v) /\ req'[v].before = req[v].before /\ req'[v].tries = req[v].tries
        /\ req[v].at \in {"number", "insert"}
    BY <1>6, <1>9, <1>10, <2>1 DEF Lost
  <2> QED
    BY <1>10, <2>2 DEF NumberInv, Losses
<1>11. Losses'
  BY <1>8, <1>9, <1>10 DEF Losses
<1> QED
  BY <1>7, <1>11

-----------------------------------------------------------------------------
LEMMA NumberInit == Init => TypeOK /\ Losses
<1> SUFFICES ASSUME Init PROVE TypeOK /\ Losses
  OBVIOUS
<1>1. \A w \in Worker : req[w] = Idle
  BY DEF Init
<1>2. TypeOK
  BY IdleTyped DEF Init, TypeOK, Cached
<1>3. Losses
  BY <1>1, IdleTyped DEF Losses
<1> QED
  BY <1>2, <1>3

LEMMA NumberNext ==
    ASSUME NumberInv, Next
    PROVE  TypeOK' /\ Losses'
<1> DEFINE size == Cardinality(DOMAIN paymentRequest)
<1>0. size \in Nat /\ TypeOK
  BY RowsAreFinite DEF NumberInv
<1>1. ASSUME NEW w \in Worker, CreateStart(w) PROVE TypeOK' /\ Losses'
  <2>1. PICK a \in Content :
          req' = [req EXCEPT ![w] = [Idle EXCEPT !.at = "number", !.op = "create", !.amount = a,
                                       !.before = size]]
    BY <1>1 DEF CreateStart, Start
  <2> DEFINE r == [Idle EXCEPT !.at = "number", !.op = "create", !.amount = a, !.before = size]
  <2> HIDE DEF size
  <2>2. r \in Handler /\ r.at = "number" /\ r.before = size /\ r.tries = 0
    BY <1>0 DEF Idle, Handler, Statistics
  <2>3. req' = [req EXCEPT ![w] = r]
    BY <2>1
  <2> HIDE DEF r
  <2>4. UNCHANGED paymentRequest /\ statistics' \in Cached /\ disputed' \subseteq Request
    BY <1>0, <1>1 DEF CreateStart, TypeOK
  <2>5. r.before + r.tries + 0 <= size /\ r.at # "insert"
    BY <1>0, <2>2
  <2> QED
    BY <2>2, <2>3, <2>4, <2>5, ReplaceNumbers DEF size
<1>2. ASSUME NEW w \in Worker, CreateNumber(w) PROVE TypeOK' /\ Losses'
  <2> DEFINE r == [req[w] EXCEPT !.at = "insert", !.no = NextNo]
  <2>1. req[w] \in Handler /\ req[w].at = "number"
    BY <1>0, <1>2 DEF TypeOK, CreateNumber
  <2>2. /\ r \in Handler /\ r.at = "insert" /\ r.no = NextNo
        /\ r.before = req[w].before /\ r.tries = req[w].tries
    BY <1>0, <2>1, NextIsFree DEF Handler
  <2>3. req' = [req EXCEPT ![w] = r]
    BY <1>0, <1>2 DEF CreateNumber, TypeOK
  <2> HIDE DEF r, size
  <2>4. UNCHANGED paymentRequest /\ statistics' \in Cached /\ disputed' \subseteq Request
    BY <1>0, <1>2 DEF CreateNumber, TypeOK
  <2>5. LastNo + 1 \notin Numbers => r.no \notin Numbers
    BY <1>0, <2>2, NextIsFree
  <2>6. LastNo + 1 \notin Numbers => req[w].before + req[w].tries + 0 <= size
    BY <2>1 DEF NumberInv, Losses, Lost, size
  <2> QED
    BY <2>2, <2>3, <2>4, <2>5, <2>6, ReplaceNumbers DEF size
<1>3. ASSUME NEW w \in Worker, NEW op \in Transitions, NEW p \in Request, Read(w, op, p)
      PROVE  TypeOK' /\ Losses'
  <2>1. PICK a \in IF op = "update" THEN Content ELSE {None} :
           req' = [req EXCEPT ![w] =
                     [Idle EXCEPT !.at = "write", !.op = op, !.id = p, !.amount = a]]
    BY <1>3 DEF Read, Start
  <2> DEFINE r == [Idle EXCEPT !.at = "write", !.op = op, !.id = p, !.amount = a]
  <2>2. r \in Handler /\ r.at = "write"
    BY <2>1 DEF Idle, Handler, Statistics
  <2>3. req' = [req EXCEPT ![w] = r]
    BY <2>1
  <2> HIDE DEF r
  <2>4. UNCHANGED paymentRequest /\ statistics' \in Cached /\ disputed' \subseteq Request
    BY <1>0, <1>3 DEF Read, TypeOK
  <2> QED
    BY <2>2, <2>3, <2>4, ReplaceNumbers
<1>4. ASSUME NEW w \in Worker, Compute(w) PROVE TypeOK' /\ Losses'
  <2> DEFINE r == [Idle EXCEPT !.at = "compute", !.op = "statistics"]
  <2>1. r \in Handler /\ r.at = "compute"
    BY DEF Idle, Handler, Statistics
  <2>2. req' = [req EXCEPT ![w] = r] /\ UNCHANGED <<paymentRequest, statistics, disputed>>
    BY <1>4 DEF Compute, Start
  <2> HIDE DEF r
  <2>3. statistics' \in Cached /\ disputed' \subseteq Request
    BY <1>0, <2>2 DEF TypeOK
  <2> QED
    BY <2>1, <2>2, <2>3, ReplaceNumbers
<1>5. ASSUME NEW w \in Worker, Answer(w) \/ AnswerLost(w) \/ Fill(w) \/ Fail(w)
      PROVE  TypeOK' /\ Losses'
  <2>1. statistics' \in Cached
    BY <1>0, <1>5 DEF Answer, AnswerLost, Fill, Fail, TypeOK, Cached, Statistics, Late, Handler
  <2>2. CASE req' = [req EXCEPT ![w] = Idle] /\ UNCHANGED <<paymentRequest, disputed>>
    BY <2>1, <2>2, EndNumbers
  <2> QED
    BY <1>5, <2>1, <2>2, EndedNumbers DEF Answer, AnswerLost, Fill, Fail
<1>6. ASSUME Expire PROVE TypeOK' /\ Losses'
  <2>1. UNCHANGED <<paymentRequest, req, disputed>> /\ statistics' \in Cached
    BY <1>6 DEF Expire, Cached
  <2>2. Numbers' = Numbers
    BY <2>1 DEF Numbers
  <2> QED
    BY <1>0, <2>1, <2>2 DEF TypeOK, NumberInv, Losses, Lost
<1>7. ASSUME Restart PROVE TypeOK' /\ Losses'
  <2>1. /\ req' = [w \in Worker |-> Idle] /\ UNCHANGED <<paymentRequest, disputed>>
        /\ statistics' \in Cached
    BY <1>7 DEF Restart, Cached
  <2>2. TypeOK'
    BY <1>0, <2>1, IdleTyped DEF TypeOK
  <2>3. \A w \in Worker : req'[w].at \notin {"number", "insert"}
    BY <2>1, IdleTyped
  <2> QED
    BY <2>2, <2>3 DEF Losses
<1> QED
  BY <1>1, <1>2, <1>3, <1>4, <1>5, <1>6, <1>7, InsertNumbers, WriteNumbers DEF Next, Ask, Step

LEMMA NumbersCorrect == Spec => []NumberInv
<1>1. Init => NumberInv
  BY InitInv, NumberInit DEF NumberInv
<1>2. ASSUME NumberInv, [Next]_vars PROVE NumberInv'
  <2>1. CASE Next
    BY <1>2, <2>1, Simulation, NumberNext DEF NumberInv
  <2>2. CASE UNCHANGED vars
    <3>1. UNCHANGED <<paymentRequest, statistics, req, disputed>>
      BY <2>2 DEF vars
    <3>2. Inv'
      BY <1>2, <3>1 DEF NumberInv, Inv, Shapes, Found, OneWriter, Writing
    <3>3. Numbers' = Numbers
      BY <3>1 DEF Numbers
    <3> QED
      BY <1>2, <3>1, <3>2, <3>3 DEF NumberInv, TypeOK, Losses, Lost
  <2> QED
    BY <1>2, <2>1, <2>2
<1> QED
  BY <1>1, <1>2, PTL DEF Spec

\* The table of payment requests, the handlers and the cache of statistics have
\* their types (payment-requests.service.ts), for any number of requests.
THEOREM TypeCorrect == Spec => []TypeOK
BY NumbersCorrect, PTL DEF NumberInv

\* A create that met taken numbers lost each time against a create that
\* succeeded since it began (the retries of create).
THEOREM RetriesCorrect == Spec => []RetriesAreLosses
<1>1. ASSUME NumberInv PROVE RetriesAreLosses
  <2>1. ASSUME NEW w \in Worker, req[w].at \in {"number", "insert"}, LastNo + 1 \notin Numbers
        PROVE  req[w].tries <= Cardinality(DOMAIN paymentRequest) - req[w].before
    <3>1. req[w].before + req[w].tries + Lost(w) <= Cardinality(DOMAIN paymentRequest)
      BY <1>1, <2>1 DEF NumberInv, Losses
    <3>2. req[w].before \in Nat /\ req[w].tries \in Nat /\ Lost(w) \in Nat
      BY <1>1 DEF NumberInv, TypeOK, Handler, Lost
    <3>3. Cardinality(DOMAIN paymentRequest) \in Nat
      BY <1>1, RowsAreFinite DEF NumberInv
    <3> QED
      BY <3>1, <3>2, <3>3
  <2> QED
    BY <2>1 DEF RetriesAreLosses
<1> QED
  BY <1>1, NumbersCorrect, PTL

-----------------------------------------------------------------------------
(***************************************************************************)
(* Statistics.  What is being computed may be outdated as well, and become *)
(* the statistics.                                                         *)
(***************************************************************************)
Dropping == \E w \in Worker : req[w].at = "answer"

StatisticsInv ==
    /\ statistics = "outdated" => Dropping
    /\ \A w \in Worker : req[w].found = "outdated" => Dropping

\* A handler that is not about to answer starts, goes on or ends.
LEMMA StatisticsKept ==
    ASSUME NumberInv, StatisticsInv, NEW w \in Worker, NEW r,
           req' = [req EXCEPT ![w] = r], req[w].at # "answer",
           r.found \in {"exact", req[w].found}, statistics' \in {"none", statistics, req[w].found}
    PROVE  StatisticsInv'
<1>1. /\ req'[w] = r /\ \A v \in Worker \ {w} : req'[v] = req[v]
  BY DEF NumberInv, TypeOK
<1>2. Dropping => Dropping'
  BY <1>1 DEF Dropping
<1> QED
  BY <1>1, <1>2 DEF StatisticsInv

LEMMA StatisticsNext == NumberInv /\ StatisticsInv /\ [Next]_vars => StatisticsInv'
<1> SUFFICES ASSUME NumberInv, StatisticsInv, [Next]_vars PROVE StatisticsInv'
  OBVIOUS
<1>0. /\ \A w \in Worker : req[w] \in Handler
      /\ req \in [Worker -> Handler] /\ Idle.at = "idle" /\ Idle.found = "exact"
  BY DEF NumberInv, TypeOK, Idle
<1>1. ASSUME NEW w \in Worker, NEW op, Committed(w, [Idle EXCEPT !.at = "answer", !.op = op])
      PROVE  StatisticsInv'
  <2>1. req'[w].at = "answer"
    BY <1>1 DEF Committed, Idle
  <2> QED
    BY <2>1 DEF StatisticsInv, Dropping
<1>2. ASSUME NEW w \in Worker, CreateInsert(w) PROVE StatisticsInv'
  <2>1. CASE req' = [req EXCEPT ![w] = Retry(w)] /\ UNCHANGED statistics
    <3>1. req[w].at # "answer"
      BY <1>2 DEF CreateInsert
    <3>2. Retry(w).found \in {"exact", req[w].found}
      BY <1>0 DEF Retry, Handler
    <3> QED
      BY <2>1, <3>1, <3>2, StatisticsKept
  <2> QED
    BY <1>1, <1>2, <2>1 DEF CreateInsert
<1>3. ASSUME NEW w \in Worker, Write(w) PROVE StatisticsInv'
  BY <1>1, <1>3 DEF Write
<1>4. ASSUME NEW w \in Worker, Ask(w) PROVE StatisticsInv'
  <2>1. ASSUME NEW r, Start(w, r), r.found = "exact", UNCHANGED statistics PROVE StatisticsInv'
    BY <2>1, StatisticsKept DEF Start
  <2>2. CASE CreateStart(w)
    BY <2>1, <2>2 DEF CreateStart, Idle
  <2>3. ASSUME NEW op, NEW p, Read(w, op, p) PROVE StatisticsInv'
    BY <2>1, <2>3 DEF Read, Idle
  <2>4. CASE Compute(w)
    BY <2>1, <2>4 DEF Compute, Idle
  <2> QED
    BY <1>4, <2>2, <2>3, <2>4 DEF Ask
<1>5. ASSUME NEW w \in Worker, CreateNumber(w) PROVE StatisticsInv'
  <2> DEFINE r == [req[w] EXCEPT !.at = "insert", !.no = NextNo]
  <2>1. req' = [req EXCEPT ![w] = r] /\ req[w].at # "answer" /\ UNCHANGED statistics
    BY <1>0, <1>5 DEF CreateNumber
  <2>2. r.found = req[w].found
    BY <1>0 DEF Handler
  <2> HIDE DEF r
  <2> QED
    BY <2>1, <2>2, StatisticsKept
<1>6. ASSUME NEW w \in Worker, Ended(w), statistics' \in {"none", Late(statistics)}
      PROVE  StatisticsInv'
  <2>1. statistics' # "outdated"
    BY <1>6 DEF Late
  <2>2. ASSUME NEW v \in Worker PROVE req'[v].found # "outdated"
    BY <1>0, <1>6 DEF Ended, Late, Handler
  <2> QED
    BY <2>1, <2>2 DEF StatisticsInv
<1>7. ASSUME NEW w \in Worker, Fill(w) \/ Fail(w) PROVE StatisticsInv'
  BY <1>0, <1>7, StatisticsKept DEF Fill, Fail
<1>8. CASE Expire
  BY <1>8 DEF Expire, StatisticsInv, Dropping
<1>9. CASE Restart
  BY <1>0, <1>9 DEF Restart, StatisticsInv
<1>10. CASE UNCHANGED vars
  BY <1>10 DEF vars, StatisticsInv, Dropping
<1> QED
  BY <1>2, <1>3, <1>4, <1>5, <1>6, <1>7, <1>8, <1>9, <1>10
     DEF Next, Step, Answer, AnswerLost

\* Statistics that a write has left behind are about to be dropped by the handler of
\* a write, those too that are cached after it committed, unless they are cached
\* after a write was answered or its answer was lost (invalidateStatisticsCache).
THEOREM StatisticsCorrect == Spec => []OutdatedIsDropped
<1>1. Init => StatisticsInv
  BY DEF Init, Idle, StatisticsInv
<1>2. StatisticsInv => OutdatedIsDropped
  BY DEF StatisticsInv, Dropping, OutdatedIsDropped
<1> QED
  BY <1>1, <1>2, StatisticsNext, NumbersCorrect, PTL DEF Spec

-----------------------------------------------------------------------------
(***************************************************************************)
(* Bank accounts.  Every default account has an owner, the handler that    *)
(* made it the default last; a handler that cleared the others since owns  *)
(* nothing but the account it is about to make the default.                *)
(***************************************************************************)
Setting(w) == accountReq[w].at \in {"insert", "write"} /\ accountReq[w].isDefault = TRUE

Owns(o) ==
    /\ \A a \in Accounts!Default : o[a] \in Worker
    /\ \A a, b \in Accounts!Default : o[a] = o[b] => a = b
    /\ \A a \in Accounts!Default : Setting(o[a]) => accountReq[o[a]].id = a

Creating ==
    \A w \in Worker :
        /\ accountReq[w].at = "insert" =>
              accountReq[w].id = None /\ accountReq[w].isDefault \in BOOLEAN
        /\ accountReq[w].at = "clear" /\ accountReq[w].op = "create" =>
              accountReq[w].id = None /\ accountReq[w].isDefault \in BOOLEAN

AccountInv == Accounts!TypeOK /\ Creating /\ \E o : Owns(o)

LEMMA AccountIdle == Accounts!Idle \in Accounts!Handler /\ Accounts!Idle.at = "idle"
BY DEF Accounts!Idle, Accounts!Handler

LEMMA AccountReplaced ==
    ASSUME Accounts!TypeOK, NEW w \in Worker, NEW r \in Accounts!Handler,
           accountReq' = [accountReq EXCEPT ![w] = r]
    PROVE  /\ accountReq' \in [Worker -> Accounts!Handler]
           /\ accountReq'[w] = r
           /\ \A v \in Worker \ {w} : accountReq'[v] = accountReq[v]
BY DEF Accounts!TypeOK

\* What changes neither the handlers of owners nor the defaults, unless it is
\* a handler that stops setting or an account that is no default any more.
LEMMA AccountFrame ==
    ASSUME AccountInv, NEW w \in Worker, NEW r \in Accounts!Handler,
           accountReq' = [accountReq EXCEPT ![w] = r],
           r.at = "insert" => r.id = None /\ r.isDefault \in BOOLEAN,
           r.at = "clear" /\ r.op = "create" => r.id = None /\ r.isDefault \in BOOLEAN,
           r.at \in {"insert", "write"} => r.isDefault # TRUE,
           DOMAIN account' \subseteq Account, account' \in [DOMAIN account' -> Accounts!Row],
           used' \subseteq DOMAIN account', Accounts!Default' \subseteq Accounts!Default
    PROVE  AccountInv'
<1>1. /\ accountReq' \in [Worker -> Accounts!Handler] /\ accountReq'[w] = r
      /\ \A v \in Worker \ {w} : accountReq'[v] = accountReq[v]
  BY AccountReplaced DEF AccountInv
<1>2. Accounts!TypeOK'
  BY <1>1 DEF Accounts!TypeOK
<1>3. Creating'
  BY <1>1 DEF AccountInv, Creating
<1>4. PICK o : Owns(o)
  BY DEF AccountInv
<1>5. Owns(o)'
  <2>1. ~Setting(w)'
    BY <1>1 DEF Setting
  <2>2. \A v \in Worker \ {w} : Setting(v)' <=> Setting(v)
    BY <1>1 DEF Setting
  <2> QED
    BY <1>1, <1>4, <2>1, <2>2 DEF Owns
<1> QED
  BY <1>2, <1>3, <1>5 DEF AccountInv

LEMMA AccountAnswers ==
    ASSUME AccountInv, NEW w \in Worker, Accounts!Answer(w),
           DOMAIN account' \subseteq Account, account' \in [DOMAIN account' -> Accounts!Row],
           used' \subseteq DOMAIN account', Accounts!Default' \subseteq Accounts!Default
    PROVE  AccountInv'
<1>1. /\ accountReq' = [accountReq EXCEPT ![w] = Accounts!Idle]
      /\ Accounts!Idle.at \notin {"insert", "clear", "write"}
  BY AccountIdle DEF Accounts!Answer
<1> QED
  BY <1>1, AccountIdle, AccountFrame

LEMMA AccountAsks ==
    ASSUME AccountInv, NEW w \in Worker, Accounts!Ask(w)
    PROVE  AccountInv'
<1>1. UNCHANGED <<account, used>>
  BY DEF Accounts!Ask, Accounts!Create, Accounts!Update, Accounts!ToggleEnabled,
         Accounts!SetDefault, Accounts!RemoveRead
<1>2. /\ DOMAIN account' \subseteq Account /\ account' \in [DOMAIN account' -> Accounts!Row]
      /\ used' \subseteq DOMAIN account' /\ Accounts!Default' \subseteq Accounts!Default
  BY <1>1 DEF AccountInv, Accounts!TypeOK, Accounts!Default
<1>3. CASE Accounts!Create(w)
  <2>1. PICK d \in BOOLEAN :
           accountReq' = [accountReq EXCEPT ![w] =
                            [Accounts!Idle EXCEPT !.at = IF d THEN "clear" ELSE "insert",
                                                  !.op = "create", !.isDefault = d]]
    BY <1>3 DEF Accounts!Create, Accounts!Start
  <2> DEFINE r == [Accounts!Idle EXCEPT !.at = IF d THEN "clear" ELSE "insert",
                                !.op = "create", !.isDefault = d]
  <2>2. /\ r \in Accounts!Handler /\ r.id = None /\ r.isDefault = d
        /\ r.at = IF d THEN "clear" ELSE "insert"
    BY DEF Accounts!Idle, Accounts!Handler
  <2>3. accountReq' = [accountReq EXCEPT ![w] = r]
    BY <2>1
  <2> HIDE DEF r
  <2> QED
    BY <1>2, <2>2, <2>3, AccountFrame
<1>4. ASSUME NEW a \in Account, Accounts!Update(w, a) PROVE AccountInv'
  <2>1. PICK d, e \in BOOLEAN \cup {None} :
           accountReq' = [accountReq EXCEPT ![w] =
                     [at |-> IF d = TRUE THEN "clear" ELSE "write", op |-> "update",
                      id |-> a, isDefault |-> d, isEnabled |-> e]]
    BY <1>4 DEF Accounts!Update, Accounts!Start
  <2> DEFINE r == [at |-> IF d = TRUE THEN "clear" ELSE "write", op |-> "update",
                   id |-> a, isDefault |-> d, isEnabled |-> e]
  <2>2. /\ r \in Accounts!Handler /\ r.isDefault = d /\ r.op = "update"
        /\ r.at = IF d = TRUE THEN "clear" ELSE "write"
    BY DEF Accounts!Handler
  <2>3. accountReq' = [accountReq EXCEPT ![w] = r]
    BY <2>1
  <2> HIDE DEF r
  <2> QED
    BY <1>2, <2>2, <2>3, AccountFrame
<1>5. ASSUME NEW a \in Account, Accounts!ToggleEnabled(w, a) PROVE AccountInv'
  <2> DEFINE e == ~account[a].isEnabled
             r == [Accounts!Idle EXCEPT !.at = "write", !.op = "toggle", !.id = a, !.isEnabled = e]
  <2>1. accountReq' = [accountReq EXCEPT ![w] = r]
    BY <1>5 DEF Accounts!ToggleEnabled, Accounts!Start
  <2>2. e \in BOOLEAN
    OBVIOUS
  <2> HIDE DEF e
  <2>3. r \in Accounts!Handler /\ r.at = "write" /\ r.isDefault = None
    BY <2>2 DEF Accounts!Idle, Accounts!Handler
  <2>4. None # TRUE
    BY BankAccountConstants
  <2> HIDE DEF r
  <2> QED
    BY <1>2, <2>1, <2>3, <2>4, AccountFrame
<1>6. ASSUME NEW a \in Account, Accounts!SetDefault(w, a) PROVE AccountInv'
  <2> DEFINE r == [Accounts!Idle EXCEPT !.at = "clear", !.op = "setDefault", !.id = a,
                                         !.isDefault = TRUE]
  <2>1. accountReq' = [accountReq EXCEPT ![w] = r]
    BY <1>6 DEF Accounts!SetDefault, Accounts!Start
  <2>2. r \in Accounts!Handler /\ r.at = "clear" /\ r.op = "setDefault"
    BY DEF Accounts!Idle, Accounts!Handler
  <2> HIDE DEF r
  <2> QED
    BY <1>2, <2>1, <2>2, AccountFrame
<1>7. ASSUME NEW a \in Account, Accounts!RemoveRead(w, a) PROVE AccountInv'
  <2> DEFINE r == [Accounts!Idle EXCEPT !.at = "count", !.op = "remove", !.id = a]
  <2>1. accountReq' = [accountReq EXCEPT ![w] = r]
    BY <1>7 DEF Accounts!RemoveRead, Accounts!Start
  <2>2. r \in Accounts!Handler /\ r.at = "count"
    BY DEF Accounts!Idle, Accounts!Handler
  <2> HIDE DEF r
  <2> QED
    BY <1>2, <2>1, <2>2, AccountFrame
<1> QED
  BY <1>3, <1>4, <1>5, <1>6, <1>7 DEF Accounts!Ask

-----------------------------------------------------------------------------
\* Whoever clears owns nothing, or the account that it is about to set.
LEMMA AccountClears ==
    ASSUME AccountInv, NEW w \in Worker, Accounts!ClearOthers(w)
    PROVE  AccountInv'
<1> DEFINE r == [accountReq[w] EXCEPT !.at =
                   IF accountReq[w].op = "create" THEN "insert" ELSE "write"]
           cleared == IF accountReq[w].op = "update"
                      THEN Accounts!Default \ {accountReq[w].id}
                      ELSE Accounts!Default
<1>1. accountReq[w] \in Accounts!Handler /\ accountReq[w].at = "clear"
  BY DEF Accounts!ClearOthers, AccountInv, Accounts!TypeOK
<1>2. /\ r \in Accounts!Handler /\ r.id = accountReq[w].id /\ r.isDefault = accountReq[w].isDefault
      /\ r.at = (IF accountReq[w].op = "create" THEN "insert" ELSE "write")
  BY <1>1 DEF Accounts!Handler
<1>3. accountReq' = [accountReq EXCEPT ![w] = r] /\ UNCHANGED used
  BY DEF Accounts!ClearOthers
<1>4. /\ DOMAIN account' = DOMAIN account
      /\ \A a \in DOMAIN account :
            account'[a] = IF a \in cleared THEN [account[a] EXCEPT !.isDefault = FALSE]
                          ELSE account[a]
      /\ account' = [a \in DOMAIN account |-> account'[a]]
  BY DEF Accounts!ClearOthers
<1> HIDE DEF r
<1>5. /\ accountReq' \in [Worker -> Accounts!Handler] /\ accountReq'[w] = r
      /\ \A v \in Worker \ {w} : accountReq'[v] = accountReq[v]
  BY <1>2, <1>3, AccountReplaced DEF AccountInv
<1>6. \A a \in DOMAIN account :
         account'[a] \in Accounts!Row /\ (a \in cleared => account'[a].isDefault = FALSE)
  <2>1. \A a \in DOMAIN account : account[a] \in Accounts!Row
    BY DEF AccountInv, Accounts!TypeOK
  <2>2. \A a \in DOMAIN account : [account[a] EXCEPT !.isDefault = FALSE] \in Accounts!Row
                                  /\ [account[a] EXCEPT !.isDefault = FALSE].isDefault = FALSE
    BY <2>1 DEF Accounts!Row
  <2> HIDE DEF cleared
  <2> QED
    BY <1>4, <2>1, <2>2
<1>7. Accounts!TypeOK'
  BY <1>3, <1>4, <1>5, <1>6 DEF AccountInv, Accounts!TypeOK
<1>8. Creating'
  BY <1>1, <1>2, <1>5 DEF AccountInv, Creating
<1>9. \A a \in Accounts!Default' : a = accountReq[w].id
  <2>1. ASSUME NEW a \in Accounts!Default'
        PROVE  a \in DOMAIN account /\ a \notin cleared /\ account'[a].isDefault
    BY <1>4, <1>6 DEF Accounts!Default
  <2>2. ASSUME NEW a \in DOMAIN account, a \notin cleared, account'[a].isDefault
        PROVE  a = accountReq[w].id
    BY <1>4, <2>2 DEF Accounts!Default
  <2> HIDE DEF cleared
  <2> QED
    BY <2>1, <2>2
<1>10. Owns([a \in Account |-> w])'
  <2>1. Accounts!Default' \subseteq Account
    BY <1>7 DEF Accounts!TypeOK, Accounts!Default
  <2> QED
    BY <1>2, <1>5, <1>9, <2>1 DEF Owns
<1>11. \E o : Owns(o)'
  BY <1>10
<1> QED
  BY <1>7, <1>8, <1>11 DEF AccountInv

\* A handler that is done setting; w owned only the account it sets, if any.
LEMMA AccountSets ==
    ASSUME AccountInv, NEW w \in Worker, Setting(w), Accounts!Answer(w), NEW b \in DOMAIN account',
           accountReq[w].id = b \/ (b \notin DOMAIN account /\ accountReq[w].id = None),
           DOMAIN account' \subseteq Account, account' \in [DOMAIN account' -> Accounts!Row],
           UNCHANGED used, used \subseteq DOMAIN account',
           Accounts!Default' \subseteq Accounts!Default \cup {b}
    PROVE  AccountInv'
<1>1. /\ accountReq' \in [Worker -> Accounts!Handler] /\ accountReq'[w] = Accounts!Idle
      /\ \A v \in Worker \ {w} : accountReq'[v] = accountReq[v]
  BY AccountIdle, AccountReplaced DEF AccountInv, Accounts!Answer
<1>2. Accounts!TypeOK'
  BY <1>1 DEF Accounts!TypeOK
<1>3. Creating'
  BY <1>1, AccountIdle DEF AccountInv, Creating
<1>4. PICK o : Owns(o)
  BY DEF AccountInv
<1>5. ~Setting(w)' /\ \A v \in Worker \ {w} : Setting(v)' <=> Setting(v)
  BY <1>1, AccountIdle DEF Setting
<1>6. ASSUME NEW a \in Accounts!Default, o[a] = w PROVE a = b
  BY <1>4, <1>6, BankAccountConstants DEF Owns, Accounts!Default, AccountInv, Accounts!TypeOK
<1>7. CASE b \in Accounts!Default
  <2>1. Accounts!Default' \subseteq Accounts!Default
    BY <1>7
  <2>2. Owns(o)'
    BY <1>1, <1>4, <1>5, <2>1 DEF Owns
  <2> QED
    BY <1>2, <1>3, <2>2 DEF AccountInv
<1>8. CASE b \notin Accounts!Default
  <2> DEFINE n == [a \in Account |-> IF a = b THEN w ELSE o[a]]
  <2>1. \A a \in Accounts!Default : a \in Account /\ o[a] \in Worker \ {w} /\ n[a] = o[a] /\ a # b
    BY <1>4, <1>6, <1>8 DEF Owns, Accounts!Default, AccountInv, Accounts!TypeOK
  <2>2. n[b] = w
    OBVIOUS
  <2> HIDE DEF n
  <2>3. Owns(n)'
    <3>1. ASSUME NEW a \in Accounts!Default' PROVE n[a] \in Worker
      BY <2>1, <2>2
    <3>2. ASSUME NEW a \in Accounts!Default', NEW c \in Accounts!Default', n[a] = n[c] PROVE a = c
      BY <1>4, <2>1, <2>2, <3>2 DEF Owns
    <3>3. ASSUME NEW a \in Accounts!Default', Setting(n[a])' PROVE accountReq'[n[a]].id = a
      BY <1>1, <1>4, <1>5, <2>1, <2>2, <3>3 DEF Owns
    <3> QED
      BY <3>1, <3>2, <3>3 DEF Owns
  <2> QED
    BY <1>2, <1>3, <2>3 DEF AccountInv
<1> QED
  BY <1>7, <1>8

LEMMA AccountInserts ==
    ASSUME AccountInv, NEW w \in Worker, Accounts!Insert(w)
    PROVE  AccountInv'
<1>1. PICK a \in Account \ DOMAIN account :
         account' = [b \in DOMAIN account \cup {a} |->
                        IF b = a THEN [isDefault |-> accountReq[w].isDefault, isEnabled |-> TRUE]
                        ELSE account[b]]
  BY DEF Accounts!Insert
<1>2. accountReq[w].at = "insert" /\ Accounts!Answer(w) /\ UNCHANGED used
  BY DEF Accounts!Insert
<1>3. accountReq[w].id = None /\ accountReq[w].isDefault \in BOOLEAN
  BY <1>2 DEF AccountInv, Creating
<1> DEFINE new == [isDefault |-> accountReq[w].isDefault, isEnabled |-> TRUE]
<1>4. new \in Accounts!Row /\ (new.isDefault <=> accountReq[w].isDefault)
  BY <1>3 DEF Accounts!Row
<1>5. /\ DOMAIN account' = DOMAIN account \cup {a} /\ account'[a] = new
      /\ \A b \in DOMAIN account : account'[b] = account[b]
      /\ account' = [b \in DOMAIN account' |-> account'[b]]
  BY <1>1
<1> HIDE DEF new
<1>6. /\ DOMAIN account' \subseteq Account /\ account' \in [DOMAIN account' -> Accounts!Row]
      /\ used \subseteq DOMAIN account'
  BY <1>4, <1>5 DEF AccountInv, Accounts!TypeOK
<1>7. CASE accountReq[w].isDefault = TRUE
  <2>1. Accounts!Default' \subseteq Accounts!Default \cup {a}
    BY <1>5 DEF Accounts!Default
  <2>2. Setting(w)
    BY <1>2, <1>7 DEF Setting
  <2> QED
    BY <1>2, <1>3, <1>5, <1>6, <2>1, <2>2, AccountSets
<1>8. CASE accountReq[w].isDefault = FALSE
  <2>1. Accounts!Default' \subseteq Accounts!Default
    BY <1>4, <1>5, <1>8 DEF Accounts!Default
  <2> QED
    BY <1>2, <1>6, <2>1, AccountAnswers
<1> QED
  BY <1>3, <1>7, <1>8

LEMMA AccountWrites ==
    ASSUME AccountInv, NEW w \in Worker, Accounts!Write(w)
    PROVE  AccountInv'
<1> DEFINE b == accountReq[w].id
           new == [isDefault |-> Accounts!Sent(accountReq[w].isDefault, account[b].isDefault),
                   isEnabled |-> Accounts!Sent(accountReq[w].isEnabled, account[b].isEnabled)]
<1>1. /\ accountReq[w].at = "write" /\ Accounts!Answer(w) /\ UNCHANGED used
      /\ account' = [a \in DOMAIN account |-> IF a # b THEN account[a] ELSE new]
  BY DEF Accounts!Write
<1>2. b \in DOMAIN account => new \in Accounts!Row
  <2>1. /\ accountReq[w].isDefault \in BOOLEAN \cup {None}
        /\ accountReq[w].isEnabled \in BOOLEAN \cup {None}
    BY DEF AccountInv, Accounts!TypeOK, Accounts!Handler
  <2>2. b \in DOMAIN account => account[b].isDefault \in BOOLEAN /\ account[b].isEnabled \in BOOLEAN
    BY DEF AccountInv, Accounts!TypeOK, Accounts!Row
  <2>3. b \in DOMAIN account =>
           /\ Accounts!Sent(accountReq[w].isDefault, account[b].isDefault) \in BOOLEAN
           /\ Accounts!Sent(accountReq[w].isEnabled, account[b].isEnabled) \in BOOLEAN
    BY <2>1, <2>2 DEF Accounts!Sent
  <2> QED
    BY <2>3 DEF Accounts!Row
<1>3. new.isDefault = Accounts!Sent(accountReq[w].isDefault, account[b].isDefault)
  OBVIOUS
<1> HIDE DEF new
<1>4. /\ DOMAIN account' = DOMAIN account
      /\ b \in DOMAIN account => account'[b] = new
      /\ \A a \in DOMAIN account \ {b} : account'[a] = account[a]
      /\ account' = [a \in DOMAIN account' |-> account'[a]]
  BY <1>1
<1>5. /\ DOMAIN account' \subseteq Account /\ account' \in [DOMAIN account' -> Accounts!Row]
      /\ used' \subseteq DOMAIN account'
  <2>1. \A a \in DOMAIN account : account'[a] \in Accounts!Row
    BY <1>2, <1>4 DEF AccountInv, Accounts!TypeOK
  <2> HIDE DEF b
  <2> QED
    BY <1>1, <1>4, <2>1 DEF AccountInv, Accounts!TypeOK
<1>6. CASE accountReq[w].isDefault = TRUE /\ b \in DOMAIN account
  <2>1. Accounts!Default' \subseteq Accounts!Default \cup {b}
    BY <1>4 DEF Accounts!Default
  <2>2. Setting(w)
    BY <1>1, <1>6 DEF Setting
  <2> QED
    BY <1>1, <1>4, <1>5, <1>6, <2>1, <2>2, AccountSets DEF AccountInv, Accounts!TypeOK
<1>7. CASE ~(accountReq[w].isDefault = TRUE /\ b \in DOMAIN account)
  <2>1. ASSUME b \in DOMAIN account, new.isDefault PROVE account[b].isDefault
    <3>1. accountReq[w].isDefault \in {TRUE, FALSE, None}
      BY DEF AccountInv, Accounts!TypeOK, Accounts!Handler
    <3>2. accountReq[w].isDefault \in {FALSE, None}
      BY <1>7, <2>1, <3>1
    <3>3. CASE accountReq[w].isDefault = None
      BY <1>3, <2>1, <3>3 DEF Accounts!Sent
    <3>4. CASE accountReq[w].isDefault = FALSE
      BY <1>3, <2>1, <3>4, BankAccountConstants DEF Accounts!Sent
    <3> QED
      BY <3>2, <3>3, <3>4
  <2>2. Accounts!Default' \subseteq Accounts!Default
    BY <1>4, <2>1 DEF Accounts!Default
  <2> QED
    BY <1>1, <1>5, <2>2, AccountAnswers
<1> QED
  BY <1>6, <1>7

LEMMA AccountSteps ==
    ASSUME AccountInv, NEW w \in Worker, Accounts!Step(w)
    PROVE  AccountInv'
<1>1. CASE Accounts!RemoveCount(w)
  <2>1. /\ UNCHANGED <<account, used>> /\ DOMAIN account' \subseteq Account
        /\ account' \in [DOMAIN account' -> Accounts!Row]
        /\ used' \subseteq DOMAIN account' /\ Accounts!Default' \subseteq Accounts!Default
    BY <1>1 DEF Accounts!RemoveCount, AccountInv, Accounts!TypeOK, Accounts!Default
  <2>2. CASE accountReq' = [accountReq EXCEPT ![w].at = "delete"]
    <3> DEFINE r == [accountReq[w] EXCEPT !.at = "delete"]
    <3>1. r \in Accounts!Handler /\ r.at = "delete"
      BY DEF AccountInv, Accounts!TypeOK, Accounts!Handler
    <3>2. accountReq' = [accountReq EXCEPT ![w] = r]
      BY <2>2
    <3> HIDE DEF r
    <3> QED
      BY <2>1, <3>1, <3>2, AccountFrame
  <2>3. CASE Accounts!Answer(w)
    BY <2>1, <2>3, AccountAnswers
  <2> QED
    BY <1>1, <2>2, <2>3 DEF Accounts!RemoveCount
<1>2. CASE Accounts!RemoveDelete(w)
  <2>1. /\ DOMAIN account' \subseteq DOMAIN account /\ used \subseteq DOMAIN account'
        /\ \A a \in DOMAIN account' : account'[a] = account[a]
        /\ account' = [a \in DOMAIN account' |-> account'[a]]
        /\ used' = used /\ Accounts!Answer(w)
    BY <1>2 DEF Accounts!RemoveDelete, AccountInv, Accounts!TypeOK
  <2>2. /\ DOMAIN account' \subseteq Account /\ account' \in [DOMAIN account' -> Accounts!Row]
        /\ used' \subseteq DOMAIN account' /\ Accounts!Default' \subseteq Accounts!Default
    BY <2>1 DEF AccountInv, Accounts!TypeOK, Accounts!Default
  <2> QED
    BY <2>1, <2>2, AccountAnswers
<1> QED
  BY <1>1, <1>2, AccountClears, AccountInserts, AccountWrites DEF Accounts!Step

LEMMA AccountInit == Accounts!Init => AccountInv
<1> SUFFICES ASSUME Accounts!Init PROVE AccountInv
  OBVIOUS
<1>1. Accounts!TypeOK /\ Creating
  BY AccountIdle DEF Accounts!Init, Accounts!TypeOK, Creating
<1>2. Accounts!Default = {}
  BY DEF Accounts!Init, Accounts!Default
<1>3. Owns([a \in Account |-> None])
  BY <1>2 DEF Owns
<1> QED
  BY <1>1, <1>3 DEF AccountInv

LEMMA AccountNext == AccountInv /\ [Accounts!Next]_Accounts!vars => AccountInv'
<1> SUFFICES ASSUME AccountInv, [Accounts!Next]_Accounts!vars PROVE AccountInv'
  OBVIOUS
<1>1. ASSUME NEW w \in Worker, Accounts!Fail(w) PROVE AccountInv'
  <2>1. /\ Accounts!Answer(w) /\ UNCHANGED <<account, used>> /\ DOMAIN account' \subseteq Account
        /\ account' \in [DOMAIN account' -> Accounts!Row]
        /\ used' \subseteq DOMAIN account' /\ Accounts!Default' \subseteq Accounts!Default
    BY <1>1 DEF Accounts!Fail, AccountInv, Accounts!TypeOK, Accounts!Default
  <2> QED
    BY <2>1, AccountAnswers
<1>2. ASSUME UNCHANGED <<account, accountReq>>, used' \subseteq DOMAIN account PROVE AccountInv'
  <2>1. Accounts!Default' = Accounts!Default /\ \A w \in Worker : Setting(w)' <=> Setting(w)
    BY <1>2 DEF Accounts!Default, Setting
  <2>2. PICK o : Owns(o)
    BY DEF AccountInv
  <2>3. Owns(o)'
    BY <1>2, <2>1, <2>2 DEF Owns
  <2> QED
    BY <1>2, <2>3 DEF AccountInv, Accounts!TypeOK, Creating
<1>3. ASSUME NEW a \in Account, Accounts!Use(a) PROVE AccountInv'
  BY <1>2, <1>3 DEF Accounts!Use, AccountInv, Accounts!TypeOK
<1>4. CASE UNCHANGED Accounts!vars
  BY <1>2, <1>4 DEF Accounts!vars, AccountInv, Accounts!TypeOK
<1> QED
  BY <1>1, <1>3, <1>4, AccountAsks, AccountSteps DEF Accounts!Next

LEMMA AccountBound ==
    ASSUME AccountInv
    PROVE  Accounts!DefaultsBounded
<1>1. PICK o : Owns(o)
  BY DEF AccountInv
<1> DEFINE f == [a \in Accounts!Default |-> o[a]]
<1>2. f \in Injection(Accounts!Default, Worker)
  BY <1>1 DEF Owns, Injection, IsInjective
<1> HIDE DEF f
<1> QED
  BY <1>2, FS_Injection, BankAccountConstants
  DEF Accounts!DefaultsBounded, Accounts!Cardinality, Cardinality

\* The table of bank accounts and the handlers have their types
\* (bank-accounts.service.ts), for any number of accounts.
THEOREM AccountsTyped == Accounts!Spec => []Accounts!TypeOK
<1>1. AccountInv => Accounts!TypeOK
  BY DEF AccountInv
<1> QED
  BY <1>1, AccountInit, AccountNext, PTL DEF Accounts!Spec

LEMMA DefaultsCorrect == Accounts!Spec => []Accounts!DefaultsBounded
<1>1. AccountInv => Accounts!DefaultsBounded
  BY AccountBound
<1> QED
  BY <1>1, AccountInit, AccountNext, PTL DEF Accounts!Spec

-----------------------------------------------------------------------------
(***************************************************************************)
(* Invoices, and the sides of contracts: what holds of each service holds  *)
(* of it here.                                                             *)
(***************************************************************************)
Invoiced == INSTANCE InvoicesProofs WITH req <- invoiceReq
Sellers == INSTANCE CounterpartiesProofs
               WITH req <- partyReq, Credit <- {}, PartyBatches <- {}, Verdicts <- {}
Dealers == INSTANCE CounterpartiesProofs
               WITH req <- partyReq, Contract <- {}, ContractBatches <- {},
                    ContractAmounts <- {}, Batches <- {}

LEMMA InvoicedAssumptions ==
    /\ Invoiced!PaymentRequestConstants /\ Invoiced!BankAccountConstants
    /\ Invoiced!InvoiceConstants /\ Invoiced!CounterpartyConstants
<1>1. Invoiced!PaymentRequestConstants
  BY PaymentRequestConstants
  DEF Invoiced!PaymentRequestConstants, Invoiced!IsFiniteSet, IsFiniteSet
<1>2. Invoiced!BankAccountConstants
  BY BankAccountConstants DEF Invoiced!BankAccountConstants, Invoiced!IsFiniteSet, IsFiniteSet
<1>3. Invoiced!InvoiceConstants
  BY InvoiceConstants
  DEF Invoiced!InvoiceConstants, Invoiced!IsFiniteSet, IsFiniteSet, Invoiced!ImportRow, ImportRow
<1>4. Invoiced!CounterpartyConstants
  BY CounterpartyConstants
  DEF Invoiced!CounterpartyConstants, Invoiced!PartyInput, PartyInput, Invoiced!Brought, Brought,
      Invoiced!ContractInput, ContractInput, Invoiced!Unsent, Unsent
<1> QED
  BY <1>1, <1>2, <1>3, <1>4

LEMMA SellersAssumptions ==
    /\ Sellers!PaymentRequestConstants /\ Sellers!BankAccountConstants
    /\ Sellers!InvoiceConstants /\ Sellers!CounterpartyConstants
<1>1. Sellers!PaymentRequestConstants
  BY PaymentRequestConstants DEF Sellers!PaymentRequestConstants, Sellers!IsFiniteSet, IsFiniteSet
<1>2. Sellers!BankAccountConstants
  BY BankAccountConstants DEF Sellers!BankAccountConstants, Sellers!IsFiniteSet, IsFiniteSet
<1>3. Sellers!InvoiceConstants
  BY InvoiceConstants
  DEF Sellers!InvoiceConstants, Sellers!IsFiniteSet, IsFiniteSet, Sellers!ImportRow, ImportRow
<1>4. Sellers!CounterpartyConstants
  BY CounterpartyConstants
  DEF Sellers!CounterpartyConstants, Sellers!ContractInput, ContractInput, Sellers!Unsent, Unsent
<1> QED
  BY <1>1, <1>2, <1>3, <1>4

LEMMA DealersAssumptions ==
    /\ Dealers!PaymentRequestConstants /\ Dealers!BankAccountConstants
    /\ Dealers!InvoiceConstants /\ Dealers!CounterpartyConstants
<1>1. Dealers!PaymentRequestConstants
  BY PaymentRequestConstants DEF Dealers!PaymentRequestConstants, Dealers!IsFiniteSet, IsFiniteSet
<1>2. Dealers!BankAccountConstants
  BY BankAccountConstants DEF Dealers!BankAccountConstants, Dealers!IsFiniteSet, IsFiniteSet
<1>3. Dealers!InvoiceConstants
  BY InvoiceConstants DEF Dealers!InvoiceConstants, Dealers!IsFiniteSet, IsFiniteSet
<1>4. Dealers!CounterpartyConstants
  BY CounterpartyConstants
  DEF Dealers!CounterpartyConstants, Dealers!PartyInput, PartyInput, Dealers!Brought, Brought,
      Dealers!Unsent, Unsent
<1> QED
  BY <1>1, <1>2, <1>3, <1>4

\* Defaults do not pile up, and overlapping creates exceed the highest amount that a
\* contract had together by no more than their number allows, for any number of
\* handlers and whatever amounts are edited (setDefault, create and update of bank
\* accounts; create of invoices).
THEOREM ExcessCorrect == Accounts!Spec /\ Invoiced!Spec => []ExcessBounded
<1>1. Invoiced!Spec => []Invoiced!InvoicedBounded
  BY InvoicedAssumptions, Invoiced!InvoicedCorrect, PTL
  DEF Invoiced!PaymentRequestConstants, Invoiced!BankAccountConstants,
      Invoiced!InvoiceConstants, Invoiced!CounterpartyConstants
<1>2. Invoiced!InvoicedBounded <=> Invoicing!InvoicedBounded
  BY DEF Invoiced!InvoicedBounded, Invoicing!InvoicedBounded, Invoiced!Issued, Invoicing!Issued,
         Invoiced!IssuedOn, Invoicing!IssuedOn, Invoiced!Total, Invoicing!Total,
         Invoiced!MapThenSumSet, Invoicing!MapThenSumSet, Invoiced!MapThenFoldSet,
         Invoicing!MapThenFoldSet, Invoiced!Cardinality, Invoicing!Cardinality
<1> QED
  BY <1>1, <1>2, DefaultsCorrect, PTL DEF ExcessBounded

\* No invoice points to a file that is gone, unless the answer to its INSERT was
\* lost (create, importFiles and remove of invoices).
THEOREM AttachmentsCorrect == Invoiced!Spec => []AttachmentsExist
<1>1. Invoiced!Spec => []Invoiced!AttachmentsExist
  BY InvoicedAssumptions, Invoiced!AttachmentsCorrect, PTL
  DEF Invoiced!PaymentRequestConstants, Invoiced!BankAccountConstants,
      Invoiced!InvoiceConstants, Invoiced!CounterpartyConstants
<1>2. Invoiced!AttachmentsExist <=> AttachmentsExist
  BY DEF AttachmentsExist, Invoiced!AttachmentsExist, Invoicing!AttachmentsExist
<1> QED
  BY <1>1, <1>2, PTL

\* The customer of a sale is a visible one, unless requests overtook each other
\* or an import used its memory (create, update and import of contracts; remove
\* of customers).
THEOREM CustomersCorrect == Sellers!Spec => []CustomerKnown
<1>1. Sellers!Spec => []Sellers!CustomerKnown
  BY SellersAssumptions, Sellers!CustomersCorrect, PTL
  DEF Sellers!PaymentRequestConstants, Sellers!BankAccountConstants,
      Sellers!InvoiceConstants, Sellers!CounterpartyConstants
<1>2. Sellers!CustomerKnown <=> CustomerKnown
  BY DEF CustomerKnown, Sellers!CustomerKnown, Sides!CustomerKnown
<1> QED
  BY <1>1, <1>2, PTL

\* Visible customers, and visible suppliers, have a credit code each, unless two
\* requests about a code overlapped (create, update and importFile of customers
\* and suppliers).
THEOREM CreditCorrect == Dealers!Spec => []CreditUnlessContested
<1>1. Dealers!Spec => []Dealers!CreditUnlessContested
  BY DealersAssumptions, Dealers!CreditCorrect, PTL
  DEF Dealers!PaymentRequestConstants, Dealers!BankAccountConstants,
      Dealers!InvoiceConstants, Dealers!CounterpartyConstants
<1>2. Dealers!CreditUnlessContested <=> CreditUnlessContested
  BY DEF CreditUnlessContested, Dealers!CreditUnlessContested, Parties!CreditUnlessContested,
         Dealers!Kind, Parties!Kind, Dealers!Visible, Parties!Visible, Dealers!OfKind,
         Parties!OfKind
<1> QED
  BY <1>1, <1>2, PTL

-----------------------------------------------------------------------------
(***************************************************************************)
(* The services together.  A behaviour of all is one of each service, so   *)
(* what is proved of a service holds of it there.  Invoiced, Sellers and   *)
(* Dealers are the instances Invoicing, Sides and Parties with their       *)
(* theorems: the lemmas say that their steps are the same.                 *)
(***************************************************************************)
LEMMA InvoicingIs ==
    /\ Invoicing!Init => Invoiced!Init
    /\ Invoicing!Next => Invoiced!Next
<1>1. ASSUME Invoicing!Init PROVE Invoiced!Init
  BY <1>1 DEF Invoiced!Init, Invoicing!Init, Invoiced!Idle, Invoicing!Idle
<1>2. ASSUME Invoicing!Next PROVE Invoiced!Next
  BY <1>2
  DEF Invoiced!ImportRow, Invoicing!ImportRow, Invoiced!IssuedOn, Invoicing!IssuedOn,
      Invoiced!Issued, Invoicing!Issued, Invoiced!FreshInvoice, Invoicing!FreshInvoice,
      Invoiced!FreshFile, Invoicing!FreshFile, Invoiced!Start, Invoicing!Start, Invoiced!GoTo,
      Invoicing!GoTo, Invoiced!Answer, Invoicing!Answer, Invoiced!SkipRow, Invoicing!SkipRow,
      Invoiced!Import, Invoicing!Import, Invoiced!Create, Invoicing!Create, Invoiced!StoreFile,
      Invoicing!StoreFile, Invoiced!Refuse, Invoicing!Refuse, Invoiced!CreateCheck,
      Invoicing!CreateCheck, Invoiced!Fits, Invoicing!Fits, Invoiced!EditContract,
      Invoicing!EditContract, Invoiced!contractVars, Invoicing!contractVars, Invoiced!CreateSum, Invoicing!CreateSum,
      Invoiced!Inserted, Invoicing!Inserted, Invoiced!CreateInsert, Invoicing!CreateInsert,
      Invoiced!InsertLost, Invoicing!InsertLost, Invoiced!VoidRead, Invoicing!VoidRead,
      Invoiced!VoidWrite, Invoicing!VoidWrite, Invoiced!RemoveRead, Invoicing!RemoveRead,
      Invoiced!RemoveDelete, Invoicing!RemoveDelete, Invoiced!RemoveUnlink, Invoicing!RemoveUnlink,
      Invoiced!Fail, Invoicing!Fail, Invoiced!Restart, Invoicing!Restart, Invoiced!Ask,
      Invoicing!Ask, Invoiced!Step, Invoicing!Step, Invoiced!Next, Invoicing!Next, Invoiced!Idle,
      Invoicing!Idle, Invoiced!Insert, Invoicing!Insert, Invoiced!Without, Invoicing!Without,
      Invoiced!Total, Invoicing!Total, Invoiced!MapThenSumSet, Invoicing!MapThenSumSet,
      Invoiced!MapThenFoldSet, Invoicing!MapThenFoldSet
<1> QED
  BY <1>1, <1>2

LEMMA SidesAre ==
    /\ Parties!Init => Sellers!Init
    /\ Sides!Next => Sellers!Next
    /\ Sides!TypeOK <=> Sellers!TypeOK
<1>1. ASSUME Parties!Init PROVE Sellers!Init
  BY <1>1 DEF Sellers!Init, Parties!Init, Sellers!Idle, Parties!Idle
<1>2. ASSUME Sides!Next PROVE Sellers!Next
  BY <1>2
  DEF Sellers!Kind, Sides!Kind, Sellers!Idle, Sides!Idle, Sellers!OfKind, Sides!OfKind,
      Sellers!Visible, Sides!Visible, Sellers!Codes, Sides!Codes, Sellers!Fresh, Sides!Fresh,
      Sellers!NextCode, Sides!NextCode, Sellers!Involves, Sides!Involves, Sellers!Start,
      Sides!Start, Sellers!GoTo, Sides!GoTo, Sellers!Importing, Sides!Importing, Sellers!Done,
      Sides!Done, Sellers!Answer, Sides!Answer, Sellers!Chosen, Sides!Chosen, Sellers!Synced,
      Sides!Synced, Sellers!Create, Sides!Create, Sellers!CreateCustomer, Sides!CreateCustomer,
      Sellers!CreateSupplier, Sides!CreateSupplier, Sellers!Edit, Sides!Edit, Sellers!EditCustomer,
      Sides!EditCustomer, Sellers!EditSupplier, Sides!EditSupplier, Sellers!Duplicate,
      Sides!Duplicate, Sellers!ImportRows, Sides!ImportRows, Sellers!ImportCustomers,
      Sides!ImportCustomers, Sellers!ImportSuppliers, Sides!ImportSuppliers, Sellers!Row, Sides!Row,
      Sellers!ByCode, Sides!ByCode, Sellers!ByCredit, Sides!ByCredit, Sellers!Contested,
      Sides!Contested, Sellers!Write, Sides!Write, Sellers!Generate, Sides!Generate, Sellers!Given,
      Sides!Given, Sellers!Retry, Sides!Retry, Sellers!NewParty, Sides!NewParty, Sellers!Added,
      Sides!Added, Sellers!Insert, Sides!Insert, Sellers!RemoveCustomer, Sides!RemoveCustomer,
      Sellers!RemoveSupplier, Sides!RemoveSupplier, Sellers!ContractsOf, Sides!ContractsOf,
      Sellers!Count, Sides!Count, Sellers!Hide, Sides!Hide, Sellers!ApproveRead, Sides!ApproveRead,
      Sellers!ApproveWrite, Sides!ApproveWrite, Sellers!CreateContract, Sides!CreateContract,
      Sellers!Find, Sides!Find, Sellers!UpdateContract, Sides!UpdateContract, Sellers!Seen,
      Sides!Seen, Sellers!Restore, Sides!Restore, Sellers!Sync, Sides!Sync, Sellers!Overtaken,
      Sides!Overtaken, Sellers!InsertContract, Sides!InsertContract, Sellers!WriteContract,
      Sides!WriteContract, Sellers!RemoveContract, Sides!RemoveContract,
      Sellers!RemoveContractWrite, Sides!RemoveContractWrite, Sellers!ImportContracts,
      Sides!ImportContracts, Sellers!ContractInRow, Sides!ContractInRow, Sellers!FindVisible,
      Sides!FindVisible, Sellers!FindHidden, Sides!FindHidden, Sellers!Upsert, Sides!Upsert,
      Sellers!Fail, Sides!Fail, Sellers!AskForParty, Sides!AskForParty, Sellers!AskForContract,
      Sides!AskForContract, Sellers!Step, Sides!Step, Sellers!Next, Sides!Next, Sellers!Max,
      Sides!Max, Sellers!Unsent, Sides!Unsent
<1>3. Sides!TypeOK <=> Sellers!TypeOK
  BY DEF Sellers!TypeOK, Sides!TypeOK, Sellers!PartyRow, Sides!PartyRow, Sellers!ContractRow,
      Sides!ContractRow, Sellers!Handler, Sides!Handler, Sellers!Kind, Sides!Kind,
      Sellers!PartyInput, Sides!PartyInput, Sellers!ContractInput, Sides!ContractInput,
      Sellers!Brought, Sides!Brought, Sellers!Code, Sides!Code, Sellers!Unsent, Sides!Unsent
<1> QED
  BY <1>1, <1>2, <1>3

LEMMA PartiesAre ==
    /\ Parties!Init => Dealers!Init
    /\ Parties!Next => Dealers!Next
    /\ Parties!TypeOK <=> Dealers!TypeOK
<1>1. ASSUME Parties!Init PROVE Dealers!Init
  BY <1>1 DEF Dealers!Init, Parties!Init, Dealers!Idle, Parties!Idle
<1>2. ASSUME Parties!Next PROVE Dealers!Next
  BY <1>2
  DEF Dealers!Kind, Parties!Kind, Dealers!Idle, Parties!Idle, Dealers!OfKind, Parties!OfKind,
      Dealers!Visible, Parties!Visible, Dealers!Codes, Parties!Codes, Dealers!Fresh, Parties!Fresh,
      Dealers!NextCode, Parties!NextCode, Dealers!Involves, Parties!Involves, Dealers!Start,
      Parties!Start, Dealers!GoTo, Parties!GoTo, Dealers!Importing, Parties!Importing, Dealers!Done,
      Parties!Done, Dealers!Answer, Parties!Answer, Dealers!Chosen, Parties!Chosen, Dealers!Synced,
      Parties!Synced, Dealers!Create, Parties!Create, Dealers!CreateCustomer,
      Parties!CreateCustomer, Dealers!CreateSupplier, Parties!CreateSupplier, Dealers!Edit,
      Parties!Edit, Dealers!EditCustomer, Parties!EditCustomer, Dealers!EditSupplier,
      Parties!EditSupplier, Dealers!Duplicate, Parties!Duplicate, Dealers!ImportRows,
      Parties!ImportRows, Dealers!ImportCustomers, Parties!ImportCustomers, Dealers!ImportSuppliers,
      Parties!ImportSuppliers, Dealers!Row, Parties!Row, Dealers!ByCode, Parties!ByCode,
      Dealers!ByCredit, Parties!ByCredit, Dealers!Contested, Parties!Contested, Dealers!Write,
      Parties!Write, Dealers!Generate, Parties!Generate, Dealers!Given, Parties!Given,
      Dealers!Retry, Parties!Retry, Dealers!NewParty, Parties!NewParty, Dealers!Added,
      Parties!Added, Dealers!Insert, Parties!Insert, Dealers!RemoveCustomer, Parties!RemoveCustomer,
      Dealers!RemoveSupplier, Parties!RemoveSupplier, Dealers!ContractsOf, Parties!ContractsOf,
      Dealers!Count, Parties!Count, Dealers!Hide, Parties!Hide, Dealers!ApproveRead,
      Parties!ApproveRead, Dealers!ApproveWrite, Parties!ApproveWrite, Dealers!CreateContract,
      Parties!CreateContract, Dealers!Find, Parties!Find, Dealers!UpdateContract,
      Parties!UpdateContract, Dealers!Seen, Parties!Seen, Dealers!Restore, Parties!Restore,
      Dealers!Sync, Parties!Sync, Dealers!Overtaken, Parties!Overtaken, Dealers!InsertContract,
      Parties!InsertContract, Dealers!WriteContract, Parties!WriteContract, Dealers!RemoveContract,
      Parties!RemoveContract, Dealers!RemoveContractWrite, Parties!RemoveContractWrite,
      Dealers!ImportContracts, Parties!ImportContracts, Dealers!ContractInRow,
      Parties!ContractInRow, Dealers!FindVisible, Parties!FindVisible, Dealers!FindHidden,
      Parties!FindHidden, Dealers!Upsert, Parties!Upsert, Dealers!Fail, Parties!Fail,
      Dealers!AskForParty, Parties!AskForParty, Dealers!AskForContract, Parties!AskForContract,
      Dealers!Step, Parties!Step, Dealers!Next, Parties!Next, Dealers!Max, Parties!Max,
      Dealers!Unsent, Parties!Unsent, Dealers!PartyInput, Parties!PartyInput, Dealers!Brought,
      Parties!Brought
<1>3. Parties!TypeOK <=> Dealers!TypeOK
  BY DEF Dealers!TypeOK, Parties!TypeOK, Dealers!PartyRow, Parties!PartyRow, Dealers!ContractRow,
      Parties!ContractRow, Dealers!Handler, Parties!Handler, Dealers!Kind, Parties!Kind,
      Dealers!PartyInput, Parties!PartyInput, Dealers!ContractInput, Parties!ContractInput,
      Dealers!Brought, Parties!Brought, Dealers!Code, Parties!Code, Dealers!Unsent, Parties!Unsent
<1> QED
  BY <1>1, <1>2, <1>3

\* A step of all is a step of each service, or leaves its tables alone.
LEMMA StepsOfEach ==
    ASSUME [NextOfOne]_allVars
    PROVE  /\ [Next]_vars
           /\ [Accounts!Next]_Accounts!vars
           /\ [Invoiced!Next]_Invoiced!vars
           /\ part = "sides" => (part = "sides")' /\ [Sellers!Next]_Sellers!vars
           /\ ~(part = "sides") => ~(part = "sides")' /\ [Dealers!Next]_Dealers!vars
<1>1. CASE NextOfOne
  BY <1>1, InvoicingIs, SidesAre, PartiesAre
  DEF NextOfOne, vars, accountVars, invoiceVars, partyVars, Accounts!vars, Invoiced!vars,
      Invoiced!contractVars, Sellers!vars, Dealers!vars
<1>2. CASE UNCHANGED allVars
  BY <1>2
  DEF allVars, vars, accountVars, invoiceVars, partyVars, Accounts!vars, Invoiced!vars,
      Invoiced!contractVars, Sellers!vars, Dealers!vars
<1> QED
  BY <1>1, <1>2

LEMMA EachRuns ==
    SpecAll => /\ Spec /\ Accounts!Spec /\ Invoiced!Spec
               /\ \/ [](part = "sides") /\ Sellers!Spec
                  \/ []~(part = "sides") /\ Dealers!Spec
<1>1. InitAll => Init /\ Accounts!Init /\ Invoiced!Init /\ Sellers!Init /\ Dealers!Init
  BY InvoicingIs, SidesAre, PartiesAre DEF InitAll
<1>2. [NextOfOne]_allVars =>
         /\ [Next]_vars /\ [Accounts!Next]_Accounts!vars /\ [Invoiced!Next]_Invoiced!vars
         /\ part = "sides" => (part = "sides")' /\ [Sellers!Next]_Sellers!vars
         /\ ~(part = "sides") => ~(part = "sides")' /\ [Dealers!Next]_Dealers!vars
  BY StepsOfEach
<1> QED
  BY <1>1, <1>2, PTL
  DEF SpecAll, Spec, Accounts!Spec, Invoiced!Spec, Sellers!Spec, Dealers!Spec

\* Where only sides are explored no party has a credit code, where only parties
\* are there is no contract.
LEMMA PartsApart ==
    /\ Sellers!TypeOK => CreditUnlessContested
    /\ Dealers!TypeOK => CustomerKnown
<1>1. ASSUME Sellers!TypeOK PROVE CreditUnlessContested
  <2>1. \A p \in DOMAIN party : party[p].credit = None
    BY <1>1 DEF Sellers!TypeOK, Sellers!PartyRow
  <2> QED
    BY <2>1 DEF CreditUnlessContested, Parties!CreditUnlessContested, Parties!Visible,
                Parties!OfKind
<1>2. ASSUME Dealers!TypeOK PROVE CustomerKnown
  <2>1. DOMAIN contract = {}
    BY <1>2 DEF Dealers!TypeOK
  <2> QED
    BY <2>1 DEF CustomerKnown, Sides!CustomerKnown
<1> QED
  BY <1>1, <1>2

\* Every table and every handler of the services together are as their modules
\* say, the codes of customers and suppliers included (payment-requests,
\* bank-accounts, invoices, customers, suppliers and contracts services).
THEOREM TypesCorrect == SpecAll => []TypesOK
<1>1. Invoiced!Spec => []Invoiced!TypeOK
  BY InvoicedAssumptions, Invoiced!TypeCorrect, PTL
  DEF Invoiced!PaymentRequestConstants, Invoiced!BankAccountConstants,
      Invoiced!InvoiceConstants, Invoiced!CounterpartyConstants
<1>2. Sellers!Spec => []Sellers!TypeOK
  BY SellersAssumptions, Sellers!TypeCorrect, PTL
  DEF Sellers!PaymentRequestConstants, Sellers!BankAccountConstants,
      Sellers!InvoiceConstants, Sellers!CounterpartyConstants
<1>3. Dealers!Spec => []Dealers!TypeOK
  BY DealersAssumptions, Dealers!TypeCorrect, PTL
  DEF Dealers!PaymentRequestConstants, Dealers!BankAccountConstants,
      Dealers!InvoiceConstants, Dealers!CounterpartyConstants
<1>4. Invoiced!TypeOK <=> Invoicing!TypeOK
  BY DEF Invoiced!TypeOK, Invoicing!TypeOK, Invoiced!Row, Invoicing!Row, Invoiced!Handler,
         Invoicing!Handler, Invoiced!ImportRow, Invoicing!ImportRow
<1>5. TypeOK /\ Accounts!TypeOK /\ Invoiced!TypeOK
        /\ ((part = "sides" /\ Sellers!TypeOK) \/ (~(part = "sides") /\ Dealers!TypeOK))
        => TypesOK
  BY <1>4, SidesAre, PartiesAre DEF TypesOK
<1> QED
  BY <1>1, <1>2, <1>3, <1>5, EachRuns, TypeCorrect, AccountsTyped, PTL

\* Whatever the handlers of the services do side by side: retries are losses,
\* outdated statistics are dropped in time, what overlapping requests exceed is bounded,
\* attachments exist, the customer of a sale is known and credit codes are
\* unique, as far as the properties say; and payment requests follow the flow of
\* approval.
THEOREM TogetherCorrect ==
    SpecAll =>
        /\ [](RetriesAreLosses /\ OutdatedIsDropped /\ ExcessBounded /\ AttachmentsExist
                 /\ CustomerKnown /\ CreditUnlessContested)
        /\ FlowKept
<1>1. Sellers!Spec => []Sellers!TypeOK
  BY SellersAssumptions, Sellers!TypeCorrect, PTL
  DEF Sellers!PaymentRequestConstants, Sellers!BankAccountConstants,
      Sellers!InvoiceConstants, Sellers!CounterpartyConstants
<1>2. Dealers!Spec => []Dealers!TypeOK
  BY DealersAssumptions, Dealers!TypeCorrect, PTL
  DEF Dealers!PaymentRequestConstants, Dealers!BankAccountConstants,
      Dealers!InvoiceConstants, Dealers!CounterpartyConstants
<1> QED
  BY <1>1, <1>2, EachRuns, PartsApart, RetriesCorrect, StatisticsCorrect, ExcessCorrect,
     AttachmentsCorrect, CustomersCorrect, CreditCorrect, FlowImplemented, PTL

=============================================================================
