------------------------- MODULE ReceivablesProofs -------------------------
(***************************************************************************)
(* Theorems about Receivables, for every number of workers, contracts,     *)
(* plans and records and whatever the clients send.  Five invariants are   *)
(* inductive: TypeInv (types, and where what a record refers to exists),   *)
(* RecordPlanInv (records and the plans they are filed under) and, from    *)
(* these two, OverInv (the bound on overpayment), AheadInv (plans never    *)
(* ahead of their records) and SerialInv (one request at a time).          *)
(***************************************************************************)
EXTENDS Receivables, RowsProofs, TLAPS

(***************************************************************************)
(* What a handler has read or been sent has the type of the column that it *)
(* will be written to, at each await where it still is to be written.      *)
(***************************************************************************)
AtRecord == {"record_plan", "record_total", "record_insert", "record_commit"}
AtSettle == {"settle_read", "settle_sum", "settle_write"}

HandlerOK(w) ==
    /\ req[w].at = "amount_write" => req[w].amount \in Amounts
    /\ req[w].at \in {"status_write", "settle_sum", "settle_write"} =>
            req[w].status \in ContractStatus
    /\ req[w].at \in AtRecord =>
            req[w].record \in Record /\ req[w].amount \in Amounts \ {0}
    /\ req[w].at \in {"record_commit", "delete_commit"} => req[w].status \in PlanStatus
    /\ req[w].at \in AtRecord \cup AtSettle \cup {"row_delete", "delete_commit"} =>
            req[w].contract \in DOMAIN contract

RecordsHaveContracts == \A r \in DOMAIN record : record[r].contract \in DOMAIN contract

TypeInv == TypeOK /\ RecordsHaveContracts /\ \A w \in Worker : HandlerOK(w)

-----------------------------------------------------------------------------
LEMMA IdleIsRequest == Idle \in Request
BY EmptyIsTable DEF Idle, Request, At

LEMMA NewRowsArePlans ==
    ASSUME NEW c \in Contract, NEW ids \in SUBSET Plan, NEW rows \in [ids -> NewPlanRow(c)]
    PROVE  rows \in Tables(Plan, PlanRow)
<1>1. NewPlanRow(c) \subseteq PlanRow
  BY DEF NewPlanRow, PlanRow, PlanStatus
<1>2. IsTable(rows, Plan, PlanRow)
  BY <1>1 DEF IsTable
<1> QED
  BY <1>2, TablesAreTables

LEMMA StatusInRange ==
    /\ \A paid, due : NewPlanStatus(paid, due) \in PlanStatus
    /\ \A paid, amount : NextStatus(paid, amount) \in ContractStatus
BY DEF NewPlanStatus, NextStatus, PlanStatus, ContractStatus

-----------------------------------------------------------------------------
\* The invariant of types is inductive: one step per action.
LEMMA TypeInit == Init => TypeInv
BY IdleIsRequest, EmptyIsTable DEF Init, TypeInv, TypeOK, IsTable, RecordsHaveContracts, HandlerOK,
   Idle, AtRecord, AtSettle

LEMMA TypeAsk ==
    ASSUME TypeInv, NEW w \in Worker, Ask(w)
    PROVE  TypeInv'
<1> USE IdleIsRequest, EmptyIsTable, ConstantsAssumption
    DEF TypeInv, TypeOK, RecordsHaveContracts, HandlerOK, AtRecord, AtSettle, Start
<1>1. ASSUME NEW c \in Contract, NEW a \in Amounts, UpdateRead(w, c, a)
      PROVE  TypeInv'
  BY <1>1 DEF UpdateRead, Request, Idle, At
<1>2. ASSUME NEW c \in Contract, NEW s \in ContractStatus, ChangeStatusRead(w, c, s)
      PROVE  TypeInv'
  BY <1>2 DEF ChangeStatusRead, Request, Idle, At
<1>3. ASSUME NEW c \in Contract, RemoveRead(w, c)
      PROVE  TypeInv'
  BY <1>3 DEF RemoveRead, Request, Idle, At
<1>4. ASSUME NEW c \in Contract, NEW p \in Plan, NEW row \in NewPlanRow(c), CreatePlanRead(w, p, row)
      PROVE  TypeInv'
  <2>1. [i \in {p} |-> row] \in Tables(Plan, PlanRow)
    BY NewRowsArePlans
  <2>2. contract[row.contract].amount \in Amounts
    BY <1>4 DEF CreatePlanRead, Live, IsTable, ContractRow
  <2> QED
    BY <1>4, <2>1, <2>2 DEF CreatePlanRead, NewPlanRow, Request, Idle, At
<1>5. ASSUME NEW c \in Contract, NEW ids \in SUBSET Plan, NEW rows \in [ids -> NewPlanRow(c)],
             CreatePlansRead(w, c, rows)
      PROVE  TypeInv'
  BY <1>5, NewRowsArePlans DEF CreatePlansRead, Request, Idle, At
<1>6. ASSUME NEW p \in Plan, RemovePlanRead(w, p)
      PROVE  TypeInv'
  BY <1>6 DEF RemovePlanRead, Request, Idle, At
<1>7. ASSUME NEW r \in Record, NEW row \in RecordRow, CreateRecordRead(w, r, row)
      PROVE  TypeInv'
  <2>1. row.contract \in DOMAIN contract /\ contract[row.contract].amount \in Amounts
    BY <1>7 DEF CreateRecordRead, Live, IsTable, ContractRow
  <2> QED
    BY <1>7, <2>1 DEF CreateRecordRead, RecordRow, Request, Idle, At
<1>8. ASSUME NEW r \in Record, RemoveRecordRead(w, r)
      PROVE  TypeInv'
  <2>1. record[r] \in RecordRow /\ r \in DOMAIN record
    BY <1>8 DEF RemoveRecordRead, IsTable
  <2> QED
    BY <1>8, <2>1 DEF RemoveRecordRead, RecordRow, Request, Idle, At
<1> QED
  BY <1>1, <1>2, <1>3, <1>4, <1>5, <1>6, <1>7, <1>8 DEF Ask

\* Each write leaves a table of the same rows, or of fewer, or of the new ones too.
LEMMA ContractWrites ==
    ASSUME IsTable(contract, Contract, ContractRow), NEW c
    PROVE  /\ \A a \in Amounts : IsTable([contract EXCEPT ![c].amount = a], Contract, ContractRow)
           /\ \A s \in ContractStatus : IsTable([contract EXCEPT ![c].status = s], Contract, ContractRow)
           /\ IsTable([contract EXCEPT ![c].deleted = TRUE], Contract, ContractRow)
BY DEF IsTable, ContractRow

LEMMA PlanStatusWrite ==
    ASSUME IsTable(plan, Plan, PlanRow), NEW p, NEW s \in PlanStatus
    PROVE  IsTable([plan EXCEPT ![p].status = s], Plan, PlanRow)
BY DEF IsTable, PlanRow

LEMMA DeletePlansWrites ==
    ASSUME TypeOK, RecordsHaveContracts, NEW ids, DeletePlans(ids), UNCHANGED contract
    PROVE  IsTable(plan', Plan, PlanRow) /\ IsTable(record', Record, RecordRow) /\ RecordsHaveContracts'
<1>1. IsTable(plan', Plan, PlanRow)
  BY WithoutIsTable DEF DeletePlans, TypeOK
<1>2. \A r \in DOMAIN record : [record[r] EXCEPT !.plan = None] \in RecordRow
  BY DEF TypeOK, IsTable, RecordRow
<1>3. \A r \in DOMAIN record : [record[r] EXCEPT !.plan = None].contract = record[r].contract
  BY DEF TypeOK, IsTable, RecordRow
<1> QED
  BY <1>1, <1>2, <1>3 DEF DeletePlans, TypeOK, IsTable, RecordsHaveContracts

LEMMA NewRecordWrites ==
    ASSUME TypeInv, NEW w \in Worker, req[w].at \in {"record_insert", "record_commit"},
           record' = Insert(record, NewRecord(w)), UNCHANGED contract
    PROVE  IsTable(record', Record, RecordRow) /\ RecordsHaveContracts'
<1>1. /\ req[w].record \in Record
      /\ [contract |-> req[w].contract, plan |-> req[w].plan, amount |-> req[w].amount] \in RecordRow
      /\ req[w].contract \in DOMAIN contract
  BY DEF TypeInv, TypeOK, HandlerOK, AtRecord, RecordRow, Request, IsTable
<1>2. IsTable(NewRecord(w), Record, RecordRow)
  BY <1>1 DEF IsTable, NewRecord
<1>3. IsTable(record', Record, RecordRow)
  BY <1>2, InsertIsTable DEF TypeInv, TypeOK
<1>4. \A r \in DOMAIN record' :
         record'[r].contract = req[w].contract \/ (r \in DOMAIN record /\ record'[r] = record[r])
  BY DEF Insert, NewRecord
<1> QED
  BY <1>1, <1>3, <1>4 DEF TypeInv, RecordsHaveContracts

LEMMA WithoutRecordWrites ==
    ASSUME TypeInv, NEW ids, record' = Without(record, ids), UNCHANGED contract
    PROVE  IsTable(record', Record, RecordRow) /\ RecordsHaveContracts'
<1>1. IsTable(record, Record, RecordRow)
  BY DEF TypeInv, TypeOK
<1>2. IsTable(record', Record, RecordRow)
  BY <1>1, WithoutIsTable
<1> QED
  BY <1>2 DEF TypeInv, RecordsHaveContracts, Without

\* The other handlers are where they were: what is left is the handler that moved.
LEMMA TypeFrame ==
    ASSUME TypeInv, NEW w \in Worker,
           req' \in [Worker -> Request], \A v \in Worker \ {w} : req'[v] = req[v], HandlerOK(w)',
           DOMAIN contract' = DOMAIN contract, IsTable(contract', Contract, ContractRow),
           IsTable(plan', Plan, PlanRow), IsTable(record', Record, RecordRow), RecordsHaveContracts'
    PROVE  TypeInv'
<1>1. ASSUME NEW v \in Worker \ {w} PROVE HandlerOK(v)'
  BY DEF TypeInv, HandlerOK
<1> QED
  BY <1>1 DEF TypeInv, TypeOK

\* What a handler's own moves leave of its request.
LEMMA AnswerFrame ==
    ASSUME TypeInv, NEW w \in Worker, Answer(w)
    PROVE  /\ req' \in [Worker -> Request]
           /\ \A v \in Worker \ {w} : req'[v] = req[v]
           /\ req'[w] = Idle
           /\ HandlerOK(w)'
BY IdleIsRequest DEF TypeInv, TypeOK, Answer, HandlerOK, Idle, AtRecord, AtSettle

LEMMA SettleFrame ==
    ASSUME TypeInv, NEW w \in Worker, NEW c \in DOMAIN contract, Settle(w, c), UNCHANGED contract
    PROVE  /\ req' \in [Worker -> Request]
           /\ \A v \in Worker \ {w} : req'[v] = req[v]
           /\ HandlerOK(w)'
<1> DEFINE job == [Idle EXCEPT !.at = "settle_read", !.contract = c]
<1>1. job \in Request
  BY IdleIsRequest DEF Idle, Request, At, TypeInv, TypeOK, IsTable
<1>2. job.at = "settle_read" /\ job.contract = c
  BY DEF Idle
<1>3. req' = [req EXCEPT ![w] = job]
  BY DEF Settle
<1> HIDE DEF job
<1> QED
  BY <1>1, <1>2, <1>3 DEF TypeInv, TypeOK, HandlerOK, AtRecord, AtSettle

LEMMA MoveFrame ==
    ASSUME TypeInv, NEW w \in Worker, NEW at \in At,
           NEW s \in ContractStatus \cup PlanStatus \cup {None},
           req' = [req EXCEPT ![w].at = at, ![w].status = s]
    PROVE  /\ req' \in [Worker -> Request]
           /\ \A v \in Worker \ {w} : req'[v] = req[v]
           /\ req'[w] = [req[w] EXCEPT !.at = at, !.status = s]
BY DEF TypeInv, TypeOK, Request

LEMMA TypeStep ==
    ASSUME TypeInv, NEW w \in Worker, Step(w)
    PROVE  TypeInv'
<1> USE ConstantsAssumption
<1>1. ASSUME UpdateWrite(w) PROVE TypeInv'
  <2>1. req[w].amount \in Amounts
    BY <1>1 DEF UpdateWrite, TypeInv, HandlerOK
  <2>2. IsTable(contract', Contract, ContractRow) /\ DOMAIN contract' = DOMAIN contract
    BY <1>1, <2>1, ContractWrites DEF UpdateWrite, TypeInv, TypeOK, ContractStatus
  <2> QED
    BY <1>1, <2>2, AnswerFrame, TypeFrame DEF UpdateWrite, TypeInv, TypeOK, RecordsHaveContracts
<1>2. ASSUME ChangeStatusWrite(w) \/ SettleWrite(w) PROVE TypeInv'
  <2>1. req[w].status \in ContractStatus
    BY <1>2 DEF ChangeStatusWrite, SettleWrite, TypeInv, HandlerOK
  <2>2. /\ contract' = [contract EXCEPT ![req[w].contract].status = req[w].status]
        /\ Answer(w) /\ UNCHANGED <<plan, record>>
    BY <1>2 DEF ChangeStatusWrite, SettleWrite
  <2>3. IsTable(contract', Contract, ContractRow) /\ DOMAIN contract' = DOMAIN contract
    BY <2>1, <2>2, ContractWrites DEF TypeInv, TypeOK
  <2> QED
    BY <2>2, <2>3, AnswerFrame, TypeFrame DEF TypeInv, TypeOK, RecordsHaveContracts
<1>3. ASSUME RemoveWrite(w) PROVE TypeInv'
  <2>1. IsTable(contract', Contract, ContractRow) /\ DOMAIN contract' = DOMAIN contract
    BY <1>3, ContractWrites DEF RemoveWrite, TypeInv, TypeOK, IsTable, ContractRow
  <2> QED
    BY <1>3, <2>1, AnswerFrame, TypeFrame DEF RemoveWrite, TypeInv, TypeOK, RecordsHaveContracts
<1>4. ASSUME SettleRead(w) PROVE TypeInv'
  <2>1. contract[req[w].contract] \in ContractRow
    BY <1>4 DEF SettleRead, TypeInv, TypeOK, HandlerOK, AtSettle, IsTable
  <2> QED
    BY <1>4, <2>1, IdleIsRequest DEF SettleRead, Answer, TypeInv, TypeOK, RecordsHaveContracts, HandlerOK,
       AtRecord, AtSettle, Request, At, ContractRow, Idle
<1>5. ASSUME SettleSum(w) PROVE TypeInv'
  BY <1>5, IdleIsRequest, StatusInRange DEF SettleSum, Answer, TypeInv, TypeOK, RecordsHaveContracts,
     HandlerOK, AtRecord, AtSettle, Request, At, Idle
<1>6. ASSUME CreatePlanPeriod(w) \/ CreatePlanTotal(w) \/ CreateRecordPlan(w) \/ CreateRecordTotal(w)
      PROVE  TypeInv'
  BY <1>6, IdleIsRequest DEF CreatePlanPeriod, CreatePlanTotal, CreateRecordPlan, CreateRecordTotal,
     GoTo, Answer, TypeInv, TypeOK, RecordsHaveContracts, HandlerOK, AtRecord, AtSettle, Request, At, Idle
<1>7. ASSUME CreatePlanInsert(w) \/ CreatePlansInsert(w) PROVE TypeInv'
  <2>1. IsTable(req[w].rows, Plan, PlanRow)
    BY TablesAreTables DEF TypeInv, TypeOK, Request
  <2>2. plan' = Insert(plan, req[w].rows) /\ IsTable(plan, Plan, PlanRow)
    BY <1>7 DEF CreatePlanInsert, CreatePlansInsert, TypeInv, TypeOK
  <2>3. IsTable(plan', Plan, PlanRow)
    BY <2>1, <2>2, InsertIsTable
  <2> QED
    BY <1>7, <2>3, AnswerFrame, TypeFrame
    DEF CreatePlanInsert, CreatePlansInsert, TypeInv, TypeOK, RecordsHaveContracts
<1>8. ASSUME CreatePlansDelete(w) PROVE TypeInv'
  <2>1. /\ IsTable(plan', Plan, PlanRow) /\ IsTable(record', Record, RecordRow)
        /\ RecordsHaveContracts'
    BY <1>8, DeletePlansWrites DEF CreatePlansDelete, TypeInv
  <2> QED
    BY <1>8, <2>1 DEF CreatePlansDelete, GoTo, TypeInv, TypeOK, HandlerOK, AtRecord, AtSettle, Request, At
<1>9. ASSUME RemovePlanDelete(w) PROVE TypeInv'
  <2>1. /\ IsTable(plan', Plan, PlanRow) /\ IsTable(record', Record, RecordRow)
        /\ RecordsHaveContracts'
    BY <1>9, DeletePlansWrites DEF RemovePlanDelete, TypeInv
  <2> QED
    BY <1>9, <2>1, AnswerFrame, TypeFrame DEF RemovePlanDelete, TypeInv, TypeOK
<1>10. ASSUME CreateRecordInsert(w) PROVE TypeInv'
  <2>1. req[w].at = "record_insert" /\ req[w].contract \in DOMAIN contract /\ UNCHANGED <<contract, plan>>
    BY <1>10 DEF CreateRecordInsert, TypeInv, HandlerOK, AtRecord
  <2>2. CASE record' = Insert(record, NewRecord(w)) /\ Settle(w, req[w].contract)
    BY <2>1, <2>2, NewRecordWrites, SettleFrame, TypeFrame DEF TypeInv, TypeOK
  <2>3. CASE UNCHANGED record /\ Answer(w)
    BY <2>1, <2>3, AnswerFrame, TypeFrame DEF TypeInv, TypeOK, RecordsHaveContracts
  <2>4. ASSUME NEW s \in PlanStatus, UNCHANGED record,
               req' = [req EXCEPT ![w].at = "record_commit", ![w].status = s]
        PROVE  TypeInv'
    <3>1. HandlerOK(w)'
      BY <2>1, <2>4 DEF TypeInv, TypeOK, HandlerOK, AtRecord, AtSettle, Request
    <3> QED
      BY <2>1, <2>4, <3>1, MoveFrame, TypeFrame DEF TypeInv, TypeOK, RecordsHaveContracts, At
  <2> QED
    BY <1>10, <2>2, <2>3, <2>4, StatusInRange DEF CreateRecordInsert
<1>11. ASSUME CreateRecordCommit(w) PROVE TypeInv'
  <2>1. req[w].contract \in DOMAIN contract /\ req[w].status \in PlanStatus
    BY <1>11 DEF CreateRecordCommit, TypeInv, HandlerOK, AtRecord
  <2>2. IsTable(plan', Plan, PlanRow)
    BY <1>11, <2>1, PlanStatusWrite DEF CreateRecordCommit, TypeInv, TypeOK
  <2> QED
    BY <1>11, <2>1, <2>2, NewRecordWrites, SettleFrame, TypeFrame DEF CreateRecordCommit, TypeInv, TypeOK
<1>12. ASSUME RemoveRecordDelete(w) PROVE TypeInv'
  <2>1. req[w].at = "row_delete" /\ req[w].contract \in DOMAIN contract /\ UNCHANGED <<contract, plan>>
    BY <1>12 DEF RemoveRecordDelete, TypeInv, HandlerOK
  <2>2. CASE record' = Without(record, {req[w].record}) /\ Settle(w, req[w].contract)
    BY <2>1, <2>2, WithoutRecordWrites, SettleFrame, TypeFrame DEF TypeInv, TypeOK
  <2>3. CASE UNCHANGED record /\ Answer(w)
    BY <2>1, <2>3, AnswerFrame, TypeFrame DEF TypeInv, TypeOK, RecordsHaveContracts
  <2>4. ASSUME NEW s \in PlanStatus, UNCHANGED record,
               req' = [req EXCEPT ![w].at = "delete_commit", ![w].status = s]
        PROVE  TypeInv'
    <3>1. HandlerOK(w)'
      BY <2>1, <2>4 DEF TypeInv, TypeOK, HandlerOK, AtRecord, AtSettle, Request
    <3> QED
      BY <2>1, <2>4, <3>1, MoveFrame, TypeFrame DEF TypeInv, TypeOK, RecordsHaveContracts, At
  <2> QED
    BY <1>12, <2>2, <2>3, <2>4, StatusInRange DEF RemoveRecordDelete
<1>13. ASSUME RemoveRecordCommit(w) PROVE TypeInv'
  <2>1. req[w].contract \in DOMAIN contract /\ req[w].status \in PlanStatus
    BY <1>13 DEF RemoveRecordCommit, TypeInv, HandlerOK
  <2>2. IsTable(plan', Plan, PlanRow)
    BY <1>13, <2>1, PlanStatusWrite DEF RemoveRecordCommit, TypeInv, TypeOK
  <2> QED
    BY <1>13, <2>1, <2>2, WithoutRecordWrites, SettleFrame, TypeFrame
    DEF RemoveRecordCommit, TypeInv, TypeOK
<1> QED
  BY <1>1, <1>2, <1>3, <1>4, <1>5, <1>6, <1>7, <1>8, <1>9, <1>10, <1>11, <1>12, <1>13 DEF Step

LEMMA TypeNext ==
    ASSUME TypeInv, [Next]_vars
    PROVE  TypeInv'
<1>1. ASSUME NEW c \in Contract, NEW a \in Amounts, Create(c, a) PROVE TypeInv'
  <2>1. IsTable([i \in {c} |-> [status |-> "DRAFT", amount |-> a, deleted |-> FALSE]],
                Contract, ContractRow)
    BY DEF IsTable, ContractRow, ContractStatus
  <2>2. contract' = Insert(contract, [i \in {c} |-> [status |-> "DRAFT", amount |-> a, deleted |-> FALSE]])
    BY <1>1 DEF Create
  <2>3. IsTable(contract', Contract, ContractRow)
    BY <2>1, <2>2, InsertIsTable DEF TypeInv, TypeOK
  <2>4. DOMAIN contract \subseteq DOMAIN contract'
    BY <2>2 DEF Insert
  <2> QED
    BY <1>1, <2>3, <2>4 DEF Create, TypeInv, TypeOK, RecordsHaveContracts, HandlerOK
<1>2. ASSUME NEW w \in Worker, Fail(w) PROVE TypeInv'
  BY <1>2, AnswerFrame, TypeFrame DEF Fail, TypeInv, TypeOK, RecordsHaveContracts
<1>3. CASE UNCHANGED vars
  BY <1>3 DEF vars, TypeInv, TypeOK, RecordsHaveContracts, HandlerOK
<1> QED
  BY <1>1, <1>2, <1>3, TypeAsk, TypeStep DEF Next

\* Every handler keeps the tables and its own request well typed, and records
\* belong to contracts that exist (every operation of both services).
THEOREM TypeCorrect == Spec => []TypeOK
<1>1. TypeInv /\ [Next]_vars => TypeInv'
  BY TypeNext
<1>2. TypeInv => TypeOK
  BY DEF TypeInv
<1> QED
  BY <1>1, <1>2, TypeInit, PTL DEF Spec

-----------------------------------------------------------------------------
(***************************************************************************)
(* Records stay filed under existing plans of their own contracts: the     *)
(* inductive invariant is RecordPlanInv, with the types.                   *)
(***************************************************************************)
LEMMA RowsArePlans ==
    ASSUME TypeInv, NEW w \in Worker
    PROVE  IsTable(req[w].rows, Plan, PlanRow) /\ DOMAIN req[w].rows \subseteq Plan
BY TablesAreTables DEF TypeInv, TypeOK, Request, IsTable

\* A request that is only beginning.
LEMMA PlanAsk ==
    ASSUME TypeInv, RecordPlanInv, NEW w \in Worker, NEW job,
           req' = [req EXCEPT ![w] = job], UNCHANGED <<plan, record>>,
           DOMAIN job.rows \subseteq FreshPlan,
           job.at \in AtOpen => job.at = "record_total" /\ job.plan = None
    PROVE  RecordPlanInv'
<1>1. req'[w] = job /\ \A v \in Worker \ {w} : req'[v] = req[v]
  BY DEF TypeInv, TypeOK
<1>2. None \notin Plan
  BY ConstantsAssumption
<1>3. \A v \in Worker : PlanOfRequest(v)'
  BY <1>1, <1>2 DEF RecordPlanInv, PlanOfRequest, AtOpen, TypeInv, TypeOK, IsTable
<1>4. \A v \in Worker : NewPlansAreNew(v)'
  BY <1>1, <1>2, RowsArePlans DEF RecordPlanInv, NewPlansAreNew, FreshPlan, AtOpen
<1> QED
  BY <1>3, <1>4 DEF RecordPlanInv, RecordPlanConsistent, PlansOf

\* A request that goes on or ends without touching plans and records.
LEMMA PlanMove ==
    ASSUME TypeInv, RecordPlanInv, NEW w \in Worker,
           \A v \in Worker \ {w} : req'[v] = req[v],
           UNCHANGED <<plan, record>>,
           DOMAIN req'[w].rows \subseteq DOMAIN req[w].rows,
           req'[w].at \in AtOpen => /\ req'[w].plan = req[w].plan
                                    /\ req'[w].contract = req[w].contract
                                    /\ req[w].at \in AtOpen \/ req[w].plan \in PlansOf(req[w].contract),
           req'[w].at = "record_commit" => req[w].plan \in DOMAIN plan
    PROVE  RecordPlanInv'
<1>1. \A v \in Worker : PlanOfRequest(v)'
  BY DEF RecordPlanInv, PlanOfRequest, PlansOf, AtOpen
<1>2. \A v \in Worker : NewPlansAreNew(v)'
  BY DEF RecordPlanInv, NewPlansAreNew, PlansOf
<1> QED
  BY <1>1, <1>2 DEF RecordPlanInv, RecordPlanConsistent, PlansOf

\* Plans are inserted that nobody refers to, and deleted where nobody holds them.
LEMMA PlanInsert ==
    ASSUME TypeInv, RecordPlanInv, NEW w \in Worker,
           plan' = Insert(plan, req[w].rows), Answer(w), UNCHANGED record
    PROVE  RecordPlanInv'
<1>1. req'[w] = Idle /\ \A v \in Worker \ {w} : req'[v] = req[v]
  BY AnswerFrame
<1>2. DOMAIN Idle.rows = {} /\ Idle.at \notin AtOpen
  BY DEF Idle, AtOpen
<1>3. /\ DOMAIN plan' = DOMAIN plan \cup DOMAIN req[w].rows
      /\ \A p \in DOMAIN plan : p \in DOMAIN plan' /\ plan'[p] = plan[p]
  BY DEF Insert, RecordPlanInv, NewPlansAreNew
<1>4. \A v \in Worker : PlanOfRequest(v)'
  BY <1>1, <1>2, <1>3 DEF RecordPlanInv, PlanOfRequest, NewPlansAreNew, AtOpen
<1>5. \A v \in Worker : NewPlansAreNew(v)'
  BY <1>1, <1>2, <1>3 DEF RecordPlanInv, NewPlansAreNew
<1>6. RecordPlanConsistent'
  BY <1>3 DEF RecordPlanInv, RecordPlanConsistent, PlansOf
<1> QED
  BY <1>4, <1>5, <1>6 DEF RecordPlanInv

LEMMA PlanDelete ==
    ASSUME TypeInv, RecordPlanInv, NEW w \in Worker, NEW ids, DeletePlans(ids),
           \A v \in Worker \ {w} : req'[v] = req[v],
           DOMAIN req'[w].rows \subseteq DOMAIN req[w].rows, req'[w].at \notin AtOpen
    PROVE  RecordPlanInv'
<1>1. /\ DOMAIN plan' = DOMAIN plan \ ids
      /\ \A p \in DOMAIN plan' : plan'[p] = plan[p]
  BY DEF DeletePlans, Without
<1>2. /\ DOMAIN record' = DOMAIN record
      /\ \A r \in DOMAIN record :
            /\ record[r].plan \in ids => record'[r].plan = None
            /\ record[r].plan \notin ids => record'[r] = record[r]
            /\ record'[r].contract = record[r].contract
  BY DEF DeletePlans, TypeInv, TypeOK, IsTable, RecordRow
<1>3. \A v \in Worker : PlanOfRequest(v)'
  BY <1>1 DEF RecordPlanInv, PlanOfRequest, DeletePlans, Unlocked, AtOpen
<1>4. \A v \in Worker : NewPlansAreNew(v)'
  BY <1>1 DEF RecordPlanInv, NewPlansAreNew
<1>5. RecordPlanConsistent'
  BY <1>1, <1>2 DEF RecordPlanInv, RecordPlanConsistent, PlansOf
<1> QED
  BY <1>3, <1>4, <1>5 DEF RecordPlanInv

\* A record is inserted under the plan of its request.
LEMMA PlanRecord ==
    ASSUME TypeInv, RecordPlanInv, NEW w \in Worker, req[w].at \in AtOpen,
           req[w].plan = None \/ req[w].plan \in DOMAIN plan,
           record' = Insert(record, NewRecord(w)), Settle(w, req[w].contract),
           DOMAIN plan' = DOMAIN plan,
           \A p \in DOMAIN plan : plan'[p].contract = plan[p].contract
    PROVE  RecordPlanInv'
<1>1. /\ req'[w].at = "settle_read" /\ DOMAIN req'[w].rows = {}
      /\ \A v \in Worker \ {w} : req'[v] = req[v]
  BY DEF Settle, Idle, TypeInv, TypeOK
<1>2. \A r \in DOMAIN record' :
         \/ record'[r].contract = req[w].contract /\ record'[r].plan = req[w].plan
         \/ r \in DOMAIN record /\ record'[r] = record[r]
  BY DEF Insert, NewRecord
<1>3. req[w].plan \in DOMAIN plan => plan[req[w].plan].contract = req[w].contract
  BY DEF RecordPlanInv, PlanOfRequest
<1>4. \A v \in Worker : PlanOfRequest(v)'
  BY <1>1 DEF RecordPlanInv, PlanOfRequest, AtOpen
<1>5. \A v \in Worker : NewPlansAreNew(v)'
  BY <1>1 DEF RecordPlanInv, NewPlansAreNew, AtOpen
<1>6. RecordPlanConsistent'
  BY <1>2, <1>3 DEF RecordPlanInv, RecordPlanConsistent, PlansOf
<1> QED
  BY <1>4, <1>5, <1>6 DEF RecordPlanInv

LEMMA PlanUnrecord ==
    ASSUME TypeInv, RecordPlanInv, NEW w \in Worker, NEW c,
           record' = Without(record, {req[w].record}), Settle(w, c),
           DOMAIN plan' = DOMAIN plan,
           \A p \in DOMAIN plan : plan'[p].contract = plan[p].contract
    PROVE  RecordPlanInv'
<1>1. /\ req'[w].at = "settle_read" /\ DOMAIN req'[w].rows = {}
      /\ \A v \in Worker \ {w} : req'[v] = req[v]
  BY DEF Settle, Idle, TypeInv, TypeOK
<1>2. \A v \in Worker : PlanOfRequest(v)'
  BY <1>1 DEF RecordPlanInv, PlanOfRequest, AtOpen
<1>3. \A v \in Worker : NewPlansAreNew(v)'
  BY <1>1 DEF RecordPlanInv, NewPlansAreNew, AtOpen
<1>4. RecordPlanConsistent'
  BY DEF RecordPlanInv, RecordPlanConsistent, PlansOf, Without
<1> QED
  BY <1>2, <1>3, <1>4 DEF RecordPlanInv

LEMMA PlanAskStep ==
    ASSUME TypeInv, RecordPlanInv, NEW w \in Worker, Ask(w)
    PROVE  RecordPlanInv'
<1> DEFINE Begins(job) ==
              /\ req' = [req EXCEPT ![w] = job]
              /\ UNCHANGED <<plan, record>>
              /\ DOMAIN job.rows \subseteq FreshPlan
              /\ job.at \in AtOpen => job.at = "record_total" /\ job.plan = None
<1> SUFFICES \E job : Begins(job)
  BY PlanAsk
<1> USE DEF Start, AtOpen
<1>1. ASSUME NEW c \in Contract, NEW a \in Amounts, UpdateRead(w, c, a) PROVE \E job : Begins(job)
  <2> DEFINE job == [Idle EXCEPT !.at = "amount_write", !.contract = c, !.amount = a]
  <2>1. job.at = "amount_write" /\ DOMAIN job.rows = {}
    BY DEF Idle
  <2> QED
    BY <1>1, <2>1 DEF UpdateRead
<1>2. ASSUME NEW c \in Contract, NEW s \in ContractStatus, ChangeStatusRead(w, c, s)
      PROVE  \E job : Begins(job)
  <2> DEFINE job == [Idle EXCEPT !.at = "status_write", !.contract = c, !.status = s]
  <2>1. job.at = "status_write" /\ DOMAIN job.rows = {}
    BY DEF Idle
  <2> QED
    BY <1>2, <2>1 DEF ChangeStatusRead
<1>3. ASSUME NEW c \in Contract, RemoveRead(w, c) PROVE \E job : Begins(job)
  <2> DEFINE job == [Idle EXCEPT !.at = "remove_write", !.contract = c]
  <2>1. job.at = "remove_write" /\ DOMAIN job.rows = {}
    BY DEF Idle
  <2> QED
    BY <1>3, <2>1 DEF RemoveRead
<1>4. ASSUME NEW c \in Contract, NEW p \in Plan, NEW row \in NewPlanRow(c), CreatePlanRead(w, p, row)
      PROVE  \E job : Begins(job)
  <2> DEFINE job == [Idle EXCEPT !.at = "plan_period", !.contract = row.contract,
                                 !.limit = contract[row.contract].amount, !.rows = [i \in {p} |-> row]]
  <2>1. job.at = "plan_period" /\ DOMAIN job.rows = {p}
    BY DEF Idle
  <2>2. p \in FreshPlan
    BY <1>4 DEF CreatePlanRead
  <2> QED
    BY <1>4, <2>1, <2>2 DEF CreatePlanRead
<1>5. ASSUME NEW c \in Contract, NEW ids \in SUBSET Plan, NEW rows \in [ids -> NewPlanRow(c)],
             CreatePlansRead(w, c, rows)
      PROVE  \E job : Begins(job)
  <2> DEFINE job == [Idle EXCEPT !.at = "batch_delete", !.contract = c, !.rows = rows]
  <2>1. job.at = "batch_delete" /\ job.rows = rows
    BY DEF Idle
  <2>2. DOMAIN rows \subseteq FreshPlan
    BY <1>5 DEF CreatePlansRead
  <2> QED
    BY <1>5, <2>1, <2>2 DEF CreatePlansRead
<1>6. ASSUME NEW p \in Plan, RemovePlanRead(w, p) PROVE \E job : Begins(job)
  <2> DEFINE job == [Idle EXCEPT !.at = "plan_delete", !.plan = p]
  <2>1. job.at = "plan_delete" /\ DOMAIN job.rows = {}
    BY DEF Idle
  <2> QED
    BY <1>6, <2>1 DEF RemovePlanRead
<1>7. ASSUME NEW r \in Record, NEW row \in RecordRow, CreateRecordRead(w, r, row)
      PROVE  \E job : Begins(job)
  <2> DEFINE job == [Idle EXCEPT !.at = IF row.plan = None THEN "record_total" ELSE "record_plan",
                                 !.contract = row.contract, !.plan = row.plan, !.record = r,
                                 !.amount = row.amount, !.limit = contract[row.contract].amount]
  <2>1. /\ job.at = IF row.plan = None THEN "record_total" ELSE "record_plan"
        /\ job.plan = row.plan /\ DOMAIN job.rows = {}
    BY DEF Idle
  <2> QED
    <3>1. req' = [req EXCEPT ![w] = job] /\ UNCHANGED <<plan, record>>
      BY <1>7 DEF CreateRecordRead
    <3> HIDE DEF job
    <3> QED
      BY <2>1, <3>1
<1>8. ASSUME NEW r \in Record, RemoveRecordRead(w, r) PROVE \E job : Begins(job)
  <2> DEFINE job == [Idle EXCEPT !.at = "row_delete", !.contract = record[r].contract,
                                 !.plan = record[r].plan, !.record = r]
  <2>1. job.at = "row_delete" /\ DOMAIN job.rows = {}
    BY DEF Idle
  <2> QED
    BY <1>8, <2>1 DEF RemoveRecordRead
<1> QED
  BY <1>1, <1>2, <1>3, <1>4, <1>5, <1>6, <1>7, <1>8 DEF Ask

LEMMA PlanStep ==
    ASSUME TypeInv, RecordPlanInv, NEW w \in Worker, Step(w)
    PROVE  RecordPlanInv'
<1> DEFINE Quits == req'[w].at \notin AtOpen /\ DOMAIN req'[w].rows \subseteq DOMAIN req[w].rows
<1>1. Answer(w) => Quits /\ \A v \in Worker \ {w} : req'[v] = req[v]
  BY AnswerFrame DEF Idle, AtOpen
<1>2. ASSUME NEW at, GoTo(w, at)
      PROVE  /\ req'[w].at = at /\ req'[w].rows = req[w].rows
             /\ req'[w].plan = req[w].plan /\ req'[w].contract = req[w].contract
             /\ \A v \in Worker \ {w} : req'[v] = req[v]
  BY <1>2 DEF GoTo, TypeInv, TypeOK, Request
<1>3. ASSUME Quits, UNCHANGED <<plan, record>>, \A v \in Worker \ {w} : req'[v] = req[v]
      PROVE  RecordPlanInv'
  BY <1>3, PlanMove DEF AtOpen
<1>4. ASSUME \/ UpdateWrite(w) \/ ChangeStatusWrite(w) \/ RemoveWrite(w) \/ SettleWrite(w)
      PROVE  RecordPlanInv'
  BY <1>1, <1>3, <1>4 DEF UpdateWrite, ChangeStatusWrite, RemoveWrite, SettleWrite
<1>5. ASSUME SettleRead(w) \/ SettleSum(w) PROVE RecordPlanInv'
  <2>1. UNCHANGED <<plan, record>>
    BY <1>5 DEF SettleRead, SettleSum
  <2>2. Quits /\ \A v \in Worker \ {w} : req'[v] = req[v]
    BY <1>1, <1>5 DEF SettleRead, SettleSum, AtOpen, TypeInv, TypeOK, Request
  <2> QED
    BY <1>3, <2>1, <2>2
<1>6. ASSUME CreatePlanPeriod(w) \/ CreatePlanTotal(w) PROVE RecordPlanInv'
  <2>1. UNCHANGED <<plan, record>> /\ (Answer(w) \/ GoTo(w, "plan_total") \/ GoTo(w, "plan_insert"))
    BY <1>6 DEF CreatePlanPeriod, CreatePlanTotal
  <2> QED
    BY <1>1, <1>2, <1>3, <2>1 DEF AtOpen
<1>7. ASSUME CreatePlanInsert(w) \/ CreatePlansInsert(w) PROVE RecordPlanInv'
  BY <1>7, PlanInsert DEF CreatePlanInsert, CreatePlansInsert
<1>8. ASSUME CreatePlansDelete(w) PROVE RecordPlanInv'
  <2>1. DeletePlans(PlansOf(req[w].contract)) /\ GoTo(w, "batch_insert")
    BY <1>8 DEF CreatePlansDelete
  <2> QED
    BY <1>2, <2>1, PlanDelete DEF AtOpen
<1>9. ASSUME RemovePlanDelete(w) PROVE RecordPlanInv'
  <2>1. DeletePlans({req[w].plan} \cap DOMAIN plan) /\ Answer(w)
    BY <1>9 DEF RemovePlanDelete
  <2> QED
    BY <1>1, <2>1, PlanDelete
<1>10. ASSUME CreateRecordPlan(w) \/ CreateRecordTotal(w) PROVE RecordPlanInv'
  <2>1. UNCHANGED <<plan, record>>
    BY <1>10 DEF CreateRecordPlan, CreateRecordTotal
  <2>2. \/ Answer(w)
        \/ /\ GoTo(w, "record_total") \/ GoTo(w, "record_insert")
           /\ req[w].at \in AtOpen \/ req[w].plan \in PlansOf(req[w].contract)
    BY <1>10 DEF CreateRecordPlan, CreateRecordTotal, AtOpen
  <2>3. CASE Answer(w)
    BY <1>1, <1>3, <2>1, <2>3
  <2>4. CASE /\ GoTo(w, "record_total") \/ GoTo(w, "record_insert")
             /\ req[w].at \in AtOpen \/ req[w].plan \in PlansOf(req[w].contract)
    BY <1>2, <2>1, <2>4, PlanMove
  <2> QED
    BY <2>2, <2>3, <2>4
<1>11. ASSUME CreateRecordInsert(w) PROVE RecordPlanInv'
  <2>1. req[w].at \in AtOpen /\ UNCHANGED plan
    BY <1>11 DEF CreateRecordInsert, AtOpen
  <2>2. CASE req[w].plan = None /\ record' = Insert(record, NewRecord(w)) /\ Settle(w, req[w].contract)
    BY <2>1, <2>2, PlanRecord
  <2>3. CASE UNCHANGED record /\ Answer(w)
    BY <1>1, <1>3, <2>1, <2>3
  <2>4. ASSUME NEW s \in PlanStatus, UNCHANGED record, req[w].plan \in DOMAIN plan,
               req' = [req EXCEPT ![w].at = "record_commit", ![w].status = s]
        PROVE  RecordPlanInv'
    <3>1. /\ req'[w].rows = req[w].rows /\ req'[w].plan = req[w].plan
          /\ req'[w].contract = req[w].contract
          /\ \A v \in Worker \ {w} : req'[v] = req[v]
      BY <2>4 DEF TypeInv, TypeOK, Request
    <3> QED
      BY <2>1, <2>4, <3>1, PlanMove
  <2> QED
    BY <1>11, <2>2, <2>3, <2>4, StatusInRange DEF CreateRecordInsert
<1>12. ASSUME CreateRecordCommit(w) PROVE RecordPlanInv'
  <2>1. req[w].at \in AtOpen /\ req[w].plan \in DOMAIN plan
    BY <1>12 DEF CreateRecordCommit, AtOpen, RecordPlanInv, PlanOfRequest
  <2>2. /\ DOMAIN plan' = DOMAIN plan
        /\ \A p \in DOMAIN plan : plan'[p].contract = plan[p].contract
    BY <1>12 DEF CreateRecordCommit, TypeInv, TypeOK, IsTable, PlanRow
  <2> QED
    BY <1>12, <2>1, <2>2, PlanRecord DEF CreateRecordCommit
<1>13. ASSUME RemoveRecordDelete(w) PROVE RecordPlanInv'
  <2>1. UNCHANGED plan
    BY <1>13 DEF RemoveRecordDelete
  <2>2. CASE record' = Without(record, {req[w].record}) /\ Settle(w, req[w].contract)
    BY <2>1, <2>2, PlanUnrecord
  <2>3. CASE UNCHANGED record /\ Answer(w)
    BY <1>1, <1>3, <2>1, <2>3
  <2>4. ASSUME NEW s \in PlanStatus, UNCHANGED record,
               req' = [req EXCEPT ![w].at = "delete_commit", ![w].status = s]
        PROVE  RecordPlanInv'
    <3>1. Quits /\ \A v \in Worker \ {w} : req'[v] = req[v]
      BY <2>4 DEF TypeInv, TypeOK, Request, AtOpen
    <3> QED
      BY <1>3, <2>1, <2>4, <3>1
  <2> QED
    BY <1>13, <2>2, <2>3, <2>4, StatusInRange DEF RemoveRecordDelete
<1>14. ASSUME RemoveRecordCommit(w) PROVE RecordPlanInv'
  <2>1. /\ DOMAIN plan' = DOMAIN plan
        /\ \A p \in DOMAIN plan : plan'[p].contract = plan[p].contract
    BY <1>14 DEF RemoveRecordCommit, TypeInv, TypeOK, IsTable, PlanRow
  <2> QED
    BY <1>14, <2>1, PlanUnrecord DEF RemoveRecordCommit
<1> QED
  BY <1>4, <1>5, <1>6, <1>7, <1>8, <1>9, <1>10, <1>11, <1>12, <1>13, <1>14 DEF Step

LEMMA PlanNext ==
    ASSUME TypeInv, RecordPlanInv, [Next]_vars
    PROVE  RecordPlanInv'
<1>1. ASSUME UNCHANGED <<plan, record, req>> PROVE RecordPlanInv'
  BY <1>1 DEF RecordPlanInv, RecordPlanConsistent, PlansOf, PlanOfRequest, NewPlansAreNew
<1>2. ASSUME NEW c \in Contract, NEW a \in Amounts, Create(c, a) PROVE RecordPlanInv'
  BY <1>1, <1>2 DEF Create
<1>3. ASSUME NEW w \in Worker, Fail(w) PROVE RecordPlanInv'
  <2>1. /\ req'[w].at \notin AtOpen /\ DOMAIN req'[w].rows = {}
        /\ \A v \in Worker \ {w} : req'[v] = req[v]
    BY <1>3, AnswerFrame DEF Fail, Idle, AtOpen
  <2> QED
    BY <1>3, <2>1, PlanMove DEF Fail, AtOpen
<1>4. CASE UNCHANGED vars
  BY <1>1, <1>4 DEF vars
<1> QED
  BY <1>2, <1>3, <1>4, PlanAskStep, PlanStep DEF Next

LEMMA PlanInit == Init => RecordPlanInv
BY DEF Init, Idle, RecordPlanInv, RecordPlanConsistent, PlansOf, PlanOfRequest, NewPlansAreNew, AtOpen

\* Whatever overlaps and fails, the invariant on requests and plans holds at
\* every await (createPlan, createPlans, removePlan, createRecord, removeRecord).
THEOREM PlansOfRequestsCorrect == Spec => []RecordPlanInv
<1>1. TypeInv /\ RecordPlanInv /\ [Next]_vars => TypeInv' /\ RecordPlanInv'
  BY TypeNext, PlanNext
<1> QED
  BY <1>1, TypeInit, PlanInit, PTL DEF Spec

\* Whatever overlaps and fails, a record is filed under an existing plan of its
\* own contract or under none (the same operations).
THEOREM RecordPlansCorrect == Spec => []RecordPlanConsistent
<1>1. RecordPlanInv => RecordPlanConsistent
  BY DEF RecordPlanInv
<1> QED
  BY <1>1, PlansOfRequestsCorrect, PTL

-----------------------------------------------------------------------------
(***************************************************************************)
(* What a step does to the records: nothing that an amount or a contract   *)
(* depends on, or it inserts the record of its request, or deletes it.     *)
(***************************************************************************)
NewRecordIsNew(w) ==
    req[w].at \in AtRecord =>
        /\ req[w].record \notin DOMAIN record
        /\ \A v \in Worker \ {w} : req[v].record # req[w].record

RecordInv == TypeInv /\ RecordPlanInv /\ \A w \in Worker : NewRecordIsNew(w)

SameRecords ==
    /\ DOMAIN record' = DOMAIN record
    /\ \A r \in DOMAIN record :
          record'[r].amount = record[r].amount /\ record'[r].contract = record[r].contract

\* The request of w goes on, or it is over for the record it names.
GoesOn(w) ==
    /\ \A v \in Worker \ {w} : req'[v] = req[v]
    /\ req'[w].record \in {req[w].record, None}
    /\ req'[w].at \in AtRecord =>
          /\ req[w].at \in AtRecord
          /\ req'[w].record = req[w].record /\ req'[w].amount = req[w].amount
          /\ req'[w].contract = req[w].contract /\ req'[w].plan = req[w].plan
          /\ req'[w].limit = req[w].limit

Inserts(w) ==
    /\ req[w].at \in {"record_insert", "record_commit"}
    /\ record' = Insert(record, NewRecord(w))
    /\ Settle(w, req[w].contract)
Deletes(w) ==
    /\ req[w].at \in {"row_delete", "delete_commit"}
    /\ record' = Without(record, {req[w].record})
    /\ Settle(w, req[w].contract)

LEMMA AnswerGoesOn ==
    ASSUME TypeInv, NEW w \in Worker, Answer(w)
    PROVE  GoesOn(w) /\ req'[w].at = "idle"
BY AnswerFrame DEF Idle, GoesOn, AtRecord

LEMMA GoToGoesOn ==
    ASSUME TypeInv, NEW w \in Worker, NEW at, GoTo(w, at), at \in AtRecord => req[w].at \in AtRecord
    PROVE  GoesOn(w) /\ req'[w].at = at
BY DEF GoTo, TypeInv, TypeOK, Request, GoesOn

LEMMA SettleGoesOn ==
    ASSUME TypeInv, NEW w \in Worker, NEW c, Settle(w, c)
    PROVE  GoesOn(w) /\ req'[w].at = "settle_read"
BY DEF Settle, TypeInv, TypeOK, Idle, GoesOn, AtRecord

LEMMA DeleteKeepsRecords ==
    ASSUME TypeInv, NEW ids, DeletePlans(ids)
    PROVE  SameRecords
BY DEF DeletePlans, SameRecords, TypeInv, TypeOK, IsTable, RecordRow

LEMMA RecordEffect ==
    ASSUME TypeInv, NEW w \in Worker, Step(w) \/ Fail(w)
    PROVE  /\ GoesOn(w)
           /\ SameRecords \/ Inserts(w) \/ Deletes(w)
<1> USE DEF SameRecords
<1>1. ASSUME \/ UpdateWrite(w) \/ ChangeStatusWrite(w) \/ RemoveWrite(w) \/ SettleWrite(w)
             \/ CreatePlanInsert(w) \/ CreatePlansInsert(w) \/ Fail(w)
      PROVE  GoesOn(w) /\ SameRecords
  BY <1>1, AnswerGoesOn DEF UpdateWrite, ChangeStatusWrite, RemoveWrite, SettleWrite,
     CreatePlanInsert, CreatePlansInsert, Fail
<1>2. ASSUME SettleRead(w) \/ SettleSum(w) PROVE GoesOn(w) /\ SameRecords
  <2>1. CASE Answer(w)
    BY <1>2, <2>1, AnswerGoesOn DEF SettleRead, SettleSum
  <2>2. CASE SettleRead(w) /\ ~Answer(w)
    BY <2>2 DEF SettleRead, TypeInv, TypeOK, Request, GoesOn, AtRecord
  <2>3. CASE SettleSum(w) /\ ~Answer(w)
    BY <2>3 DEF SettleSum, TypeInv, TypeOK, Request, GoesOn, AtRecord
  <2> QED
    BY <1>2, <2>1, <2>2, <2>3
<1>3. ASSUME \/ CreatePlanPeriod(w) \/ CreatePlanTotal(w) \/ CreateRecordPlan(w) \/ CreateRecordTotal(w)
      PROVE  GoesOn(w) /\ SameRecords
  BY <1>3, AnswerGoesOn, GoToGoesOn
  DEF CreatePlanPeriod, CreatePlanTotal, CreateRecordPlan, CreateRecordTotal, AtRecord
<1>4. ASSUME CreatePlansDelete(w) PROVE GoesOn(w) /\ SameRecords
  BY <1>4, GoToGoesOn, DeleteKeepsRecords DEF CreatePlansDelete, AtRecord
<1>5. ASSUME RemovePlanDelete(w) PROVE GoesOn(w) /\ SameRecords
  BY <1>5, AnswerGoesOn, DeleteKeepsRecords DEF RemovePlanDelete
<1>6. ASSUME CreateRecordInsert(w) PROVE GoesOn(w) /\ (SameRecords \/ Inserts(w))
  <2>1. CASE Answer(w) /\ UNCHANGED record
    BY <2>1, AnswerGoesOn
  <2>2. CASE Settle(w, req[w].contract) /\ record' = Insert(record, NewRecord(w))
    BY <1>6, <2>2, SettleGoesOn DEF CreateRecordInsert, Inserts
  <2>3. ASSUME NEW s, UNCHANGED record, req' = [req EXCEPT ![w].at = "record_commit", ![w].status = s]
        PROVE  GoesOn(w) /\ SameRecords
    BY <1>6, <2>3 DEF CreateRecordInsert, TypeInv, TypeOK, Request, GoesOn, AtRecord
  <2> QED
    BY <1>6, <2>1, <2>2, <2>3 DEF CreateRecordInsert
<1>7. ASSUME CreateRecordCommit(w) PROVE GoesOn(w) /\ Inserts(w)
  BY <1>7, SettleGoesOn DEF CreateRecordCommit, Inserts
<1>8. ASSUME RemoveRecordDelete(w) PROVE GoesOn(w) /\ (SameRecords \/ Deletes(w))
  <2>1. CASE Answer(w) /\ UNCHANGED record
    BY <2>1, AnswerGoesOn
  <2>2. CASE Settle(w, req[w].contract) /\ record' = Without(record, {req[w].record})
    BY <1>8, <2>2, SettleGoesOn DEF RemoveRecordDelete, Deletes
  <2>3. ASSUME NEW s, UNCHANGED record, req' = [req EXCEPT ![w].at = "delete_commit", ![w].status = s]
        PROVE  GoesOn(w) /\ SameRecords
    BY <1>8, <2>3 DEF RemoveRecordDelete, TypeInv, TypeOK, Request, GoesOn, AtRecord
  <2> QED
    BY <1>8, <2>1, <2>2, <2>3 DEF RemoveRecordDelete
<1>9. ASSUME RemoveRecordCommit(w) PROVE GoesOn(w) /\ Deletes(w)
  BY <1>9, SettleGoesOn DEF RemoveRecordCommit, Deletes
<1> QED
  BY <1>1, <1>2, <1>3, <1>4, <1>5, <1>6, <1>7, <1>8, <1>9 DEF Step

\* A request begins without a write; what it begins with, if it carries a record.
AsksFor(w) ==
    /\ \A v \in Worker \ {w} : req'[v] = req[v]
    /\ req[w].at = "idle"
    /\ req'[w].at \notin {"record_insert", "record_commit", "settle_read", "settle_sum", "settle_write",
                          "plan_total", "plan_insert", "batch_insert", "delete_commit"}
    /\ req'[w].at = "amount_write" => "update" \in Ops
    /\ req'[w].at \in {"row_delete", "delete_commit"} => "removeRecord" \in Ops
    /\ req'[w].at \in AtRecord =>
          /\ req'[w].record \in FreshRecord
          /\ req'[w].contract \in DOMAIN contract
          /\ req'[w].limit = contract[req'[w].contract].amount
    /\ req'[w].record \in FreshRecord \cup DOMAIN record \cup {None}
    /\ \A i \in DOMAIN req'[w].rows : req'[w].rows[i].status = "PENDING"

LEMMA AskEffect ==
    ASSUME TypeInv, NEW w \in Worker, Ask(w)
    PROVE  AsksFor(w) /\ UNCHANGED <<contract, plan, record>>
<1> DEFINE Begins == AsksFor(w) /\ UNCHANGED <<contract, plan, record>>
<1> USE DEF Start, Idle, AsksFor, AtRecord, TypeInv, TypeOK
<1>1. ASSUME NEW c \in Contract, NEW a \in Amounts, UpdateRead(w, c, a) PROVE Begins
  BY <1>1 DEF UpdateRead
<1>2. ASSUME NEW c \in Contract, NEW s \in ContractStatus, ChangeStatusRead(w, c, s) PROVE Begins
  BY <1>2 DEF ChangeStatusRead
<1>3. ASSUME NEW c \in Contract, RemoveRead(w, c) PROVE Begins
  BY <1>3 DEF RemoveRead
<1>4. ASSUME NEW c \in Contract, NEW p \in Plan, NEW row \in NewPlanRow(c), CreatePlanRead(w, p, row)
      PROVE  Begins
  BY <1>4 DEF CreatePlanRead, NewPlanRow
<1>5. ASSUME NEW c \in Contract, NEW ids \in SUBSET Plan, NEW rows \in [ids -> NewPlanRow(c)],
             CreatePlansRead(w, c, rows)
      PROVE  Begins
  BY <1>5 DEF CreatePlansRead, NewPlanRow
<1>6. ASSUME NEW p \in Plan, RemovePlanRead(w, p) PROVE Begins
  BY <1>6 DEF RemovePlanRead
<1>7. ASSUME NEW r \in Record, NEW row \in RecordRow, CreateRecordRead(w, r, row) PROVE Begins
  BY <1>7 DEF CreateRecordRead, Live
<1>8. ASSUME NEW r \in Record, RemoveRecordRead(w, r) PROVE Begins
  BY <1>8 DEF RemoveRecordRead
<1> QED
  BY <1>1, <1>2, <1>3, <1>4, <1>5, <1>6, <1>7, <1>8 DEF Ask

LEMMA RecordNext ==
    ASSUME RecordInv, [Next]_vars
    PROVE  RecordInv'
<1> USE DEF RecordInv, NewRecordIsNew
<1>1. TypeInv' /\ RecordPlanInv'
  BY TypeNext, PlanNext
<1>2. \A w \in Worker : req[w].at \in AtRecord => req[w].record # None
  BY ConstantsAssumption DEF TypeInv, HandlerOK
<1>3. ASSUME NEW w \in Worker, Ask(w) PROVE RecordInv'
  <2>1. AsksFor(w) /\ UNCHANGED record
    BY <1>3, AskEffect
  <2>2. ASSUME NEW v \in Worker PROVE NewRecordIsNew(v)'
    <3>1. CASE v = w
      BY <2>1, <3>1 DEF AsksFor, FreshRecord
    <3>2. CASE v # w
      BY <1>2, <2>1, <3>2 DEF AsksFor, FreshRecord
    <3> QED
      BY <3>1, <3>2
  <2> QED
    BY <1>1, <2>2
<1>4. ASSUME NEW w \in Worker, Step(w) \/ Fail(w) PROVE RecordInv'
  <2>1. GoesOn(w) /\ (SameRecords \/ Inserts(w) \/ Deletes(w))
    BY <1>4, RecordEffect
  <2>2. DOMAIN record' \subseteq DOMAIN record \cup {req[w].record}
    BY <2>1 DEF SameRecords, Inserts, Deletes, Insert, NewRecord, Without
  <2>3. req'[w].at \in AtRecord => DOMAIN record' \subseteq DOMAIN record
    BY <2>1 DEF SameRecords, Inserts, Deletes, Settle, Idle, TypeInv, TypeOK, AtRecord, Without
  <2>4. ASSUME NEW v \in Worker PROVE NewRecordIsNew(v)'
    <3>1. CASE v = w
      BY <2>1, <2>3, <3>1 DEF GoesOn
    <3>2. CASE v # w
      BY <1>2, <2>1, <2>2, <3>2 DEF GoesOn
    <3> QED
      BY <3>1, <3>2
  <2> QED
    BY <1>1, <2>4
<1>5. CASE UNCHANGED <<record, req>>
  BY <1>1, <1>5
<1> QED
  BY <1>3, <1>4, <1>5 DEF Next, Create, vars

LEMMA RecordInit == Init => RecordInv
BY TypeInit, PlanInit DEF Init, Idle, RecordInv, NewRecordIsNew, AtRecord

-----------------------------------------------------------------------------
(***************************************************************************)
(* The bound on what overlapping requests overpay.  What is paid and what  *)
(* the requests that have passed the check carry stays within the bound:   *)
(* whoever checks adds to what is paid now, and the others in flight are   *)
(* one less than the workers.                                              *)
(***************************************************************************)
AmountsStay == "update" \notin Ops /\ Worker # {} /\ IsFiniteSet(Worker) /\ IsFiniteSet(Amounts)

Carriers(c) == {w \in Worker : req[w].at \in {"record_insert", "record_commit"} /\ req[w].contract = c}
Slack == (Cardinality(Worker) - 1) * Max(Amounts)

LimitIsAmount(w) ==
    /\ req[w].at # "amount_write"
    /\ req[w].at \in AtRecord => req[w].limit = contract[req[w].contract].amount
Bounded(c) == Paid(c) + Total(req, Carriers(c)) <= contract[c].amount + Slack

OverInv ==
    /\ AmountsStay /\ RecordInv
    /\ \A w \in Worker : LimitIsAmount(w)
    /\ \A c \in DOMAIN contract : Bounded(c)

\* Sums over records and over workers.
LEMMA RecordTotal ==
    ASSUME NEW table, IsTable(table, Record, RecordRow), NEW ids \in SUBSET DOMAIN table
    PROVE  IsFiniteSet(ids) /\ Amounted(table, ids) /\ Total(table, ids) \in Nat
<1>1. IsFiniteSet(ids)
  BY ConstantsAssumption, FS_Subset DEF IsTable
<1>2. Amounted(table, ids)
  BY ConstantsAssumption DEF Amounted, IsTable, RecordRow
<1> QED
  BY <1>1, <1>2, TotalType

LEMMA PaidIsNat ==
    ASSUME TypeInv, NEW c
    PROVE  /\ IsFiniteSet(RecordsOf(c)) /\ Amounted(record, RecordsOf(c)) /\ Paid(c) \in Nat
           /\ RecordsOf(c) \subseteq DOMAIN record
BY RecordTotal DEF TypeInv, TypeOK, RecordsOf, Paid

LEMMA PaidIsNatThen ==
    ASSUME TypeInv', NEW c
    PROVE  /\ IsFiniteSet(RecordsOf(c)') /\ Amounted(record', RecordsOf(c)') /\ Paid(c)' \in Nat
           /\ RecordsOf(c)' \subseteq DOMAIN record'
BY RecordTotal DEF TypeInv, TypeOK, RecordsOf, Paid

LEMMA CarriedIsNat ==
    ASSUME TypeInv, IsFiniteSet(Worker), NEW ws \in SUBSET Worker
    PROVE  IsFiniteSet(ws) /\ Amounted(req, ws) /\ Total(req, ws) \in Nat
<1>1. IsFiniteSet(ws)
  BY FS_Subset
<1>2. ASSUME NEW w \in ws PROVE req[w].amount \in Nat
  <2>1. req[w].amount \in Amounts \cup {0}
    BY DEF TypeInv, TypeOK, Request
  <2>2. \A a \in Amounts \cup {0} : a \in Nat
    BY ConstantsAssumption
  <2> QED
    BY <2>1, <2>2
<1>3. Amounted(req, ws)
  BY <1>2 DEF Amounted
<1> QED
  BY <1>1, <1>3, TotalType

LEMMA GreatestAmount ==
    ASSUME AmountsStay, NEW a \in Amounts
    PROVE  Max(Amounts) \in Nat /\ a <= Max(Amounts)
BY GreatestExists, ConstantsAssumption DEF AmountsStay

\* All workers but one carry at most this.
LEMMA OthersCarry ==
    ASSUME AmountsStay, TypeInv, NEW w \in Worker, NEW ws \in SUBSET (Worker \ {w}),
           \A v \in ws : req[v].amount \in Amounts, Amounts # {}
    PROVE  Total(req, ws) <= Slack
<1>1. PICK a \in Amounts : TRUE
  OBVIOUS
<1> DEFINE m == Max(Amounts)
           n == Cardinality(Worker \ {w})
           k == Cardinality(ws)
<1>2. m \in Nat /\ \A b \in Amounts : b <= m
  BY <1>1, GreatestAmount
<1>3. IsFiniteSet(ws) /\ Amounted(req, ws)
  BY CarriedIsNat DEF AmountsStay
<1>4. IsFiniteSet(Worker \ {w}) /\ n = Cardinality(Worker) - 1
  BY FS_RemoveElement DEF AmountsStay
<1>5. k \in Nat /\ n \in Nat /\ k <= n
  BY <1>3, <1>4, FS_Subset, FS_CardinalityType
<1>6. Total(req, ws) <= k * m
  <2> HIDE DEF m
  <2> QED
    BY <1>2, <1>3, TotalBounded
<1>7. k * m <= n * m
  <2> HIDE DEF m, n, k
  <2>1. PICK d \in Nat : n = k + d
    <3>1. n - k \in Nat /\ n = k + (n - k)
      BY <1>5
    <3> QED
      BY <3>1
  <2>2. (k + d) * m = k * m + d * m /\ d * m \in Nat /\ k * m \in Nat
    BY <1>2, <1>5
  <2> QED
    BY <2>1, <2>2
<1>8. Slack = n * m
  BY <1>4 DEF Slack
<1>9. Total(req, ws) \in Nat /\ k * m \in Nat /\ n * m \in Nat
  <2>1. Total(req, ws) \in Nat
    BY CarriedIsNat DEF AmountsStay
  <2> HIDE DEF m, n, k
  <2> QED
    BY <1>2, <1>5, <2>1
<1> HIDE DEF m, n, k
<1> QED
  BY <1>6, <1>7, <1>8, <1>9

LEMMA SlackIsNat ==
    ASSUME AmountsStay, Amounts # {}
    PROVE  Slack \in Nat
<1>1. Max(Amounts) \in Nat
  BY GreatestAmount
<1>2. PICK w \in Worker : TRUE
  BY DEF AmountsStay
<1>3. Cardinality(Worker \ {w}) = Cardinality(Worker) - 1 /\ Cardinality(Worker \ {w}) \in Nat
  BY FS_RemoveElement, FS_CardinalityType DEF AmountsStay
<1> DEFINE n == Cardinality(Worker \ {w})
           m == Max(Amounts)
<1>4. n * m \in Nat
  <2>1. n \in Nat /\ m \in Nat
    BY <1>1, <1>3
  <2> HIDE DEF n, m
  <2> QED
    BY <2>1
<1> QED
  BY <1>3, <1>4 DEF Slack

\* A step of w that adds neither to what is paid nor to those in flight.
LEMMA OverFrame ==
    ASSUME OverInv, TypeInv', NEW w \in Worker, GoesOn(w), NEW c \in DOMAIN contract,
           contract'[c].amount = contract[c].amount,
           Paid(c)' <= Paid(c), Carriers(c)' \subseteq Carriers(c)
    PROVE  Bounded(c)'
<1> DEFINE flying == Carriers(c)'
<1>1. flying \subseteq Worker /\ Carriers(c) \subseteq Worker
  BY DEF Carriers
<1>2. \A v \in flying : req'[v].amount = req[v].amount
  BY DEF Carriers, GoesOn, AtRecord
<1>3. Total(req', flying) = Total(req, flying)
  <2>1. IsFiniteSet(flying)
    BY <1>1, CarriedIsNat DEF OverInv, RecordInv, AmountsStay
  <2> HIDE DEF flying
  <2> QED
    BY <1>2, <2>1, TotalSame
<1>4. Total(req, flying) <= Total(req, Carriers(c))
  <2>1. IsFiniteSet(Carriers(c)) /\ Amounted(req, Carriers(c))
    BY <1>1, CarriedIsNat DEF OverInv, RecordInv, AmountsStay
  <2> HIDE DEF flying
  <2> QED
    BY <2>1, TotalGrows DEF flying
<1>5. /\ Paid(c) \in Nat /\ Paid(c)' \in Nat
      /\ Total(req, flying) \in Nat /\ Total(req, Carriers(c)) \in Nat
  <2>1. Paid(c) \in Nat
    BY PaidIsNat DEF OverInv, RecordInv
  <2>2. Paid(c)' \in Nat
    BY PaidIsNatThen
  <2>3. Total(req, flying) \in Nat /\ Total(req, Carriers(c)) \in Nat
    BY <1>1, CarriedIsNat DEF OverInv, RecordInv, AmountsStay
  <2> QED
    BY <2>1, <2>2, <2>3
<1>6. Bounded(c)
  BY DEF OverInv
<1>7. contract[c].amount \in Nat
  BY ConstantsAssumption DEF OverInv, RecordInv, TypeInv, TypeOK, IsTable, ContractRow
<1>8. Amounts # {} /\ Slack \in Nat
  BY SlackIsNat DEF OverInv, RecordInv, TypeInv, TypeOK, IsTable, ContractRow
<1> DEFINE total == Total(req', flying)
<1>9. total = Total(req, flying)
  BY <1>3
<1>10. Paid(c)' + total <= contract[c].amount + Slack
  <2> HIDE DEF flying, total
  <2> QED
    BY <1>4, <1>5, <1>6, <1>7, <1>8, <1>9 DEF Bounded
<1>11. Bounded(c)' <=> Paid(c)' + total <= contract'[c].amount + Slack
  BY DEF Bounded, Slack
<1> QED
  BY <1>10, <1>11

\* The check adds the amount of w to those in flight.
LEMMA OverCheck ==
    ASSUME OverInv, TypeInv', NEW w \in Worker, CreateRecordTotal(w), NEW c \in DOMAIN contract
    PROVE  Bounded(c)'
<1>1. /\ req[w].at = "record_total" /\ UNCHANGED <<contract, plan, record>>
      /\ Paid(c)' = Paid(c)
  BY DEF CreateRecordTotal, Paid, RecordsOf
<1>2. CASE Answer(w)
  <2>1. GoesOn(w) /\ req'[w].at = "idle"
    BY <1>2, AnswerGoesOn DEF OverInv, RecordInv
  <2>2. Carriers(c)' \subseteq Carriers(c)
    BY <2>1 DEF Carriers, GoesOn
  <2>3. Paid(c)' <= Paid(c)
    BY <1>1, PaidIsNat DEF OverInv, RecordInv
  <2> QED
    BY <1>1, <2>1, <2>2, <2>3, OverFrame
<1>3. CASE /\ GoTo(w, "record_insert")
           /\ Fits(Paid(req[w].contract) + req[w].amount, req[w].limit)
  <2>1. GoesOn(w) /\ req'[w].at = "record_insert"
    BY <1>1, <1>3, GoToGoesOn DEF OverInv, RecordInv, AtRecord
  <2>2. CASE c # req[w].contract
    <3>1. Carriers(c)' \subseteq Carriers(c)
      BY <1>1, <2>1, <2>2 DEF Carriers, GoesOn, AtRecord
    <3>2. Paid(c)' <= Paid(c)
      BY <1>1, PaidIsNat DEF OverInv, RecordInv
    <3> QED
      BY <1>1, <2>1, <3>1, <3>2, OverFrame
  <2>3. CASE c = req[w].contract
    <3> DEFINE others == Carriers(c) \ {w}
               a == req[w].amount
    <3>1. /\ Carriers(c)' = others \cup {w} /\ w \notin others
          /\ others \in SUBSET (Worker \ {w}) /\ others \cup {w} \in SUBSET Worker
          /\ \A v \in others \cup {w} : req'[v].amount = req[v].amount
      BY <2>1, <2>3 DEF Carriers, GoesOn, AtRecord
    <3>2. /\ \A v \in others : req[v].amount \in Amounts
          /\ a \in Amounts /\ a \in Nat /\ Amounts # {}
      BY <1>1, ConstantsAssumption DEF Carriers, OverInv, RecordInv, TypeInv, HandlerOK, AtRecord
    <3>3. Total(req, others) <= Slack
      <4> HIDE DEF others
      <4> QED
        BY <3>1, <3>2, OthersCarry DEF OverInv, RecordInv
    <3>4. Total(req', Carriers(c)') = a + Total(req, others)
      <4> HIDE DEF others
      <4>1. IsFiniteSet(others) /\ IsFiniteSet(others \cup {w}) /\ Amounted(req, others \cup {w})
        BY <3>1, CarriedIsNat DEF OverInv, RecordInv, AmountsStay
      <4>2. Total(req', others \cup {w}) = Total(req, others \cup {w})
        BY <3>1, <4>1, TotalSame
      <4>3. Total(req, others \cup {w}) = a + Total(req, others)
        BY <3>1, <4>1, TotalWith
      <4> QED
        BY <3>1, <4>2, <4>3
    <3>5. Paid(c) + a <= contract[c].amount
      BY <1>1, <1>3, <2>3 DEF Fits, OverInv, LimitIsAmount, AtRecord
    <3>6. Paid(c) \in Nat /\ Total(req, others) \in Nat /\ Slack \in Nat /\ contract[c].amount \in Nat
      <4>1. Paid(c) \in Nat
        BY PaidIsNat DEF OverInv, RecordInv
      <4>2. Total(req, others) \in Nat
        BY <3>1, CarriedIsNat DEF OverInv, RecordInv, AmountsStay
      <4>3. contract[c].amount \in Nat
        BY ConstantsAssumption DEF OverInv, RecordInv, TypeInv, TypeOK, IsTable, ContractRow
      <4> QED
        BY <3>2, <4>1, <4>2, <4>3, SlackIsNat DEF OverInv
    <3> DEFINE rest == Total(req, others)
               flying == Total(req', Carriers(c)')
    <3>7. Paid(c) + flying <= contract[c].amount + Slack
      <4>1. flying = a + rest /\ rest <= Slack /\ rest \in Nat
        BY <3>3, <3>4, <3>6
      <4> HIDE DEF flying, rest
      <4> QED
        BY <3>2, <3>5, <3>6, <4>1
    <3>8. Bounded(c)' <=> Paid(c)' + flying <= contract'[c].amount + Slack
      BY DEF Bounded, Slack
    <3> QED
      BY <1>1, <3>7, <3>8
  <2> QED
    BY <2>2, <2>3
<1> QED
  BY <1>2, <1>3 DEF CreateRecordTotal

\* The insert takes the amount from those in flight to what is paid.
LEMMA OverInsert ==
    ASSUME OverInv, TypeInv', NEW w \in Worker, Inserts(w), UNCHANGED contract, NEW c \in DOMAIN contract
    PROVE  Bounded(c)'
<1>1. GoesOn(w) /\ req'[w].at = "settle_read"
  BY SettleGoesOn DEF Inserts, OverInv, RecordInv
<1> DEFINE r == req[w].record
           a == req[w].amount
<1>2. /\ r \notin DOMAIN record
      /\ DOMAIN record' = DOMAIN record \cup {r}
      /\ \A i \in DOMAIN record : record'[i] = record[i]
      /\ record'[r].amount = a /\ record'[r].contract = req[w].contract
  BY DEF Inserts, Insert, NewRecord, OverInv, RecordInv, NewRecordIsNew, AtRecord
<1>3. CASE c # req[w].contract
  <2>1. RecordsOf(c)' = RecordsOf(c) /\ \A i \in RecordsOf(c) : record'[i].amount = record[i].amount
    BY <1>2, <1>3 DEF RecordsOf
  <2>2. Paid(c)' = Paid(c)
    BY <2>1, PaidIsNat, TotalSame DEF Paid, OverInv, RecordInv
  <2>3. Carriers(c)' \subseteq Carriers(c)
    BY <1>1 DEF Carriers, GoesOn
  <2>4. Paid(c)' <= Paid(c)
    BY <2>2, PaidIsNat DEF OverInv, RecordInv
  <2> QED
    BY <1>1, <2>3, <2>4, OverFrame
<1>4. CASE c = req[w].contract
  <2>1. RecordsOf(c)' = RecordsOf(c) \cup {r} /\ r \notin RecordsOf(c)
    BY <1>2, <1>4 DEF RecordsOf
  <2>2. Paid(c)' = a + Paid(c)
    <3>1. IsFiniteSet(RecordsOf(c)) /\ IsFiniteSet(RecordsOf(c)')
      BY PaidIsNat, PaidIsNatThen DEF OverInv, RecordInv
    <3>2. Amounted(record', RecordsOf(c)')
      BY PaidIsNatThen
    <3>3. Total(record', RecordsOf(c)') = record'[r].amount + Total(record', RecordsOf(c))
      BY <2>1, <3>1, <3>2, TotalWith
    <3>4. Total(record', RecordsOf(c)) = Total(record, RecordsOf(c))
      BY <1>2, <3>1, TotalSame DEF RecordsOf
    <3> QED
      BY <1>2, <3>3, <3>4 DEF Paid
  <2> DEFINE others == Carriers(c) \ {w}
  <2>3. /\ Carriers(c)' = others /\ Carriers(c) = others \cup {w}
        /\ others \in SUBSET Worker /\ others \cup {w} \in SUBSET Worker /\ w \notin others
        /\ \A v \in others : req'[v].amount = req[v].amount
    BY <1>1, <1>4 DEF Carriers, GoesOn, Inserts
  <2>4. Total(req, Carriers(c)) = a + Total(req', Carriers(c)')
    <3> HIDE DEF others
    <3>1. IsFiniteSet(others) /\ Amounted(req, others \cup {w})
      BY <2>3, CarriedIsNat DEF OverInv, RecordInv, AmountsStay
    <3>2. Total(req', others) = Total(req, others)
      BY <2>3, <3>1, TotalSame
    <3>3. Total(req, others \cup {w}) = a + Total(req, others)
      BY <2>3, <3>1, TotalWith
    <3> QED
      BY <2>3, <3>2, <3>3
  <2>5. Bounded(c) /\ Paid(c) \in Nat /\ a \in Nat /\ Total(req', Carriers(c)') \in Nat
    <3>1. Paid(c) \in Nat
      BY PaidIsNat DEF OverInv, RecordInv
    <3>2. a \in Nat
      BY ConstantsAssumption DEF OverInv, RecordInv, TypeInv, HandlerOK, Inserts, AtRecord
    <3>3. Total(req, others) \in Nat /\ Total(req', others) = Total(req, others)
      <4> HIDE DEF others
      <4> QED
        BY <2>3, CarriedIsNat, TotalSame DEF OverInv, RecordInv, AmountsStay
    <3> QED
      BY <2>3, <3>1, <3>2, <3>3 DEF OverInv
  <2> DEFINE flying == Total(req', Carriers(c)')
             before == Total(req, Carriers(c))
  <2>6. Paid(c)' + flying = Paid(c) + before
    <3>1. before = a + flying /\ flying \in Nat
      BY <2>4, <2>5
    <3> HIDE DEF flying, before
    <3> QED
      BY <2>2, <2>5, <3>1
  <2>7. Paid(c) + before <= contract[c].amount + Slack
    BY <2>5 DEF Bounded
  <2>8. Bounded(c)' <=> Paid(c)' + flying <= contract'[c].amount + Slack
    BY DEF Bounded, Slack
  <2> QED
    BY <2>6, <2>7, <2>8
<1> QED
  BY <1>3, <1>4

LEMMA OverDelete ==
    ASSUME OverInv, TypeInv', NEW w \in Worker, SameRecords \/ Deletes(w), GoesOn(w), NEW c
    PROVE  Paid(c)' <= Paid(c)
<1>1. /\ RecordsOf(c)' \subseteq RecordsOf(c)
      /\ \A r \in RecordsOf(c)' : record'[r].amount = record[r].amount
  BY DEF SameRecords, Deletes, Without, RecordsOf
<1>2. IsFiniteSet(RecordsOf(c)) /\ Amounted(record, RecordsOf(c)) /\ Paid(c) \in Nat
  BY PaidIsNat DEF OverInv, RecordInv
<1>3. IsFiniteSet(RecordsOf(c)')
  BY PaidIsNatThen
<1>4. Total(record', RecordsOf(c)') = Total(record, RecordsOf(c)')
  BY <1>1, <1>3, TotalSame
<1>5. Total(record, RecordsOf(c)') <= Total(record, RecordsOf(c))
  BY <1>1, <1>2, TotalGrows
<1> QED
  BY <1>4, <1>5 DEF Paid

\* A contract keeps its amount, and a request the limit that it read.
LEMMA AmountsKept ==
    ASSUME TypeInv, NEW w \in Worker, Step(w) \/ Fail(w), req[w].at # "amount_write"
    PROVE  /\ DOMAIN contract' = DOMAIN contract
           /\ \A c \in DOMAIN contract : contract'[c].amount = contract[c].amount
<1>1. CASE UNCHANGED contract
  BY <1>1
<1>2. CASE ChangeStatusWrite(w) \/ SettleWrite(w) \/ RemoveWrite(w)
  BY <1>2 DEF ChangeStatusWrite, SettleWrite, RemoveWrite, TypeInv, TypeOK, IsTable, ContractRow
<1>3. \/ UNCHANGED contract \/ ChangeStatusWrite(w) \/ SettleWrite(w) \/ RemoveWrite(w)
  BY DEF Step, Fail, UpdateWrite, SettleRead, SettleSum, CreatePlanPeriod, CreatePlanTotal,
         CreatePlanInsert, CreatePlansDelete, CreatePlansInsert, RemovePlanDelete, CreateRecordPlan,
         CreateRecordTotal, CreateRecordInsert, CreateRecordCommit, RemoveRecordDelete, RemoveRecordCommit
<1> QED
  BY <1>1, <1>2, <1>3

LEMMA NeverUpdates ==
    ASSUME TypeInv, NEW w \in Worker, Step(w) \/ Fail(w)
    PROVE  req'[w].at # "amount_write"
<1> USE DEF TypeInv, TypeOK, Request
<1>1. ASSUME NEW at, GoTo(w, at), at # "amount_write" PROVE req'[w].at # "amount_write"
  BY <1>1 DEF GoTo
<1>2. ASSUME NEW c, Settle(w, c) PROVE req'[w].at # "amount_write"
  BY <1>2 DEF Settle, Idle
<1>3. ASSUME Answer(w) PROVE req'[w].at # "amount_write"
  BY <1>3 DEF Answer, Idle
<1>4. ASSUME SettleRead(w) \/ SettleSum(w), ~Answer(w) PROVE req'[w].at # "amount_write"
  BY <1>4 DEF SettleRead, SettleSum
<1>5. ASSUME NEW s, \/ req' = [req EXCEPT ![w].at = "record_commit", ![w].status = s]
                    \/ req' = [req EXCEPT ![w].at = "delete_commit", ![w].status = s]
      PROVE  req'[w].at # "amount_write"
  BY <1>5
<1>6. ASSUME CreateRecordInsert(w) \/ RemoveRecordDelete(w) PROVE req'[w].at # "amount_write"
  BY <1>2, <1>3, <1>5, <1>6 DEF CreateRecordInsert, RemoveRecordDelete
<1>7. ASSUME \/ CreatePlanPeriod(w) \/ CreatePlanTotal(w) \/ CreatePlansDelete(w)
             \/ CreateRecordPlan(w) \/ CreateRecordTotal(w)
      PROVE  req'[w].at # "amount_write"
  BY <1>1, <1>3, <1>7 DEF CreatePlanPeriod, CreatePlanTotal, CreatePlansDelete, CreateRecordPlan, CreateRecordTotal
<1>8. ASSUME CreateRecordCommit(w) \/ RemoveRecordCommit(w) PROVE req'[w].at # "amount_write"
  BY <1>2, <1>8 DEF CreateRecordCommit, RemoveRecordCommit
<1>9. ASSUME \/ UpdateWrite(w) \/ ChangeStatusWrite(w) \/ RemoveWrite(w) \/ SettleWrite(w)
             \/ CreatePlanInsert(w) \/ CreatePlansInsert(w) \/ RemovePlanDelete(w) \/ Fail(w)
      PROVE  req'[w].at # "amount_write"
  BY <1>3, <1>9 DEF UpdateWrite, ChangeStatusWrite, RemoveWrite, SettleWrite, CreatePlanInsert,
     CreatePlansInsert, RemovePlanDelete, Fail
<1> QED
  BY <1>3, <1>4, <1>6, <1>7, <1>8, <1>9 DEF Step

\* Only the check of createRecord takes a request to the insert.
LEMMA OnlyTheCheckCarries ==
    ASSUME TypeInv, NEW w \in Worker, Step(w) \/ Fail(w), ~CreateRecordTotal(w),
           req'[w].at \in {"record_insert", "record_commit"}
    PROVE  req[w].at \in {"record_insert", "record_commit"}
<1> USE DEF TypeInv, TypeOK, Request
<1>1. ASSUME NEW at, GoTo(w, at), at \notin {"record_insert", "record_commit"} PROVE FALSE
  BY <1>1 DEF GoTo
<1>2. ASSUME NEW c, Settle(w, c) PROVE FALSE
  BY <1>2 DEF Settle, Idle
<1>3. ASSUME Answer(w) PROVE FALSE
  BY <1>3 DEF Answer, Idle
<1>4. ASSUME SettleRead(w) \/ SettleSum(w) PROVE FALSE
  BY <1>3, <1>4 DEF SettleRead, SettleSum
<1>5. CASE RemoveRecordDelete(w)
  <2>1. ASSUME NEW s, req' = [req EXCEPT ![w].at = "delete_commit", ![w].status = s] PROVE FALSE
    BY <2>1
  <2> QED
    BY <1>2, <1>3, <1>5, <2>1 DEF RemoveRecordDelete
<1>6. ASSUME \/ CreatePlanPeriod(w) \/ CreatePlanTotal(w) \/ CreatePlansDelete(w) \/ CreateRecordPlan(w)
      PROVE  FALSE
  BY <1>1, <1>3, <1>6 DEF CreatePlanPeriod, CreatePlanTotal, CreatePlansDelete, CreateRecordPlan
<1>7. ASSUME CreateRecordCommit(w) \/ RemoveRecordCommit(w) PROVE FALSE
  BY <1>2, <1>7 DEF CreateRecordCommit, RemoveRecordCommit
<1>8. ASSUME \/ UpdateWrite(w) \/ ChangeStatusWrite(w) \/ RemoveWrite(w) \/ SettleWrite(w)
             \/ CreatePlanInsert(w) \/ CreatePlansInsert(w) \/ RemovePlanDelete(w) \/ Fail(w)
      PROVE  FALSE
  BY <1>3, <1>8 DEF UpdateWrite, ChangeStatusWrite, RemoveWrite, SettleWrite, CreatePlanInsert,
     CreatePlansInsert, RemovePlanDelete, Fail
<1>9. CreateRecordInsert(w) => req[w].at \in {"record_insert", "record_commit"}
  BY DEF CreateRecordInsert
<1> QED
  BY <1>4, <1>5, <1>6, <1>7, <1>8, <1>9 DEF Step

LEMMA OverStep ==
    ASSUME OverInv, RecordInv', NEW w \in Worker, Step(w) \/ Fail(w)
    PROVE  OverInv'
<1>1. TypeInv /\ TypeInv' /\ req[w].at # "amount_write"
  BY DEF OverInv, RecordInv, LimitIsAmount
<1>2. /\ GoesOn(w) /\ (SameRecords \/ Inserts(w) \/ Deletes(w))
      /\ DOMAIN contract' = DOMAIN contract
      /\ \A c \in DOMAIN contract : contract'[c].amount = contract[c].amount
      /\ req'[w].at # "amount_write"
  BY <1>1, RecordEffect, AmountsKept, NeverUpdates
<1>3. \A v \in Worker : req[v].at \in AtRecord => req[v].contract \in DOMAIN contract
  BY <1>1 DEF TypeInv, HandlerOK
<1>4. ASSUME NEW v \in Worker PROVE LimitIsAmount(v)'
  BY <1>2, <1>3 DEF LimitIsAmount, GoesOn, OverInv
<1>5. ASSUME NEW c \in DOMAIN contract PROVE Bounded(c)'
  <2>1. CASE CreateRecordTotal(w)
    BY <1>1, <2>1, OverCheck
  <2>2. CASE Inserts(w)
    <3>1. UNCHANGED contract
      BY <2>2 DEF Inserts, Step, Fail, UpdateWrite, ChangeStatusWrite, RemoveWrite, SettleWrite, SettleRead,
         SettleSum, CreatePlanPeriod, CreatePlanTotal, CreatePlanInsert, CreatePlansDelete, CreatePlansInsert,
         RemovePlanDelete, CreateRecordPlan, CreateRecordTotal, CreateRecordInsert, CreateRecordCommit,
         RemoveRecordDelete, RemoveRecordCommit
    <3> QED
      BY <1>1, <2>2, <3>1, OverInsert
  <2>3. CASE ~CreateRecordTotal(w) /\ ~Inserts(w)
    <3>1. Paid(c)' <= Paid(c)
      BY <1>1, <1>2, <2>3, OverDelete
    <3>2. req'[w].at \in {"record_insert", "record_commit"} => req[w].at \in {"record_insert", "record_commit"}
      BY <1>1, <2>3, OnlyTheCheckCarries
    <3>3. Carriers(c)' \subseteq Carriers(c)
      BY <1>2, <3>2 DEF Carriers, GoesOn, AtRecord
    <3> QED
      BY <1>1, <1>2, <3>1, <3>3, OverFrame
  <2> QED
    BY <2>1, <2>2, <2>3
<1> QED
  BY <1>2, <1>4, <1>5 DEF OverInv, AmountsStay

LEMMA OverAsk ==
    ASSUME OverInv, RecordInv', NEW w \in Worker, Ask(w)
    PROVE  OverInv'
<1>1. TypeInv /\ TypeInv' /\ AsksFor(w) /\ UNCHANGED <<contract, plan, record>>
  BY AskEffect DEF OverInv, RecordInv
<1>2. ASSUME NEW v \in Worker PROVE LimitIsAmount(v)'
  BY <1>1 DEF LimitIsAmount, AsksFor, OverInv, AmountsStay
<1>3. ASSUME NEW c \in DOMAIN contract PROVE Bounded(c)'
  <2>1. /\ Carriers(c)' = Carriers(c)
        /\ \A v \in Carriers(c) : req'[v].amount = req[v].amount
    BY <1>1 DEF Carriers, AsksFor
  <2>2. Carriers(c) \in SUBSET Worker
    BY DEF Carriers
  <2>3. Total(req', Carriers(c)') = Total(req, Carriers(c))
    BY <1>1, <2>1, <2>2, CarriedIsNat, TotalSame DEF OverInv, AmountsStay
  <2>4. Paid(c)' = Paid(c)
    BY <1>1 DEF Paid, RecordsOf
  <2> QED
    BY <1>1, <2>3, <2>4 DEF Bounded, Slack, OverInv
<1> QED
  BY <1>1, <1>2, <1>3 DEF OverInv, AmountsStay

\* A new contract has no payments, and nobody carries any to it.
LEMMA OverCreate ==
    ASSUME OverInv, RecordInv', NEW c \in Contract, NEW a \in Amounts, Create(c, a)
    PROVE  OverInv'
<1>1. /\ UNCHANGED <<plan, record, req>> /\ DOMAIN contract' = DOMAIN contract \cup {c}
      /\ \A x \in DOMAIN contract : contract'[x] = contract[x]
      /\ c \notin DOMAIN contract
  BY DEF Create, Insert
<1>2. contract'[c].amount = a
  BY <1>1 DEF Create, Insert
<1>3. \A x : Paid(x)' = Paid(x) /\ Carriers(x)' = Carriers(x)
  BY <1>1 DEF Paid, RecordsOf, Carriers
<1>4. Bounded(c)'
  <2>1. RecordsOf(c) = {}
    BY <1>1 DEF RecordsOf, OverInv, RecordInv, TypeInv, RecordsHaveContracts
  <2>2. Carriers(c) = {}
    BY <1>1 DEF Carriers, OverInv, RecordInv, TypeInv, HandlerOK, AtRecord
  <2>3. Paid(c)' = 0 /\ Total(req', Carriers(c)') = 0
    BY <1>1, <1>3, <2>1, <2>2, TotalEmpty DEF Paid
  <2>4. Slack \in Nat /\ a \in Nat
    BY SlackIsNat, ConstantsAssumption DEF OverInv
  <2>5. 0 + 0 <= a + Slack
    BY <2>4
  <2> QED
    BY <1>2, <2>3, <2>5 DEF Bounded, Slack
<1>5. \A x \in DOMAIN contract : Bounded(x)'
  BY <1>1, <1>3 DEF Bounded, Slack, OverInv
<1>6. ASSUME NEW w \in Worker PROVE LimitIsAmount(w)'
  BY <1>1 DEF LimitIsAmount, OverInv, RecordInv, TypeInv, HandlerOK
<1> QED
  BY <1>1, <1>4, <1>5, <1>6 DEF OverInv, AmountsStay

LEMMA OverNext ==
    ASSUME OverInv, [Next]_vars
    PROVE  OverInv'
<1>1. RecordInv'
  BY RecordNext DEF OverInv
<1>2. CASE UNCHANGED vars
  BY <1>1, <1>2 DEF vars, OverInv, AmountsStay, LimitIsAmount, Bounded, Paid, RecordsOf, Carriers, Slack
<1> QED
  BY <1>1, <1>2, OverStep, OverAsk, OverCreate DEF Next

LEMMA OverInit == AmountsStay /\ Init => OverInv
BY RecordInit DEF Init, OverInv, Idle, LimitIsAmount, AtRecord

LEMMA OverImplies ==
    ASSUME OverInv
    PROVE  OverpayBounded
<1> SUFFICES ASSUME NEW c \in DOMAIN contract PROVE Paid(c) <= contract[c].amount + Slack
  BY DEF OverpayBounded, Slack
<1> DEFINE carried == Total(req, Carriers(c))
<1>1. Paid(c) \in Nat
  BY PaidIsNat DEF OverInv, RecordInv
<1>2. carried \in Nat
  <2>1. Carriers(c) \in SUBSET Worker
    BY DEF Carriers
  <2> QED
    BY <2>1, CarriedIsNat DEF OverInv, RecordInv, AmountsStay
<1>3. contract[c].amount \in Nat /\ Slack \in Nat
  <2>1. contract[c].amount \in Amounts
    BY DEF OverInv, RecordInv, TypeInv, TypeOK, IsTable, ContractRow
  <2> QED
    BY <2>1, SlackIsNat, ConstantsAssumption DEF OverInv
<1>4. Paid(c) + carried <= contract[c].amount + Slack
  BY DEF OverInv, Bounded
<1> HIDE DEF carried
<1> QED
  BY <1>1, <1>2, <1>3, <1>4

\* While amounts are not edited, overlapping requests overpay a contract by no
\* more than the workers but one can carry, whatever fails and whatever is
\* removed meanwhile (createRecord: the check and the insert are apart).
THEOREM OverpaymentBounded == AmountsStay /\ Spec => []OverpayBounded
<1>1. OverInv /\ [Next]_vars => OverInv'
  BY OverNext
<1>2. AmountsStay /\ Init => OverInv
  BY OverInit
<1>3. OverInv => OverpayBounded
  BY OverImplies
<1> QED
  BY <1>1, <1>2, <1>3, PTL DEF Spec

-----------------------------------------------------------------------------
(***************************************************************************)
(* A plan is never ahead of its records while none is removed.  What keeps *)
(* it so: the status that a transaction is about to commit is covered by   *)
(* the committed records together with its own, records under a plan only  *)
(* become more as long as the plan exists, and it exists while the         *)
(* transaction is open.                                                    *)
(***************************************************************************)
OnPlan(p) == Total(record, RecordsOn(p))

NotAhead(p) ==
    plan[p].amount > 0 =>
        /\ plan[p].status = "COMPLETED" => OnPlan(p) >= plan[p].amount
        /\ plan[p].status = "PARTIAL" => OnPlan(p) > 0

Founded(w) ==
    (req[w].at = "record_commit" /\ req[w].status = "COMPLETED")
        => OnPlan(req[w].plan) + req[w].amount >= plan[req[w].plan].amount

OnlyAdds(w) ==
    /\ req[w].at \notin {"row_delete", "delete_commit"}
    /\ \A i \in DOMAIN req[w].rows : req[w].rows[i].status = "PENDING"

RecordsStay == "removeRecord" \notin Ops

AheadInv ==
    /\ RecordsStay /\ RecordInv
    /\ \A w \in Worker : OnlyAdds(w) /\ Founded(w)
    /\ \A p \in DOMAIN plan : NotAhead(p)

LEMMA OnPlanIsNat ==
    ASSUME TypeInv, NEW p
    PROVE  /\ IsFiniteSet(RecordsOn(p)) /\ Amounted(record, RecordsOn(p)) /\ OnPlan(p) \in Nat
           /\ RecordsOn(p) \subseteq DOMAIN record
BY RecordTotal DEF TypeInv, TypeOK, RecordsOn, OnPlan

LEMMA OnPlanIsNatThen ==
    ASSUME TypeInv', NEW p
    PROVE  /\ IsFiniteSet(RecordsOn(p)') /\ Amounted(record', RecordsOn(p)') /\ OnPlan(p)' \in Nat
           /\ RecordsOn(p)' \subseteq DOMAIN record'
BY RecordTotal DEF TypeInv, TypeOK, RecordsOn, OnPlan

LEMMA PlanAmountIsNat ==
    ASSUME TypeInv
    PROVE  \A p \in DOMAIN plan : plan[p].amount \in Nat /\ plan[p].status \in PlanStatus
<1>1. \A p \in DOMAIN plan : plan[p].amount \in Amounts /\ plan[p].status \in PlanStatus
  BY DEF TypeInv, TypeOK, IsTable, PlanRow
<1> QED
  BY <1>1, ConstantsAssumption

LEMMA PlanAmountIsNatThen ==
    ASSUME TypeInv'
    PROVE  \A p \in DOMAIN plan' : plan'[p].amount \in Nat
<1>1. \A p \in DOMAIN plan' : plan'[p].amount \in Amounts
  BY DEF TypeInv, TypeOK, IsTable, PlanRow
<1> QED
  BY <1>1, ConstantsAssumption

\* The records under p only become more.
Grows(p) ==
    /\ RecordsOn(p) \subseteq RecordsOn(p)'
    /\ \A r \in RecordsOn(p) : record'[r].amount = record[r].amount

LEMMA MoreOnPlan ==
    ASSUME TypeInv, TypeInv', NEW p, Grows(p)
    PROVE  OnPlan(p) <= OnPlan(p)'
<1> DEFINE was == RecordsOn(p)
           is == RecordsOn(p)'
<1>1. IsFiniteSet(was) /\ IsFiniteSet(is) /\ Amounted(record', is)
  BY OnPlanIsNat, OnPlanIsNatThen
<1>2. was \subseteq is /\ \A r \in was : record'[r].amount = record[r].amount
  BY DEF Grows
<1>3. Total(record', was) = Total(record, was) /\ Total(record', was) <= Total(record', is)
  <2> HIDE DEF was, is
  <2> QED
    BY <1>1, <1>2, TotalSame, TotalGrows
<1> QED
  BY <1>3 DEF OnPlan

LEMMA AheadFrame ==
    ASSUME AheadInv, RecordInv', NEW w \in Worker, \A v \in Worker \ {w} : req'[v] = req[v],
           OnlyAdds(w)', Founded(w)',
           \A p \in DOMAIN plan : p \in DOMAIN plan' => plan'[p].amount = plan[p].amount /\ Grows(p),
           \A p \in DOMAIN plan' :
              \/ p \in DOMAIN plan /\ plan'[p].status = plan[p].status
              \/ plan'[p].status = "PENDING"
              \/ NotAhead(p)'
    PROVE  AheadInv'
<1>1. TypeInv /\ TypeInv'
  BY DEF AheadInv, RecordInv
<1>2. ASSUME NEW p \in DOMAIN plan' PROVE NotAhead(p)'
  <2>1. CASE p \in DOMAIN plan /\ plan'[p].status = plan[p].status
    <3>1. NotAhead(p) /\ plan'[p].amount = plan[p].amount /\ OnPlan(p) <= OnPlan(p)'
      BY <1>1, <2>1, MoreOnPlan DEF AheadInv
    <3>2. OnPlan(p) \in Nat /\ OnPlan(p)' \in Nat /\ plan[p].amount \in Nat
      BY <1>1, <2>1, OnPlanIsNat, OnPlanIsNatThen, PlanAmountIsNat
    <3> QED
      BY <2>1, <3>1, <3>2 DEF NotAhead
  <2>2. CASE plan'[p].status = "PENDING"
    BY <2>2 DEF NotAhead
  <2> QED
    BY <2>1, <2>2
<1>3. ASSUME NEW v \in Worker PROVE OnlyAdds(v)' /\ Founded(v)'
  <2>1. CASE v = w
    BY <2>1
  <2>2. CASE v # w
    <3>1. req'[v] = req[v] /\ OnlyAdds(v) /\ Founded(v)
      BY <2>2 DEF AheadInv
    <3>2. ASSUME req[v].at = "record_commit" PROVE Founded(v)'
      <4> PICK p : p = req[v].plan
        OBVIOUS
      <4>1. p \in DOMAIN plan /\ p \in DOMAIN plan'
        BY <3>1, <3>2 DEF AheadInv, RecordInv, RecordPlanInv, PlanOfRequest
      <4>2. OnPlan(p) <= OnPlan(p)' /\ OnPlan(p) \in Nat /\ OnPlan(p)' \in Nat
        BY <1>1, <4>1, MoreOnPlan, OnPlanIsNat, OnPlanIsNatThen
      <4>3. plan'[p].amount = plan[p].amount /\ plan[p].amount \in Nat
        BY <1>1, <4>1, PlanAmountIsNat
      <4>4. req[v].amount \in Nat
        BY <1>1, <3>2, ConstantsAssumption DEF TypeInv, HandlerOK, AtRecord
      <4>5. (OnPlan(p) + req[v].amount >= plan[p].amount)
              => (OnPlan(p)' + req[v].amount >= plan'[p].amount)
        BY <4>2, <4>3, <4>4
      <4>6. OnPlan(req[v].plan)' = OnPlan(p)'
        BY <3>1 DEF OnPlan, RecordsOn
      <4> QED
        BY <3>1, <4>5, <4>6 DEF Founded
    <3> QED
      BY <3>1, <3>2 DEF OnlyAdds, Founded
  <2> QED
    BY <2>1, <2>2
<1> QED
  BY <1>2, <1>3 DEF AheadInv, RecordsStay

\* A step that leaves the tables alone and opens no transaction.
LEMMA AheadQuiet ==
    ASSUME AheadInv, RecordInv', NEW w \in Worker, UNCHANGED <<plan, record>>,
           \A v \in Worker \ {w} : req'[v] = req[v],
           req'[w].at \notin {"record_commit", "row_delete", "delete_commit"},
           \/ DOMAIN req'[w].rows = {}
           \/ req'[w].rows = req[w].rows
           \/ \A i \in DOMAIN req'[w].rows : req'[w].rows[i].status = "PENDING"
    PROVE  AheadInv'
<1>1. OnlyAdds(w)' /\ Founded(w)'
  BY DEF AheadInv, OnlyAdds, Founded
<1>2. \A p \in DOMAIN plan : plan'[p] = plan[p] /\ Grows(p)
  BY DEF Grows, RecordsOn
<1> QED
  BY <1>1, <1>2, AheadFrame

LEMMA AheadInsertPlans ==
    ASSUME AheadInv, RecordInv', NEW w \in Worker, plan' = Insert(plan, req[w].rows), Answer(w),
           UNCHANGED record
    PROVE  AheadInv'
<1>1. req'[w] = Idle /\ \A v \in Worker \ {w} : req'[v] = req[v]
  BY AnswerFrame DEF AheadInv, RecordInv
<1>2. OnlyAdds(w)' /\ Founded(w)'
  BY <1>1 DEF Idle, OnlyAdds, Founded
<1>3. \A p \in DOMAIN plan : plan'[p] = plan[p] /\ Grows(p)
  BY DEF Insert, Grows, RecordsOn, AheadInv, RecordInv, RecordPlanInv, NewPlansAreNew
<1>4. \A p \in DOMAIN plan' : p \in DOMAIN plan \/ plan'[p].status = "PENDING"
  BY DEF Insert, AheadInv, OnlyAdds
<1> QED
  BY <1>1, <1>2, <1>3, <1>4, AheadFrame

LEMMA AheadDeletePlans ==
    ASSUME AheadInv, RecordInv', NEW w \in Worker, NEW ids, DeletePlans(ids),
           \A v \in Worker \ {w} : req'[v] = req[v],
           req'[w].at \notin {"record_commit", "row_delete", "delete_commit"},
           DOMAIN req'[w].rows = {} \/ req'[w].rows = req[w].rows
    PROVE  AheadInv'
<1>1. OnlyAdds(w)' /\ Founded(w)'
  BY DEF AheadInv, OnlyAdds, Founded
<1>2. /\ DOMAIN plan' = DOMAIN plan \ ids
      /\ \A p \in DOMAIN plan' : plan'[p] = plan[p]
      /\ DOMAIN record' = DOMAIN record
      /\ \A r \in DOMAIN record : record[r].plan \notin ids => record'[r] = record[r]
  BY DEF DeletePlans, Without
<1>3. \A p \in DOMAIN plan' : Grows(p)
  BY <1>2 DEF Grows, RecordsOn
<1> QED
  BY <1>1, <1>2, <1>3, AheadFrame

\* The transaction of createRecord: what it is about to write, and the commit.
LEMMA AheadBegin ==
    ASSUME AheadInv, RecordInv', NEW w \in Worker, req[w].at = "record_insert",
           req[w].plan \in DOMAIN plan, UNCHANGED <<plan, record>>,
           req' = [req EXCEPT ![w].at = "record_commit",
                              ![w].status = NewPlanStatus(
                                  PaidOnPlan(req[w].plan, req[w].record) + req[w].amount,
                                  plan[req[w].plan].amount)]
    PROVE  AheadInv'
<1> PICK p : p = req[w].plan
  OBVIOUS
<1> DEFINE sum == PaidOnPlan(p, req[w].record) + req[w].amount
<1>1. TypeInv
  BY DEF AheadInv, RecordInv
<1>2. /\ req'[w].at = "record_commit" /\ req'[w].plan = p /\ req'[w].amount = req[w].amount
      /\ req'[w].status = NewPlanStatus(sum, plan[p].amount) /\ req'[w].rows = req[w].rows
      /\ \A v \in Worker \ {w} : req'[v] = req[v]
  BY <1>1 DEF TypeInv, TypeOK, Request
<1>3. PaidOnPlan(p, req[w].record) = OnPlan(p)
  <2>1. RecordsOn(p) \ {req[w].record} = RecordsOn(p)
    BY DEF AheadInv, RecordInv, NewRecordIsNew, AtRecord, RecordsOn
  <2> QED
    BY <2>1 DEF PaidOnPlan, OnPlan
<1>4. OnPlan(req[w].plan)' = OnPlan(p)
  BY <1>2 DEF OnPlan, RecordsOn
<1>5. Founded(w)'
  BY <1>2, <1>3, <1>4 DEF Founded, NewPlanStatus
<1>6. OnlyAdds(w)'
  BY <1>2 DEF AheadInv, OnlyAdds
<1>7. \A q \in DOMAIN plan : plan'[q] = plan[q] /\ Grows(q)
  BY DEF Grows, RecordsOn
<1> QED
  BY <1>2, <1>5, <1>6, <1>7, AheadFrame

LEMMA AheadInsert ==
    ASSUME AheadInv, RecordInv', NEW w \in Worker, Inserts(w),
           \/ UNCHANGED plan
           \/ /\ req[w].at = "record_commit"
              /\ plan' = [plan EXCEPT ![req[w].plan].status = req[w].status]
    PROVE  AheadInv'
<1> PICK r, a : r = req[w].record /\ a = req[w].amount
  OBVIOUS
<1>1. TypeInv /\ TypeInv'
  BY DEF AheadInv, RecordInv
<1>2. /\ OnlyAdds(w)' /\ Founded(w)'
      /\ \A v \in Worker \ {w} : req'[v] = req[v]
  <2>1. /\ req'[w].at = "settle_read" /\ DOMAIN req'[w].rows = {}
        /\ \A v \in Worker \ {w} : req'[v] = req[v]
    BY <1>1 DEF Inserts, Settle, Idle, TypeInv, TypeOK
  <2> QED
    BY <2>1 DEF OnlyAdds, Founded
<1>3. /\ r \notin DOMAIN record
      /\ DOMAIN record' = DOMAIN record \cup {r}
      /\ \A i \in DOMAIN record : record'[i] = record[i]
      /\ record'[r].amount = a /\ record'[r].plan = req[w].plan
  BY DEF Inserts, Insert, NewRecord, AheadInv, RecordInv, NewRecordIsNew, AtRecord
<1>4. \A p : Grows(p)
  BY <1>3 DEF Grows, RecordsOn
<1>5. CASE UNCHANGED plan
  BY <1>2, <1>4, <1>5, AheadFrame
<1>6. CASE /\ req[w].at = "record_commit"
           /\ plan' = [plan EXCEPT ![req[w].plan].status = req[w].status]
  <2> PICK p : p = req[w].plan
    OBVIOUS
  <2>1. /\ p \in DOMAIN plan /\ DOMAIN plan' = DOMAIN plan
        /\ plan'[p].status = req[w].status /\ plan'[p].amount = plan[p].amount
        /\ \A q \in DOMAIN plan : q # p => plan'[q] = plan[q]
    BY <1>1, <1>6 DEF AheadInv, RecordInv, RecordPlanInv, PlanOfRequest, TypeInv, TypeOK, IsTable, PlanRow
  <2>2. OnPlan(p)' = a + OnPlan(p)
    <3>1. RecordsOn(p)' = RecordsOn(p) \cup {r} /\ r \notin RecordsOn(p)
      BY <1>3 DEF RecordsOn
    <3>2. IsFiniteSet(RecordsOn(p)) /\ Amounted(record', RecordsOn(p)')
      BY <1>1, OnPlanIsNat, OnPlanIsNatThen
    <3>3. Total(record', RecordsOn(p)') = record'[r].amount + Total(record', RecordsOn(p))
      BY <3>1, <3>2, TotalWith
    <3>4. Total(record', RecordsOn(p)) = Total(record, RecordsOn(p))
      BY <1>3, <3>2, TotalSame DEF RecordsOn
    <3> QED
      BY <1>3, <3>3, <3>4 DEF OnPlan
  <2>3. a \in Nat /\ a > 0 /\ OnPlan(p) \in Nat /\ plan[p].amount \in Nat
    <3>1. a \in Amounts \ {0}
      BY <1>1, <1>6 DEF TypeInv, HandlerOK, AtRecord
    <3>2. \A n \in Amounts \ {0} : n \in Nat /\ n > 0
      BY ConstantsAssumption
    <3> QED
      BY <1>1, <2>1, <3>1, <3>2, OnPlanIsNat, PlanAmountIsNat
  <2>4. NotAhead(p)'
    <3>1. Founded(w)
      BY DEF AheadInv
    <3>2. req[w].status = "COMPLETED" => OnPlan(p) + a >= plan[p].amount
      BY <1>6, <3>1 DEF Founded
    <3> QED
      BY <2>1, <2>2, <2>3, <3>2 DEF NotAhead
  <2>5. \A q \in DOMAIN plan' : (q \in DOMAIN plan /\ plan'[q].status = plan[q].status) \/ NotAhead(q)'
    BY <2>1, <2>4
  <2>6. \A q \in DOMAIN plan : plan'[q].amount = plan[q].amount
    BY <2>1
  <2> QED
    BY <1>2, <1>4, <2>5, <2>6, AheadFrame
<1> QED
  BY <1>5, <1>6

LEMMA AheadStep ==
    ASSUME AheadInv, RecordInv', NEW w \in Worker, Step(w) \/ Fail(w)
    PROVE  AheadInv'
<1> DEFINE others == \A v \in Worker \ {w} : req'[v] = req[v]
<1>1. TypeInv /\ req[w].at \notin {"row_delete", "delete_commit"}
  BY DEF AheadInv, RecordInv, OnlyAdds
<1>2. ASSUME Answer(w), UNCHANGED <<plan, record>> PROVE AheadInv'
  BY <1>1, <1>2, AnswerFrame, AheadQuiet DEF Idle
<1>3. ASSUME NEW at, GoTo(w, at) PROVE others /\ req'[w].at = at /\ req'[w].rows = req[w].rows
  BY <1>1, <1>3 DEF GoTo, TypeInv, TypeOK, Request
<1>4. ASSUME \/ UpdateWrite(w) \/ ChangeStatusWrite(w) \/ RemoveWrite(w) \/ SettleWrite(w) \/ Fail(w)
      PROVE  AheadInv'
  BY <1>2, <1>4 DEF UpdateWrite, ChangeStatusWrite, RemoveWrite, SettleWrite, Fail
<1>5. ASSUME SettleRead(w) \/ SettleSum(w) PROVE AheadInv'
  <2>1. UNCHANGED <<plan, record>>
    BY <1>5 DEF SettleRead, SettleSum
  <2>2. CASE ~Answer(w)
    <3>1. others /\ req'[w].rows = req[w].rows /\ req'[w].at \in {"settle_sum", "settle_write"}
      BY <1>1, <1>5, <2>2 DEF SettleRead, SettleSum, TypeInv, TypeOK, Request
    <3> QED
      BY <2>1, <3>1, AheadQuiet
  <2> QED
    BY <1>2, <2>1, <2>2
<1>6. ASSUME \/ CreatePlanPeriod(w) \/ CreatePlanTotal(w) \/ CreateRecordPlan(w) \/ CreateRecordTotal(w)
      PROVE  AheadInv'
  <2>1. /\ UNCHANGED <<plan, record>>
        /\ \/ Answer(w)
           \/ \E at \in {"plan_total", "plan_insert", "record_total", "record_insert"} : GoTo(w, at)
    BY <1>6 DEF CreatePlanPeriod, CreatePlanTotal, CreateRecordPlan, CreateRecordTotal
  <2> QED
    BY <1>2, <1>3, <2>1, AheadQuiet
<1>7. ASSUME CreatePlanInsert(w) \/ CreatePlansInsert(w) PROVE AheadInv'
  BY <1>7, AheadInsertPlans DEF CreatePlanInsert, CreatePlansInsert
<1>8. ASSUME CreatePlansDelete(w) PROVE AheadInv'
  BY <1>3, <1>8, AheadDeletePlans DEF CreatePlansDelete
<1>9. ASSUME RemovePlanDelete(w) PROVE AheadInv'
  BY <1>1, <1>9, AnswerFrame, AheadDeletePlans DEF RemovePlanDelete, Idle
<1>10. ASSUME CreateRecordInsert(w) PROVE AheadInv'
  <2>1. req[w].at = "record_insert" /\ UNCHANGED plan
    BY <1>10 DEF CreateRecordInsert
  <2>2. CASE record' = Insert(record, NewRecord(w)) /\ Settle(w, req[w].contract)
    BY <2>1, <2>2, AheadInsert DEF Inserts
  <2>3. CASE Answer(w) /\ UNCHANGED record
    BY <1>2, <2>1, <2>3
  <2> QED
    BY <1>10, <2>1, <2>2, <2>3, AheadBegin DEF CreateRecordInsert
<1>11. ASSUME CreateRecordCommit(w) PROVE AheadInv'
  BY <1>11, AheadInsert DEF CreateRecordCommit, Inserts
<1> QED
  BY <1>1, <1>4, <1>5, <1>6, <1>7, <1>8, <1>9, <1>10, <1>11
  DEF Step, RemoveRecordDelete, RemoveRecordCommit

LEMMA AheadNext ==
    ASSUME AheadInv, [Next]_vars
    PROVE  AheadInv'
<1>1. RecordInv'
  BY RecordNext DEF AheadInv
<1>2. ASSUME NEW w \in Worker, Ask(w) PROVE AheadInv'
  <2>1. AsksFor(w) /\ UNCHANGED <<plan, record>>
    BY <1>2, AskEffect DEF AheadInv, RecordInv
  <2> QED
    BY <1>1, <2>1, AheadQuiet DEF AsksFor, AheadInv, RecordsStay
<1>3. CASE UNCHANGED <<plan, record, req>>
  BY <1>1, <1>3 DEF AheadInv, RecordsStay, OnlyAdds, Founded, NotAhead, OnPlan, RecordsOn
<1> QED
  BY <1>1, <1>2, <1>3, AheadStep DEF Next, Create, vars

LEMMA AheadInit == RecordsStay /\ Init => AheadInv
BY RecordInit DEF Init, Idle, AheadInv, OnlyAdds, Founded

\* As long as no record is removed, a plan is never reported further paid than
\* its records say, whatever overlaps and fails (createRecord, refreshPlanStatus).
THEOREM PlanNeverAhead == RecordsStay /\ Spec => []PlanStatusNeverAhead
<1>1. AheadInv /\ [Next]_vars => AheadInv'
  BY AheadNext
<1>2. RecordsStay /\ Init => AheadInv
  BY AheadInit
<1>3. AheadInv => PlanStatusNeverAhead
  BY DEF AheadInv, PlanStatusNeverAhead, NotAhead, OnPlan
<1> QED
  BY <1>1, <1>2, <1>3, PTL DEF Spec

-----------------------------------------------------------------------------
(***************************************************************************)
(* One request at a time.  What the handler has read then still is so when *)
(* it is used: only new contracts appear meanwhile.                        *)
(***************************************************************************)
OneAtATime == \A v, w \in Worker : v = w

AtPlan == {"plan_period", "plan_total", "plan_insert"}
AtBatch == {"batch_delete", "batch_insert"}
AtDelete == {"row_delete", "delete_commit"}

StillSo(q) ==
    /\ \A i \in DOMAIN q.rows : q.rows[i].contract = q.contract /\ q.rows[i].status = "PENDING"
    /\ q.at \in AtPlan \cup AtBatch \cup {"status_write"} => q.contract \in DOMAIN contract
    /\ q.at = "status_write" => contract[q.contract].status # "TERMINATED"
    /\ q.at \in {"settle_sum", "settle_write"} =>
          /\ q.limit = contract[q.contract].amount
          /\ contract[q.contract].status \in {"EXECUTING", "COMPLETED"}
    /\ q.at = "settle_sum" => q.status = contract[q.contract].status
    /\ q.at = "settle_write" => q.status = NextStatus(Paid(q.contract), q.limit)
    /\ q.at \in AtPlan => q.limit = contract[q.contract].amount
    /\ q.at = "plan_insert" => Planned(q.contract) + Total(q.rows, DOMAIN q.rows) <= q.limit
    /\ q.at \in AtBatch => Total(q.rows, DOMAIN q.rows) <= contract[q.contract].amount
    /\ q.at = "batch_insert" => PlansOf(q.contract) = {}
    /\ q.at = "record_commit" =>
          q.status = NewPlanStatus(OnPlan(q.plan) + q.amount, plan[q.plan].amount)
    /\ q.at \in AtDelete => q.record \in DOMAIN record /\ record[q.record].plan = q.plan
    /\ q.at = "delete_commit" =>
          /\ q.plan \in DOMAIN plan
          /\ q.status = NewPlanStatus(PaidOnPlan(q.plan, q.record), plan[q.plan].amount)

Exact(p) ==
    plan[p].amount > 0 =>
        /\ plan[p].status = "COMPLETED" <=> OnPlan(p) >= plan[p].amount
        /\ plan[p].status = "PENDING" <=> OnPlan(p) = 0

SerialInv ==
    /\ OneAtATime /\ RecordInv
    /\ \A p \in DOMAIN plan : Exact(p)
    /\ \A w \in Worker : StillSo(req[w])

LEMMA SerialInit == OneAtATime /\ Init => SerialInv
BY RecordInit DEF Init, Idle, SerialInv, StillSo, AtPlan, AtBatch, AtDelete

\* The request is over, but for the reconciliation.
LEMMA SerialOver ==
    ASSUME SerialInv, RecordInv', NEW w \in Worker, \A p \in DOMAIN plan' : Exact(p)',
           req'[w].at \in {"idle", "settle_read", "amount_write", "remove_write", "plan_delete",
                           "record_plan", "record_total", "record_insert"},
           DOMAIN req'[w].rows = {}
    PROVE  SerialInv'
<1>1. StillSo(req[w])'
  BY DEF StillSo, AtPlan, AtBatch, AtDelete
<1>2. \A v \in Worker : v = w
  BY DEF SerialInv, OneAtATime
<1>3. \A v \in Worker : StillSo(req[v])'
  BY <1>1, <1>2
<1> QED
  BY <1>3 DEF SerialInv, OneAtATime

\* It goes on without a write.
LEMMA SerialMove ==
    ASSUME SerialInv, RecordInv', NEW w \in Worker, UNCHANGED <<contract, plan, record>>,
           StillSo(req'[w])
    PROVE  SerialInv'
<1>1. \A v \in Worker : StillSo(req'[v])
  BY DEF SerialInv, OneAtATime
<1>2. ASSUME NEW v \in Worker PROVE StillSo(req[v])'
  <2> PICK q : q = req'[v]
    OBVIOUS
  <2>1. StillSo(q)
    BY <1>1
  <2>2. /\ Paid(q.contract)' = Paid(q.contract) /\ PlansOf(q.contract)' = PlansOf(q.contract)
        /\ Planned(q.contract)' = Planned(q.contract)
        /\ OnPlan(q.plan)' = OnPlan(q.plan)
        /\ PaidOnPlan(q.plan, q.record)' = PaidOnPlan(q.plan, q.record)
    BY DEF Paid, RecordsOf, Planned, PlansOf, OnPlan, RecordsOn, PaidOnPlan
  <2>3. StillSo(q)'
    BY <2>1, <2>2 DEF StillSo
  <2> QED
    BY <2>3
<1>3. \A p \in DOMAIN plan' : Exact(p)'
  BY DEF SerialInv, Exact, OnPlan, RecordsOn
<1> QED
  BY <1>2, <1>3 DEF SerialInv, OneAtATime

\* A plan whose row and records are as they were.
LEMMA ExactSame ==
    ASSUME TypeInv, NEW p, Exact(p),
           plan'[p].status = plan[p].status, plan'[p].amount = plan[p].amount,
           RecordsOn(p)' = RecordsOn(p), \A r \in RecordsOn(p) : record'[r].amount = record[r].amount
    PROVE  Exact(p)'
<1>1. OnPlan(p)' = OnPlan(p)
  BY OnPlanIsNat, TotalSame DEF OnPlan
<1> QED
  BY <1>1 DEF Exact

LEMMA NoPlans ==
    ASSUME TypeInv, RecordPlanInv, NEW p, p \in Plan, p \notin DOMAIN plan
    PROVE  RecordsOn(p) = {}
BY ConstantsAssumption DEF RecordsOn, RecordPlanInv, RecordPlanConsistent, PlansOf

\* The status that refreshPlanStatus computes is the exact one.
LEMMA NewStatusIsExact ==
    ASSUME NEW paid \in Nat, NEW due \in Nat, due > 0
    PROVE  /\ NewPlanStatus(paid, due) = "COMPLETED" <=> paid >= due
           /\ NewPlanStatus(paid, due) = "PENDING" <=> paid = 0
BY DEF NewPlanStatus

LEMMA SerialInsertPlans ==
    ASSUME SerialInv, RecordInv', NEW w \in Worker, plan' = Insert(plan, req[w].rows), Answer(w),
           UNCHANGED record
    PROVE  SerialInv'
<1>1. TypeInv /\ TypeInv' /\ RecordPlanInv
  BY DEF SerialInv, RecordInv
<1>2. req'[w].at = "idle" /\ DOMAIN req'[w].rows = {}
  BY <1>1, AnswerFrame DEF Idle
<1>3. ASSUME NEW p \in DOMAIN plan' PROVE Exact(p)'
  <2>1. CASE p \in DOMAIN req[w].rows
    <3>1. p \in Plan /\ p \notin DOMAIN plan
      BY <1>1, <2>1 DEF RecordPlanInv, NewPlansAreNew, TypeInv, TypeOK, IsTable
    <3>2. RecordsOn(p) = {}
      BY <1>1, <3>1, NoPlans
    <3>3. OnPlan(p)' = 0
      BY <3>2, TotalEmpty DEF OnPlan, RecordsOn
    <3>4. plan'[p].status = "PENDING" /\ plan'[p].amount \in Nat
      BY <1>1, <2>1, PlanAmountIsNatThen DEF SerialInv, StillSo, Insert
    <3> QED
      BY <3>3, <3>4 DEF Exact
  <2>2. CASE p \notin DOMAIN req[w].rows
    <3>1. p \in DOMAIN plan /\ plan'[p] = plan[p]
      BY <2>2 DEF Insert
    <3>2. Exact(p) /\ RecordsOn(p)' = RecordsOn(p)
      BY <3>1 DEF SerialInv, RecordsOn
    <3> QED
      BY <1>1, <3>1, <3>2, ExactSame DEF RecordsOn
  <2> QED
    BY <2>1, <2>2
<1> QED
  BY <1>2, <1>3, SerialOver

LEMMA ExactDelete ==
    ASSUME SerialInv, RecordInv', NEW ids, DeletePlans(ids)
    PROVE  \A p \in DOMAIN plan' : Exact(p)'
<1>1. TypeInv
  BY DEF SerialInv, RecordInv
<1>2. /\ DOMAIN plan' = DOMAIN plan \ ids
      /\ \A p \in DOMAIN plan' : plan'[p] = plan[p]
      /\ DOMAIN record' = DOMAIN record
      /\ \A r \in DOMAIN record :
            /\ record[r].plan \in ids => record'[r].plan = None
            /\ record[r].plan \notin ids => record'[r] = record[r]
  BY <1>1 DEF DeletePlans, Without, TypeInv, TypeOK, IsTable, RecordRow
<1>3. ASSUME NEW p \in DOMAIN plan' PROVE Exact(p)'
  <2>1. p # None /\ p \notin ids /\ p \in DOMAIN plan
    BY <1>1, <1>2, ConstantsAssumption DEF TypeInv, TypeOK, IsTable
  <2>2. RecordsOn(p)' = RecordsOn(p) /\ \A r \in RecordsOn(p) : record'[r] = record[r]
    BY <1>2, <2>1 DEF RecordsOn
  <2> QED
    BY <1>1, <1>2, <2>1, <2>2, ExactSame DEF SerialInv
<1> QED
  BY <1>3

\* A record is inserted, or deleted, and its plan gets the new status.
LEMMA SerialInsert ==
    ASSUME SerialInv, RecordInv', NEW w \in Worker, Inserts(w),
           \/ req[w].plan = None /\ UNCHANGED plan
           \/ /\ req[w].at = "record_commit"
              /\ plan' = [plan EXCEPT ![req[w].plan].status = req[w].status]
    PROVE  SerialInv'
<1> PICK r, a, p : r = req[w].record /\ a = req[w].amount /\ p = req[w].plan
  OBVIOUS
<1>1. TypeInv /\ TypeInv'
  BY DEF SerialInv, RecordInv
<1>2. req'[w].at = "settle_read" /\ DOMAIN req'[w].rows = {}
  BY <1>1 DEF Inserts, Settle, Idle, TypeInv, TypeOK
<1>3. /\ r \notin DOMAIN record
      /\ DOMAIN record' = DOMAIN record \cup {r}
      /\ \A i \in DOMAIN record : record'[i] = record[i]
      /\ record'[r].amount = a /\ record'[r].plan = p
  BY DEF Inserts, Insert, NewRecord, SerialInv, RecordInv, NewRecordIsNew, AtRecord
<1>4. ASSUME NEW x \in DOMAIN plan, x # p, plan'[x] = plan[x] PROVE Exact(x)'
  <2>1. RecordsOn(x)' = RecordsOn(x) /\ \A i \in RecordsOn(x) : record'[i] = record[i]
    BY <1>3, <1>4 DEF RecordsOn
  <2> QED
    BY <1>1, <1>4, <2>1, ExactSame DEF SerialInv
<1>5. CASE req[w].plan = None /\ UNCHANGED plan
  <2>1. \A x \in DOMAIN plan : x # p
    BY <1>1, <1>5, ConstantsAssumption DEF TypeInv, TypeOK, IsTable
  <2> QED
    BY <1>2, <1>4, <1>5, <2>1, SerialOver
<1>6. CASE /\ req[w].at = "record_commit"
           /\ plan' = [plan EXCEPT ![req[w].plan].status = req[w].status]
  <2>1. /\ p \in DOMAIN plan /\ DOMAIN plan' = DOMAIN plan
        /\ plan'[p].status = req[w].status /\ plan'[p].amount = plan[p].amount
        /\ \A q \in DOMAIN plan : q # p => plan'[q] = plan[q]
    BY <1>1, <1>6 DEF SerialInv, RecordInv, RecordPlanInv, PlanOfRequest, TypeInv, TypeOK, IsTable, PlanRow
  <2>2. OnPlan(p)' = a + OnPlan(p)
    <3>1. RecordsOn(p)' = RecordsOn(p) \cup {r} /\ r \notin RecordsOn(p)
      BY <1>3 DEF RecordsOn
    <3>2. IsFiniteSet(RecordsOn(p)) /\ Amounted(record', RecordsOn(p)')
      BY <1>1, OnPlanIsNat, OnPlanIsNatThen
    <3>3. Total(record', RecordsOn(p)') = record'[r].amount + Total(record', RecordsOn(p))
      BY <3>1, <3>2, TotalWith
    <3>4. Total(record', RecordsOn(p)) = Total(record, RecordsOn(p))
      BY <1>3, <3>2, TotalSame DEF RecordsOn
    <3> QED
      BY <1>3, <3>3, <3>4 DEF OnPlan
  <2>3. a \in Nat /\ OnPlan(p) \in Nat /\ OnPlan(p)' \in Nat /\ plan[p].amount \in Nat
    <3>1. a \in Amounts \ {0}
      BY <1>1, <1>6 DEF TypeInv, HandlerOK, AtRecord
    <3> QED
      BY <1>1, <2>1, <3>1, OnPlanIsNat, OnPlanIsNatThen, PlanAmountIsNat, ConstantsAssumption
  <2>4. req[w].status = NewPlanStatus(OnPlan(p)', plan[p].amount)
    <3>1. req[w].status = NewPlanStatus(OnPlan(p) + a, plan[p].amount)
      BY <1>6 DEF SerialInv, StillSo
    <3>2. OnPlan(p) + a = a + OnPlan(p)
      BY <2>3
    <3> QED
      BY <2>2, <3>1, <3>2
  <2>5. Exact(p)'
    BY <2>1, <2>3, <2>4, NewStatusIsExact DEF Exact
  <2> QED
    BY <1>2, <1>4, <2>1, <2>5, SerialOver
<1> QED
  BY <1>5, <1>6

LEMMA SerialDelete ==
    ASSUME SerialInv, RecordInv', NEW w \in Worker, Deletes(w),
           \/ req[w].plan \notin DOMAIN plan /\ UNCHANGED plan
           \/ /\ req[w].at = "delete_commit"
              /\ plan' = [plan EXCEPT ![req[w].plan].status = req[w].status]
    PROVE  SerialInv'
<1> PICK r, p : r = req[w].record /\ p = req[w].plan
  OBVIOUS
<1>1. TypeInv /\ TypeInv'
  BY DEF SerialInv, RecordInv
<1>2. req'[w].at = "settle_read" /\ DOMAIN req'[w].rows = {}
  BY <1>1 DEF Deletes, Settle, Idle, TypeInv, TypeOK
<1>3. /\ r \in DOMAIN record /\ record[r].plan = p
      /\ DOMAIN record' = DOMAIN record \ {r}
      /\ \A i \in DOMAIN record' : record'[i] = record[i]
  BY DEF Deletes, Without, SerialInv, StillSo, AtDelete
<1>4. ASSUME NEW x \in DOMAIN plan, x # p, plan'[x] = plan[x] PROVE Exact(x)'
  <2>1. RecordsOn(x)' = RecordsOn(x) /\ \A i \in RecordsOn(x) : record'[i] = record[i]
    BY <1>3, <1>4 DEF RecordsOn
  <2> QED
    BY <1>1, <1>4, <2>1, ExactSame DEF SerialInv
<1>5. CASE req[w].plan \notin DOMAIN plan /\ UNCHANGED plan
  BY <1>2, <1>4, <1>5, SerialOver
<1>6. CASE /\ req[w].at = "delete_commit"
           /\ plan' = [plan EXCEPT ![req[w].plan].status = req[w].status]
  <2>1. /\ p \in DOMAIN plan /\ DOMAIN plan' = DOMAIN plan
        /\ plan'[p].status = req[w].status /\ plan'[p].amount = plan[p].amount
        /\ \A q \in DOMAIN plan : q # p => plan'[q] = plan[q]
    BY <1>1, <1>6 DEF SerialInv, StillSo, TypeInv, TypeOK, IsTable, PlanRow
  <2>2. OnPlan(p)' = PaidOnPlan(p, r)
    <3>1. RecordsOn(p)' = RecordsOn(p) \ {r}
      BY <1>3 DEF RecordsOn
    <3>2. IsFiniteSet(RecordsOn(p)')
      BY <1>1, OnPlanIsNatThen
    <3>3. \A i \in RecordsOn(p)' : record'[i].amount = record[i].amount
      BY <1>3 DEF RecordsOn
    <3>4. Total(record', RecordsOn(p)') = Total(record, RecordsOn(p)')
      BY <3>2, <3>3, TotalSame
    <3> QED
      BY <3>1, <3>4 DEF OnPlan, PaidOnPlan
  <2>3. OnPlan(p)' \in Nat /\ plan[p].amount \in Nat
    BY <1>1, <2>1, OnPlanIsNatThen, PlanAmountIsNat
  <2>4. req[w].status = NewPlanStatus(OnPlan(p)', plan[p].amount)
    BY <1>6, <2>2 DEF SerialInv, StillSo
  <2>5. Exact(p)'
    BY <2>1, <2>3, <2>4, NewStatusIsExact DEF Exact
  <2> QED
    BY <1>2, <1>4, <2>1, <2>5, SerialOver
<1> QED
  BY <1>5, <1>6

LEMMA SerialPlanDelete ==
    ASSUME SerialInv, RecordInv', NEW w \in Worker, CreatePlansDelete(w)
    PROVE  SerialInv'
<1> PICK c : c = req[w].contract
  OBVIOUS
<1>1. TypeInv
  BY DEF SerialInv, RecordInv
<1>2. \A p \in DOMAIN plan' : Exact(p)'
  BY ExactDelete DEF CreatePlansDelete
<1>3. /\ req[w].at = "batch_delete" /\ UNCHANGED contract
      /\ req'[w].at = "batch_insert" /\ req'[w].contract = c /\ req'[w].rows = req[w].rows
  BY <1>1 DEF CreatePlansDelete, GoTo, TypeInv, TypeOK, Request
<1>4. PlansOf(c)' = {}
  BY DEF CreatePlansDelete, DeletePlans, Without, PlansOf
<1>5. PlansOf(req[w].contract)' = {}
  BY <1>3, <1>4 DEF PlansOf
<1>6. StillSo(req[w])
  BY DEF SerialInv
<1>7. StillSo(req[w])'
  BY <1>3, <1>5, <1>6 DEF StillSo, AtPlan, AtBatch, AtDelete
<1>8. \A v \in Worker : v = w
  BY DEF SerialInv, OneAtATime
<1>9. \A v \in Worker : StillSo(req[v])'
  BY <1>7, <1>8
<1> QED
  BY <1>2, <1>9 DEF SerialInv, OneAtATime

LEMMA ExactUnchanged ==
    ASSUME SerialInv, UNCHANGED <<plan, record>>
    PROVE  \A p \in DOMAIN plan' : Exact(p)'
BY DEF SerialInv, Exact, OnPlan, RecordsOn

LEMMA SerialAnswer ==
    ASSUME SerialInv, RecordInv', NEW w \in Worker, Answer(w), UNCHANGED <<plan, record>>
    PROVE  SerialInv'
<1>1. req'[w].at = "idle" /\ DOMAIN req'[w].rows = {}
  BY AnswerFrame DEF Idle, SerialInv, RecordInv
<1> QED
  BY <1>1, ExactUnchanged, SerialOver

LEMMA SerialSettle ==
    ASSUME SerialInv, RecordInv', NEW w \in Worker, SettleRead(w) \/ SettleSum(w)
    PROVE  SerialInv'
<1>1. TypeInv /\ UNCHANGED <<contract, plan, record>> /\ StillSo(req[w])
  BY DEF SerialInv, RecordInv, SettleRead, SettleSum
<1>2. CASE Answer(w)
  BY <1>1, <1>2, SerialAnswer
<1>3. CASE SettleRead(w) /\ ~Answer(w)
  <2>1. /\ req[w].at = "settle_read" /\ req'[w].at = "settle_sum" /\ req'[w].rows = req[w].rows
        /\ req'[w].contract = req[w].contract
        /\ req'[w].limit = contract[req[w].contract].amount
        /\ req'[w].status = contract[req[w].contract].status
        /\ contract[req[w].contract].status \in {"EXECUTING", "COMPLETED"}
    BY <1>1, <1>3 DEF SettleRead, TypeInv, TypeOK, Request
  <2>2. StillSo(req'[w])
    BY <1>1, <2>1 DEF StillSo, AtPlan, AtBatch, AtDelete
  <2> QED
    BY <1>1, <2>2, SerialMove
<1>4. CASE SettleSum(w) /\ ~Answer(w)
  <2>1. /\ req[w].at = "settle_sum" /\ req'[w].at = "settle_write" /\ req'[w].rows = req[w].rows
        /\ req'[w].contract = req[w].contract /\ req'[w].limit = req[w].limit
        /\ req'[w].status = NextStatus(Paid(req[w].contract), req[w].limit)
    BY <1>1, <1>4 DEF SettleSum, TypeInv, TypeOK, Request
  <2>2. StillSo(req'[w])
    BY <1>1, <2>1 DEF StillSo, AtPlan, AtBatch, AtDelete
  <2> QED
    BY <1>1, <2>2, SerialMove
<1> QED
  BY <1>2, <1>3, <1>4

LEMMA SerialStep ==
    ASSUME SerialInv, RecordInv', NEW w \in Worker, Step(w) \/ Fail(w)
    PROVE  SerialInv'
<1>1. TypeInv /\ StillSo(req[w])
  BY DEF SerialInv, RecordInv
<1>2. ASSUME NEW at, GoTo(w, at)
      PROVE  /\ req'[w].at = at /\ req'[w].rows = req[w].rows /\ req'[w].limit = req[w].limit
             /\ req'[w].contract = req[w].contract
  BY <1>1, <1>2 DEF GoTo, TypeInv, TypeOK, Request
<1>3. ASSUME \/ UpdateWrite(w) \/ ChangeStatusWrite(w) \/ RemoveWrite(w) \/ SettleWrite(w) \/ Fail(w)
      PROVE  SerialInv'
  BY <1>3, SerialAnswer DEF UpdateWrite, ChangeStatusWrite, RemoveWrite, SettleWrite, Fail
<1>4. ASSUME CreatePlanPeriod(w) \/ CreatePlanTotal(w) PROVE SerialInv'
  <2>1. UNCHANGED <<contract, plan, record>>
    BY <1>4 DEF CreatePlanPeriod, CreatePlanTotal
  <2>2. CASE CreatePlanPeriod(w) /\ GoTo(w, "plan_total")
    <3>1. StillSo(req'[w])
      BY <1>1, <1>2, <2>2 DEF CreatePlanPeriod, StillSo, AtPlan, AtBatch, AtDelete
    <3> QED
      BY <2>1, <3>1, SerialMove
  <2>3. CASE CreatePlanTotal(w) /\ GoTo(w, "plan_insert")
    <3>1. /\ req[w].at = "plan_total"
          /\ Answer(w) \/ Planned(req[w].contract) + Total(req[w].rows, DOMAIN req[w].rows) <= req[w].limit
      BY <2>3 DEF CreatePlanTotal, Fits, Planned
    <3>2. ~Answer(w)
      BY <1>1, <1>2, <2>3, AnswerFrame DEF Idle
    <3>3. StillSo(req'[w])
      BY <1>1, <1>2, <2>3, <3>1, <3>2 DEF StillSo, AtPlan, AtBatch, AtDelete
    <3> QED
      BY <2>1, <3>3, SerialMove
  <2> QED
    BY <1>4, <2>1, <2>2, <2>3, SerialAnswer DEF CreatePlanPeriod, CreatePlanTotal
<1>5. ASSUME CreatePlanInsert(w) \/ CreatePlansInsert(w) PROVE SerialInv'
  BY <1>5, SerialInsertPlans DEF CreatePlanInsert, CreatePlansInsert
<1>6. ASSUME RemovePlanDelete(w) PROVE SerialInv'
  <2>1. \A p \in DOMAIN plan' : Exact(p)'
    BY <1>6, ExactDelete DEF RemovePlanDelete
  <2>2. req'[w].at = "idle" /\ DOMAIN req'[w].rows = {}
    BY <1>1, <1>6, AnswerFrame DEF RemovePlanDelete, Idle
  <2> QED
    BY <2>1, <2>2, SerialOver
<1>7. ASSUME CreateRecordPlan(w) \/ CreateRecordTotal(w) PROVE SerialInv'
  <2>1. /\ UNCHANGED <<contract, plan, record>>
        /\ Answer(w) \/ GoTo(w, "record_total") \/ GoTo(w, "record_insert")
    BY <1>7 DEF CreateRecordPlan, CreateRecordTotal
  <2>2. ASSUME NEW at \in {"record_total", "record_insert"}, GoTo(w, at) PROVE StillSo(req'[w])
    BY <1>1, <1>2, <2>2 DEF StillSo, AtPlan, AtBatch, AtDelete
  <2> QED
    BY <2>1, <2>2, SerialAnswer, SerialMove
<1>8. ASSUME CreateRecordInsert(w) PROVE SerialInv'
  <2>1. req[w].at = "record_insert" /\ UNCHANGED <<contract, plan>>
    BY <1>8 DEF CreateRecordInsert
  <2>2. CASE req[w].plan = None /\ record' = Insert(record, NewRecord(w)) /\ Settle(w, req[w].contract)
    BY <2>1, <2>2, SerialInsert DEF Inserts
  <2>3. CASE Answer(w) /\ UNCHANGED record
    BY <2>1, <2>3, SerialAnswer
  <2>4. CASE /\ req' = [req EXCEPT ![w].at = "record_commit",
                        ![w].status = NewPlanStatus(
                            PaidOnPlan(req[w].plan, req[w].record) + req[w].amount,
                            plan[req[w].plan].amount)]
             /\ UNCHANGED record
    <3>1. /\ req'[w].at = "record_commit" /\ req'[w].plan = req[w].plan /\ req'[w].amount = req[w].amount
          /\ req'[w].status = NewPlanStatus(PaidOnPlan(req[w].plan, req[w].record) + req[w].amount,
                                            plan[req[w].plan].amount)
          /\ req'[w].rows = req[w].rows /\ req'[w].contract = req[w].contract
      BY <1>1, <2>4 DEF TypeInv, TypeOK, Request
    <3>2. PaidOnPlan(req[w].plan, req[w].record) = OnPlan(req[w].plan)
      <4>1. RecordsOn(req[w].plan) \ {req[w].record} = RecordsOn(req[w].plan)
        BY <2>1 DEF SerialInv, RecordInv, NewRecordIsNew, AtRecord, RecordsOn
      <4> QED
        BY <4>1 DEF PaidOnPlan, OnPlan
    <3>3. StillSo(req'[w])
      BY <1>1, <3>1, <3>2 DEF StillSo, AtPlan, AtBatch, AtDelete
    <3> QED
      BY <2>1, <2>4, <3>3, SerialMove
  <2> QED
    BY <1>8, <2>2, <2>3, <2>4 DEF CreateRecordInsert
<1>9. ASSUME CreateRecordCommit(w) PROVE SerialInv'
  BY <1>9, SerialInsert DEF CreateRecordCommit, Inserts
<1>10. ASSUME RemoveRecordDelete(w) PROVE SerialInv'
  <2>1. req[w].at = "row_delete" /\ UNCHANGED <<contract, plan>>
    BY <1>10 DEF RemoveRecordDelete
  <2>2. CASE /\ req[w].plan \notin DOMAIN plan /\ record' = Without(record, {req[w].record})
             /\ Settle(w, req[w].contract)
    BY <2>1, <2>2, SerialDelete DEF Deletes
  <2>3. CASE Answer(w) /\ UNCHANGED record
    BY <2>1, <2>3, SerialAnswer
  <2>4. CASE /\ req[w].plan \in DOMAIN plan
             /\ req' = [req EXCEPT ![w].at = "delete_commit",
                        ![w].status = NewPlanStatus(
                            PaidOnPlan(req[w].plan, req[w].record),
                            plan[req[w].plan].amount)]
             /\ UNCHANGED record
    <3>1. /\ req'[w].at = "delete_commit" /\ req'[w].plan = req[w].plan /\ req'[w].record = req[w].record
          /\ req'[w].status = NewPlanStatus(PaidOnPlan(req[w].plan, req[w].record),
                                            plan[req[w].plan].amount)
          /\ req'[w].rows = req[w].rows /\ req'[w].contract = req[w].contract
      BY <1>1, <2>4 DEF TypeInv, TypeOK, Request
    <3>2. StillSo(req'[w])
      BY <1>1, <2>1, <2>4, <3>1 DEF StillSo, AtPlan, AtBatch, AtDelete
    <3> QED
      BY <2>1, <2>4, <3>2, SerialMove
  <2> QED
    BY <1>10, <2>2, <2>3, <2>4 DEF RemoveRecordDelete
<1>11. ASSUME RemoveRecordCommit(w) PROVE SerialInv'
  BY <1>11, SerialDelete DEF RemoveRecordCommit, Deletes
<1> QED
  BY <1>3, <1>4, <1>5, <1>6, <1>7, <1>8, <1>9, <1>10, <1>11, SerialSettle, SerialPlanDelete DEF Step

LEMMA SerialAsk ==
    ASSUME SerialInv, RecordInv', NEW w \in Worker, Ask(w)
    PROVE  SerialInv'
<1>1. TypeInv /\ UNCHANGED <<contract, plan, record>>
  BY AskEffect DEF SerialInv, RecordInv
<1> SUFFICES StillSo(req'[w])
  BY <1>1, SerialMove
<1> USE <1>1 DEF Start, Idle, TypeInv, TypeOK, StillSo, AtPlan, AtBatch, AtDelete
<1>2. ASSUME NEW c \in Contract, NEW a \in Amounts, UpdateRead(w, c, a) PROVE StillSo(req'[w])
  BY <1>2 DEF UpdateRead
<1>3. ASSUME NEW c \in Contract, NEW s \in ContractStatus, ChangeStatusRead(w, c, s)
      PROVE  StillSo(req'[w])
  BY <1>3 DEF ChangeStatusRead, Live, Transition
<1>4. ASSUME NEW c \in Contract, RemoveRead(w, c) PROVE StillSo(req'[w])
  BY <1>4 DEF RemoveRead
<1>5. ASSUME NEW c \in Contract, NEW p \in Plan, NEW row \in NewPlanRow(c), CreatePlanRead(w, p, row)
      PROVE  StillSo(req'[w])
  BY <1>5 DEF CreatePlanRead, NewPlanRow, Live
<1>6. ASSUME NEW c \in Contract, NEW ids \in SUBSET Plan, NEW rows \in [ids -> NewPlanRow(c)],
             CreatePlansRead(w, c, rows)
      PROVE  StillSo(req'[w])
  BY <1>6 DEF CreatePlansRead, NewPlanRow, Live, Fits
<1>7. ASSUME NEW p \in Plan, RemovePlanRead(w, p) PROVE StillSo(req'[w])
  BY <1>7 DEF RemovePlanRead
<1>8. ASSUME NEW r \in Record, NEW row \in RecordRow, CreateRecordRead(w, r, row)
      PROVE  StillSo(req'[w])
  BY <1>8 DEF CreateRecordRead
<1>9. ASSUME NEW r \in Record, RemoveRecordRead(w, r) PROVE StillSo(req'[w])
  BY <1>9 DEF RemoveRecordRead
<1> QED
  BY <1>2, <1>3, <1>4, <1>5, <1>6, <1>7, <1>8, <1>9 DEF Ask

LEMMA SerialCreate ==
    ASSUME SerialInv, RecordInv', NEW c \in Contract, NEW a \in Amounts, Create(c, a)
    PROVE  SerialInv'
<1>1. /\ UNCHANGED <<plan, record, req>> /\ DOMAIN contract \subseteq DOMAIN contract'
      /\ \A x \in DOMAIN contract : contract'[x] = contract[x]
  BY DEF Create, Insert
<1>2. ASSUME NEW w \in Worker PROVE StillSo(req[w])'
  <2>1. StillSo(req[w]) /\ HandlerOK(w)
    BY DEF SerialInv, RecordInv, TypeInv
  <2>2. /\ Paid(req[w].contract)' = Paid(req[w].contract)
        /\ Planned(req[w].contract)' = Planned(req[w].contract)
        /\ PlansOf(req[w].contract)' = PlansOf(req[w].contract)
        /\ OnPlan(req[w].plan)' = OnPlan(req[w].plan)
        /\ PaidOnPlan(req[w].plan, req[w].record)' = PaidOnPlan(req[w].plan, req[w].record)
    BY <1>1 DEF Paid, RecordsOf, Planned, PlansOf, OnPlan, PaidOnPlan, RecordsOn
  <2> QED
    BY <1>1, <2>1, <2>2 DEF StillSo, HandlerOK, AtSettle, AtPlan, AtBatch, AtDelete
<1> QED
  BY <1>1, <1>2, ExactUnchanged DEF SerialInv, OneAtATime

LEMMA SerialNext ==
    ASSUME SerialInv, [Next]_vars
    PROVE  SerialInv'
<1>1. RecordInv'
  BY RecordNext DEF SerialInv
<1>2. CASE UNCHANGED vars
  <2>1. ASSUME NEW w \in Worker PROVE SerialInv'
    <3>1. StillSo(req'[w])
      BY <1>2 DEF vars, SerialInv
    <3> QED
      BY <1>1, <1>2, <3>1, SerialMove DEF vars
  <2>2. CASE Worker = {}
    BY <1>1, <1>2, <2>2, ExactUnchanged DEF vars, SerialInv, OneAtATime
  <2> QED
    BY <2>1, <2>2
<1> QED
  BY <1>1, <1>2, SerialStep, SerialAsk, SerialCreate DEF Next

LEMMA SerialHolds == OneAtATime /\ Spec => []SerialInv
<1>1. SerialInv /\ [Next]_vars => SerialInv'
  BY SerialNext
<1>2. OneAtATime /\ Init => SerialInv
  BY SerialInit
<1> QED
  BY <1>1, <1>2, PTL DEF Spec

\* One request at a time, the status of a plan is the one its records amount
\* to, also across plan replacement and failures (refreshPlanStatus).
THEOREM PlanStatusesCorrect == OneAtATime /\ Spec => []PlanStatusExact
<1>1. SerialInv => PlanStatusExact
  BY DEF SerialInv, PlanStatusExact, Exact, OnPlan
<1> QED
  BY <1>1, SerialHolds, PTL

-----------------------------------------------------------------------------
\* What a step does to the status of a contract.
LEMMA StatusWrites ==
    ASSUME TypeInv, [Next]_vars
    PROVE  \/ \E w \in Worker :
                 /\ req[w].at \in {"status_write", "settle_write"}
                 /\ contract' = [contract EXCEPT ![req[w].contract].status = req[w].status]
           \/ \A c \in DOMAIN contract : contract'[c].status = contract[c].status
<1> DEFINE Kept == \A c \in DOMAIN contract : contract'[c].status = contract[c].status
<1>1. CASE UNCHANGED contract
  BY <1>1
<1>2. ASSUME NEW w \in Worker, UpdateWrite(w) \/ RemoveWrite(w) PROVE Kept
  BY <1>2 DEF UpdateWrite, RemoveWrite, TypeInv, TypeOK, IsTable, ContractRow
<1>3. ASSUME NEW c \in Contract, NEW a \in Amounts, Create(c, a) PROVE Kept
  BY <1>3 DEF Create, Insert
<1>4. ASSUME NEW w \in Worker, Ask(w) PROVE UNCHANGED contract
  BY <1>4, AskEffect
<1>5. ASSUME NEW w \in Worker, Step(w) \/ Fail(w)
      PROVE  \/ UNCHANGED contract \/ UpdateWrite(w) \/ RemoveWrite(w)
             \/ ChangeStatusWrite(w) \/ SettleWrite(w)
  BY <1>5 DEF Step, Fail, SettleRead, SettleSum, CreatePlanPeriod, CreatePlanTotal,
     CreatePlanInsert, CreatePlansDelete, CreatePlansInsert, RemovePlanDelete, CreateRecordPlan,
     CreateRecordTotal, CreateRecordInsert, CreateRecordCommit, RemoveRecordDelete, RemoveRecordCommit
<1>6. CASE UNCHANGED vars
  BY <1>1, <1>6 DEF vars
<1> QED
  BY <1>1, <1>2, <1>3, <1>4, <1>5, <1>6 DEF Next, ChangeStatusWrite, SettleWrite

\* One request at a time, a TERMINATED contract stays so (changeStatus,
\* reconcileContractStatus).
THEOREM TerminationCorrect == OneAtATime /\ Spec => TerminatedIsFinal
<1> DEFINE Final ==
              \A c \in DOMAIN contract :
                  contract[c].status = "TERMINATED" => contract'[c].status = "TERMINATED"
<1>1. ASSUME SerialInv, [Next]_vars PROVE [Final]_vars
  <2>1. TypeInv /\ \A w \in Worker : StillSo(req[w])
    BY <1>1 DEF SerialInv, RecordInv
  <2>2. ASSUME NEW w \in Worker, req[w].at \in {"status_write", "settle_write"},
               contract' = [contract EXCEPT ![req[w].contract].status = req[w].status]
        PROVE  Final
    <3>1. contract[req[w].contract].status # "TERMINATED"
      BY <2>1, <2>2 DEF StillSo
    <3> QED
      BY <2>2, <3>1
  <2>3. Final
    BY <1>1, <2>1, <2>2, StatusWrites
  <2> QED
    BY <2>3
<1> QED
  BY <1>1, SerialHolds, PTL DEF Spec, TerminatedIsFinal

\* One request at a time, a contract that has been reconciled has the status
\* its payments call for (reconcileContractStatus).
THEOREM SettlementCorrect == OneAtATime /\ Spec => SettledStatus
<1> DEFINE Settled ==
              \A w \in Worker, c \in DOMAIN contract :
                  (/\ SettleRead(w) \/ SettleSum(w) \/ SettleWrite(w)
                   /\ req'[w].at = "idle"
                   /\ req[w].contract = c
                   /\ contract[c].status \in {"EXECUTING", "COMPLETED"})
                  => (contract'[c].status = "COMPLETED" <=> Paid(c)' >= contract'[c].amount)
<1>1. ASSUME SerialInv PROVE Settled
  <2>1. TypeInv
    BY <1>1 DEF SerialInv, RecordInv
  <2> SUFFICES ASSUME NEW w \in Worker, NEW c \in DOMAIN contract,
                      SettleRead(w) \/ SettleSum(w) \/ SettleWrite(w),
                      req'[w].at = "idle", req[w].contract = c,
                      contract[c].status \in {"EXECUTING", "COMPLETED"}
               PROVE  contract'[c].status = "COMPLETED" <=> Paid(c)' >= contract'[c].amount
    OBVIOUS
  <2>2. StillSo(req[w])
    BY <1>1 DEF SerialInv
  <2>3. Paid(c)' = Paid(c)
    BY DEF SettleRead, SettleSum, SettleWrite, Paid, RecordsOf
  <2>4. NextStatus(Paid(c), contract[c].amount) = "COMPLETED" <=> Paid(c) >= contract[c].amount
    BY DEF NextStatus
  <2>5. ~SettleRead(w)
    BY <2>1 DEF SettleRead, TypeInv, TypeOK, Request
  <2>6. CASE SettleSum(w)
    <3>1. NextStatus(Paid(c), req[w].limit) = req[w].status
      BY <2>1, <2>6 DEF SettleSum, TypeInv, TypeOK, Request
    <3>2. contract[c].status = NextStatus(Paid(c), contract[c].amount)
      BY <2>2, <2>6, <3>1 DEF StillSo, SettleSum
    <3> QED
      BY <2>3, <2>4, <2>6, <3>2 DEF SettleSum
  <2>7. CASE SettleWrite(w)
    <3>1. /\ contract'[c].status = req[w].status /\ contract'[c].amount = contract[c].amount
          /\ req[w].status = NextStatus(Paid(c), contract[c].amount)
      BY <2>1, <2>2, <2>7 DEF SettleWrite, StillSo, TypeInv, TypeOK, IsTable, ContractRow
    <3> QED
      BY <2>3, <2>4, <3>1
  <2> QED
    BY <2>5, <2>6, <2>7
<1>2. SerialInv => [Settled]_vars
  BY <1>1
<1> QED
  BY <1>2, SerialHolds, PTL DEF SettledStatus

-----------------------------------------------------------------------------
LEMMA PlanTotal ==
    ASSUME NEW table, IsTable(table, Plan, PlanRow), NEW ids \in SUBSET DOMAIN table
    PROVE  IsFiniteSet(ids) /\ Amounted(table, ids) /\ Total(table, ids) \in Nat
<1>1. IsFiniteSet(ids)
  BY ConstantsAssumption, FS_Subset DEF IsTable
<1>2. Amounted(table, ids)
  BY ConstantsAssumption DEF Amounted, IsTable, PlanRow
<1> QED
  BY <1>1, <1>2, TotalType

LEMMA PlannedIsNat ==
    ASSUME TypeInv, NEW c
    PROVE  /\ IsFiniteSet(PlansOf(c)) /\ Amounted(plan, PlansOf(c)) /\ Planned(c) \in Nat
           /\ PlansOf(c) \subseteq DOMAIN plan
BY PlanTotal DEF TypeInv, TypeOK, PlansOf, Planned

LEMMA PlannedIsNatThen ==
    ASSUME TypeInv', NEW c
    PROVE  /\ IsFiniteSet(PlansOf(c)') /\ Amounted(plan', PlansOf(c)') /\ Planned(c)' \in Nat
           /\ PlansOf(c)' \subseteq DOMAIN plan'
BY PlanTotal DEF TypeInv, TypeOK, PlansOf, Planned

\* Plans that stay as they are, or go, do not raise the planned total.
LEMMA PlannedFalls ==
    ASSUME TypeInv, TypeInv', NEW c, DOMAIN plan' \subseteq DOMAIN plan,
           \A p \in DOMAIN plan' : plan'[p].contract = plan[p].contract /\ plan'[p].amount = plan[p].amount
    PROVE  Planned(c)' <= Planned(c)
<1> DEFINE was == PlansOf(c)
           is == PlansOf(c)'
<1>1. IsFiniteSet(was) /\ Amounted(plan, was) /\ IsFiniteSet(is)
  BY PlannedIsNat, PlannedIsNatThen
<1>2. is \subseteq was /\ \A p \in is : plan'[p].amount = plan[p].amount
  BY DEF PlansOf
<1>3. Total(plan', is) = Total(plan, is) /\ Total(plan, is) <= Total(plan, was)
  <2> HIDE DEF was, is
  <2> QED
    BY <1>1, <1>2, TotalSame, TotalGrows
<1> QED
  BY <1>3 DEF Planned

\* Plans that are inserted add what they amount to.
LEMMA PlannedAdds ==
    ASSUME TypeInv, TypeInv', RecordPlanInv, NEW w \in Worker, StillSo(req[w]),
           plan' = Insert(plan, req[w].rows), NEW c
    PROVE  /\ c = req[w].contract =>
                 Planned(c)' = Planned(c) + Total(req[w].rows, DOMAIN req[w].rows)
           /\ c # req[w].contract => Planned(c)' = Planned(c)
<1> PICK rows : rows = req[w].rows
  OBVIOUS
<1>1. /\ DOMAIN rows \cap DOMAIN plan = {}
      /\ DOMAIN plan' = DOMAIN plan \cup DOMAIN rows
      /\ \A p \in DOMAIN plan : plan'[p] = plan[p]
      /\ \A p \in DOMAIN rows : plan'[p] = rows[p] /\ rows[p].contract = req[w].contract
  BY DEF Insert, RecordPlanInv, NewPlansAreNew, StillSo
<1>2. /\ IsFiniteSet(PlansOf(c)) /\ IsFiniteSet(PlansOf(c)') /\ Amounted(plan', PlansOf(c)')
      /\ IsFiniteSet(DOMAIN rows)
  <2>1. IsTable(rows, Plan, PlanRow)
    BY TablesAreTables DEF TypeInv, TypeOK, Request
  <2> QED
    BY <2>1, PlannedIsNat, PlannedIsNatThen, PlanTotal
<1>3. Total(plan', PlansOf(c)) = Planned(c)
  BY <1>1, <1>2, TotalSame DEF PlansOf, Planned
<1>4. CASE c = req[w].contract
  <2>1. PlansOf(c)' = PlansOf(c) \cup DOMAIN rows /\ PlansOf(c) \cap DOMAIN rows = {}
    BY <1>1, <1>4 DEF PlansOf
  <2>2. Total(plan', PlansOf(c)') = Total(plan', PlansOf(c)) + Total(plan', DOMAIN rows)
    BY <1>2, <2>1, TotalUnion
  <2>3. Total(plan', DOMAIN rows) = Total(rows, DOMAIN rows)
    BY <1>1, <1>2, TotalSame
  <2> QED
    BY <1>3, <1>4, <2>2, <2>3 DEF Planned
<1>5. CASE c # req[w].contract
  <2>1. PlansOf(c)' = PlansOf(c)
    BY <1>1, <1>5 DEF PlansOf
  <2> QED
    BY <1>3, <1>5, <2>1 DEF Planned
<1> QED
  BY <1>4, <1>5

\* What a step does to the plans.
LEMMA PlanEffect ==
    ASSUME TypeInv, [Next]_vars
    PROVE  \/ \E w \in Worker : CreatePlanInsert(w) \/ CreatePlansInsert(w)
           \/ /\ DOMAIN plan' \subseteq DOMAIN plan
              /\ \A p \in DOMAIN plan' :
                    plan'[p].contract = plan[p].contract /\ plan'[p].amount = plan[p].amount
<1> DEFINE Falls ==
              /\ DOMAIN plan' \subseteq DOMAIN plan
              /\ \A p \in DOMAIN plan' :
                    plan'[p].contract = plan[p].contract /\ plan'[p].amount = plan[p].amount
<1>1. CASE UNCHANGED plan
  BY <1>1
<1>2. ASSUME NEW w \in Worker, CreateRecordCommit(w) \/ RemoveRecordCommit(w) PROVE Falls
  BY <1>2 DEF CreateRecordCommit, RemoveRecordCommit, TypeInv, TypeOK, IsTable, PlanRow
<1>3. ASSUME NEW w \in Worker, CreatePlansDelete(w) \/ RemovePlanDelete(w) PROVE Falls
  BY <1>3 DEF CreatePlansDelete, RemovePlanDelete, DeletePlans, Without
<1>4. ASSUME NEW w \in Worker, Ask(w) PROVE UNCHANGED plan
  BY <1>4, AskEffect
<1>5. ASSUME NEW w \in Worker, Step(w) \/ Fail(w)
      PROVE  \/ UNCHANGED plan \/ CreateRecordCommit(w) \/ RemoveRecordCommit(w)
             \/ CreatePlansDelete(w) \/ RemovePlanDelete(w) \/ CreatePlanInsert(w) \/ CreatePlansInsert(w)
  BY <1>5 DEF Step, Fail, UpdateWrite, ChangeStatusWrite, RemoveWrite, SettleRead, SettleSum, SettleWrite,
     CreatePlanPeriod, CreatePlanTotal, CreateRecordPlan, CreateRecordTotal, CreateRecordInsert,
     RemoveRecordDelete
<1>6. CASE UNCHANGED vars
  BY <1>1, <1>6 DEF vars
<1> QED
  BY <1>1, <1>2, <1>3, <1>4, <1>5, <1>6 DEF Next, Create

\* One request at a time, plans that raise the planned total keep it within the
\* contract amount (createPlan, createPlans).
THEOREM PlanningCorrect == OneAtATime /\ Spec => PlanKeepsWithinAmount
<1> DEFINE Keeps ==
              \A c \in DOMAIN contract :
                  Planned(c)' > Planned(c) => Planned(c)' <= contract[c].amount
<1>1. ASSUME SerialInv, SerialInv', [Next]_vars PROVE [Keeps]_vars
  <2>1. TypeInv /\ TypeInv' /\ RecordPlanInv
    BY <1>1 DEF SerialInv, RecordInv
  <2>2. ASSUME NEW w \in Worker, CreatePlanInsert(w) \/ CreatePlansInsert(w), NEW c \in DOMAIN contract
        PROVE  Planned(c)' > Planned(c) => Planned(c)' <= contract[c].amount
    <3>1. StillSo(req[w]) /\ plan' = Insert(plan, req[w].rows)
      BY <1>1, <2>2 DEF SerialInv, CreatePlanInsert, CreatePlansInsert
    <3>2. Planned(c) \in Nat
      BY <2>1, PlannedIsNat
    <3>3. CASE c # req[w].contract
      BY <2>1, <3>1, <3>2, <3>3, PlannedAdds
    <3>4. CASE c = req[w].contract
      <4>1. Planned(c)' = Planned(c) + Total(req[w].rows, DOMAIN req[w].rows)
        BY <2>1, <3>1, <3>4, PlannedAdds
      <4>2. CASE CreatePlanInsert(w)
        BY <3>1, <3>4, <4>1, <4>2 DEF StillSo, CreatePlanInsert, AtPlan
      <4>3. CASE CreatePlansInsert(w)
        <5>1. /\ PlansOf(c) = {}
              /\ Total(req[w].rows, DOMAIN req[w].rows) <= contract[c].amount
          BY <3>1, <3>4, <4>3 DEF StillSo, CreatePlansInsert, AtBatch
        <5>2. Planned(c) = 0
          BY <5>1, TotalEmpty DEF Planned
        <5>3. Total(req[w].rows, DOMAIN req[w].rows) \in Nat
          <6>1. IsTable(req[w].rows, Plan, PlanRow)
            BY <2>1, TablesAreTables DEF TypeInv, TypeOK, Request
          <6> QED
            BY <6>1, PlanTotal
        <5> QED
          BY <4>1, <5>1, <5>2, <5>3
      <4> QED
        BY <2>2, <4>2, <4>3
    <3> QED
      BY <3>3, <3>4
  <2>3. ASSUME NEW c \in DOMAIN contract, DOMAIN plan' \subseteq DOMAIN plan,
               \A p \in DOMAIN plan' :
                  plan'[p].contract = plan[p].contract /\ plan'[p].amount = plan[p].amount
        PROVE  Planned(c)' > Planned(c) => Planned(c)' <= contract[c].amount
    <3>1. Planned(c)' <= Planned(c) /\ Planned(c) \in Nat /\ Planned(c)' \in Nat
      BY <2>1, <2>3, PlannedFalls, PlannedIsNat, PlannedIsNatThen
    <3> QED
      BY <3>1
  <2>4. Keeps
    BY <1>1, <2>1, <2>2, <2>3, PlanEffect
  <2> QED
    BY <2>4
<1> QED
  BY <1>1, SerialHolds, PTL DEF Spec, PlanKeepsWithinAmount
=============================================================================
