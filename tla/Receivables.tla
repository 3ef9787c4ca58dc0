---------------------------- MODULE Receivables ----------------------------
(***************************************************************************)
(* Sales contracts, their payment plans and payment records: the payments  *)
(* service (payments.service.ts) and the part of the contracts service it  *)
(* drives (contracts.service.ts: create, update, changeStatus, remove,     *)
(* reconcileContractStatus).                                               *)
(*                                                                         *)
(* Every HTTP request is handled by a worker.  A handler is a chain of     *)
(* awaits and other handlers run at each of them, so there is one action   *)
(* per database statement, except that statements of one transaction which *)
(* publish nothing are merged.  What a handler has read and still uses is  *)
(* in its request record.  The database is PostgreSQL at its default level *)
(* READ COMMITTED: a statement sees what is committed when it starts, and  *)
(* the writer of a row waits for the transaction that already holds it.    *)
(***************************************************************************)
EXTENDS Rows, Integers, FiniteSets, FiniteSetsExt

CONSTANTS
    Worker,    \* request handlers that can be in flight at one time
    Contract,  \* contract ids
    Plan,      \* payment plan ids
    Record,    \* payment record ids
    None,      \* SQL NULL
    Amounts,   \* amounts a client may send
    Periods,   \* period numbers of a plan
    Sales,     \* the contracts whose type is a sales type
    Ops,       \* the operations clients request
    Admin,     \* may an ADMIN edit and delete contracts that are not drafts?
    Failures   \* may a handler die at an await?

ASSUME ConstantsAssumption ==
    /\ None \notin Contract \cup Plan \cup Record
    /\ Amounts \subseteq Nat
    /\ Sales \subseteq Contract
    /\ Admin \in BOOLEAN
    /\ Failures \in BOOLEAN
    /\ IsFiniteSet(Plan) /\ IsFiniteSet(Record)   \* cuids are strings of one length

VARIABLES
    contract,  \* the contracts table, from ids to rows
    plan,      \* the payment_plans table
    record,    \* the payment_records table
    req        \* the request each worker is handling

vars == <<contract, plan, record, req>>

ContractStatus == {"DRAFT", "EXECUTING", "COMPLETED", "TERMINATED"}
PlanStatus == {"PENDING", "PARTIAL", "COMPLETED"}

ContractRow == [status : ContractStatus, amount : Amounts, deleted : BOOLEAN]
PlanRow == [contract : Contract, period : Periods, amount : Amounts, status : PlanStatus]
\* The DTO of a record asks for at least 0.01; contracts and plans may be 0.
RecordRow == [contract : Contract, plan : Plan \cup {None}, amount : Amounts \ {0}]

(***************************************************************************)
(* A request: at is the await the handler is at, the other fields are what *)
(* the client sent and what the handler has read.                          *)
(***************************************************************************)
At == {"idle", "plan_period", "plan_total", "plan_insert", "batch_delete",
       "batch_insert", "record_plan", "record_total", "record_insert",
       "record_commit", "row_delete", "delete_commit", "plan_delete",
       "settle_read", "settle_sum", "settle_write", "status_write",
       "amount_write", "remove_write"}

Request == [at : At,
            contract : Contract \cup {None},
            plan : Plan \cup {None},
            record : Record \cup {None},
            amount : Amounts \cup {0},      \* sent by the client
            limit : Amounts \cup {0},       \* amountWithTax as it was read
            status : ContractStatus \cup PlanStatus \cup {None},
            rows : Tables(Plan, PlanRow)]   \* plans about to be inserted

Idle == [at |-> "idle", contract |-> None, plan |-> None, record |-> None,
         amount |-> 0, limit |-> 0, status |-> None, rows |-> [p \in {} |-> None]]

TypeOK ==
    /\ IsTable(contract, Contract, ContractRow)
    /\ IsTable(plan, Plan, PlanRow)
    /\ IsTable(record, Record, RecordRow)
    /\ req \in [Worker -> Request]

-----------------------------------------------------------------------------
\* Queries and the small decisions of the handlers.

PlansOf(c) == {p \in DOMAIN plan : plan[p].contract = c}
RecordsOf(c) == {r \in DOMAIN record : record[r].contract = c}
RecordsOn(p) == {r \in DOMAIN record : record[r].plan = p}

Paid(c) == Total(record, RecordsOf(c))

\* Ids are cuids: a new one is in no table and in no request.
FreshPlan ==
    {p \in Plan \ DOMAIN plan :
        \A w \in Worker : req[w].plan # p /\ p \notin DOMAIN req[w].rows}
FreshRecord == {r \in Record \ DOMAIN record : \A w \in Worker : req[w].record # r}

Live(c) == c \in DOMAIN contract /\ ~contract[c].deleted

Transition ==
    [DRAFT |-> {"EXECUTING"}, EXECUTING |-> {"COMPLETED", "TERMINATED"},
     COMPLETED |-> {}, TERMINATED |-> {}]

LaxFits(total, limit) == total <= limit + 1
Fits(total, limit) == total <= limit

HastyPlanStatus(paid, due) ==
    IF paid + 1 >= due THEN "COMPLETED" ELSE IF paid > 0 THEN "PARTIAL" ELSE "PENDING"
NewPlanStatus(paid, due) ==
    IF paid >= due THEN "COMPLETED" ELSE IF paid > 0 THEN "PARTIAL" ELSE "PENDING"

StrictNextStatus(paid, amount) == IF paid > amount THEN "COMPLETED" ELSE "EXECUTING"
NextStatus(paid, amount) == IF paid >= amount THEN "COMPLETED" ELSE "EXECUTING"

\* What a transaction that has inserted or deleted record r sees of plan p:
\* committed rows, without r.
PaidOnPlanAll(p, r) == Total(record, RecordsOn(p))
PaidOnPlan(p, r) == Total(record, RecordsOn(p) \ {r})

Start(w, op, request) ==
    /\ op \in Ops
    /\ req[w].at = "idle"
    /\ req' = [req EXCEPT ![w] = request]

GoTo(w, at) == req' = [req EXCEPT ![w].at = at]
Answer(w) == req' = [req EXCEPT ![w] = Idle]
Settle(w, c) == req' = [req EXCEPT ![w] = [Idle EXCEPT !.at = "settle_read", !.contract = c]]

-----------------------------------------------------------------------------
\* Contracts (contracts.service.ts).

Create(c, a) ==
    /\ "create" \in Ops
    /\ c \notin DOMAIN contract
    /\ contract' = Insert(contract, [i \in {c} |->
                        [status |-> "DRAFT", amount |-> a, deleted |-> FALSE]])
    /\ UNCHANGED <<plan, record, req>>

UpdateRead(w, c, a) ==
    /\ Live(c)
    /\ contract[c].status = "DRAFT" \/ Admin
    /\ Start(w, "update", [Idle EXCEPT !.at = "amount_write", !.contract = c, !.amount = a])
    /\ UNCHANGED <<contract, plan, record>>

UpdateWriteAdds(w) ==
    /\ req[w].at = "amount_write"
    /\ contract' = [contract EXCEPT ![req[w].contract].amount = @ + req[w].amount]
    /\ Answer(w)
    /\ UNCHANGED <<plan, record>>
UpdateWrite(w) ==
    /\ req[w].at = "amount_write"
    /\ contract' = [contract EXCEPT ![req[w].contract].amount = req[w].amount]
    /\ Answer(w)
    /\ UNCHANGED <<plan, record>>

ChangeStatusRead(w, c, s) ==
    /\ Live(c)
    /\ s \in Transition[contract[c].status]
    /\ Start(w, s, [Idle EXCEPT !.at = "status_write", !.contract = c, !.status = s])
    /\ UNCHANGED <<contract, plan, record>>

ChangeStatusWrite(w) ==
    /\ req[w].at = "status_write"
    /\ contract' = [contract EXCEPT ![req[w].contract].status = req[w].status]
    /\ Answer(w)
    /\ UNCHANGED <<plan, record>>

RemoveRead(w, c) ==
    /\ Live(c)
    /\ contract[c].status = "DRAFT" \/ Admin
    /\ Start(w, "remove", [Idle EXCEPT !.at = "remove_write", !.contract = c])
    /\ UNCHANGED <<contract, plan, record>>

RemoveWrite(w) ==
    /\ req[w].at = "remove_write"
    /\ contract' = [contract EXCEPT ![req[w].contract].deleted = TRUE]
    /\ Answer(w)
    /\ UNCHANGED <<plan, record>>

(***************************************************************************)
(* reconcileContractStatus: three statements outside any transaction.  The *)
(* status is written without asking whether the row still has the status   *)
(* that was read.                                                          *)
(***************************************************************************)
SettleReadAny(w) ==
    /\ req[w].at = "settle_read"
    /\ req' = [req EXCEPT ![w].at = "settle_sum", ![w].status = contract[req[w].contract].status,
                          ![w].limit = contract[req[w].contract].amount]
    /\ UNCHANGED <<contract, plan, record>>
SettleRead(w) ==
    /\ req[w].at = "settle_read"
    /\ LET row == contract[req[w].contract]
       IN  IF row.status \in {"EXECUTING", "COMPLETED"}
           THEN req' = [req EXCEPT ![w].at = "settle_sum", ![w].status = row.status,
                                   ![w].limit = row.amount]
           ELSE Answer(w)
    /\ UNCHANGED <<contract, plan, record>>

SettleSum(w) ==
    /\ req[w].at = "settle_sum"
    /\ LET next == NextStatus(Paid(req[w].contract), req[w].limit)
       IN  IF next # req[w].status
           THEN req' = [req EXCEPT ![w].at = "settle_write", ![w].status = next]
           ELSE Answer(w)
    /\ UNCHANGED <<contract, plan, record>>

SettleWrite(w) ==
    /\ req[w].at = "settle_write"
    /\ contract' = [contract EXCEPT ![req[w].contract].status = req[w].status]
    /\ Answer(w)
    /\ UNCHANGED <<plan, record>>

-----------------------------------------------------------------------------
\* Payment plans (payments.service.ts).

CreatePlanRead(w, p, row) ==
    /\ Live(row.contract) /\ row.contract \in Sales
    /\ p \in FreshPlan
    /\ Start(w, "createPlan",
             [Idle EXCEPT !.at = "plan_period", !.contract = row.contract,
                          !.limit = contract[row.contract].amount,
                          !.rows = [i \in {p} |-> row]])
    /\ UNCHANGED <<contract, plan, record>>

CreatePlanPeriod(w) ==
    /\ req[w].at = "plan_period"
    /\ IF \E p \in PlansOf(req[w].contract), i \in DOMAIN req[w].rows :
             plan[p].period = req[w].rows[i].period
       THEN Answer(w)
       ELSE GoTo(w, "plan_total")
    /\ UNCHANGED <<contract, plan, record>>

CreatePlanTotal(w) ==
    /\ req[w].at = "plan_total"
    /\ IF Fits(Total(plan, PlansOf(req[w].contract)) + Total(req[w].rows, DOMAIN req[w].rows),
               req[w].limit)
       THEN GoTo(w, "plan_insert")
       ELSE Answer(w)
    /\ UNCHANGED <<contract, plan, record>>

CreatePlanInsert(w) ==
    /\ req[w].at = "plan_insert"
    /\ plan' = Insert(plan, req[w].rows)
    /\ Answer(w)
    /\ UNCHANGED <<contract, record>>

\* createPlans: the total is checked over the batch alone, then all plans of
\* the contract are deleted and the batch inserted, in two statements.
CreatePlansRead(w, c, rows) ==
    /\ Live(c) /\ c \in Sales
    /\ DOMAIN rows \subseteq FreshPlan
    /\ Fits(Total(rows, DOMAIN rows), contract[c].amount)
    /\ Start(w, "createPlans", [Idle EXCEPT !.at = "batch_delete", !.contract = c, !.rows = rows])
    /\ UNCHANGED <<contract, plan, record>>

\* A plan row can be deleted once no open transaction holds it (a record was
\* inserted under it) or holds a record that refers to it.
Unlocked(ids) ==
    \A w \in Worker :
        /\ req[w].at = "record_commit" => req[w].plan \notin ids
        /\ req[w].at = "delete_commit" => record[req[w].record].plan \notin ids

\* DELETE on payment_plans; the foreign key of the records is ON DELETE SET NULL.
DeletePlansOnly(ids) ==
    /\ Unlocked(ids)
    /\ plan' = Without(plan, ids)
    /\ record' = record
DeletePlans(ids) ==
    /\ Unlocked(ids)
    /\ plan' = Without(plan, ids)
    /\ record' = [r \in DOMAIN record |->
                    IF record[r].plan \in ids THEN [record[r] EXCEPT !.plan = None] ELSE record[r]]

CreatePlansDelete(w) ==
    /\ req[w].at = "batch_delete"
    /\ DeletePlans(PlansOf(req[w].contract))
    /\ GoTo(w, "batch_insert")
    /\ UNCHANGED contract

CreatePlansInsert(w) ==
    /\ req[w].at = "batch_insert"
    /\ plan' = Insert(plan, req[w].rows)
    /\ Answer(w)
    /\ UNCHANGED <<contract, record>>

RemovePlanRead(w, p) ==
    /\ p \in DOMAIN plan
    /\ RecordsOn(p) = {}
    /\ Start(w, "removePlan", [Idle EXCEPT !.at = "plan_delete", !.plan = p])
    /\ UNCHANGED <<contract, plan, record>>

\* Deleting a row that is gone (P2025) ends the request with an error.
RemovePlanDelete(w) ==
    /\ req[w].at = "plan_delete"
    /\ DeletePlans({req[w].plan} \cap DOMAIN plan)
    /\ Answer(w)
    /\ UNCHANGED contract

-----------------------------------------------------------------------------
\* Payment records (payments.service.ts).

CreateRecordRead(w, r, row) ==
    /\ Live(row.contract) /\ row.contract \in Sales
    /\ contract[row.contract].status = "EXECUTING"
    /\ r \in FreshRecord
    /\ Start(w, "createRecord",
             [Idle EXCEPT !.at = IF row.plan = None THEN "record_total" ELSE "record_plan",
                          !.contract = row.contract, !.plan = row.plan, !.record = r,
                          !.amount = row.amount, !.limit = contract[row.contract].amount])
    /\ UNCHANGED <<contract, plan, record>>

CreateRecordPlan(w) ==
    /\ req[w].at = "record_plan"
    /\ IF req[w].plan \in PlansOf(req[w].contract)
       THEN GoTo(w, "record_total")
       ELSE Answer(w)
    /\ UNCHANGED <<contract, plan, record>>

CreateRecordTotal(w) ==
    /\ req[w].at = "record_total"
    /\ IF Fits(Paid(req[w].contract) + req[w].amount, req[w].limit)
       THEN GoTo(w, "record_insert")
       ELSE Answer(w)
    /\ UNCHANGED <<contract, plan, record>>

NewRecord(w) ==
    [r \in {req[w].record} |->
        [contract |-> req[w].contract, plan |-> req[w].plan, amount |-> req[w].amount]]

(***************************************************************************)
(* The transaction of createRecord.  Without a plan it is one insert.      *)
(* With a plan, the insert fails when the plan is gone (foreign key); then *)
(* refreshPlanStatus reads the plan and the sum of its records, and the    *)
(* transaction commits in a second step, which writes the status.          *)
(***************************************************************************)
CreateRecordInsert(w) ==
    /\ req[w].at = "record_insert"
    /\ \/ /\ req[w].plan = None
          /\ record' = Insert(record, NewRecord(w))
          /\ Settle(w, req[w].contract)
       \/ /\ req[w].plan \in DOMAIN plan
          /\ req' = [req EXCEPT ![w].at = "record_commit",
                        ![w].status = NewPlanStatus(
                            PaidOnPlan(req[w].plan, req[w].record) + req[w].amount,
                            plan[req[w].plan].amount)]
          /\ UNCHANGED record
       \/ /\ req[w].plan \notin DOMAIN plan \cup {None}
          /\ Answer(w)
          /\ UNCHANGED record
    /\ UNCHANGED <<contract, plan>>

CreateRecordCommit(w) ==
    /\ req[w].at = "record_commit"
    /\ record' = Insert(record, NewRecord(w))
    /\ plan' = [plan EXCEPT ![req[w].plan].status = req[w].status]
    /\ Settle(w, req[w].contract)
    /\ UNCHANGED contract

RemoveRecordRead(w, r) ==
    /\ r \in DOMAIN record
    /\ Start(w, "removeRecord",
             [Idle EXCEPT !.at = "row_delete", !.contract = record[r].contract,
                          !.plan = record[r].plan, !.record = r])
    /\ UNCHANGED <<contract, plan, record>>

(***************************************************************************)
(* The transaction of removeRecord.  The delete waits for a transaction    *)
(* that is deleting the same record and fails if that one committed.  The  *)
(* plan is the one read before the transaction: when it is gone by now     *)
(* refreshPlanStatus returns early.                                        *)
(***************************************************************************)
RemoveRecordDelete(w) ==
    /\ req[w].at = "row_delete"
    /\ \A v \in Worker : req[v].at = "delete_commit" => req[v].record # req[w].record
    /\ \/ /\ req[w].record \notin DOMAIN record
          /\ Answer(w)
          /\ UNCHANGED record
       \/ /\ req[w].record \in DOMAIN record
          /\ req[w].plan \notin DOMAIN plan
          /\ record' = Without(record, {req[w].record})
          /\ Settle(w, req[w].contract)
       \/ /\ req[w].record \in DOMAIN record
          /\ req[w].plan \in DOMAIN plan
          /\ req' = [req EXCEPT ![w].at = "delete_commit",
                        ![w].status = NewPlanStatus(
                            PaidOnPlan(req[w].plan, req[w].record),
                            plan[req[w].plan].amount)]
          /\ UNCHANGED record
    /\ UNCHANGED <<contract, plan>>

RemoveRecordCommit(w) ==
    /\ req[w].at = "delete_commit"
    /\ record' = Without(record, {req[w].record})
    /\ plan' = [plan EXCEPT ![req[w].plan].status = req[w].status]
    /\ Settle(w, req[w].contract)
    /\ UNCHANGED contract

-----------------------------------------------------------------------------
\* The request ends at an await with an error that is not the handler's own:
\* the statement failed, or the process died.  An open transaction rolls back.
Fail(w) ==
    /\ Failures
    /\ req[w].at # "idle"
    /\ Answer(w)
    /\ UNCHANGED <<contract, plan, record>>

NewPlanRow(c) == [contract : {c}, period : Periods, amount : Amounts, status : {"PENDING"}]

Ask(w) ==
    \/ \E c \in Contract, a \in Amounts : UpdateRead(w, c, a)
    \/ \E c \in Contract, s \in ContractStatus : ChangeStatusRead(w, c, s)
    \/ \E c \in Contract : RemoveRead(w, c)
    \/ \E c \in Contract, p \in Plan : \E row \in NewPlanRow(c) : CreatePlanRead(w, p, row)
    \/ \E c \in Contract, ids \in SUBSET Plan :
            \E rows \in [ids -> NewPlanRow(c)] : CreatePlansRead(w, c, rows)
    \/ \E p \in Plan : RemovePlanRead(w, p)
    \/ \E r \in Record, row \in RecordRow : CreateRecordRead(w, r, row)
    \/ \E r \in Record : RemoveRecordRead(w, r)

Step(w) ==
    \/ UpdateWrite(w) \/ ChangeStatusWrite(w) \/ RemoveWrite(w)
    \/ SettleRead(w) \/ SettleSum(w) \/ SettleWrite(w)
    \/ CreatePlanPeriod(w) \/ CreatePlanTotal(w) \/ CreatePlanInsert(w)
    \/ CreatePlansDelete(w) \/ CreatePlansInsert(w) \/ RemovePlanDelete(w)
    \/ CreateRecordPlan(w) \/ CreateRecordTotal(w)
    \/ CreateRecordInsert(w) \/ CreateRecordCommit(w)
    \/ RemoveRecordDelete(w) \/ RemoveRecordCommit(w)

Init ==
    /\ contract = [c \in {} |-> None]
    /\ plan = [p \in {} |-> None]
    /\ record = [r \in {} |-> None]
    /\ req = [w \in Worker |-> Idle]

Next ==
    \/ \E c \in Contract, a \in Amounts : Create(c, a)
    \/ \E w \in Worker : Ask(w) \/ Step(w) \/ Fail(w)

Spec == Init /\ [][Next]_vars

\* A handler that is running keeps running; clients owe nobody a request.
Fairness == \A w \in Worker : WF_vars(Step(w))

-----------------------------------------------------------------------------
(***************************************************************************)
(* Properties.                                                             *)
(***************************************************************************)

Planned(c) == Total(plan, PlansOf(c))

\* A record is filed under a plan of its own contract, and that plan exists:
\* createRecord checks both long before it inserts, plans are deleted and
\* replaced meanwhile (payments.service.ts createRecord, createPlans, removePlan).
RecordPlanConsistent ==
    \A r \in DOMAIN record :
        record[r].plan # None => record[r].plan \in PlansOf(record[r].contract)

\* Why it holds.  A plan that a record in the making names has the contract
\* of that record whenever it exists, and exists while the transaction is open;
\* plans about to be inserted are new, to each other and to such a record.
AtOpen == {"record_total", "record_insert", "record_commit"}
PlanOfRequest(w) ==
    /\ (req[w].at \in AtOpen /\ req[w].plan \in DOMAIN plan)
            => plan[req[w].plan].contract = req[w].contract
    /\ req[w].at = "record_commit" => req[w].plan \in DOMAIN plan
NewPlansAreNew(w) ==
    /\ DOMAIN req[w].rows \cap DOMAIN plan = {}
    /\ \A v \in Worker \ {w} :
          /\ DOMAIN req[w].rows \cap DOMAIN req[v].rows = {}
          /\ req[v].at \in AtOpen => req[v].plan \notin DOMAIN req[w].rows
RecordPlanInv ==
    RecordPlanConsistent /\ \A w \in Worker : PlanOfRequest(w) /\ NewPlansAreNew(w)

\* While amounts are not edited, requests that overlap can overpay a contract
\* (createRecord sums first and inserts later), but by no more than the others
\* in flight carry: whoever checks next sees everything committed.
OverpayBounded ==
    \A c \in DOMAIN contract :
        Paid(c) <= contract[c].amount + (Cardinality(Worker) - 1) * Max(Amounts)

\* Plans that raise the planned total keep it within the contract amount
\* (createPlan, createPlans; holds one request at a time).
PlanKeepsWithinAmount ==
    [][\A c \in DOMAIN contract :
          Planned(c)' > Planned(c) => Planned(c)' <= contract[c].amount]_vars

\* The status of a plan is the one its committed records amount to
\* (refreshPlanStatus, also across plan replacement and failures).
PlanStatusExact ==
    \A p \in DOMAIN plan :
        LET paid == Total(record, RecordsOn(p))
        IN  plan[p].amount > 0 =>
                /\ plan[p].status = "COMPLETED" <=> paid >= plan[p].amount
                /\ plan[p].status = "PENDING" <=> paid = 0

\* As long as no record is removed, a plan is never reported further paid than
\* its records say, however the transactions of createRecord overlap: each one
\* sums a subset of what is committed when its status becomes visible.
PlanStatusNeverAhead ==
    \A p \in DOMAIN plan :
        LET paid == Total(record, RecordsOn(p))
        IN  plan[p].amount > 0 =>
                /\ plan[p].status = "COMPLETED" => paid >= plan[p].amount
                /\ plan[p].status = "PARTIAL" => paid > 0

\* When the reconciliation that ends a payment request is through, an EXECUTING
\* or COMPLETED contract has the status its payments call for
\* (reconcileContractStatus; holds one request at a time).
SettledStatus ==
    [][\A w \in Worker, c \in DOMAIN contract :
          (/\ SettleRead(w) \/ SettleSum(w) \/ SettleWrite(w)
           /\ req'[w].at = "idle"
           /\ req[w].contract = c
           /\ contract[c].status \in {"EXECUTING", "COMPLETED"})
          => (contract'[c].status = "COMPLETED" <=> Paid(c)' >= contract'[c].amount)]_vars

\* A TERMINATED contract stays so, also when its last records are removed and
\* reconciled (changeStatus, reconcileContractStatus; holds one request at a time).
TerminatedIsFinal ==
    [][\A c \in DOMAIN contract :
          contract[c].status = "TERMINATED" => contract'[c].status = "TERMINATED"]_vars

\* While payments are only added, a contract that is fully paid does not stay
\* EXECUTING: of the overlapping requests the one that commits last sees the
\* whole sum in its reconcileContractStatus.
PaidButExecuting(c) ==
    /\ c \in DOMAIN contract
    /\ contract[c].status = "EXECUTING"
    /\ RecordsOf(c) # {} /\ Paid(c) >= contract[c].amount
FullyPaidCompletes == \A c \in Contract : PaidButExecuting(c) ~> ~PaidButExecuting(c)

-----------------------------------------------------------------------------
(***************************************************************************)
(* Rules the documentation states and overlapping requests break.          *)
(***************************************************************************)

\* docs/PRODUCT_REQUIREMENTS.md:268, payments never exceed the receivable
\* (createRecord).
PaidWithinAmount == \A c \in DOMAIN contract : Paid(c) <= contract[c].amount

\* docs/PRODUCT_REQUIREMENTS.md:269, the plans never exceed the contract
\* amount (createPlan against update).
PlannedWithinAmount == \A c \in DOMAIN contract : Planned(c) <= contract[c].amount

=============================================================================
