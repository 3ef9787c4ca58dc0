-------------------------- MODULE Reimbursements ---------------------------
(***************************************************************************)
(* Reimbursement requests (expenses.service.ts), the costs that paying one *)
(* generates, and the budgets those costs are charged to                   *)
(* (budgets.service.ts).                                                   *)
(*                                                                         *)
(* As in Receivables, a worker handles one request at a time and every     *)
(* database statement is an action; a handler keeps what it read in its    *)
(* request record.  A query that includes a relation (an expense with its  *)
(* details) is one step.  The database runs at READ COMMITTED: a writer    *)
(* waits for the transaction that holds the row, then looks at it again.   *)
(***************************************************************************)
EXTENDS Rows, Integers, FiniteSets, FiniteSetsExt

CONSTANTS
    Worker,    \* request handlers that can be in flight at one time
    Expense,   \* expense ids
    Detail,    \* ids of expense details
    Cost,      \* cost ids
    Budget,    \* budget ids
    None,      \* SQL NULL
    Amounts,   \* amounts of a detail
    Kind,      \* a department and a fee type (and the year)
    Month,     \* months of that year
    Ops,       \* the operations clients request
    Failures   \* may a handler die at an await?

ASSUME ConstantsAssumption ==
    /\ None \notin Expense \cup Detail \cup Cost \cup Budget \cup Month
    /\ Amounts \subseteq Nat \ {0}
    /\ Failures \in BOOLEAN
    /\ IsFiniteSet(Detail) /\ IsFiniteSet(Cost)   \* cuids are strings of one length

VARIABLES
    expense,   \* the expenses table
    detail,    \* the expense_details table
    cost,      \* the costs table: the rows of source REIMBURSEMENT
    budget,    \* the budgets table
    req        \* the request each worker is handling

vars == <<expense, detail, cost, budget, req>>

Status == {"DRAFT", "PENDING", "APPROVED", "REJECTED", "PAID"}
BudgetStatus == {"ACTIVE", "FROZEN", "CLOSED"}

ExpenseRow == [status : Status, total : Nat]
DetailRow == [expense : Expense, kind : Kind, month : Month, amount : Amounts]
\* budget is not a column: it records the budget the cost was charged to.
CostRow == [expense : Expense \cup {None}, amount : Amounts, budget : Budget \cup {None}]
\* The month of a budget for the whole year is NULL.
BudgetRow == [kind : Kind, month : Month \cup {None}, status : BudgetStatus, used : Nat]

NewBudgetRow == [kind : Kind, month : Month \cup {None}, status : {"ACTIVE"}, used : {0}]

At == {"idle", "update_details", "update_write", "status_write", "remove_write",
       "pay_lock", "pay_count", "pay_detail", "pay_budget",
       "budget_insert", "budget_write", "budget_remove"}

Request == [at : At,
            expense : Expense \cup {None},
            budget : Budget \cup {None},
            status : Status \cup BudgetStatus \cup {None},
            total : Nat,                                   \* the total to be written
            details : Tables(Detail, DetailRow),           \* read, or about to be inserted
            seen : SUBSET Detail,     \* details a DELETE found, or the one being charged
            charged : Tables(Detail, Budget \cup {None}),  \* what pay has charged so far
            rows : Tables(Budget, NewBudgetRow)]           \* the budget to be inserted

Empty == [i \in {} |-> None]
Idle == [at |-> "idle", expense |-> None, budget |-> None, status |-> None, total |-> 0,
         details |-> Empty, seen |-> {}, charged |-> Empty, rows |-> Empty]

TypeOK ==
    /\ IsTable(expense, Expense, ExpenseRow)
    /\ IsTable(detail, Detail, DetailRow)
    /\ IsTable(cost, Cost, CostRow)
    /\ IsTable(budget, Budget, BudgetRow)
    /\ req \in [Worker -> Request]

-----------------------------------------------------------------------------
\* Queries, locks and the small decisions of the handlers.

DetailsOf(e) == {d \in DOMAIN detail : detail[d].expense = e}
CostsOf(e) == {k \in DOMAIN cost : cost[k].expense = e}

\* Ids are cuids: a new one is in no table and in no request.  (An id that was
\* used and deleted is used again only when nothing refers to it any more.)
FreshExpense == {e \in Expense \ DOMAIN expense : \A w \in Worker : req[w].expense # e}
FreshDetail ==
    {d \in Detail \ DOMAIN detail :
        \A w \in Worker : d \notin DOMAIN req[w].details \cup req[w].seen}
FreshCost == Cost \ DOMAIN cost
FreshBudget ==
    {b \in Budget \ (DOMAIN budget \cup {cost[k].budget : k \in DOMAIN cost}) :
        \A w \in Worker :
            /\ b # req[w].budget /\ b \notin DOMAIN req[w].rows
            /\ \A d \in DOMAIN req[w].charged : req[w].charged[d] # b}

EditableOnceMore == {"DRAFT", "REJECTED", "PAID"}
Editable == {"DRAFT", "REJECTED"}

\* A worker paying e holds the row of e from its UPDATE to the end of its
\* transaction, and the row of every budget it has charged.
InPayTx(w) == req[w].at \in {"pay_count", "pay_detail", "pay_budget"}
HoldsExpense(w, e) == InPayTx(w) /\ req[w].expense = e
HoldsBudget(w, b) ==
    /\ InPayTx(w)
    /\ \E d \in DOMAIN req[w].charged : req[w].charged[d] = b
ExpenseFree(w, e) == \A v \in Worker \ {w} : ~HoldsExpense(v, e)
BudgetFree(w, b) == \A v \in Worker \ {w} : ~HoldsBudget(v, b)

\* findFirst: any row that matches.  A monthly budget takes precedence.
ActiveBudgets(kind, month) ==
    {b \in DOMAIN budget :
        budget[b].kind = kind /\ budget[b].month = month /\ budget[b].status = "ACTIVE"}
BudgetsFor(kind, month) ==
    IF ActiveBudgets(kind, month) # {} THEN ActiveBudgets(kind, month)
    ELSE ActiveBudgets(kind, None)

Start(w, op, request) ==
    /\ op \in Ops
    /\ req[w].at = "idle"
    /\ req' = [req EXCEPT ![w] = request]

GoTo(w, at) == req' = [req EXCEPT ![w].at = at]
Answer(w) == req' = [req EXCEPT ![w] = Idle]

-----------------------------------------------------------------------------
\* The life of an expense before it is paid.

\* The expense and its details are inserted by one nested create.
Create(e, details) ==
    /\ "create" \in Ops
    /\ e \in FreshExpense
    /\ DOMAIN details \subseteq FreshDetail
    /\ expense' = Insert(expense, [i \in {e} |->
                        [status |-> "DRAFT", total |-> Total(details, DOMAIN details)]])
    /\ detail' = Insert(detail, details)
    /\ UNCHANGED <<cost, budget, req>>

\* details = NULL: the client sends no details, and the total stays what was read.
UpdateRead(w, e, details) ==
    /\ e \in DOMAIN expense
    /\ expense[e].status \in Editable
    /\ \/ /\ details = None
          /\ Start(w, "update", [Idle EXCEPT !.at = "update_write", !.expense = e,
                                             !.total = expense[e].total])
       \/ /\ details # None
          /\ DOMAIN details \subseteq FreshDetail
          /\ Start(w, "update", [Idle EXCEPT !.at = "update_details", !.expense = e,
                                             !.details = details, !.total = Total(details, DOMAIN details)])
    /\ UNCHANGED <<expense, detail, cost, budget>>

\* deleteMany finds the details that are committed now.  Those that another
\* edit inserts before this one commits are not found.
UpdateDetails(w) ==
    /\ req[w].at = "update_details"
    /\ req' = [req EXCEPT ![w].at = "update_write", ![w].seen = DetailsOf(req[w].expense)]
    /\ UNCHANGED <<expense, detail, cost, budget>>

UpdateWriteKeepsDetails(w) ==
    /\ req[w].at = "update_write"
    /\ req[w].expense \in DOMAIN expense
    /\ expense' = [expense EXCEPT ![req[w].expense] =
                      [status |-> "DRAFT", total |-> req[w].total]]
    /\ detail' = Insert(detail, req[w].details)
    /\ Answer(w)
    /\ UNCHANGED <<cost, budget>>
UpdateWrite(w) ==
    /\ req[w].at = "update_write"
    /\ ExpenseFree(w, req[w].expense)
    /\ \/ /\ req[w].expense \in DOMAIN expense
          /\ expense' = [expense EXCEPT ![req[w].expense] =
                            [status |-> "DRAFT", total |-> req[w].total]]
          /\ detail' = Insert(Without(detail, req[w].seen), req[w].details)
       \/ /\ req[w].expense \notin DOMAIN expense
          /\ UNCHANGED <<expense, detail>>
    /\ Answer(w)
    /\ UNCHANGED <<cost, budget>>

SubmitRead(w, e) ==
    /\ e \in DOMAIN expense
    /\ expense[e].status \in Editable
    /\ DetailsOf(e) # {}
    /\ Start(w, "submit", [Idle EXCEPT !.at = "status_write", !.expense = e, !.status = "PENDING"])
    /\ UNCHANGED <<expense, detail, cost, budget>>

\* A rejection without a reason is refused like any other bad request.
ApproveRead(w, e, verdict) ==
    /\ e \in DOMAIN expense
    /\ expense[e].status = "PENDING"
    /\ Start(w, verdict, [Idle EXCEPT !.at = "status_write", !.expense = e, !.status = verdict])
    /\ UNCHANGED <<expense, detail, cost, budget>>

\* The write of submit and of approve, whatever the status is by now.
StatusWrite(w) ==
    /\ req[w].at = "status_write"
    /\ ExpenseFree(w, req[w].expense)
    /\ expense' = IF req[w].expense \in DOMAIN expense
                  THEN [expense EXCEPT ![req[w].expense].status = req[w].status]
                  ELSE expense
    /\ Answer(w)
    /\ UNCHANGED <<detail, cost, budget>>

RemoveRead(w, e) ==
    /\ e \in DOMAIN expense
    /\ expense[e].status = "DRAFT"
    /\ Start(w, "remove", [Idle EXCEPT !.at = "remove_write", !.expense = e])
    /\ UNCHANGED <<expense, detail, cost, budget>>

\* Details cascade; the expense of a cost is set to NULL.
RemoveWrite(w) ==
    /\ req[w].at = "remove_write"
    /\ ExpenseFree(w, req[w].expense)
    /\ expense' = Without(expense, {req[w].expense})
    /\ detail' = Without(detail, DetailsOf(req[w].expense))
    /\ cost' = [k \in DOMAIN cost |->
                    IF cost[k].expense = req[w].expense THEN [cost[k] EXCEPT !.expense = None]
                    ELSE cost[k]]
    /\ Answer(w)
    /\ UNCHANGED budget

-----------------------------------------------------------------------------
(***************************************************************************)
(* pay: read the expense with its details; then, in one transaction, move  *)
(* it from APPROVED to PAID, make sure it has generated no costs yet, and  *)
(* for every detail that was read create a cost and charge a budget.       *)
(* Nothing of it is visible to others before the commit, so the writes are *)
(* those of PayCommit; what the earlier steps contribute is what they read *)
(* and the rows they hold.                                                 *)
(***************************************************************************)
PayRead(w, e) ==
    /\ e \in DOMAIN expense
    /\ expense[e].status = "APPROVED"
    /\ Start(w, "pay", [Idle EXCEPT !.at = "pay_lock", !.expense = e,
                                    !.details = [d \in DetailsOf(e) |-> detail[d]]])
    /\ UNCHANGED <<expense, detail, cost, budget>>

PayLockAny(w) ==
    /\ req[w].at = "pay_lock"
    /\ ExpenseFree(w, req[w].expense)
    /\ IF req[w].expense \in DOMAIN expense THEN GoTo(w, "pay_count") ELSE Answer(w)
    /\ UNCHANGED <<expense, detail, cost, budget>>
\* updateMany ... where status = APPROVED; count 0 ends the request.
PayLock(w) ==
    /\ req[w].at = "pay_lock"
    /\ ExpenseFree(w, req[w].expense)
    /\ IF req[w].expense \in DOMAIN expense /\ expense[req[w].expense].status = "APPROVED"
       THEN GoTo(w, "pay_count")
       ELSE Answer(w)
    /\ UNCHANGED <<expense, detail, cost, budget>>

PayCountSkipped(w) ==
    /\ req[w].at = "pay_count"
    /\ GoTo(w, "pay_detail")
    /\ UNCHANGED <<expense, detail, cost, budget>>
PayCount(w) ==
    /\ req[w].at = "pay_count"
    /\ IF CostsOf(req[w].expense) = {} THEN GoTo(w, "pay_detail") ELSE Answer(w)
    /\ UNCHANGED <<expense, detail, cost, budget>>

\* The next detail: its budget is looked up.  With none that is ACTIVE the
\* cost is generated and nothing is charged.
PayDetail(w, d) ==
    /\ req[w].at = "pay_detail"
    /\ d \in DOMAIN req[w].details \ DOMAIN req[w].charged
    /\ LET found == BudgetsFor(req[w].details[d].kind, req[w].details[d].month)
       IN  \/ /\ found = {}
              /\ req' = [req EXCEPT ![w].charged = Insert(@, [i \in {d} |-> None])]
           \/ \E b \in found :
                 req' = [req EXCEPT ![w].at = "pay_budget", ![w].budget = b, ![w].seen = {d}]
    /\ UNCHANGED <<expense, detail, cost, budget>>

\* The increment waits for the row of the budget that was found, and fails
\* when that is gone.  The status of the budget is not asked for again.
PayBudgetForgets(w) ==
    /\ req[w].at = "pay_budget"
    /\ BudgetFree(w, req[w].budget)
    /\ IF req[w].budget \in DOMAIN budget
       THEN req' = [req EXCEPT ![w].at = "pay_detail", ![w].budget = None, ![w].seen = {}]
       ELSE Answer(w)
    /\ UNCHANGED <<expense, detail, cost, budget>>
PayBudget(w) ==
    /\ req[w].at = "pay_budget"
    /\ BudgetFree(w, req[w].budget)
    /\ IF req[w].budget \in DOMAIN budget
       THEN req' = [req EXCEPT ![w].at = "pay_detail", ![w].budget = None, ![w].seen = {},
                               ![w].charged = Insert(@, [i \in req[w].seen |-> req[w].budget])]
       ELSE Answer(w)
    /\ UNCHANGED <<expense, detail, cost, budget>>

\* What the transaction of w has added to budget b.
ChargedTo(w, b) ==
    Total(req[w].details, {d \in DOMAIN req[w].charged : req[w].charged[d] = b})

ChargeRefunds(w, b) == budget[b].used - ChargedTo(w, b)
ChargeOverwrites(w, b) ==
    IF ChargedTo(w, b) > 0 THEN ChargedTo(w, b) ELSE budget[b].used
Charge(w, b) == budget[b].used + ChargedTo(w, b)

\* The costs of the transaction, under the ids its INSERTs were given.
PayCommit(w) ==
    /\ req[w].at = "pay_detail"
    /\ DOMAIN req[w].charged = DOMAIN req[w].details
    /\ \E ids \in SUBSET FreshCost : \E of \in Bijection(ids, DOMAIN req[w].details) :
          cost' = Insert(cost, [k \in ids |->
                      [expense |-> req[w].expense,
                       amount |-> req[w].details[of[k]].amount,
                       budget |-> req[w].charged[of[k]]]])
    /\ budget' = [b \in DOMAIN budget |-> [budget[b] EXCEPT !.used = Charge(w, b)]]
    /\ expense' = [expense EXCEPT ![req[w].expense].status = "PAID"]
    /\ Answer(w)
    /\ UNCHANGED detail

\* Payments that charge the same budgets in opposite orders wait for each
\* other: the database aborts one of them.
WaitsFor(v, w) == req[v].at = "pay_budget" /\ HoldsBudget(w, req[v].budget)
PayDeadlock(w) ==
    /\ \E ring \in SUBSET Worker :
          w \in ring /\ \A v \in ring : \E u \in ring \ {v} : WaitsFor(v, u)
    /\ Answer(w)
    /\ UNCHANGED <<expense, detail, cost, budget>>

-----------------------------------------------------------------------------
\* Budgets (budgets.service.ts).  Nothing here depends on the budgeted amount.

SameBudget(row) == {b \in DOMAIN budget : budget[b].kind = row.kind /\ budget[b].month = row.month}

BudgetCreateRead(w, b, row) ==
    /\ SameBudget(row) = {}
    /\ b \in FreshBudget
    /\ Start(w, "createBudget", [Idle EXCEPT !.at = "budget_insert", !.rows = [i \in {b} |-> row]])
    /\ UNCHANGED <<expense, detail, cost, budget>>

\* The unique index compares the month, and NULL is distinct from NULL.
UniqueIndexRefuses(row) == row.month # None /\ SameBudget(row) # {}

BudgetInsert(w) ==
    /\ req[w].at = "budget_insert"
    /\ budget' = IF \E b \in DOMAIN req[w].rows : UniqueIndexRefuses(req[w].rows[b])
                 THEN budget
                 ELSE Insert(budget, req[w].rows)
    /\ Answer(w)
    /\ UNCHANGED <<expense, detail, cost>>

ToggleFreezeRead(w, b) ==
    /\ b \in DOMAIN budget
    /\ budget[b].status # "CLOSED"
    /\ Start(w, "toggleFreeze",
             [Idle EXCEPT !.at = "budget_write", !.budget = b,
                          !.status = IF budget[b].status = "ACTIVE" THEN "FROZEN" ELSE "ACTIVE"])
    /\ UNCHANGED <<expense, detail, cost, budget>>

CloseRead(w, b) ==
    /\ b \in DOMAIN budget
    /\ budget[b].status # "CLOSED"
    /\ Start(w, "close", [Idle EXCEPT !.at = "budget_write", !.budget = b, !.status = "CLOSED"])
    /\ UNCHANGED <<expense, detail, cost, budget>>

\* The write of toggleFreeze and close, whatever the status is by now.
BudgetWrite(w) ==
    /\ req[w].at = "budget_write"
    /\ BudgetFree(w, req[w].budget)
    /\ budget' = IF req[w].budget \in DOMAIN budget
                 THEN [budget EXCEPT ![req[w].budget].status = req[w].status]
                 ELSE budget
    /\ Answer(w)
    /\ UNCHANGED <<expense, detail, cost>>

BudgetRemoveRead(w, b) ==
    /\ b \in DOMAIN budget
    /\ budget[b].used = 0
    /\ Start(w, "removeBudget", [Idle EXCEPT !.at = "budget_remove", !.budget = b])
    /\ UNCHANGED <<expense, detail, cost, budget>>

BudgetRemove(w) ==
    /\ req[w].at = "budget_remove"
    /\ BudgetFree(w, req[w].budget)
    /\ budget' = Without(budget, {req[w].budget})
    /\ Answer(w)
    /\ UNCHANGED <<expense, detail, cost>>

-----------------------------------------------------------------------------
\* The request ends at an await with an error that is not the handler's own;
\* an open transaction rolls back.
Fail(w) ==
    /\ Failures
    /\ req[w].at # "idle"
    /\ Answer(w)
    /\ UNCHANGED <<expense, detail, cost, budget>>

\* The details a client may send for e; the array may be empty.
DetailsFor(e) ==
    Tables(Detail, [expense : {e}, kind : Kind, month : Month, amount : Amounts])

Ask(w) ==
    \/ \E e \in Expense :
          \/ \E details \in DetailsFor(e) \cup {None} : UpdateRead(w, e, details)
          \/ SubmitRead(w, e) \/ RemoveRead(w, e) \/ PayRead(w, e)
          \/ \E verdict \in {"APPROVED", "REJECTED"} : ApproveRead(w, e, verdict)
    \/ \E b \in Budget :
          \/ \E row \in NewBudgetRow : BudgetCreateRead(w, b, row)
          \/ ToggleFreezeRead(w, b) \/ CloseRead(w, b) \/ BudgetRemoveRead(w, b)

Step(w) ==
    \/ UpdateDetails(w) \/ UpdateWrite(w) \/ StatusWrite(w) \/ RemoveWrite(w)
    \/ PayLock(w) \/ PayCount(w) \/ PayBudget(w) \/ PayCommit(w) \/ PayDeadlock(w)
    \/ \E d \in Detail : PayDetail(w, d)
    \/ BudgetInsert(w) \/ BudgetWrite(w) \/ BudgetRemove(w)

Init ==
    /\ expense = Empty
    /\ detail = Empty
    /\ cost = Empty
    /\ budget = Empty
    /\ req = [w \in Worker |-> Idle]

Next ==
    \/ \E e \in Expense : \E details \in DetailsFor(e) : Create(e, details)
    \/ \E w \in Worker : Ask(w) \/ Step(w) \/ Fail(w)

Spec == Init /\ [][Next]_vars

\* A handler that is running keeps running.  The database queues those who
\* wait for a row, so a request that can go on again and again does go on; and
\* it breaks lock cycles (PayDeadlock).
Fairness == \A w \in Worker : SF_vars(Step(w))

-----------------------------------------------------------------------------
(***************************************************************************)
(* Properties.                                                             *)
(***************************************************************************)

\* An expense generates its costs in one payment and never again, whatever
\* edits, approvals and other payments of it overlap (pay: the conditional
\* update and the count of generated costs).
CostsGeneratedOnce ==
    [][\A e \in Expense :
          (\E k \in DOMAIN cost' \ DOMAIN cost : cost'[k].expense = e) => CostsOf(e) = {}]_vars

\* Money is paid out only for an expense that is APPROVED at the very moment
\* the payment commits, although it was read long before (pay).
PaidOnlyFromApproved ==
    [][\A e \in DOMAIN expense \cap DOMAIN expense' :
          (expense'[e].status = "PAID" /\ expense[e].status # "PAID")
          => expense[e].status = "APPROVED"]_vars

\* Why both hold.  Until a payment commits, its expense is APPROVED and no
\* other payment holds it; once it has counted, the expense has no costs; and
\* what the other handlers are about to write is not PAID.
PaymentInv ==
    \A w \in Worker :
        /\ req[w].at = "status_write" => req[w].status \in {"PENDING", "APPROVED", "REJECTED"}
        /\ InPayTx(w) =>
              /\ req[w].expense \in DOMAIN expense
              /\ expense[req[w].expense].status = "APPROVED"
              /\ req[w].at # "pay_count" => CostsOf(req[w].expense) = {}
              /\ \A v \in Worker : HoldsExpense(v, req[w].expense) => v = w

\* What a budget has used is the sum of the costs charged to it, although
\* payments overlap and fail (updateUsedAmount inside the transaction of pay).
BudgetMatchesCosts ==
    \A b \in DOMAIN budget :
        budget[b].used = Total(cost, {k \in DOMAIN cost : cost[k].budget = b})

\* A payment that started ends, although payments lock budgets in the order
\* of their details (pay, updateUsedAmount).
PayAnswered == \A w \in Worker : req[w].at = "pay_lock" ~> req[w].at = "idle"

\* The total of an expense is the sum of its details (create, update; holds
\* one request at a time).
TotalMatchesDetails ==
    \A e \in DOMAIN expense : expense[e].total = Total(detail, DetailsOf(e))

\* A paid expense has generated its total in costs, and no other expense has
\* generated any (pay, update, remove; holds one request at a time).
CostsMatchExpense ==
    \A e \in DOMAIN expense :
        Total(cost, CostsOf(e)) = IF expense[e].status = "PAID" THEN expense[e].total ELSE 0

-----------------------------------------------------------------------------
(***************************************************************************)
(* Rules the documentation states and overlapping requests break.          *)
(***************************************************************************)

\* docs/PRODUCT_REQUIREMENTS.md:316, paying generates a cost for each detail
\* (pay uses the details it read before the expense was edited and approved again).
CostForEachDetail ==
    \A e \in DOMAIN expense :
        expense[e].status = "PAID" => Cardinality(CostsOf(e)) = Cardinality(DetailsOf(e))

=============================================================================
