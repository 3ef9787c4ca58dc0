----------------------- MODULE ReimbursementsProofs ------------------------
(***************************************************************************)
(* Theorems about Reimbursements, for every number of workers, expenses,   *)
(* details and budgets.                                                    *)
(*                                                                         *)
(* Four inductive invariants, each with one lemma per group of actions:    *)
(* what the payments in progress hold (PayInv), the types of tables and    *)
(* requests (TypeInv), that budgets match the costs charged to them        *)
(* (BudgetInv), and, one request at a time, that expenses match their      *)
(* details and their costs (SerialInv).                                    *)
(***************************************************************************)
EXTENDS Reimbursements, RowsProofs, TLAPS

Fields == DOMAIN Idle

Shapes ==
    /\ DOMAIN expense \subseteq Expense
    /\ \A e \in DOMAIN expense : DOMAIN expense[e] = {"status", "total"}
    /\ \A k \in DOMAIN cost : DOMAIN cost[k] = {"expense", "amount", "budget"}
    /\ DOMAIN req = Worker
    /\ \A w \in Worker : DOMAIN req[w] = Fields

PayInv == Shapes /\ PaymentInv

LEMMA FieldsAre ==
    Fields = {"at", "expense", "budget", "status", "total", "details", "seen", "charged", "rows"}
BY DEF Fields, Idle

\* A handler that answers holds nothing.
LEMMA AnswerFrame ==
    ASSUME Shapes, NEW w \in Worker, Answer(w)
    PROVE  /\ DOMAIN req' = Worker /\ \A v \in Worker : DOMAIN req'[v] = Fields
           /\ \A v \in Worker \ {w} : req'[v] = req[v]
           /\ req'[w].at = "idle"
BY DEF Shapes, Answer, Fields, Idle

LEMMA GoToFrame ==
    ASSUME Shapes, NEW w \in Worker, NEW at, GoTo(w, at)
    PROVE  /\ DOMAIN req' = Worker /\ \A v \in Worker : DOMAIN req'[v] = Fields
           /\ \A v \in Worker \ {w} : req'[v] = req[v]
           /\ req'[w].at = at /\ req'[w].expense = req[w].expense
BY FieldsAre DEF Shapes, GoTo

\* A handler that is not paying has moved, and no expense that is held changed.
LEMMA OthersFrame ==
    ASSUME PayInv, NEW w \in Worker,
           \A v \in Worker \ {w} : req'[v] = req[v],
           ~InPayTx(w)',
           req'[w].at = "status_write" => req'[w].status \in {"PENDING", "APPROVED", "REJECTED"},
           \A v \in Worker \ {w} : InPayTx(v) =>
              /\ req[v].expense \in DOMAIN expense'
              /\ expense'[req[v].expense].status = expense[req[v].expense].status
              /\ CostsOf(req[v].expense) = {} => CostsOf(req[v].expense)' = {}
    PROVE  PaymentInv'
BY DEF PayInv, PaymentInv, InPayTx, HoldsExpense

-----------------------------------------------------------------------------
\* Requests begin without touching a table, and not in the middle of a payment.
LEMMA PayAsk ==
    ASSUME PayInv, NEW w \in Worker, Ask(w)
    PROVE  PayInv'
<1> DEFINE Begins(job) ==
              /\ req' = [req EXCEPT ![w] = job]
              /\ UNCHANGED <<expense, cost>>
              /\ DOMAIN job = Fields
              /\ job.at \notin {"pay_count", "pay_detail", "pay_budget"}
              /\ job.at = "status_write" => job.status \in {"PENDING", "APPROVED", "REJECTED"}
<1>1. ASSUME NEW job, Begins(job) PROVE PayInv'
  <2>1. req'[w] = job /\ \A v \in Worker \ {w} : req'[v] = req[v]
    BY <1>1 DEF PayInv, Shapes
  <2>2. PaymentInv'
    BY <1>1, <2>1, OthersFrame DEF PayInv, InPayTx, CostsOf, PaymentInv
  <2> QED
    BY <1>1, <2>1, <2>2 DEF PayInv, Shapes
<1> SUFFICES \E job : Begins(job)
  BY <1>1
<1> USE DEF Start, Fields
<1>2. ASSUME NEW e \in Expense, NEW details, UpdateRead(w, e, details) PROVE \E job : Begins(job)
  <2> DEFINE plain == [Idle EXCEPT !.at = "update_write", !.expense = e, !.total = expense[e].total]
             full == [Idle EXCEPT !.at = "update_details", !.expense = e, !.details = details,
                                  !.total = Total(details, DOMAIN details)]
  <2>1. plain.at = "update_write" /\ full.at = "update_details" /\ DOMAIN plain = Fields /\ DOMAIN full = Fields
    BY DEF Idle
  <2>2. req' = [req EXCEPT ![w] = plain] \/ req' = [req EXCEPT ![w] = full]
    BY <1>2 DEF UpdateRead
  <2>3. UNCHANGED <<expense, cost>>
    BY <1>2 DEF UpdateRead
  <2> HIDE DEF plain, full
  <2> QED
    BY <2>1, <2>2, <2>3
<1>3. ASSUME NEW e \in Expense, NEW s \in {"PENDING", "APPROVED", "REJECTED"},
             \/ SubmitRead(w, e) /\ s = "PENDING"
             \/ ApproveRead(w, e, s)
      PROVE  \E job : Begins(job)
  <2> DEFINE job == [Idle EXCEPT !.at = "status_write", !.expense = e, !.status = s]
  <2>1. job.at = "status_write" /\ job.status = s /\ DOMAIN job = Fields
    BY DEF Idle
  <2>2. req' = [req EXCEPT ![w] = job] /\ UNCHANGED <<expense, cost>>
    BY <1>3 DEF SubmitRead, ApproveRead
  <2> HIDE DEF job
  <2> QED
    BY <2>1, <2>2
<1>4. ASSUME NEW e \in Expense, RemoveRead(w, e) PROVE \E job : Begins(job)
  <2> DEFINE job == [Idle EXCEPT !.at = "remove_write", !.expense = e]
  <2>1. job.at = "remove_write" /\ DOMAIN job = Fields
    BY DEF Idle
  <2> QED
    BY <1>4, <2>1 DEF RemoveRead
<1>5. ASSUME NEW e \in Expense, PayRead(w, e) PROVE \E job : Begins(job)
  <2> DEFINE job == [Idle EXCEPT !.at = "pay_lock", !.expense = e,
                                 !.details = [d \in DetailsOf(e) |-> detail[d]]]
  <2>1. job.at = "pay_lock" /\ DOMAIN job = Fields
    BY DEF Idle
  <2> QED
    BY <1>5, <2>1 DEF PayRead
<1>6. ASSUME NEW b \in Budget, NEW row \in NewBudgetRow, BudgetCreateRead(w, b, row)
      PROVE  \E job : Begins(job)
  <2> DEFINE job == [Idle EXCEPT !.at = "budget_insert", !.rows = [i \in {b} |-> row]]
  <2>1. job.at = "budget_insert" /\ DOMAIN job = Fields
    BY DEF Idle
  <2> QED
    BY <1>6, <2>1 DEF BudgetCreateRead
<1>7. ASSUME NEW b \in Budget, ToggleFreezeRead(w, b) \/ CloseRead(w, b) \/ BudgetRemoveRead(w, b)
      PROVE  \E job : Begins(job)
  <2> DEFINE write(s) == [Idle EXCEPT !.at = "budget_write", !.budget = b, !.status = s]
             remove == [Idle EXCEPT !.at = "budget_remove", !.budget = b]
  <2>1. /\ \A s : write(s).at = "budget_write" /\ DOMAIN write(s) = Fields
        /\ remove.at = "budget_remove" /\ DOMAIN remove = Fields
    BY DEF Idle
  <2>2. req' = [req EXCEPT ![w] = remove] \/ \E s : req' = [req EXCEPT ![w] = write(s)]
    BY <1>7 DEF ToggleFreezeRead, CloseRead, BudgetRemoveRead
  <2>3. UNCHANGED <<expense, cost>>
    BY <1>7 DEF ToggleFreezeRead, CloseRead, BudgetRemoveRead
  <2> HIDE DEF write, remove
  <2> QED
    BY <2>1, <2>2, <2>3
<1> QED
  BY <1>2, <1>3, <1>4, <1>5, <1>6, <1>7 DEF Ask

\* A free expense is held by nobody else.
LEMMA FreeIsNotHeld ==
    ASSUME NEW w \in Worker, NEW v \in Worker \ {w}, ExpenseFree(w, req[w].expense), InPayTx(v)
    PROVE  req[v].expense # req[w].expense
BY DEF ExpenseFree, HoldsExpense

\* The writes before the payment change one expense, which is free.
LEMMA PayWrites ==
    ASSUME PayInv, NEW w \in Worker,
           \/ UpdateWrite(w) \/ StatusWrite(w) \/ RemoveWrite(w)
    PROVE  PayInv'
<1> DEFINE e == req[w].expense
<1>1. Answer(w) /\ ExpenseFree(w, e)
  BY DEF UpdateWrite, StatusWrite, RemoveWrite
<1>2. /\ DOMAIN expense' \subseteq Expense
      /\ \A x \in DOMAIN expense' : DOMAIN expense'[x] = {"status", "total"}
      /\ \A x \in DOMAIN expense \ {e} : x \in DOMAIN expense' /\ expense'[x] = expense[x]
  BY DEF UpdateWrite, StatusWrite, RemoveWrite, Without, PayInv, Shapes
<1>3. /\ \A k \in DOMAIN cost' : DOMAIN cost'[k] = {"expense", "amount", "budget"}
      /\ DOMAIN cost' = DOMAIN cost
      /\ \A k \in DOMAIN cost' : cost'[k] = cost[k] \/ cost'[k].expense = None
  BY DEF UpdateWrite, StatusWrite, RemoveWrite, PayInv, Shapes
<1>4. \A x \in Expense : CostsOf(x)' \subseteq CostsOf(x)
  BY <1>3, ConstantsAssumption DEF CostsOf
<1>5. \A v \in Worker \ {w} : InPayTx(v) => req[v].expense \in DOMAIN expense /\ req[v].expense # e
  BY <1>1, FreeIsNotHeld DEF PayInv, PaymentInv
<1>6. PaymentInv'
  BY <1>1, <1>2, <1>4, <1>5, AnswerFrame, OthersFrame DEF PayInv, Shapes, InPayTx, CostsOf
<1> QED
  BY <1>1, <1>2, <1>3, <1>6, AnswerFrame DEF PayInv, Shapes

\* Steps that leave expenses and costs alone, outside the payment.
LEMMA PayAside ==
    ASSUME PayInv, NEW w \in Worker, UNCHANGED <<expense, cost>>,
           \/ Answer(w)
           \/ UpdateDetails(w)
    PROVE  PayInv'
<1>1. /\ DOMAIN req' = Worker /\ \A v \in Worker : DOMAIN req'[v] = Fields
      /\ \A v \in Worker \ {w} : req'[v] = req[v]
      /\ req'[w].at \in {"idle", "update_write"}
  BY AnswerFrame, FieldsAre DEF UpdateDetails, PayInv, Shapes
<1>2. PaymentInv'
  BY <1>1, OthersFrame DEF InPayTx, CostsOf, PayInv, PaymentInv
<1> QED
  BY <1>1, <1>2 DEF PayInv, Shapes

\* The payment takes the row of its expense, counts, and goes through the details.
LEMMA PayGoes ==
    ASSUME PayInv, NEW w \in Worker, UNCHANGED <<expense, cost>>,
           \A v \in Worker \ {w} : req'[v] = req[v],
           DOMAIN req' = Worker, DOMAIN req'[w] = Fields,
           req'[w].expense = req[w].expense,
           \/ /\ req[w].at = "pay_lock" /\ req'[w].at = "pay_count"
              /\ ExpenseFree(w, req[w].expense)
              /\ req[w].expense \in DOMAIN expense
              /\ expense[req[w].expense].status = "APPROVED"
           \/ /\ req[w].at = "pay_count" /\ req'[w].at = "pay_detail"
              /\ CostsOf(req[w].expense) = {}
           \/ /\ req[w].at \in {"pay_detail", "pay_budget"}
              /\ req'[w].at \in {"pay_detail", "pay_budget"}
    PROVE  PayInv'
<1>1. \A x : CostsOf(x)' = CostsOf(x)
  BY DEF CostsOf
<1>2. \A v \in Worker \ {w} : InPayTx(v)' = InPayTx(v)
  BY DEF InPayTx
<1>3. \A v \in Worker \ {w} : InPayTx(v) => req[v].expense # req[w].expense
  BY FreeIsNotHeld DEF PayInv, PaymentInv, HoldsExpense, InPayTx
<1>4. ASSUME NEW u \in Worker, InPayTx(u)'
      PROVE  /\ req'[u].expense = req[u].expense
             /\ req[u].expense \in DOMAIN expense
             /\ expense[req[u].expense].status = "APPROVED"
             /\ req'[u].at # "pay_count" => CostsOf(req[u].expense) = {}
  <2>1. CASE u = w
    BY <2>1 DEF PayInv, PaymentInv, InPayTx
  <2>2. CASE u # w
    BY <1>2, <1>4, <2>2 DEF PayInv, PaymentInv, InPayTx
  <2> QED
    BY <2>1, <2>2
<1>5. ASSUME NEW u \in Worker, NEW v \in Worker, InPayTx(u)', InPayTx(v)',
             req'[u].expense = req'[v].expense
      PROVE  u = v
  BY <1>2, <1>3, <1>5 DEF PayInv, PaymentInv, HoldsExpense
<1>6. PaymentInv'
  BY <1>1, <1>4, <1>5 DEF PaymentInv, PayInv, InPayTx, HoldsExpense, CostsOf
<1> QED
  BY <1>6 DEF PayInv, Shapes

\* The commit: the expense is its own, and so are the costs; nobody else holds it.
LEMMA PayCommits ==
    ASSUME PayInv, NEW w \in Worker, PayCommit(w)
    PROVE  PayInv'
<1> DEFINE e == req[w].expense
<1>1. Answer(w)
  BY DEF PayCommit
<1>2. /\ DOMAIN expense' = DOMAIN expense
      /\ \A x \in DOMAIN expense' : DOMAIN expense'[x] = {"status", "total"}
      /\ \A x \in DOMAIN expense \ {e} : expense'[x] = expense[x]
  BY DEF PayCommit, PayInv, Shapes
<1>3. PICK ids \in SUBSET FreshCost : \E of \in Bijection(ids, DOMAIN req[w].details) :
          cost' = Insert(cost, [k \in ids |->
                      [expense |-> req[w].expense, amount |-> req[w].details[of[k]].amount,
                       budget |-> req[w].charged[of[k]]]])
  BY DEF PayCommit
<1>4. \A k \in DOMAIN cost' :
          \/ k \in DOMAIN cost /\ cost'[k] = cost[k]
          \/ DOMAIN cost'[k] = {"expense", "amount", "budget"} /\ cost'[k].expense = e
  BY <1>3 DEF Insert
<1>5. \A v \in Worker \ {w} : req[v].expense # e /\ CostsOf(req[v].expense) = {} =>
          \A k \in DOMAIN cost' : cost'[k].expense # req[v].expense
  BY <1>4 DEF CostsOf
<1>6. \A v \in Worker \ {w} : InPayTx(v) => req[v].expense # e
  BY DEF PayCommit, PayInv, PaymentInv, HoldsExpense, InPayTx
<1>7. PaymentInv'
  BY <1>1, <1>2, <1>5, <1>6, AnswerFrame, OthersFrame DEF PayInv, PaymentInv, InPayTx, CostsOf
<1> QED
  BY <1>1, <1>2, <1>4, <1>7, AnswerFrame DEF PayInv, Shapes

\* A new expense is one that no handler holds.
LEMMA PayCreate ==
    ASSUME PayInv, NEW e \in Expense, NEW details, Create(e, details)
    PROVE  PayInv'
<1>1. e \notin DOMAIN expense
  BY DEF Create, FreshExpense
<1>2. /\ DOMAIN expense' = DOMAIN expense \cup {e}
      /\ \A x \in DOMAIN expense : x # e /\ expense'[x] = expense[x]
      /\ DOMAIN expense'[e] = {"status", "total"}
  BY <1>1 DEF Create, Insert
<1>3. UNCHANGED <<cost, req>>
  BY DEF Create
<1>4. PaymentInv'
  BY <1>2, <1>3 DEF PayInv, PaymentInv, InPayTx, HoldsExpense, CostsOf
<1> QED
  BY <1>2, <1>3, <1>4 DEF PayInv, Shapes

LEMMA PayStep ==
    ASSUME PayInv, NEW w \in Worker, Step(w)
    PROVE  PayInv'
<1>1. CASE UpdateDetails(w)
  BY <1>1, PayAside DEF UpdateDetails
<1>2. CASE UpdateWrite(w) \/ StatusWrite(w) \/ RemoveWrite(w)
  BY <1>2, PayWrites
<1>3. CASE PayLock(w)
  <2>1. CASE Answer(w)
    BY <1>3, <2>1, PayAside DEF PayLock
  <2>2. CASE GoTo(w, "pay_count")
    <3>1. /\ DOMAIN req' = Worker /\ DOMAIN req'[w] = Fields
          /\ \A v \in Worker \ {w} : req'[v] = req[v]
          /\ req'[w].at = "pay_count" /\ req'[w].expense = req[w].expense
      BY <2>2, GoToFrame DEF PayInv
    <3>2. req'[w].at # "idle"
      BY <3>1
    <3>3. ~Answer(w)
      BY <3>2, AnswerFrame DEF PayInv
    <3> QED
      BY <1>3, <3>1, <3>3, PayGoes DEF PayLock
  <2> QED
    BY <1>3, <2>1, <2>2 DEF PayLock
<1>4. CASE PayCount(w)
  <2>1. CASE Answer(w)
    BY <1>4, <2>1, PayAside DEF PayCount
  <2>2. CASE GoTo(w, "pay_detail") /\ CostsOf(req[w].expense) = {}
    <3>1. /\ DOMAIN req' = Worker /\ DOMAIN req'[w] = Fields
          /\ \A v \in Worker \ {w} : req'[v] = req[v]
          /\ req'[w].at = "pay_detail" /\ req'[w].expense = req[w].expense
      BY <2>2, GoToFrame DEF PayInv
    <3> QED
      BY <1>4, <2>2, <3>1, PayGoes DEF PayCount
  <2> QED
    BY <1>4, <2>1, <2>2 DEF PayCount
<1>5. ASSUME NEW d \in Detail, PayDetail(w, d) PROVE PayInv'
  <2> DEFINE Goes ==
                /\ DOMAIN req' = Worker /\ DOMAIN req'[w] = Fields
                /\ \A v \in Worker \ {w} : req'[v] = req[v]
                /\ req'[w].at \in {"pay_detail", "pay_budget"}
                /\ req'[w].expense = req[w].expense
  <2>1. CASE req' = [req EXCEPT ![w].charged = Insert(@, [i \in {d} |-> None])]
    <3>1. Goes
      BY <1>5, <2>1, FieldsAre DEF PayDetail, PayInv, Shapes
    <3> QED
      BY <1>5, <3>1, PayGoes DEF PayDetail
  <2>2. ASSUME NEW b, req' = [req EXCEPT ![w].at = "pay_budget", ![w].budget = b, ![w].seen = {d}]
        PROVE  PayInv'
    <3>1. Goes
      BY <2>2, FieldsAre DEF PayInv, Shapes
    <3> QED
      BY <1>5, <3>1, PayGoes DEF PayDetail
  <2> QED
    BY <1>5, <2>1, <2>2 DEF PayDetail
<1>6. CASE PayBudget(w)
  <2>1. CASE Answer(w)
    BY <1>6, <2>1, PayAside DEF PayBudget
  <2>2. CASE ~Answer(w)
    <3>1. req' = [req EXCEPT ![w].at = "pay_detail", ![w].budget = None, ![w].seen = {},
                     ![w].charged = Insert(@, [i \in req[w].seen |-> req[w].budget])]
      BY <1>6, <2>2 DEF PayBudget
    <3>2. /\ DOMAIN req' = Worker /\ DOMAIN req'[w] = Fields
          /\ \A v \in Worker \ {w} : req'[v] = req[v]
          /\ req'[w].at = "pay_detail"
          /\ req'[w].expense = req[w].expense
      BY <3>1, FieldsAre DEF PayInv, Shapes
    <3> QED
      BY <1>6, <3>2, PayGoes DEF PayBudget
  <2> QED
    BY <2>1, <2>2
<1>7. CASE PayCommit(w)
  BY <1>7, PayCommits
<1>8. CASE PayDeadlock(w) \/ BudgetInsert(w) \/ BudgetWrite(w) \/ BudgetRemove(w)
  BY <1>8, PayAside DEF PayDeadlock, BudgetInsert, BudgetWrite, BudgetRemove
<1> QED
  BY <1>1, <1>2, <1>3, <1>4, <1>5, <1>6, <1>7, <1>8 DEF Step

LEMMA PayNext ==
    ASSUME PayInv, [Next]_vars
    PROVE  PayInv'
<1>1. ASSUME NEW e \in Expense, NEW details, Create(e, details) PROVE PayInv'
  BY <1>1, PayCreate
<1>2. ASSUME NEW w \in Worker, Ask(w) \/ Step(w) \/ Fail(w) PROVE PayInv'
  BY <1>2, PayAsk, PayStep, PayAside DEF Fail
<1>3. CASE UNCHANGED vars
  BY <1>3 DEF vars, PayInv, Shapes, PaymentInv, InPayTx, HoldsExpense, CostsOf
<1> QED
  BY <1>1, <1>2, <1>3 DEF Next

LEMMA PayInit == Init => PayInv
BY DEF Init, Empty, Idle, PayInv, Shapes, Fields, PaymentInv, InPayTx

LEMMA PayAlways == Spec => []PayInv
BY PayInit, PayNext, PTL DEF Spec

-----------------------------------------------------------------------------
\* Requests begin without a write.
LEMMA AskReads ==
    ASSUME NEW w \in Worker, Ask(w)
    PROVE  UNCHANGED <<expense, detail, cost, budget>>
BY DEF Ask, UpdateRead, SubmitRead, ApproveRead, RemoveRead, PayRead, BudgetCreateRead,
       ToggleFreezeRead, CloseRead, BudgetRemoveRead

\* Only the commit of a payment generates costs or makes an expense PAID.
LEMMA OnlyPayCommit ==
    ASSUME PayInv, [Next]_vars, \A w \in Worker : ~PayCommit(w)
    PROVE  /\ DOMAIN cost' \subseteq DOMAIN cost
           /\ \A e \in DOMAIN expense \cap DOMAIN expense' :
                 expense'[e].status = "PAID" => expense[e].status = "PAID"
<1> DEFINE Unpaid ==
              /\ DOMAIN cost' \subseteq DOMAIN cost
              /\ \A e \in DOMAIN expense \cap DOMAIN expense' :
                    expense'[e].status = "PAID" => expense[e].status = "PAID"
<1>1. CASE UNCHANGED <<expense, cost>>
  BY <1>1
<1>2. ASSUME NEW e \in Expense, NEW details, Create(e, details) PROVE Unpaid
  BY <1>2 DEF Create, FreshExpense, Insert
<1>3. ASSUME NEW w \in Worker, UpdateWrite(w) PROVE Unpaid
  BY <1>3 DEF UpdateWrite
<1>4. ASSUME NEW w \in Worker, StatusWrite(w) PROVE Unpaid
  <2>1. req[w].status # "PAID" /\ cost' = cost
    BY <1>4 DEF StatusWrite, PayInv, PaymentInv
  <2>2. \A e \in DOMAIN expense : DOMAIN expense[e] = {"status", "total"}
    BY DEF PayInv, Shapes
  <2> QED
    BY <1>4, <2>1, <2>2 DEF StatusWrite
<1>5. ASSUME NEW w \in Worker, RemoveWrite(w) PROVE Unpaid
  BY <1>5 DEF RemoveWrite, Without
<1>6. ASSUME NEW w \in Worker, Ask(w) \/ Fail(w) PROVE UNCHANGED <<expense, cost>>
  BY <1>6, AskReads DEF Fail
<1>7. ASSUME NEW w \in Worker, Step(w)
      PROVE  Unpaid
  <2>1. \/ UNCHANGED <<expense, cost>>
        \/ UpdateWrite(w) \/ StatusWrite(w) \/ RemoveWrite(w)
    BY <1>7 DEF Step, UpdateDetails, PayLock, PayCount, PayBudget, PayDetail, PayDeadlock,
                BudgetInsert, BudgetWrite, BudgetRemove
  <2> QED
    BY <1>1, <1>3, <1>4, <1>5, <2>1
<1> QED
  BY <1>1, <1>2, <1>6, <1>7 DEF Next, vars

-----------------------------------------------------------------------------
\* Every payment in progress holds an APPROVED expense of its own, which has
\* generated no costs once they are counted, however the requests of any number
\* of handlers overlap or fail (pay).
THEOREM PaymentsCorrect == Spec => []PaymentInv
<1>1. PayInv => PaymentInv
  BY DEF PayInv
<1> QED
  BY <1>1, PayAlways, PTL

\* An expense generates costs in one payment only (pay).
THEOREM CostsOnce == Spec => CostsGeneratedOnce
<1> DEFINE Once ==
              \A e \in Expense :
                  (\E k \in DOMAIN cost' \ DOMAIN cost : cost'[k].expense = e) => CostsOf(e) = {}
<1>1. ASSUME PayInv, [Next]_vars PROVE [Once]_vars
  <2>1. ASSUME NEW w \in Worker, PayCommit(w) PROVE Once
    <3>1. CostsOf(req[w].expense) = {}
      BY <1>1, <2>1 DEF PayCommit, PayInv, PaymentInv, InPayTx
    <3>2. \A k \in DOMAIN cost' \ DOMAIN cost : cost'[k].expense = req[w].expense
      BY <2>1 DEF PayCommit, Insert
    <3> QED
      BY <3>1, <3>2
  <2>2. CASE \A w \in Worker : ~PayCommit(w)
    BY <1>1, <2>2, OnlyPayCommit
  <2> QED
    BY <2>1, <2>2
<1> QED
  BY <1>1, PayAlways, PTL DEF Spec, CostsGeneratedOnce

\* Only an expense that is APPROVED when the payment commits becomes PAID (pay).
THEOREM PaidFromApproved == Spec => PaidOnlyFromApproved
<1> DEFINE FromApproved ==
              \A e \in DOMAIN expense \cap DOMAIN expense' :
                  (expense'[e].status = "PAID" /\ expense[e].status # "PAID")
                  => expense[e].status = "APPROVED"
<1>1. ASSUME PayInv, [Next]_vars PROVE [FromApproved]_vars
  <2>1. ASSUME NEW w \in Worker, PayCommit(w) PROVE FromApproved
    <3>1. expense[req[w].expense].status = "APPROVED"
      BY <1>1, <2>1 DEF PayCommit, PayInv, PaymentInv, InPayTx
    <3> QED
      BY <2>1, <3>1 DEF PayCommit
  <2>2. CASE \A w \in Worker : ~PayCommit(w)
    BY <1>1, <2>2, OnlyPayCommit
  <2> QED
    BY <2>1, <2>2
<1> QED
  BY <1>1, PayAlways, PTL DEF Spec, PaidOnlyFromApproved

-----------------------------------------------------------------------------
\* A handler about to write a status has one of that table.
StatusRead(w) ==
    /\ req[w].at = "status_write" => req[w].status \in Status
    /\ req[w].at = "budget_write" => req[w].status \in BudgetStatus

TypeInv == TypeOK /\ \A w \in Worker : StatusRead(w)

LEMMA IdleIsRequest == Idle \in Request
BY EmptyIsTable DEF Idle, Empty, Request, At

LEMMA EmptyTables == \A Id, Row : IsTable(Empty, Id, Row)
BY EmptyIsTable DEF Empty

\* What the client sends and what a handler reads are rows.
LEMMA DetailsAreRows ==
    ASSUME NEW e \in Expense, NEW details \in DetailsFor(e)
    PROVE  /\ IsTable(details, Detail, DetailRow) /\ details \in Tables(Detail, DetailRow)
           /\ \A d \in DOMAIN details : details[d].expense = e
<1>1. IsTable(details, Detail, [expense : {e}, kind : Kind, month : Month, amount : Amounts])
  BY TablesAreTables DEF DetailsFor
<1>2. IsTable(details, Detail, DetailRow)
  BY <1>1 DEF IsTable, DetailRow
<1> QED
  BY <1>1, <1>2, TablesAreTables DEF IsTable

\* A total of details or costs is a natural number.
LEMMA DetailTotal ==
    ASSUME NEW table, IsTable(table, Detail, DetailRow), NEW ids \in SUBSET DOMAIN table
    PROVE  IsFiniteSet(ids) /\ Amounted(table, ids) /\ Total(table, ids) \in Nat
<1>1. IsFiniteSet(ids)
  BY ConstantsAssumption, FS_Subset DEF IsTable
<1>2. Amounted(table, ids)
  BY ConstantsAssumption DEF Amounted, IsTable, DetailRow
<1> QED
  BY <1>1, <1>2, TotalType

LEMMA CostTotal ==
    ASSUME NEW table, IsTable(table, Cost, CostRow), NEW ids \in SUBSET DOMAIN table
    PROVE  IsFiniteSet(ids) /\ Amounted(table, ids) /\ Total(table, ids) \in Nat
<1>1. IsFiniteSet(ids)
  BY ConstantsAssumption, FS_Subset DEF IsTable
<1>2. Amounted(table, ids)
  BY ConstantsAssumption DEF Amounted, IsTable, CostRow
<1> QED
  BY <1>1, <1>2, TotalType

LEMMA TypeInit == Init => TypeInv
BY IdleIsRequest, EmptyTables DEF Init, TypeInv, TypeOK, StatusRead, Idle

\* One handler moved, and the tables are still tables.
LEMMA TypeFrame ==
    ASSUME TypeInv, NEW w \in Worker, NEW job \in Request,
           req' = [req EXCEPT ![w] = job],
           job.at = "status_write" => job.status \in Status,
           job.at = "budget_write" => job.status \in BudgetStatus,
           IsTable(expense', Expense, ExpenseRow), IsTable(detail', Detail, DetailRow),
           IsTable(cost', Cost, CostRow), IsTable(budget', Budget, BudgetRow)
    PROVE  TypeInv'
BY DEF TypeInv, TypeOK, StatusRead

LEMMA TypeAnswer ==
    ASSUME TypeInv, NEW w \in Worker, Answer(w),
           IsTable(expense', Expense, ExpenseRow), IsTable(detail', Detail, DetailRow),
           IsTable(cost', Cost, CostRow), IsTable(budget', Budget, BudgetRow)
    PROVE  TypeInv'
<1>1. Idle.at = "idle" /\ req' = [req EXCEPT ![w] = Idle]
  BY DEF Idle, Answer
<1> QED
  BY <1>1, IdleIsRequest, TypeFrame

\* A handler goes on: a field or two of its request change.
LEMMA TypeMove ==
    ASSUME TypeInv, NEW w \in Worker, NEW job \in Request, req' = [req EXCEPT ![w] = job],
           job.at \notin {"status_write", "budget_write"},
           UNCHANGED <<expense, detail, cost, budget>>
    PROVE  TypeInv'
BY TypeFrame DEF TypeInv, TypeOK

LEMMA TypeAsk ==
    ASSUME TypeInv, NEW w \in Worker, Ask(w)
    PROVE  TypeInv'
<1> DEFINE Begins(job) ==
              /\ req' = [req EXCEPT ![w] = job]
              /\ job \in Request
              /\ job.at = "status_write" => job.status \in Status
              /\ job.at = "budget_write" => job.status \in BudgetStatus
<1>1. UNCHANGED <<expense, detail, cost, budget>>
  BY AskReads
<1>2. ASSUME NEW job, Begins(job) PROVE TypeInv'
  BY <1>1, <1>2, TypeFrame DEF TypeInv, TypeOK
<1> SUFFICES \E job : Begins(job)
  BY <1>2
<1> USE DEF Start
<1>3. ASSUME NEW e \in Expense, NEW details \in DetailsFor(e) \cup {None}, UpdateRead(w, e, details)
      PROVE  \E job : Begins(job)
  <2>1. CASE req' = [req EXCEPT ![w] = [Idle EXCEPT !.at = "update_write", !.expense = e,
                                                   !.total = expense[e].total]]
    <3> DEFINE job == [Idle EXCEPT !.at = "update_write", !.expense = e, !.total = expense[e].total]
    <3>1. expense[e].total \in Nat
      BY <1>3 DEF UpdateRead, TypeInv, TypeOK, IsTable, ExpenseRow
    <3>2. job \in Request /\ job.at = "update_write"
      BY <3>1, IdleIsRequest DEF Idle, Request, At
    <3> QED
      BY <2>1, <3>2
  <2>2. CASE /\ details # None
             /\ req' = [req EXCEPT ![w] = [Idle EXCEPT !.at = "update_details", !.expense = e,
                                 !.details = details, !.total = Total(details, DOMAIN details)]]
    <3> DEFINE job == [Idle EXCEPT !.at = "update_details", !.expense = e, !.details = details,
                                   !.total = Total(details, DOMAIN details)]
    <3>1. details \in Tables(Detail, DetailRow) /\ Total(details, DOMAIN details) \in Nat
      BY <2>2, DetailsAreRows, DetailTotal
    <3>2. job \in Request /\ job.at = "update_details"
      BY <3>1, IdleIsRequest DEF Idle, Request, At
    <3> QED
      BY <2>2, <3>2
  <2> QED
    BY <1>3, <2>1, <2>2 DEF UpdateRead
<1>4. ASSUME NEW e \in Expense, NEW s \in {"PENDING", "APPROVED", "REJECTED"},
             \/ SubmitRead(w, e) /\ s = "PENDING"
             \/ ApproveRead(w, e, s)
      PROVE  \E job : Begins(job)
  <2> DEFINE job == [Idle EXCEPT !.at = "status_write", !.expense = e, !.status = s]
  <2>1. job \in Request /\ job.at = "status_write" /\ job.status = s /\ s \in Status
    BY IdleIsRequest DEF Idle, Request, At, Status
  <2> QED
    BY <1>4, <2>1 DEF SubmitRead, ApproveRead
<1>5. ASSUME NEW e \in Expense, RemoveRead(w, e) PROVE \E job : Begins(job)
  <2> DEFINE job == [Idle EXCEPT !.at = "remove_write", !.expense = e]
  <2>1. job \in Request /\ job.at = "remove_write"
    BY IdleIsRequest DEF Idle, Request, At
  <2> QED
    BY <1>5, <2>1 DEF RemoveRead
<1>6. ASSUME NEW e \in Expense, PayRead(w, e) PROVE \E job : Begins(job)
  <2> DEFINE read == [d \in DetailsOf(e) |-> detail[d]]
             job == [Idle EXCEPT !.at = "pay_lock", !.expense = e, !.details = read]
  <2>1. IsTable(read, Detail, DetailRow)
    BY DEF DetailsOf, IsTable, TypeInv, TypeOK
  <2>2. read \in Tables(Detail, DetailRow)
    BY <2>1, TablesAreTables
  <2>3. job \in Request /\ job.at = "pay_lock"
    <3> HIDE DEF read
    <3> QED
      BY <2>2, IdleIsRequest DEF Idle, Request, At
  <2> QED
    BY <1>6, <2>3 DEF PayRead
<1>7. ASSUME NEW b \in Budget, NEW row \in NewBudgetRow, BudgetCreateRead(w, b, row)
      PROVE  \E job : Begins(job)
  <2> DEFINE rows == [i \in {b} |-> row]
             job == [Idle EXCEPT !.at = "budget_insert", !.rows = rows]
  <2>1. rows \in Tables(Budget, NewBudgetRow)
    BY TablesAreTables DEF IsTable
  <2>2. job \in Request /\ job.at = "budget_insert"
    <3> HIDE DEF rows
    <3> QED
      BY <2>1, IdleIsRequest DEF Idle, Request, At
  <2> QED
    BY <1>7, <2>2 DEF BudgetCreateRead
<1>8. ASSUME NEW b \in Budget, ToggleFreezeRead(w, b) \/ CloseRead(w, b)
      PROVE  \E job : Begins(job)
  <2> DEFINE job(s) == [Idle EXCEPT !.at = "budget_write", !.budget = b, !.status = s]
  <2>1. \A s \in BudgetStatus : job(s) \in Request /\ job(s).at = "budget_write" /\ job(s).status = s
    BY IdleIsRequest DEF Idle, Request, At
  <2>2. \E s \in BudgetStatus : req' = [req EXCEPT ![w] = job(s)]
    BY <1>8 DEF ToggleFreezeRead, CloseRead, BudgetStatus
  <2> HIDE DEF job
  <2> QED
    BY <2>1, <2>2
<1>9. ASSUME NEW b \in Budget, BudgetRemoveRead(w, b) PROVE \E job : Begins(job)
  <2> DEFINE job == [Idle EXCEPT !.at = "budget_remove", !.budget = b]
  <2>1. job \in Request /\ job.at = "budget_remove"
    BY IdleIsRequest DEF Idle, Request, At
  <2> QED
    BY <1>9, <2>1 DEF BudgetRemoveRead
<1> QED
  BY <1>3, <1>4, <1>5, <1>6, <1>7, <1>8, <1>9 DEF Ask

\* The columns that the writes replace.
LEMMA ExpenseWrites ==
    ASSUME IsTable(expense, Expense, ExpenseRow), NEW e
    PROVE  /\ \A n \in Nat : IsTable([expense EXCEPT ![e] = [status |-> "DRAFT", total |-> n]],
                                     Expense, ExpenseRow)
           /\ \A s \in Status : IsTable([expense EXCEPT ![e].status = s], Expense, ExpenseRow)
BY DEF IsTable, ExpenseRow, Status

LEMMA BudgetWrites ==
    ASSUME IsTable(budget, Budget, BudgetRow)
    PROVE  /\ \A b : \A s \in BudgetStatus : IsTable([budget EXCEPT ![b].status = s], Budget, BudgetRow)
           /\ \A used \in [DOMAIN budget -> Nat] :
                 IsTable([b \in DOMAIN budget |-> [budget[b] EXCEPT !.used = used[b]]], Budget, BudgetRow)
BY DEF IsTable, BudgetRow

\* What the commit of a payment leaves in the tables.
LEMMA PayCommitTypes ==
    ASSUME TypeInv, NEW w \in Worker, PayCommit(w)
    PROVE  /\ IsTable(expense', Expense, ExpenseRow)
           /\ IsTable(cost', Cost, CostRow)
           /\ IsTable(budget', Budget, BudgetRow)
<1> DEFINE q == req[w]
<1>1. /\ IsTable(q.details, Detail, DetailRow) /\ IsTable(q.charged, Detail, Budget \cup {None})
      /\ q.expense \in Expense \cup {None}
      /\ DOMAIN q.charged = DOMAIN q.details
  BY TablesAreTables DEF TypeInv, TypeOK, Request, PayCommit
<1>2. PICK ids \in SUBSET FreshCost : \E of \in Bijection(ids, DOMAIN q.details) :
          cost' = Insert(cost, [k \in ids |-> [expense |-> q.expense, amount |-> q.details[of[k]].amount,
                                              budget |-> q.charged[of[k]]]])
  BY DEF PayCommit
<1>3. PICK of \in Bijection(ids, DOMAIN q.details) :
          cost' = Insert(cost, [k \in ids |-> [expense |-> q.expense, amount |-> q.details[of[k]].amount,
                                              budget |-> q.charged[of[k]]]])
  BY <1>2
<1>4. ids \subseteq Cost /\ \A k \in ids : of[k] \in DOMAIN q.details
  BY <1>2, <1>3 DEF FreshCost, Bijection, Injection
<1> DEFINE new == [k \in ids |-> [expense |-> q.expense, amount |-> q.details[of[k]].amount,
                                  budget |-> q.charged[of[k]]]]
<1>5. IsTable(new, Cost, CostRow)
  <2>1. \A k \in ids : q.details[of[k]].amount \in Amounts /\ q.charged[of[k]] \in Budget \cup {None}
    BY <1>1, <1>4 DEF IsTable, DetailRow
  <2> QED
    BY <1>1, <1>4, <2>1 DEF IsTable, CostRow
<1>6. IsTable(cost', Cost, CostRow)
  <2>1. cost' = Insert(cost, new) /\ IsTable(cost, Cost, CostRow)
    BY <1>3 DEF TypeInv, TypeOK
  <2> HIDE DEF new
  <2> QED
    BY <1>5, <2>1, InsertIsTable
<1>7. IsTable(budget', Budget, BudgetRow)
  <2> DEFINE used == [b \in DOMAIN budget |-> Charge(w, b)]
  <2>1. \A b \in DOMAIN budget : ChargedTo(w, b) \in Nat
    <3>1. \A b : {d \in DOMAIN q.charged : q.charged[d] = b} \subseteq DOMAIN q.details
      BY <1>1
    <3> QED
      BY <1>1, <3>1, DetailTotal DEF ChargedTo
  <2>2. used \in [DOMAIN budget -> Nat]
    BY <2>1 DEF TypeInv, TypeOK, IsTable, BudgetRow, Charge
  <2>3. budget' = [b \in DOMAIN budget |-> [budget[b] EXCEPT !.used = used[b]]]
    BY DEF PayCommit
  <2> HIDE DEF used
  <2> QED
    BY <2>2, <2>3, BudgetWrites DEF TypeInv, TypeOK
<1>8. IsTable(expense', Expense, ExpenseRow)
  <2>1. expense' = [expense EXCEPT ![q.expense].status = "PAID"] /\ "PAID" \in Status
    BY DEF PayCommit, Status
  <2> QED
    BY <2>1, ExpenseWrites DEF TypeInv, TypeOK
<1> QED
  BY <1>6, <1>7, <1>8

LEMMA TypeStep ==
    ASSUME TypeInv, NEW w \in Worker, Step(w)
    PROVE  TypeInv'
<1> USE DEF TypeInv, TypeOK
<1> DEFINE q == req[w]
<1>1. /\ q \in Request
      /\ IsTable(q.details, Detail, DetailRow) /\ IsTable(q.rows, Budget, NewBudgetRow)
      /\ IsTable(q.charged, Detail, Budget \cup {None})
  BY TablesAreTables DEF Request
<1>2. CASE UpdateDetails(w)
  <2> DEFINE job == [q EXCEPT !.at = "update_write", !.seen = DetailsOf(q.expense)]
  <2>1. job \in Request /\ job.at = "update_write"
    BY <1>1 DEF Request, At, DetailsOf, IsTable
  <2> QED
    BY <1>2, <2>1, TypeMove DEF UpdateDetails
<1>3. CASE UpdateWrite(w)
  <2>1. IsTable(expense', Expense, ExpenseRow)
    <3>1. q.total \in Nat
      BY <1>1 DEF Request
    <3> QED
      BY <1>3, <3>1, ExpenseWrites DEF UpdateWrite
  <2>2. IsTable(detail', Detail, DetailRow)
    <3> DEFINE left == Without(detail, q.seen)
    <3>1. IsTable(left, Detail, DetailRow)
      BY WithoutIsTable
    <3>2. detail' = Insert(left, q.details) \/ detail' = detail
      BY <1>3 DEF UpdateWrite
    <3>3. IsTable(detail, Detail, DetailRow)
      OBVIOUS
    <3>4. IsTable(Insert(left, q.details), Detail, DetailRow)
      <4> HIDE DEF left, q, TypeInv, TypeOK
      <4> QED
        BY <1>1, <3>1, InsertIsTable
    <3> QED
      BY <3>2, <3>3, <3>4
  <2> QED
    BY <1>3, <2>1, <2>2, TypeAnswer DEF UpdateWrite
<1>4. CASE StatusWrite(w)
  <2>1. q.status \in Status
    BY <1>4 DEF StatusWrite, StatusRead
  <2>2. IsTable(expense', Expense, ExpenseRow)
    BY <1>4, <2>1, ExpenseWrites DEF StatusWrite
  <2> QED
    BY <1>4, <2>2, TypeAnswer DEF StatusWrite
<1>5. CASE RemoveWrite(w)
  <2>1. IsTable(expense', Expense, ExpenseRow) /\ IsTable(detail', Detail, DetailRow)
    BY <1>5, WithoutIsTable DEF RemoveWrite
  <2>2. IsTable(cost', Cost, CostRow)
    BY <1>5 DEF RemoveWrite, IsTable, CostRow
  <2> QED
    BY <1>5, <2>1, <2>2, TypeAnswer DEF RemoveWrite
<1>6. CASE PayLock(w) \/ PayCount(w)
  <2>1. ASSUME NEW at \in {"pay_count", "pay_detail"}, GoTo(w, at) PROVE TypeInv'
    <3> DEFINE job == [q EXCEPT !.at = at]
    <3>1. job \in Request /\ job.at = at
      BY <1>1 DEF Request, At
    <3> QED
      BY <1>6, <2>1, <3>1, TypeMove DEF GoTo, PayLock, PayCount
  <2>2. CASE Answer(w)
    BY <1>6, <2>2, TypeAnswer DEF PayLock, PayCount
  <2> QED
    BY <1>6, <2>1, <2>2 DEF PayLock, PayCount
<1>7. ASSUME NEW d \in Detail, PayDetail(w, d) PROVE TypeInv'
  <2>1. CASE req' = [req EXCEPT ![w].charged = Insert(@, [i \in {d} |-> None])]
    <3> DEFINE more == Insert(q.charged, [i \in {d} |-> None])
               job == [q EXCEPT !.charged = more]
    <3>1. IsTable([i \in {d} |-> None], Detail, Budget \cup {None})
      BY DEF IsTable
    <3>2. more \in Tables(Detail, Budget \cup {None})
      BY <1>1, <3>1, InsertIsTable, TablesAreTables
    <3>3. job \in Request /\ job.at = q.at
      <4> HIDE DEF more
      <4> QED
        BY <1>1, <3>2 DEF Request
    <3>4. req' = [req EXCEPT ![w] = job]
      BY <2>1
    <3> QED
      BY <1>7, <3>3, <3>4, TypeMove DEF PayDetail
  <2>2. ASSUME NEW b \in BudgetsFor(q.details[d].kind, q.details[d].month),
               req' = [req EXCEPT ![w].at = "pay_budget", ![w].budget = b, ![w].seen = {d}]
        PROVE  TypeInv'
    <3> DEFINE job == [q EXCEPT !.at = "pay_budget", !.budget = b, !.seen = {d}]
    <3>1. b \in Budget
      BY DEF BudgetsFor, ActiveBudgets, IsTable
    <3>2. job \in Request /\ job.at = "pay_budget"
      BY <1>1, <3>1 DEF Request, At
    <3>3. req' = [req EXCEPT ![w] = job]
      BY <2>2
    <3>4. UNCHANGED <<expense, detail, cost, budget>>
      BY <1>7 DEF PayDetail
    <3> HIDE DEF job
    <3> QED
      BY <3>2, <3>3, <3>4, TypeMove
  <2> QED
    BY <1>7, <2>1, <2>2 DEF PayDetail
<1>8. CASE PayBudget(w)
  <2>1. CASE Answer(w)
    BY <1>8, <2>1, TypeAnswer DEF PayBudget
  <2>2. CASE ~Answer(w)
    <3> DEFINE more == Insert(q.charged, [i \in q.seen |-> q.budget])
               job == [q EXCEPT !.at = "pay_detail", !.budget = None, !.seen = {}, !.charged = more]
    <3>1. IsTable([i \in q.seen |-> q.budget], Detail, Budget \cup {None})
      BY <1>1 DEF IsTable, Request
    <3>2. more \in Tables(Detail, Budget \cup {None})
      BY <1>1, <3>1, InsertIsTable, TablesAreTables
    <3>3. job \in Request /\ job.at = "pay_detail"
      <4> HIDE DEF more
      <4> QED
        BY <1>1, <3>2 DEF Request, At
    <3>4. req' = [req EXCEPT ![w] = job]
      BY <1>8, <2>2 DEF PayBudget
    <3> QED
      BY <1>8, <3>3, <3>4, TypeMove DEF PayBudget
  <2> QED
    BY <2>1, <2>2
<1>9. CASE PayCommit(w)
  BY <1>9, PayCommitTypes, TypeAnswer DEF PayCommit
<1>10. CASE BudgetInsert(w)
  <2>1. IsTable(q.rows, Budget, BudgetRow)
    BY <1>1 DEF IsTable, NewBudgetRow, BudgetRow, BudgetStatus
  <2>2. IsTable(budget', Budget, BudgetRow)
    BY <1>10, <2>1, InsertIsTable DEF BudgetInsert
  <2> QED
    BY <1>10, <2>2, TypeAnswer DEF BudgetInsert
<1>11. CASE BudgetWrite(w)
  <2>1. q.status \in BudgetStatus
    BY <1>11 DEF BudgetWrite, StatusRead
  <2>2. IsTable(budget', Budget, BudgetRow)
    BY <1>11, <2>1, BudgetWrites DEF BudgetWrite
  <2> QED
    BY <1>11, <2>2, TypeAnswer DEF BudgetWrite
<1>12. CASE BudgetRemove(w)
  BY <1>12, WithoutIsTable, TypeAnswer DEF BudgetRemove
<1>13. CASE PayDeadlock(w)
  BY <1>13, TypeAnswer DEF PayDeadlock
<1> QED
  BY <1>2, <1>3, <1>4, <1>5, <1>6, <1>7, <1>8, <1>9, <1>10, <1>11, <1>12, <1>13 DEF Step

LEMMA TypeNext ==
    ASSUME TypeInv, [Next]_vars
    PROVE  TypeInv'
<1>1. ASSUME NEW e \in Expense, NEW details \in DetailsFor(e), Create(e, details) PROVE TypeInv'
  <2> DEFINE new == [i \in {e} |-> [status |-> "DRAFT", total |-> Total(details, DOMAIN details)]]
  <2>1. IsTable(new, Expense, ExpenseRow)
    BY DetailsAreRows, DetailTotal DEF IsTable, ExpenseRow, Status
  <2>2. IsTable(expense', Expense, ExpenseRow)
    <3>1. expense' = Insert(expense, new)
      BY <1>1 DEF Create
    <3> HIDE DEF new
    <3> QED
      BY <2>1, <3>1, InsertIsTable DEF TypeInv, TypeOK
  <2>3. IsTable(detail', Detail, DetailRow)
    BY <1>1, DetailsAreRows, InsertIsTable DEF Create, TypeInv, TypeOK
  <2> QED
    BY <1>1, <2>2, <2>3 DEF Create, TypeInv, TypeOK, StatusRead
<1>2. ASSUME NEW w \in Worker, Ask(w) \/ Step(w) PROVE TypeInv'
  BY <1>2, TypeAsk, TypeStep
<1>3. ASSUME NEW w \in Worker, Fail(w) PROVE TypeInv'
  BY <1>3, TypeAnswer DEF Fail, TypeInv, TypeOK
<1>4. CASE UNCHANGED vars
  BY <1>4 DEF vars, TypeInv, TypeOK, StatusRead
<1> QED
  BY <1>1, <1>2, <1>3, <1>4 DEF Next

\* The tables keep the types of their columns, and a request those of what it
\* has read, however requests overlap: amounts are whole and positive, and what
\* a budget has used and an expense amounts to is never negative (every
\* operation of both services).
THEOREM TypeCorrect == Spec => []TypeOK
<1>1. TypeInv => TypeOK
  BY DEF TypeInv
<1>2. TypeInv /\ [Next]_vars => TypeInv'
  BY TypeNext
<1> QED
  BY <1>1, <1>2, TypeInit, PTL DEF Spec

-----------------------------------------------------------------------------
(***************************************************************************)
(* A budget that is about to be inserted is unknown to everybody else, so  *)
(* that nothing has been charged to it when it starts from 0.              *)
(***************************************************************************)
Charging(v, b) == \E d \in DOMAIN req[v].charged : req[v].charged[d] = b
ChargedIn(b) == {k \in DOMAIN cost : cost[k].budget = b}

NewBudgetsAreNew(w) ==
    \A b \in DOMAIN req[w].rows :
        /\ b \notin DOMAIN budget /\ ChargedIn(b) = {}
        /\ \A v \in Worker : ~Charging(v, b) /\ (v # w => b \notin DOMAIN req[v].rows)

BudgetInv == TypeInv /\ BudgetMatchesCosts /\ \A w \in Worker : NewBudgetsAreNew(w)

\* Everything a worker holds is typed.
LEMMA RequestRows ==
    ASSUME TypeInv, NEW w \in Worker
    PROVE  /\ IsTable(req[w].rows, Budget, NewBudgetRow)
           /\ IsTable(req[w].charged, Detail, Budget \cup {None})
           /\ IsTable(req[w].details, Detail, DetailRow)
BY TablesAreTables DEF TypeInv, TypeOK, Request

\* One handler moved: it charges only what it charged before, what exists, or
\* nothing, and no cost is charged to what was not charged before.
LEMMA NewFrame ==
    ASSUME BudgetInv, NEW w \in Worker, DOMAIN req' = Worker,
           \A v \in Worker \ {w} : req'[v] = req[v],
           DOMAIN req'[w].rows \subseteq DOMAIN req[w].rows,
           \A b \in Budget : Charging(w, b)' => Charging(w, b) \/ b \in DOMAIN budget,
           \A b \in Budget : ChargedIn(b)' # {} => ChargedIn(b) # {} \/ Charging(w, b),
           \A b \in DOMAIN budget' : b \in DOMAIN budget
    PROVE  \A v \in Worker : NewBudgetsAreNew(v)'
<1>1. \A v \in Worker : DOMAIN req'[v].rows \subseteq DOMAIN req[v].rows /\ DOMAIN req[v].rows \subseteq Budget
  BY RequestRows DEF BudgetInv, IsTable
<1>2. ASSUME NEW u \in Worker, NEW b \in DOMAIN req'[u].rows, NEW v \in Worker
      PROVE  /\ b \notin DOMAIN budget' /\ ChargedIn(b)' = {}
             /\ ~Charging(v, b)' /\ (v # u => b \notin DOMAIN req'[v].rows)
  <2>1. b \in DOMAIN req[u].rows /\ b \in Budget
    BY <1>1
  <2>2. /\ b \notin DOMAIN budget /\ ChargedIn(b) = {}
        /\ ~Charging(v, b) /\ ~Charging(w, b) /\ (v # u => b \notin DOMAIN req[v].rows)
    BY <2>1 DEF BudgetInv, NewBudgetsAreNew
  <2>3. ~Charging(v, b)'
    BY <2>1, <2>2 DEF Charging
  <2> QED
    BY <1>1, <2>1, <2>2, <2>3
<1> QED
  BY <1>2 DEF NewBudgetsAreNew

\* The sums stay what they are when costs keep their amounts and budgets.
LEMMA SumsFrame ==
    ASSUME BudgetInv, DOMAIN cost' = DOMAIN cost,
           \A k \in DOMAIN cost : cost'[k].amount = cost[k].amount /\ cost'[k].budget = cost[k].budget,
           \A b \in DOMAIN budget' : b \in DOMAIN budget /\ budget'[b].used = budget[b].used
    PROVE  BudgetMatchesCosts' /\ \A b : ChargedIn(b)' = ChargedIn(b)
<1>1. \A b : ChargedIn(b)' = ChargedIn(b)
  BY DEF ChargedIn
<1>2. ASSUME NEW b \in DOMAIN budget'
      PROVE  budget'[b].used = Total(cost', ChargedIn(b)')
  <2>1. budget[b].used = Total(cost, ChargedIn(b))
    BY <1>2 DEF BudgetInv, BudgetMatchesCosts, ChargedIn
  <2>2. IsFiniteSet(ChargedIn(b)) /\ ChargedIn(b) \subseteq DOMAIN cost
    BY CostTotal DEF BudgetInv, TypeInv, TypeOK, ChargedIn
  <2>3. Total(cost', ChargedIn(b)) = Total(cost, ChargedIn(b))
    BY <2>2, TotalSame
  <2> QED
    BY <1>1, <1>2, <2>1, <2>3
<1> QED
  BY <1>1, <1>2 DEF BudgetMatchesCosts, ChargedIn

\* A handler ends, and budgets and costs are what they were or fewer.
LEMMA BudgetAnswer ==
    ASSUME BudgetInv, TypeInv', NEW w \in Worker, Answer(w), DOMAIN cost' = DOMAIN cost,
           \A k \in DOMAIN cost : cost'[k].amount = cost[k].amount /\ cost'[k].budget = cost[k].budget,
           \A b \in DOMAIN budget' : b \in DOMAIN budget /\ budget'[b].used = budget[b].used
    PROVE  BudgetInv'
<1>1. DOMAIN req' = Worker /\ req'[w] = Idle /\ \A v \in Worker \ {w} : req'[v] = req[v]
  BY DEF Answer, BudgetInv, TypeInv, TypeOK
<1>2. DOMAIN req'[w].rows = {} /\ \A b : ~Charging(w, b)'
  BY <1>1 DEF Idle, Empty, Charging
<1> QED
  BY <1>1, <1>2, SumsFrame, NewFrame DEF BudgetInv

\* A handler goes on, and the tables of budgets and costs are what they were.
LEMMA BudgetMove ==
    ASSUME BudgetInv, TypeInv', NEW w \in Worker, \A v \in Worker \ {w} : req'[v] = req[v],
           UNCHANGED <<cost, budget>>,
           DOMAIN req'[w].rows \subseteq DOMAIN req[w].rows,
           \A b \in Budget : Charging(w, b)' => Charging(w, b) \/ b \in DOMAIN budget
    PROVE  BudgetInv'
BY SumsFrame, NewFrame DEF BudgetInv, TypeInv, TypeOK

LEMMA BudgetAsk ==
    ASSUME BudgetInv, TypeInv', NEW w \in Worker, Ask(w)
    PROVE  BudgetInv'
<1>1. UNCHANGED <<expense, detail, cost, budget>>
  BY AskReads
<1>2. ASSUME NEW b \in Budget, NEW row \in NewBudgetRow, BudgetCreateRead(w, b, row)
      PROVE  BudgetInv'
  <2> DEFINE job == [Idle EXCEPT !.at = "budget_insert", !.rows = [i \in {b} |-> row]]
  <2>1. /\ DOMAIN req' = Worker /\ req'[w] = job /\ \A v \in Worker \ {w} : req'[v] = req[v]
        /\ b \in FreshBudget
    BY <1>2 DEF BudgetCreateRead, Start, BudgetInv, TypeInv, TypeOK
  <2>2. DOMAIN job.rows = {b} /\ DOMAIN job.charged = {}
    BY DEF Idle, Empty
  <2> HIDE DEF job
  <2>3. /\ b \notin DOMAIN budget /\ ChargedIn(b) = {}
        /\ \A v \in Worker : ~Charging(v, b) /\ b \notin DOMAIN req[v].rows
    BY <2>1 DEF FreshBudget, ChargedIn, Charging
  <2>4. \A c : ChargedIn(c)' = ChargedIn(c)
    BY <1>1 DEF ChargedIn
  <2>5. \A v \in Worker : \A c : Charging(v, c)' => Charging(v, c)
    BY <2>1, <2>2 DEF Charging
  <2>6. ASSUME NEW u \in Worker, NEW c \in DOMAIN req'[u].rows, NEW v \in Worker
        PROVE  /\ c \notin DOMAIN budget' /\ ChargedIn(c)' = {}
               /\ ~Charging(v, c)' /\ (v # u => c \notin DOMAIN req'[v].rows)
    <3>1. CASE u = w
      BY <1>1, <2>1, <2>2, <2>3, <2>4, <2>5, <3>1
    <3>2. CASE u # w
      <4>1. c \in DOMAIN req[u].rows
        BY <2>1, <3>2
      <4>2. /\ c \notin DOMAIN budget /\ ChargedIn(c) = {} /\ ~Charging(v, c)
            /\ (v # u => c \notin DOMAIN req[v].rows) /\ c # b
        BY <2>3, <4>1 DEF BudgetInv, NewBudgetsAreNew
      <4> QED
        BY <1>1, <2>1, <2>2, <2>4, <2>5, <4>2
    <3> QED
      BY <3>1, <3>2
  <2>7. \A u \in Worker : NewBudgetsAreNew(u)'
    BY <2>6 DEF NewBudgetsAreNew
  <2> QED
    BY <1>1, <2>7, SumsFrame DEF BudgetInv
<1>3. CASE \A b \in Budget : \A row \in NewBudgetRow : ~BudgetCreateRead(w, b, row)
  <2> DEFINE Plain == /\ \A v \in Worker \ {w} : req'[v] = req[v]
                      /\ req'[w].rows = Empty /\ req'[w].charged = Empty
  <2> USE DEF Start, Idle, BudgetInv, TypeInv, TypeOK
  <2>1. ASSUME NEW e \in Expense, NEW details, UpdateRead(w, e, details) PROVE Plain
    BY <2>1 DEF UpdateRead
  <2>2. ASSUME NEW e \in Expense, SubmitRead(w, e) \/ RemoveRead(w, e) \/ PayRead(w, e) PROVE Plain
    BY <2>2 DEF SubmitRead, RemoveRead, PayRead
  <2>3. ASSUME NEW e \in Expense, NEW verdict, ApproveRead(w, e, verdict) PROVE Plain
    BY <2>3 DEF ApproveRead
  <2>4. ASSUME NEW b \in Budget, ToggleFreezeRead(w, b) \/ CloseRead(w, b) \/ BudgetRemoveRead(w, b)
        PROVE  Plain
    <3>1. CASE BudgetRemoveRead(w, b)
      BY <3>1 DEF BudgetRemoveRead
    <3>2. CASE \E s : req' = [req EXCEPT ![w] = [Idle EXCEPT !.at = "budget_write", !.budget = b, !.status = s]]
      BY <3>2
    <3> QED
      BY <2>4, <3>1, <3>2 DEF ToggleFreezeRead, CloseRead
  <2>5. Plain
    BY <1>3, <2>1, <2>2, <2>3, <2>4 DEF Ask
  <2>6. DOMAIN req'[w].rows = {} /\ \A b : ~Charging(w, b)'
    BY <2>5 DEF Empty, Charging
  <2> QED
    BY <1>1, <2>5, <2>6, BudgetMove
<1> QED
  BY <1>2, <1>3

\* The commit: what it adds to a budget is the costs it inserts for that budget.
LEMMA BudgetCommit ==
    ASSUME BudgetInv, TypeInv', NEW w \in Worker, PayCommit(w)
    PROVE  BudgetInv'
<1> DEFINE q == req[w]
           Picks(b) == {d \in DOMAIN q.charged : q.charged[d] = b}
<1>1. PICK ids \in SUBSET FreshCost : \E of \in Bijection(ids, DOMAIN q.details) :
          cost' = Insert(cost, [k \in ids |-> [expense |-> q.expense, amount |-> q.details[of[k]].amount,
                                              budget |-> q.charged[of[k]]]])
  BY DEF PayCommit
<1>2. PICK of \in Bijection(ids, DOMAIN q.details) :
          cost' = Insert(cost, [k \in ids |-> [expense |-> q.expense, amount |-> q.details[of[k]].amount,
                                              budget |-> q.charged[of[k]]]])
  BY <1>1
<1>3. /\ IsTable(q.details, Detail, DetailRow) /\ DOMAIN q.charged = DOMAIN q.details
      /\ IsTable(cost, Cost, CostRow) /\ IsTable(cost', Cost, CostRow)
  BY RequestRows DEF BudgetInv, TypeInv, TypeOK, PayCommit
<1>4. /\ ids \cap DOMAIN cost = {}
      /\ \A k \in ids : of[k] \in DOMAIN q.details
      /\ \A k, l \in ids : of[k] = of[l] => k = l
      /\ \A d \in DOMAIN q.details : \E k \in ids : of[k] = d
  BY <1>1, <1>2 DEF FreshCost, Bijection, Injection, Surjection, IsInjective
<1>5. /\ DOMAIN cost' = DOMAIN cost \cup ids
      /\ \A k \in DOMAIN cost : cost'[k] = cost[k]
      /\ \A k \in ids : cost'[k].amount = q.details[of[k]].amount /\ cost'[k].budget = q.charged[of[k]]
  BY <1>2, <1>4 DEF Insert
<1> DEFINE New(b) == {k \in ids : q.charged[of[k]] = b}
<1>6. ASSUME NEW b
      PROVE  /\ ChargedIn(b)' = ChargedIn(b) \cup New(b) /\ ChargedIn(b) \cap New(b) = {}
             /\ New(b) \subseteq DOMAIN cost' /\ ChargedIn(b) \subseteq DOMAIN cost
  BY <1>4, <1>5 DEF ChargedIn
<1>7. ASSUME NEW b PROVE Total(cost', New(b)) = ChargedTo(w, b)
  <2>1. Picks(b) = {of[k] : k \in New(b)}
    BY <1>3, <1>4
  <2>2. IsFiniteSet(New(b)) /\ Amounted(cost', New(b))
    BY <1>3, <1>6, CostTotal
  <2>3. \A k, l \in New(b) : of[k] = of[l] => k = l
    BY <1>4
  <2>4. \A k \in New(b) : q.details[of[k]].amount = cost'[k].amount
    BY <1>5
  <2>5. Total(q.details, {of[k] : k \in New(b)}) = Total(cost', New(b))
    <3> HIDE DEF New, q
    <3> QED
      BY <2>2, <2>3, <2>4, TotalRenamed
  <2> QED
    BY <2>1, <2>5 DEF ChargedTo
<1>8. ASSUME NEW b \in DOMAIN budget
      PROVE  budget'[b].used = Total(cost', ChargedIn(b)')
  <2>1. budget[b].used = Total(cost, ChargedIn(b))
    BY <1>8 DEF BudgetInv, BudgetMatchesCosts, ChargedIn
  <2>2. IsFiniteSet(ChargedIn(b)) /\ IsFiniteSet(New(b))
    BY <1>3, <1>6, CostTotal
  <2>3. Total(cost', ChargedIn(b)) = Total(cost, ChargedIn(b))
    BY <1>5, <1>6, <2>2, TotalSame
  <2>4. Amounted(cost', ChargedIn(b) \cup New(b))
    <3>1. ChargedIn(b) \cup New(b) \subseteq DOMAIN cost'
      BY <1>5, <1>6
    <3> QED
      BY <1>3, <3>1, CostTotal
  <2>5. Total(cost', ChargedIn(b)') = Total(cost', ChargedIn(b)) + Total(cost', New(b))
    <3> HIDE DEF New
    <3> QED
      BY <1>6, <2>2, <2>4, TotalUnion
  <2>6. budget'[b].used = budget[b].used + ChargedTo(w, b)
    BY DEF PayCommit, Charge, BudgetInv, TypeInv, TypeOK, IsTable, BudgetRow
  <2> QED
    BY <1>7, <2>1, <2>3, <2>5, <2>6
<1>9. BudgetMatchesCosts'
  BY <1>8 DEF BudgetMatchesCosts, ChargedIn, PayCommit
<1>10. \A b : New(b) # {} => Charging(w, b)
  BY <1>3, <1>4 DEF Charging
<1>11. /\ DOMAIN req' = Worker /\ req'[w] = Idle /\ \A v \in Worker \ {w} : req'[v] = req[v]
       /\ DOMAIN budget' = DOMAIN budget
  BY DEF PayCommit, Answer, BudgetInv, TypeInv, TypeOK
<1>12. DOMAIN req'[w].rows = {} /\ \A b : ~Charging(w, b)'
  BY <1>11 DEF Idle, Empty, Charging
<1>13. \A v \in Worker : NewBudgetsAreNew(v)'
  <2> HIDE DEF New
  <2> QED
    BY <1>6, <1>10, <1>11, <1>12, NewFrame
<1> QED
  BY <1>9, <1>13 DEF BudgetInv

\* A new budget has used nothing, and nothing has been charged to it.
LEMMA BudgetInserted ==
    ASSUME BudgetInv, TypeInv', NEW w \in Worker, Answer(w), UNCHANGED cost,
           budget' = Insert(budget, req[w].rows)
    PROVE  BudgetInv'
<1> DEFINE rows == req[w].rows
<1>1. IsTable(rows, Budget, NewBudgetRow)
  BY RequestRows DEF BudgetInv
<1>2. DOMAIN req' = Worker /\ req'[w] = Idle /\ \A v \in Worker \ {w} : req'[v] = req[v]
  BY DEF Answer, BudgetInv, TypeInv, TypeOK
<1>3. DOMAIN req'[w].rows = {} /\ \A b : ~Charging(w, b)'
  BY <1>2 DEF Idle, Empty, Charging
<1>4. \A b : ChargedIn(b)' = ChargedIn(b)
  BY DEF ChargedIn
<1>5. ASSUME NEW b \in DOMAIN budget' PROVE budget'[b].used = Total(cost, ChargedIn(b))
  <2>1. CASE b \in DOMAIN rows
    <3>1. budget'[b] = rows[b] /\ rows[b] \in NewBudgetRow
      BY <1>1, <2>1 DEF Insert, IsTable
    <3>2. budget'[b].used = 0
      BY <3>1 DEF NewBudgetRow
    <3>3. ChargedIn(b) = {}
      BY <2>1 DEF BudgetInv, NewBudgetsAreNew
    <3> QED
      BY <3>2, <3>3, TotalEmpty
  <2>2. CASE b \notin DOMAIN rows
    BY <1>5, <2>2 DEF Insert, BudgetInv, BudgetMatchesCosts, ChargedIn
  <2> QED
    BY <2>1, <2>2
<1>6. ASSUME NEW u \in Worker, NEW b \in DOMAIN req'[u].rows, NEW v \in Worker
      PROVE  /\ b \notin DOMAIN budget' /\ ChargedIn(b)' = {}
             /\ ~Charging(v, b)' /\ (v # u => b \notin DOMAIN req'[v].rows)
  <2>1. u # w /\ b \in DOMAIN req[u].rows
    BY <1>2, <1>3, <1>6
  <2>2. /\ b \notin DOMAIN budget /\ b \notin DOMAIN rows /\ ChargedIn(b) = {}
        /\ ~Charging(v, b) /\ (v # u => b \notin DOMAIN req[v].rows)
    BY <2>1 DEF BudgetInv, NewBudgetsAreNew
  <2>3. ~Charging(v, b)'
    BY <1>2, <1>3, <2>2 DEF Charging
  <2> QED
    BY <1>2, <1>3, <1>4, <2>2, <2>3 DEF Insert
<1> QED
  BY <1>4, <1>5, <1>6 DEF BudgetInv, BudgetMatchesCosts, NewBudgetsAreNew, ChargedIn

LEMMA BudgetStep ==
    ASSUME BudgetInv, TypeInv', NEW w \in Worker, Step(w)
    PROVE  BudgetInv'
<1> DEFINE q == req[w]
<1>1. CASE UpdateDetails(w)
  <2>1. /\ UNCHANGED <<cost, budget>>
        /\ \A v \in Worker \ {w} : req'[v] = req[v]
        /\ req'[w].rows = q.rows /\ req'[w].charged = q.charged
    BY <1>1 DEF UpdateDetails, BudgetInv, TypeInv, TypeOK, Request
  <2> QED
    BY <2>1, BudgetMove DEF Charging
<1>2. CASE UpdateWrite(w) \/ StatusWrite(w) \/ PayDeadlock(w)
  BY <1>2, BudgetAnswer DEF UpdateWrite, StatusWrite, PayDeadlock
<1>3. CASE RemoveWrite(w)
  <2>1. \A k \in DOMAIN cost : cost'[k].amount = cost[k].amount /\ cost'[k].budget = cost[k].budget
    BY <1>3 DEF RemoveWrite, BudgetInv, TypeInv, TypeOK, IsTable, CostRow
  <2> QED
    BY <1>3, <2>1, BudgetAnswer DEF RemoveWrite
<1>4. CASE PayLock(w) \/ PayCount(w)
  <2>1. ASSUME NEW at, GoTo(w, at) PROVE BudgetInv'
    <3>1. /\ UNCHANGED <<cost, budget>>
          /\ \A v \in Worker \ {w} : req'[v] = req[v]
          /\ req'[w].rows = q.rows /\ req'[w].charged = q.charged
      BY <1>4, <2>1 DEF PayLock, PayCount, GoTo, BudgetInv, TypeInv, TypeOK, Request
    <3> QED
      BY <3>1, BudgetMove DEF Charging
  <2>2. CASE Answer(w)
    BY <1>4, <2>2, BudgetAnswer DEF PayLock, PayCount
  <2> QED
    BY <1>4, <2>1, <2>2 DEF PayLock, PayCount
<1>5. ASSUME NEW d \in Detail, PayDetail(w, d) PROVE BudgetInv'
  <2> DEFINE Moves == /\ UNCHANGED <<cost, budget>>
                      /\ \A v \in Worker \ {w} : req'[v] = req[v]
                      /\ req'[w].rows = q.rows
                      /\ \/ req'[w].charged = q.charged
                         \/ req'[w].charged = Insert(q.charged, [i \in {d} |-> None])
  <2>1. Moves
    <3> USE DEF BudgetInv, TypeInv, TypeOK, Request
    <3>1. CASE req' = [req EXCEPT ![w].charged = Insert(@, [i \in {d} |-> None])]
      BY <1>5, <3>1 DEF PayDetail
    <3>2. ASSUME NEW b, req' = [req EXCEPT ![w].at = "pay_budget", ![w].budget = b, ![w].seen = {d}]
          PROVE  Moves
      BY <1>5, <3>2 DEF PayDetail
    <3> QED
      BY <1>5, <3>1, <3>2 DEF PayDetail
  <2>2. \A b \in Budget : Charging(w, b)' => Charging(w, b)
    BY <2>1, ConstantsAssumption DEF Charging, Insert
  <2> QED
    BY <2>1, <2>2, BudgetMove
<1>6. CASE PayBudget(w)
  <2>1. CASE Answer(w)
    BY <1>6, <2>1, BudgetAnswer DEF PayBudget
  <2>2. CASE ~Answer(w)
    <3>1. /\ UNCHANGED <<cost, budget>>
          /\ \A v \in Worker \ {w} : req'[v] = req[v]
          /\ req'[w].rows = q.rows
          /\ req'[w].charged = Insert(q.charged, [i \in q.seen |-> q.budget])
          /\ q.budget \in DOMAIN budget
      BY <1>6, <2>2 DEF PayBudget, BudgetInv, TypeInv, TypeOK, Request
    <3>2. \A b \in Budget : Charging(w, b)' => Charging(w, b) \/ b \in DOMAIN budget
      BY <3>1 DEF Charging, Insert
    <3> QED
      BY <3>1, <3>2, BudgetMove
  <2> QED
    BY <2>1, <2>2
<1>7. CASE PayCommit(w)
  BY <1>7, BudgetCommit
<1>8. CASE BudgetInsert(w)
  BY <1>8, BudgetInserted, BudgetAnswer DEF BudgetInsert
<1>9. CASE BudgetWrite(w) \/ BudgetRemove(w)
  <2>1. \A b \in DOMAIN budget' : b \in DOMAIN budget /\ budget'[b].used = budget[b].used
    BY <1>9 DEF BudgetWrite, BudgetRemove, Without, BudgetInv, TypeInv, TypeOK, IsTable, BudgetRow
  <2> QED
    BY <1>9, <2>1, BudgetAnswer DEF BudgetWrite, BudgetRemove
<1> QED
  BY <1>1, <1>2, <1>3, <1>4, <1>5, <1>6, <1>7, <1>8, <1>9 DEF Step

LEMMA BudgetNext ==
    ASSUME BudgetInv, [Next]_vars
    PROVE  BudgetInv'
<1>1. TypeInv'
  BY TypeNext DEF BudgetInv
<1>2. CASE UNCHANGED <<cost, budget, req>>
  BY <1>1, <1>2 DEF BudgetInv, BudgetMatchesCosts, NewBudgetsAreNew, ChargedIn, Charging
<1>3. ASSUME NEW w \in Worker, Ask(w) \/ Step(w) PROVE BudgetInv'
  BY <1>1, <1>3, BudgetAsk, BudgetStep
<1>4. ASSUME NEW w \in Worker, Fail(w) PROVE BudgetInv'
  BY <1>1, <1>4, BudgetAnswer DEF Fail
<1> QED
  BY <1>2, <1>3, <1>4 DEF Next, Create, vars

LEMMA BudgetInit == Init => BudgetInv
BY TypeInit DEF Init, Empty, Idle, BudgetInv, BudgetMatchesCosts, NewBudgetsAreNew

\* What a budget has used is at every moment the sum of the costs charged to
\* it, although payments charge budgets while others are frozen, closed, removed
\* and inserted, and fail half-way (pay, updateUsedAmount).
THEOREM BudgetsCorrect == Spec => []BudgetMatchesCosts
<1>1. BudgetInv => BudgetMatchesCosts
  BY DEF BudgetInv
<1>2. BudgetInv /\ [Next]_vars => BudgetInv'
  BY BudgetNext
<1> QED
  BY <1>1, <1>2, BudgetInit, PTL DEF Spec

-----------------------------------------------------------------------------
(***************************************************************************)
(* One request at a time: what a handler has read is still so when it      *)
(* writes.  New expenses can arrive in between (create is one statement),  *)
(* with ids and details that nobody has seen.                              *)
(***************************************************************************)
OneAtATime == \A v, w \in Worker : v = w

DetailsHaveExpenses == \A d \in DOMAIN detail : detail[d].expense \in DOMAIN expense
CostsHaveExpenses == \A k \in DOMAIN cost : cost[k].expense \in DOMAIN expense \cup {None}

AtUpdate == {"update_details", "update_write"}
AtPay == {"pay_lock", "pay_count", "pay_detail", "pay_budget"}

\* The details of an update are new, and the total is theirs.
Replaces(q) ==
    /\ q.total = Total(q.details, DOMAIN q.details)
    /\ DOMAIN q.details \cap DOMAIN detail = {}
    /\ \A d \in DOMAIN q.details : q.details[d].expense = q.expense

StillSo(q) ==
    /\ q.at \in AtUpdate \cup AtPay \cup {"status_write", "remove_write"} => q.expense \in DOMAIN expense
    /\ q.at \in AtUpdate \cup {"status_write"} => expense[q.expense].status # "PAID"
    /\ q.at = "update_details" => Replaces(q)
    /\ q.at = "update_write" =>
          \/ DOMAIN q.details = {} /\ q.seen = {} /\ q.total = expense[q.expense].total
          \/ Replaces(q) /\ q.seen = DetailsOf(q.expense)
    /\ q.at \in AtPay => q.details = [d \in DetailsOf(q.expense) |-> detail[d]]

TablesAgree ==
    DetailsHaveExpenses /\ CostsHaveExpenses /\ TotalMatchesDetails /\ CostsMatchExpense

SerialInv == OneAtATime /\ TypeInv /\ PayInv /\ TablesAgree /\ \A w \in Worker : StillSo(req[w])

LEMMA SerialInit == OneAtATime /\ Init => SerialInv
BY TypeInit, PayInit DEF Init, Empty, SerialInv, TablesAgree, DetailsHaveExpenses, CostsHaveExpenses,
   TotalMatchesDetails, CostsMatchExpense, StillSo, Idle, AtUpdate, AtPay

\* The only handler ends.
LEMMA SerialAnswer ==
    ASSUME SerialInv, TypeInv', PayInv', TablesAgree', NEW w \in Worker, Answer(w)
    PROVE  SerialInv'
<1>1. \A v \in Worker : req'[v] = Idle
  BY DEF Answer, SerialInv, OneAtATime, TypeInv, TypeOK
<1> QED
  BY <1>1 DEF SerialInv, OneAtATime, StillSo, Idle, AtUpdate, AtPay

\* The only handler goes on, with no write.
LEMMA SerialMove ==
    ASSUME SerialInv, TypeInv', PayInv', NEW w \in Worker, UNCHANGED <<expense, detail, cost>>,
           StillSo(req'[w])
    PROVE  SerialInv'
<1>1. TablesAgree'
  BY DEF SerialInv, TablesAgree, DetailsHaveExpenses, CostsHaveExpenses, TotalMatchesDetails,
         CostsMatchExpense, DetailsOf, CostsOf
<1>2. \A v \in Worker : StillSo(req'[v])
  BY DEF SerialInv, OneAtATime
<1>3. ASSUME NEW v \in Worker PROVE StillSo(req[v])'
  BY <1>2 DEF StillSo, Replaces, DetailsOf
<1> QED
  BY <1>1, <1>3 DEF SerialInv, OneAtATime

\* Totals by expense, when details and costs keep their rows.
LEMMA SameDetails ==
    ASSUME TypeInv, TypeInv', NEW e, DetailsOf(e)' = DetailsOf(e),
           \A d \in DetailsOf(e) : detail'[d].amount = detail[d].amount
    PROVE  Total(detail', DetailsOf(e)') = Total(detail, DetailsOf(e))
<1>1. IsFiniteSet(DetailsOf(e))
  BY DetailTotal DEF TypeInv, TypeOK, DetailsOf
<1> QED
  BY <1>1, TotalSame

LEMMA SameCosts ==
    ASSUME TypeInv, TypeInv', NEW e, CostsOf(e)' = CostsOf(e),
           \A k \in CostsOf(e) : cost'[k].amount = cost[k].amount
    PROVE  Total(cost', CostsOf(e)') = Total(cost, CostsOf(e))
<1>1. IsFiniteSet(CostsOf(e))
  BY CostTotal DEF TypeInv, TypeOK, CostsOf
<1> QED
  BY <1>1, TotalSame

\* An expense that is created comes with its details, and changes nothing else.
LEMMA SerialCreate ==
    ASSUME SerialInv, TypeInv', PayInv', NEW e \in Expense, NEW details \in DetailsFor(e),
           Create(e, details)
    PROVE  SerialInv'
<1>1. /\ e \notin DOMAIN expense /\ e # None
      /\ \A w \in Worker : req[w].expense # e
      /\ DOMAIN details \cap DOMAIN detail = {}
      /\ \A w \in Worker : DOMAIN details \cap (DOMAIN req[w].details \cup req[w].seen) = {}
      /\ \A d \in DOMAIN details : details[d].expense = e
  BY ConstantsAssumption, DetailsAreRows DEF Create, FreshExpense, FreshDetail
<1>2. /\ DOMAIN expense' = DOMAIN expense \cup {e}
      /\ \A x \in DOMAIN expense : expense'[x] = expense[x]
      /\ expense'[e] = [status |-> "DRAFT", total |-> Total(details, DOMAIN details)]
  BY <1>1 DEF Create, Insert
<1>3. /\ DOMAIN detail' = DOMAIN detail \cup DOMAIN details
      /\ \A d \in DOMAIN detail : detail'[d] = detail[d]
      /\ \A d \in DOMAIN details : detail'[d] = details[d]
  BY <1>1 DEF Create, Insert
<1>4. UNCHANGED <<cost, req>>
  BY DEF Create
<1>5. \A x : x # e => DetailsOf(x)' = DetailsOf(x)
  BY <1>1, <1>3 DEF DetailsOf
<1>6. DetailsOf(e)' = DOMAIN details
  BY <1>1, <1>3 DEF DetailsOf, SerialInv, TablesAgree, DetailsHaveExpenses
<1>7. \A x : CostsOf(x)' = CostsOf(x)
  BY <1>4 DEF CostsOf
<1>8. TotalMatchesDetails'
  <2>1. ASSUME NEW x \in DOMAIN expense PROVE expense'[x].total = Total(detail', DetailsOf(x)')
    <3>1. x # e
      BY <1>1
    <3>2. Total(detail', DetailsOf(x)') = Total(detail, DetailsOf(x))
      BY <1>3, <1>5, <3>1, SameDetails DEF SerialInv, DetailsOf
    <3> QED
      BY <1>2, <3>2 DEF SerialInv, TablesAgree, TotalMatchesDetails
  <2>2. Total(detail', DetailsOf(e)') = Total(details, DOMAIN details)
    BY <1>3, <1>6, DetailsAreRows, DetailTotal, TotalSame
  <2> QED
    BY <1>2, <2>1, <2>2 DEF TotalMatchesDetails
<1>9. CostsMatchExpense'
  <2>1. CostsOf(e) = {}
    BY <1>1 DEF CostsOf, SerialInv, TablesAgree, CostsHaveExpenses
  <2> QED
    BY <1>2, <1>4, <1>7, <2>1, TotalEmpty DEF SerialInv, TablesAgree, CostsMatchExpense
<1>10. DetailsHaveExpenses' /\ CostsHaveExpenses'
  BY <1>1, <1>2, <1>3, <1>4 DEF SerialInv, TablesAgree, DetailsHaveExpenses, CostsHaveExpenses
<1>11. ASSUME NEW w \in Worker PROVE StillSo(req[w])'
  <2> DEFINE q == req[w]
  <2>1. StillSo(q) /\ q.expense # e /\ req' = req
    BY <1>1, <1>4 DEF SerialInv
  <2>2. {d \in DOMAIN detail' : detail'[d].expense = q.expense} = DetailsOf(q.expense)
    BY <1>1, <1>3, <2>1 DEF DetailsOf
  <2>3. q.at \in AtPay => q.details = [d \in DetailsOf(q.expense) |-> detail'[d]]
    BY <1>3, <2>1 DEF StillSo, DetailsOf
  <2>4. q.expense \in DOMAIN expense => q.expense \in DOMAIN expense' /\ expense'[q.expense] = expense[q.expense]
    BY <1>2
  <2>5. Replaces(q) => Replaces(q)'
    BY <1>1, <1>3, <1>4 DEF Replaces
  <2> HIDE DEF q
  <2>6. q' = q
    BY <2>1 DEF q
  <2> QED
    BY <2>1, <2>2, <2>3, <2>4, <2>5, <2>6 DEF StillSo, DetailsOf, AtPay, AtUpdate, q
<1> QED
  BY <1>8, <1>9, <1>10, <1>11 DEF SerialInv, TablesAgree, OneAtATime

LEMMA SerialAsk ==
    ASSUME SerialInv, TypeInv', PayInv', NEW w \in Worker, Ask(w)
    PROVE  SerialInv'
<1>1. UNCHANGED <<expense, detail, cost, budget>>
  BY AskReads
<1> SUFFICES StillSo(req'[w])
  BY <1>1, SerialMove
<1> USE DEF Start, Idle, TypeInv, TypeOK, SerialInv, AtUpdate, AtPay, StillSo
<1>2. ASSUME NEW e \in Expense, NEW details \in DetailsFor(e), details # None, UpdateRead(w, e, details)
      PROVE  StillSo(req'[w])
  <2>1. /\ req'[w].at = "update_details" /\ req'[w].expense = e /\ req'[w].details = details
        /\ req'[w].total = Total(details, DOMAIN details)
        /\ e \in DOMAIN expense /\ expense[e].status # "PAID"
        /\ DOMAIN details \cap DOMAIN detail = {}
    <3>1. /\ req' = [req EXCEPT ![w] = [Idle EXCEPT !.at = "update_details", !.expense = e,
                              !.details = details, !.total = Total(details, DOMAIN details)]]
          /\ DOMAIN details \subseteq FreshDetail
          /\ e \in DOMAIN expense /\ expense[e].status \in Editable
      BY <1>2 DEF UpdateRead
    <3> QED
      BY <3>1 DEF Editable, FreshDetail
  <2>2. \A d \in DOMAIN details : details[d].expense = e
    BY DetailsAreRows
  <2>3. Replaces(req'[w])
    BY <2>1, <2>2 DEF Replaces
  <2> QED
    BY <2>1, <2>3
<1>3. ASSUME NEW e \in Expense, UpdateRead(w, e, None) PROVE StillSo(req'[w])
  <2>1. /\ req'[w].at = "update_write" /\ req'[w].expense = e /\ req'[w].details = Empty
        /\ req'[w].seen = {} /\ req'[w].total = expense[e].total
        /\ e \in DOMAIN expense /\ expense[e].status # "PAID"
    BY <1>3 DEF UpdateRead, Editable
  <2>2. DOMAIN Empty = {}
    BY DEF Empty
  <2> QED
    BY <2>1, <2>2
<1>4. ASSUME NEW e \in Expense, SubmitRead(w, e) PROVE StillSo(req'[w])
  BY <1>4 DEF SubmitRead, Editable
<1>5. ASSUME NEW e \in Expense, NEW verdict, ApproveRead(w, e, verdict) PROVE StillSo(req'[w])
  BY <1>5 DEF ApproveRead
<1>6. ASSUME NEW e \in Expense, RemoveRead(w, e) PROVE StillSo(req'[w])
  BY <1>6 DEF RemoveRead
<1>7. ASSUME NEW e \in Expense, PayRead(w, e) PROVE StillSo(req'[w])
  BY <1>7 DEF PayRead
<1>8. ASSUME NEW b \in Budget, NEW row, BudgetCreateRead(w, b, row) PROVE StillSo(req'[w])
  BY <1>8 DEF BudgetCreateRead
<1>9. ASSUME NEW b \in Budget, ToggleFreezeRead(w, b) \/ CloseRead(w, b) \/ BudgetRemoveRead(w, b)
      PROVE  StillSo(req'[w])
  <2>1. req'[w].at \in {"budget_write", "budget_remove"}
    BY <1>9 DEF ToggleFreezeRead, CloseRead, BudgetRemoveRead
  <2> QED
    BY <2>1
<1> QED
  BY <1>2, <1>3, <1>4, <1>5, <1>6, <1>7, <1>8, <1>9 DEF Ask

\* An edit writes the total of the details it leaves; the expense was not paid.
LEMMA SerialUpdate ==
    ASSUME SerialInv, TypeInv', NEW w \in Worker, UpdateWrite(w)
    PROVE  TablesAgree'
<1> DEFINE q == req[w]
<1>1. PICK e : e = q.expense
  OBVIOUS
<1>2. /\ e \in DOMAIN expense /\ expense[e].status # "PAID"
      /\ expense' = [expense EXCEPT ![e] = [status |-> "DRAFT", total |-> q.total]]
      /\ detail' = Insert(Without(detail, q.seen), q.details)
      /\ cost' = cost
      /\ \/ DOMAIN q.details = {} /\ q.seen = {} /\ q.total = expense[e].total
         \/ Replaces(q) /\ q.seen = DetailsOf(e)
  BY <1>1 DEF UpdateWrite, SerialInv, StillSo, AtUpdate
<1>3. /\ DOMAIN expense' = DOMAIN expense
      /\ expense'[e] = [status |-> "DRAFT", total |-> q.total]
      /\ \A x \in DOMAIN expense \ {e} : expense'[x] = expense[x]
  BY <1>2
<1>4. /\ DOMAIN detail' = (DOMAIN detail \ q.seen) \cup DOMAIN q.details
      /\ \A d \in DOMAIN q.details : detail'[d] = q.details[d]
      /\ \A d \in DOMAIN detail \ (q.seen \cup DOMAIN q.details) : detail'[d] = detail[d]
  BY <1>2 DEF Insert, Without
<1>5. ASSUME NEW x, x # e
      PROVE  DetailsOf(x)' = DetailsOf(x) /\ \A d \in DetailsOf(x) : detail'[d] = detail[d]
  BY <1>1, <1>2, <1>4, <1>5 DEF DetailsOf, Replaces
<1>6. Total(detail', DetailsOf(e)') = q.total
  <2>1. CASE DOMAIN q.details = {} /\ q.seen = {} /\ q.total = expense[e].total
    <3>1. DetailsOf(e)' = DetailsOf(e) /\ \A d \in DetailsOf(e) : detail'[d].amount = detail[d].amount
      BY <1>4, <2>1 DEF DetailsOf
    <3>2. Total(detail', DetailsOf(e)') = Total(detail, DetailsOf(e))
      BY <3>1, SameDetails DEF SerialInv
    <3> QED
      BY <1>2, <2>1, <3>2 DEF SerialInv, TablesAgree, TotalMatchesDetails
  <2>2. CASE Replaces(q) /\ q.seen = DetailsOf(e)
    <3>1. DetailsOf(e)' = DOMAIN q.details
      BY <1>1, <1>4, <2>2 DEF DetailsOf, Replaces
    <3>2. IsFiniteSet(DOMAIN q.details)
      BY RequestRows, DetailTotal DEF SerialInv
    <3>3. Total(detail', DOMAIN q.details) = Total(q.details, DOMAIN q.details)
      BY <1>4, <3>2, TotalSame
    <3> QED
      BY <2>2, <3>1, <3>3 DEF Replaces
  <2> QED
    BY <1>2, <2>1, <2>2
<1>7. TotalMatchesDetails'
  <2>1. ASSUME NEW x \in DOMAIN expense \ {e} PROVE expense'[x].total = Total(detail', DetailsOf(x)')
    <3>1. Total(detail', DetailsOf(x)') = Total(detail, DetailsOf(x))
      BY <1>5, SameDetails DEF SerialInv
    <3> QED
      BY <1>3, <3>1 DEF SerialInv, TablesAgree, TotalMatchesDetails
  <2> QED
    BY <1>3, <1>6, <2>1 DEF TotalMatchesDetails
<1>8. CostsMatchExpense'
  BY <1>2, <1>3 DEF SerialInv, TablesAgree, CostsMatchExpense, CostsOf
<1>9. DetailsHaveExpenses' /\ CostsHaveExpenses'
  BY <1>1, <1>2, <1>3, <1>4 DEF SerialInv, TablesAgree, DetailsHaveExpenses, CostsHaveExpenses, Replaces
<1> QED
  BY <1>7, <1>8, <1>9 DEF TablesAgree

\* A deleted expense takes its details along, and its costs belong to none.
LEMMA SerialRemove ==
    ASSUME SerialInv, TypeInv', NEW w \in Worker, RemoveWrite(w)
    PROVE  TablesAgree'
<1>1. PICK e : e = req[w].expense
  OBVIOUS
<1>2. /\ expense' = Without(expense, {e}) /\ detail' = Without(detail, DetailsOf(e))
      /\ cost' = [k \in DOMAIN cost |-> IF cost[k].expense = e THEN [cost[k] EXCEPT !.expense = None]
                                        ELSE cost[k]]
      /\ e \in DOMAIN expense
  BY <1>1 DEF RemoveWrite, SerialInv, StillSo
<1>3. DOMAIN expense' = DOMAIN expense \ {e} /\ \A x \in DOMAIN expense' : expense'[x] = expense[x]
  BY <1>2 DEF Without
<1>4. /\ DOMAIN detail' = DOMAIN detail \ DetailsOf(e)
      /\ \A d \in DOMAIN detail' : detail'[d] = detail[d]
  BY <1>2 DEF Without
<1>5. /\ DOMAIN cost' = DOMAIN cost
      /\ \A k \in DOMAIN cost : cost[k].expense # e => cost'[k] = cost[k]
      /\ \A k \in DOMAIN cost : cost[k].expense = e => cost'[k].expense = None
  BY <1>2 DEF SerialInv, TypeInv, TypeOK, IsTable, CostRow
<1>6. ASSUME NEW x \in DOMAIN expense \ {e}
      PROVE  /\ DetailsOf(x)' = DetailsOf(x) /\ CostsOf(x)' = CostsOf(x)
             /\ \A d \in DetailsOf(x) : detail'[d] = detail[d]
             /\ \A k \in CostsOf(x) : cost'[k] = cost[k]
  <2>1. x # None
    BY ConstantsAssumption DEF SerialInv, TypeInv, TypeOK, IsTable
  <2> QED
    BY <1>4, <1>5, <2>1 DEF DetailsOf, CostsOf
<1>7. ASSUME NEW x \in DOMAIN expense \ {e}
      PROVE  /\ Total(detail', DetailsOf(x)') = Total(detail, DetailsOf(x))
             /\ Total(cost', CostsOf(x)') = Total(cost, CostsOf(x))
  BY <1>6, SameDetails, SameCosts DEF SerialInv
<1>8. TotalMatchesDetails' /\ CostsMatchExpense'
  BY <1>3, <1>7 DEF SerialInv, TablesAgree, TotalMatchesDetails, CostsMatchExpense
<1>9. DetailsHaveExpenses' /\ CostsHaveExpenses'
  BY <1>3, <1>4, <1>5 DEF SerialInv, TablesAgree, DetailsHaveExpenses, CostsHaveExpenses, DetailsOf
<1> QED
  BY <1>8, <1>9 DEF TablesAgree

\* A payment generates the total of its expense.
LEMMA SerialCommit ==
    ASSUME SerialInv, TypeInv', NEW w \in Worker, PayCommit(w)
    PROVE  TablesAgree'
<1> DEFINE q == req[w]
<1>1. PICK e : e = q.expense
  OBVIOUS
<1>2. /\ e \in DOMAIN expense /\ e # None
      /\ CostsOf(e) = {}
      /\ q.details = [d \in DetailsOf(e) |-> detail[d]]
  <2>1. q.at = "pay_detail" /\ DOMAIN expense \subseteq Expense
    BY DEF PayCommit, SerialInv, TypeInv, TypeOK, IsTable
  <2>2. e \in DOMAIN expense /\ CostsOf(e) = {}
    BY <1>1, <2>1 DEF SerialInv, PayInv, PaymentInv, InPayTx
  <2>3. q.details = [d \in DetailsOf(e) |-> detail[d]]
    BY <1>1, <2>1 DEF SerialInv, StillSo, AtPay
  <2> QED
    BY <2>1, <2>2, <2>3, ConstantsAssumption
<1>3. PICK ids \in SUBSET FreshCost : \E of \in Bijection(ids, DOMAIN q.details) :
          cost' = Insert(cost, [k \in ids |-> [expense |-> q.expense, amount |-> q.details[of[k]].amount,
                                              budget |-> q.charged[of[k]]]])
  BY DEF PayCommit
<1>4. PICK of \in Bijection(ids, DOMAIN q.details) :
          cost' = Insert(cost, [k \in ids |-> [expense |-> q.expense, amount |-> q.details[of[k]].amount,
                                              budget |-> q.charged[of[k]]]])
  BY <1>3
<1>5. /\ ids \cap DOMAIN cost = {}
      /\ \A k, l \in ids : of[k] = of[l] => k = l
      /\ {of[k] : k \in ids} = DOMAIN q.details
  BY <1>3, <1>4 DEF FreshCost, Bijection, Injection, Surjection, IsInjective
<1>6. /\ DOMAIN cost' = DOMAIN cost \cup ids
      /\ \A k \in DOMAIN cost : cost'[k] = cost[k]
      /\ \A k \in ids : cost'[k].amount = q.details[of[k]].amount /\ cost'[k].expense = e
  BY <1>1, <1>4, <1>5 DEF Insert
<1>7. /\ UNCHANGED detail /\ DOMAIN expense' = DOMAIN expense
      /\ \A x \in DOMAIN expense : expense'[x].total = expense[x].total
      /\ \A x \in DOMAIN expense \ {e} : expense'[x] = expense[x]
      /\ expense'[e].status = "PAID"
  BY <1>1, <1>2 DEF PayCommit, SerialInv, TypeInv, TypeOK, IsTable, ExpenseRow
<1>8. /\ CostsOf(e)' = ids
      /\ \A x : x # e => CostsOf(x)' = CostsOf(x)
      /\ \A x : \A k \in CostsOf(x) : cost'[k] = cost[k]
  BY <1>2, <1>6 DEF CostsOf
<1>9. Total(cost', CostsOf(e)') = expense[e].total
  <2>1. IsFiniteSet(ids) /\ Amounted(cost', ids)
    BY <1>6, CostTotal DEF TypeInv, TypeOK
  <2>2. \A k \in ids : q.details[of[k]].amount = cost'[k].amount
    BY <1>6
  <2>3. Total(q.details, {of[k] : k \in ids}) = Total(cost', ids)
    <3> HIDE DEF q
    <3> QED
      BY <1>5, <2>1, <2>2, TotalRenamed
  <2>4. IsFiniteSet(DetailsOf(e)) /\ DOMAIN q.details = DetailsOf(e)
    BY <1>2, DetailTotal DEF DetailsOf, SerialInv, TypeInv, TypeOK
  <2>5. Total(q.details, DetailsOf(e)) = Total(detail, DetailsOf(e))
    BY <1>2, <2>4, TotalSame
  <2> QED
    BY <1>2, <1>5, <1>8, <2>3, <2>4, <2>5 DEF SerialInv, TablesAgree, TotalMatchesDetails
<1>10. CostsMatchExpense'
  <2>1. \A x \in DOMAIN expense \ {e} : Total(cost', CostsOf(x)') = Total(cost, CostsOf(x))
    BY <1>8, SameCosts DEF SerialInv
  <2> QED
    BY <1>7, <1>9, <2>1 DEF SerialInv, TablesAgree, CostsMatchExpense
<1>11. TotalMatchesDetails'
  BY <1>7 DEF SerialInv, TablesAgree, TotalMatchesDetails, DetailsOf
<1>12. DetailsHaveExpenses' /\ CostsHaveExpenses'
  BY <1>2, <1>6, <1>7 DEF SerialInv, TablesAgree, DetailsHaveExpenses, CostsHaveExpenses
<1> QED
  BY <1>10, <1>11, <1>12 DEF TablesAgree

LEMMA SerialStep ==
    ASSUME SerialInv, TypeInv', PayInv', NEW w \in Worker, Step(w)
    PROVE  SerialInv'
<1> DEFINE q == req[w]
<1> DEFINE Kept == UNCHANGED <<expense, detail, cost>>
<1>1. CASE Kept /\ Answer(w)
  <2>1. StillSo(req'[w])
    BY <1>1 DEF Answer, SerialInv, TypeInv, TypeOK, StillSo, Idle, AtUpdate, AtPay
  <2> QED
    BY <1>1, <2>1, SerialMove
<1>2. CASE UpdateDetails(w)
  <2>1. /\ Kept /\ q.at = "update_details"
        /\ req'[w] = [q EXCEPT !.at = "update_write", !.seen = DetailsOf(q.expense)]
        /\ DOMAIN q = Fields
    BY <1>2 DEF UpdateDetails, SerialInv, TypeInv, TypeOK, PayInv, Shapes
  <2>2. /\ req'[w].at = "update_write" /\ req'[w].seen = DetailsOf(q.expense)
        /\ req'[w].expense = q.expense /\ req'[w].details = q.details /\ req'[w].total = q.total
    BY <2>1, FieldsAre
  <2>3. /\ q.expense \in DOMAIN expense /\ expense[q.expense].status # "PAID" /\ Replaces(q)
    BY <2>1 DEF SerialInv, StillSo, AtUpdate
  <2>4. Replaces(req'[w])
    BY <2>2, <2>3 DEF Replaces
  <2>5. StillSo(req'[w])
    BY <2>2, <2>3, <2>4 DEF StillSo, AtUpdate, AtPay
  <2> QED
    BY <2>1, <2>5, SerialMove
<1>3. CASE UpdateWrite(w)
  BY <1>3, SerialUpdate, SerialAnswer DEF UpdateWrite
<1>4. CASE StatusWrite(w)
  <2>1. /\ q.expense \in DOMAIN expense /\ expense[q.expense].status # "PAID" /\ q.status # "PAID"
    BY <1>4 DEF StatusWrite, SerialInv, StillSo, PayInv, PaymentInv
  <2>2. /\ DOMAIN expense' = DOMAIN expense /\ UNCHANGED <<detail, cost>>
        /\ \A x \in DOMAIN expense :
              /\ expense'[x].total = expense[x].total
              /\ expense'[x].status = "PAID" <=> expense[x].status = "PAID"
    BY <1>4, <2>1 DEF StatusWrite, SerialInv, TypeInv, TypeOK, IsTable, ExpenseRow
  <2>3. TablesAgree'
    BY <2>2 DEF SerialInv, TablesAgree, DetailsHaveExpenses, CostsHaveExpenses, TotalMatchesDetails,
                CostsMatchExpense, DetailsOf, CostsOf
  <2> QED
    BY <1>4, <2>3, SerialAnswer DEF StatusWrite
<1>5. CASE RemoveWrite(w)
  BY <1>5, SerialRemove, SerialAnswer DEF RemoveWrite
<1>6. CASE PayCommit(w)
  BY <1>6, SerialCommit, SerialAnswer DEF PayCommit
<1>7. ASSUME Kept, q.at \in AtPay, req'[w].at \in AtPay,
             req'[w].expense = q.expense, req'[w].details = q.details
      PROVE  SerialInv'
  <2>1. StillSo(req'[w])
    BY <1>7 DEF SerialInv, StillSo, AtUpdate, AtPay
  <2> QED
    BY <1>7, <2>1, SerialMove
<1>8. CASE PayLock(w) \/ PayCount(w)
  <2>1. ASSUME NEW at \in {"pay_count", "pay_detail"}, GoTo(w, at) PROVE SerialInv'
    <3>1. req'[w].at = at /\ req'[w].expense = q.expense /\ req'[w].details = q.details
      BY <2>1 DEF GoTo, SerialInv, TypeInv, TypeOK, Request
    <3> QED
      BY <1>7, <1>8, <3>1 DEF PayLock, PayCount, AtPay
  <2> QED
    BY <1>1, <1>8, <2>1 DEF PayLock, PayCount
<1>9. ASSUME NEW d \in Detail, PayDetail(w, d) PROVE SerialInv'
  <2> DEFINE Goes == /\ req'[w].at \in {"pay_detail", "pay_budget"}
                     /\ req'[w].expense = q.expense /\ req'[w].details = q.details
  <2>1. Goes
    <3> USE DEF SerialInv, TypeInv, TypeOK, Request
    <3>1. CASE req' = [req EXCEPT ![w].charged = Insert(@, [i \in {d} |-> None])]
      BY <1>9, <3>1 DEF PayDetail
    <3>2. ASSUME NEW b, req' = [req EXCEPT ![w].at = "pay_budget", ![w].budget = b, ![w].seen = {d}]
          PROVE  Goes
      BY <3>2
    <3> QED
      BY <1>9, <3>1, <3>2 DEF PayDetail
  <2> QED
    BY <1>7, <1>9, <2>1 DEF PayDetail, AtPay
<1>10. CASE PayBudget(w)
  <2>1. CASE ~Answer(w)
    <3>1. /\ req'[w].at = "pay_detail" /\ req'[w].expense = q.expense /\ req'[w].details = q.details
      BY <1>10, <2>1 DEF PayBudget, SerialInv, TypeInv, TypeOK, Request
    <3> QED
      BY <1>7, <1>10, <3>1 DEF PayBudget, AtPay
  <2> QED
    BY <1>1, <1>10, <2>1 DEF PayBudget
<1>11. CASE PayDeadlock(w) \/ BudgetInsert(w) \/ BudgetWrite(w) \/ BudgetRemove(w)
  BY <1>1, <1>11 DEF PayDeadlock, BudgetInsert, BudgetWrite, BudgetRemove
<1> QED
  BY <1>2, <1>3, <1>4, <1>5, <1>6, <1>8, <1>9, <1>10, <1>11 DEF Step

LEMMA SerialNext ==
    ASSUME SerialInv, [Next]_vars
    PROVE  SerialInv'
<1>1. TypeInv' /\ PayInv'
  BY TypeNext, PayNext DEF SerialInv
<1>2. ASSUME NEW e \in Expense, NEW details \in DetailsFor(e), Create(e, details) PROVE SerialInv'
  BY <1>1, <1>2, SerialCreate
<1>3. ASSUME NEW w \in Worker, Ask(w) \/ Step(w) PROVE SerialInv'
  BY <1>1, <1>3, SerialAsk, SerialStep
<1>4. ASSUME NEW w \in Worker, Fail(w) PROVE SerialInv'
  <2>1. StillSo(req'[w])
    BY <1>4 DEF Fail, Answer, SerialInv, TypeInv, TypeOK, StillSo, Idle, AtUpdate, AtPay
  <2> QED
    BY <1>1, <1>4, <2>1, SerialMove DEF Fail
<1>5. CASE UNCHANGED vars
  BY <1>1, <1>5 DEF vars, SerialInv, TablesAgree, DetailsHaveExpenses, CostsHaveExpenses,
     TotalMatchesDetails, CostsMatchExpense, DetailsOf, CostsOf, StillSo, Replaces
<1> QED
  BY <1>2, <1>3, <1>4, <1>5 DEF Next

LEMMA SerialAlways == OneAtATime /\ Spec => []SerialInv
<1>1. SerialInv /\ [Next]_vars => SerialInv'
  BY SerialNext
<1>2. OneAtATime /\ Init => SerialInv
  BY SerialInit
<1> QED
  BY <1>1, <1>2, PTL DEF Spec

\* One request at a time, an expense amounts to its details (create, update),
\* whatever else is created meanwhile and wherever a handler dies.
THEOREM TotalsCorrect == OneAtATime /\ Spec => []TotalMatchesDetails
<1>1. SerialInv => TotalMatchesDetails
  BY DEF SerialInv, TablesAgree
<1> QED
  BY <1>1, SerialAlways, PTL

\* One request at a time, what a paid expense has generated in costs is its
\* total, and the others have generated nothing (pay, update, remove).
THEOREM CostsCorrect == OneAtATime /\ Spec => []CostsMatchExpense
<1>1. SerialInv => CostsMatchExpense
  BY DEF SerialInv, TablesAgree
<1> QED
  BY <1>1, SerialAlways, PTL

=============================================================================
