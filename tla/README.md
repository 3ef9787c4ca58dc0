# Verification of InfFinanceMs

TLA+ models of InfFinanceMs (`apps/api`, a NestJS service on Prisma and
PostgreSQL; `apps/web`, a Next.js client): its financial core, sessions, what is
billed, and the administration of roles, users and master data; the TLC
configurations that check them on small instances, and TLAPS proofs for all
instances.

    tlc -config <run>.cfg <module>     # the runs are listed below
    tlapm <module>Proofs.tla           # Rows, Receivables, Reimbursements, Sessions,
                                       # Invoices, Counterparties, Billing, Administration

## 1. The system

All state lives in PostgreSQL, except small caches in the memory of some
services and the refresh queue of the web client. Every HTTP request runs one
asynchronous handler. Handlers of different requests interleave at each `await`,
that is, at each database statement; several processes of the API may run.
Components call each other's services in process and share tables.

| Component | State | Operations | What is hard | What makes it correct |
|---|---|---|---|---|
| payments | `payment_plans`, `payment_records` | createPlan(s), removePlan, createRecord, removeRecord, refreshPlanStatus | checks long before writes; two statements where one transaction was meant; status derived in a transaction that cannot see its neighbours | records are filed under plans of their contract; statuses of plans agree with the records; payments stay within the contract |
| contracts | `contracts` | create, update, changeStatus, remove, reconcileContractStatus, import | status written by id whatever it is by now; reconciliation outside any transaction | a fully paid contract completes; a terminated one stays so |
| expenses | `expenses`, `expense_details` | create, update, submit, approve, pay, remove | overlapping edits, verdicts and payments of one expense | costs are generated once, only from APPROVED; totals agree with details |
| budgets | `budgets` | create, update, toggleFreeze, close, remove, updateUsedAmount | charged inside the payments of others; lock order | the used amount is the sum of what was charged |
| costs | `costs` | create, update, remove (by hand); generated by pay | generated rows are read-only | one cost for each paid detail |
| payment requests | `payment_requests`, a cache of statistics, one of options | create, update, submit, approve, confirmPayment, cancel, remove, statistics | unconditional writes after a read; a cache filled after it was invalidated; numbers with retries | edited as a draft, judged once, paid as judged; statistics that a write has outdated are dropped when it is answered |
| auth and sessions | `users`, `user_sessions`, `api_keys` | login, refresh, logout, revoke, MFA | rotation of refresh tokens; limits checked before an insert | at most so many sessions; a rotated token is not accepted |
| web client | `isRefreshing`, `pendingRequests` | request, 401, refresh, flush | requests that queue behind a refresh | each request is answered, one refresh at a time |
| invoices | `invoices`, files | create, void, remove, import | the contract is read, the sum checked, then the row inserted, while the contract may be edited; files and rows are written one after the other | what is invoiced is bounded by the contract; no row without its file |
| permissions | `role_permissions`, a cache for each role | update of menus, of functions, of both, reset, initialise, read | delete and insert in two statements; a read fills the cache after a write dropped it | a role's menus are a list somebody chose; what was revoked reaches every reader |
| dictionaries | `dictionaries`, a cache for each type | create, update, remove, list | the same cache hazard, and an update that moves a value to another type | what was withdrawn reaches every reader |
| bank accounts | `company_bank_accounts` | create, update, toggleEnabled, setDefault, remove | clear, then set | one default account |
| users | `users` | create, update, remove | administrators are counted, then one is deactivated | an administrator is left |
| departments | `departments` | create, update, remove | a walk of many queries, then the move | no cycle |
| code generator | none (reads the greatest code) | generate, retry | two requests with one number | numbers are unique and keep coming |
| customers, suppliers | their tables | create, update, approve, remove, import; made, shown and looked up by contracts | duplicates are looked for, then written; contracts are counted, then the customer is hidden | a sale has a visible customer; credit codes are unique |
| projects | `projects` | CRUD | none | codes are unique (an index) |
| notifications, audit, upload, reports, Feishu login | rows, files | insert, read | best effort | nothing depends on them |

## 2. Modules

| Module | What it is |
|---|---|
| `Rows` | tables as functions from ids to rows; INSERT, DELETE and SUM |
| `RowsProofs` | lemmas about them: what a sum is after its rows are inserted, deleted or changed |
| `Receivables` | contracts, plans and records: `payments.service.ts` with the part of `contracts.service.ts` it drives |
| `MCReceivables` | symmetry and an initial state with contracts in execution, for TLC |
| `ReceivablesProofs` | theorems about `Receivables` |
| `Reimbursements` | expenses, their details, the costs of payments and the budgets: `expenses.service.ts`, `budgets.service.ts` |
| `MCReimbursements` | symmetry and an initial state with approved expenses that cross two budgets, for TLC |
| `ReimbursementsProofs` | theorems about `Reimbursements` |
| `SessionLife` | what the server promises of a session: an abstract specification |
| `Sessions` | logins, refresh, logout, revocation and the guard: `auth.service.ts`, `jwt.strategy.ts`; implements `SessionLife` |
| `MCSessions` | symmetry, for TLC |
| `SessionsProofs` | theorems about `Sessions` and `ApiClient` |
| `ApiClient` | the tabs of one browser, `apps/web/src/lib/api.ts`, composed with `Sessions` |
| `Billing` | the constants that the five services of `MCBilling` share |
| `ApprovalFlow` | what a payment request goes through: an abstract specification |
| `PaymentRequests` | `payment-requests.service.ts` with its numbers and its cache of statistics; implements `ApprovalFlow` |
| `BankAccounts` | company accounts and their default: `bank-accounts.service.ts` |
| `Invoices` | invoices, their files and their import: `invoices.service.ts` |
| `InvoicesProofs` | theorems about `Invoices` |
| `Counterparties` | customers and suppliers with their codes and imports, and what contracts and their import do to them: `customers.service.ts`, `suppliers.service.ts`, `code-generator.utils.ts`, `contracts.import*.ts` |
| `CounterpartiesProofs` | theorems about `Counterparties` |
| `MCBilling` | these services side by side, for TLC |
| `BillingProofs` | theorems about `PaymentRequests` and `BankAccounts`, and those of `Invoices` and `Counterparties` as `MCBilling` composes them |
| `Administration` | the constants that the four services of `MCAdministration` share |
| `Permissions` | `role_permissions`, what an answer is made of, and its cache: `permissions.service.ts` |
| `Departments` | the tree: `departments.service.ts` |
| `Users` | roles and deactivation: `users.service.ts` |
| `Dictionaries` | values by type with their cache: `dictionaries.service.ts` |
| `MCAdministration` | these services side by side, for TLC |
| `AdministrationProofs` | theorems about the four of them, each by itself and interleaved |

### How state and actions correspond to the code

* A table is a function from the ids it holds to rows. A row has the columns
  that some decision depends on. Ids are model values; a new one is in no table
  and in no request (Prisma's `cuid()`).
* `req[w]` is the request handler `w` serves: `at` is the `await` it is at, the
  other fields are its arguments and what it has read and still uses. Handlers
  that have answered are `Idle`.
* There is one action for every database statement, named for the operation and
  the statement (`CreateRecordTotal` is the aggregate in `createRecord`). A
  request that the first read already refuses changes nothing and is not
  taken. A later refusal is `Answer(w)`.
* A transaction publishes at its commit. Its statements are separate actions
  where what they read, or the row locks they hold, matters: `CreateRecordInsert`
  reads the sum in the transaction, `CreateRecordCommit` publishes it; `PayLock`
  to `PayCommit` are the transaction of `pay`, in which `HoldsExpense` and
  `HoldsBudget` say which rows it holds.
* PostgreSQL runs at its default level READ COMMITTED: a statement sees what is
  committed when it begins, and a writer of a row waits for the transaction that
  holds it and then evaluates its condition again. That is why
  `updateMany ... where status = APPROVED` in `pay` excludes a second payment,
  and why `DELETE` of the details finds only those committed when it began.
* Foreign keys are part of the deleting action: ON DELETE SET NULL in
  `DeletePlans`, CASCADE and SET NULL in `RemoveWrite`. A plan to which an open
  transaction refers cannot be deleted (`Unlocked`).
* `Fail(w)` ends a request at any await: a statement fails, or the process dies.
  An open transaction rolls back; what was committed before stays.
* Amounts are small natural numbers. Decimals are compared and added exactly by
  the code, so only order and sums matter. A contract or a plan may be 0, a
  record and a detail may not, as in the DTOs.
* `kind` of a detail or budget stands for department, fee type and year, which the
  code always compares together; `month` is kept, since a budget for the whole
  year has NULL there and is what `updateUsedAmount` falls back to.
* `budget` in a row of `cost` is not a column: it records which budget was
  charged, so that the sum can be stated.

For `Sessions` and `ApiClient`:

* None of these handlers opens a transaction, so each of their statements is an
  action that commits. An answered request stays in `req` until its client has
  it (`Collect`) or nobody wants it (`Drop`); `held` are the tokens clients have
  got, and any of them may be presented, at any time, by any request.
* The access and the refresh token that are issued together are one `Token`. Its
  `iat` is a second: tokens signed for one session within one second are equal,
  as JWTs are, and the stored hash is that `iat`.
* The clock `now` ticks between any two statements. What a handler keeps as
  `const now` is `req[w].now`; what it computes later from the clock is not.
* A password is right or wrong (`LoginPurge` or `LoginWrong`); MFA is one more way
  to be refused (`LoginRefused`). An unknown user name changes nothing.
* An action of `ApiClient` is one turn of a tab's event loop, together with the
  server's answer it consumes: it is composed from `Receive...` and `Collect` of
  `Sessions`. Tabs share the cookies (`jar`) and nothing else. A tab that has gone
  to the login page stays there. `hurt` is not in the code: it records that
  something failed, timed out or was disabled.

For the services of `MCBilling` and `MCAdministration`:

* Each `await` of a handler is an action, and commits, except the one
  transaction of `updateRolePermissions` (`lock`, `create`, `commit`). Each handler
  has its own `req`; where a row of an import is done, the handler goes on to the
  next (`Row`).
* The services of one MC module write different tables and never wait for each
  other, so a behaviour of all of them is one of each, interleaved. TLC explores
  them one at a time: the variable `part` is chosen in the initial state.
  `Counterparties` is explored twice, "parties" by themselves (no contracts)
  and "sides" with contracts (no credit codes, verdicts or party imports).
* Caches live in the memory of one process, so one process of the API is
  modelled there. What a cache holds is reduced to its relation to the table. A
  role's cached answer is the set of keys it was made of; a read that spells the role in
  small letters finds its rows but not its defaults (`Answers`). The values of
  a type are the set of ids, cached under a key that spellings of the type share
  (`TypeKey`). Statistics are exact; "outdated", when a write committed since they
  were asked for and is still to be answered; or "late", when that answer is past or was
  lost (`AnswerLost`). A write is followed by the answer of the database in a step of its own, and
  a handler that does not get it fails before it drops anything. The time to live
  is an action (`Expire`).
* `Invoices` has the `amountWithTax` of contracts, which `update` of `contracts.service.ts`
  edits at any time (`EditContract`). Whether an edit is allowed, for a contract that is
  a draft, is in `Receivables`; `create` of an invoice does not look at the status. A
  handler keeps the amount that it read (`limit`).
* Numbers are those of one day, and compared as strings: the greatest one is read
  back as a number, and past `LastNo` (9999, or 999999 for codes of parties) the next
  one sorts below it. `MaxTries` stands for the eight attempts, `Foreign` for a
  code under the prefix that is no number.
* `DefaultMenus`, `DefaultFunctions`, `Base`, `Requires` and `Packs` stand for the tables
  of `permissions.service.ts`: the permissions of a role that has no rows,
  `MENU_BASE_FUNCTIONS`, `FUNCTION_INHERITANCE`, and the rules that keep rows
  compatible that were written before a function existed.
* In `Counterparties` a contract is keyed by its number and `sales` says whether its
  type is one of sales; its status and its amount are in `Receivables`. Credit
  codes are stored encrypted, deterministically, so equality is kept.
* `highest` is not in the code: it is the greatest amount that a contract has had.
  `disputed`, `crossed`, `raced`, `unchecked`, `contested` and `lost` are not either. They record
  that one request overtook the checks of another, at the very statement that
  does it, so that a property can say: unless that happened, the rule holds. They
  are kept as narrow as they can be: a mutant that drops the check itself is
  caught.

Abstracted in all modules: attachments of contracts, dates,
roles (a request that a guard refuses changes nothing), audit and notifications
(no component reads them back), the read-only endpoints. `update` of a budget
changes amount and remark, on which no decision of the code depends.

## 3. What is checked

| Run | Question | Bounds |
|---|---|---|
| `receivables_serial` | with one request at a time, which may fail at any await: types, plan statuses exact, plans kept within the contract, reconciliation right, TERMINATED final | 1 worker, 1 contract, 2 plans, 2 records, amounts 0–2, 2 periods, all operations, administrators who may edit |
| `receivables_overlap` | with two overlapping requests on a contract in execution: records and plans belong together, plans are not reported ahead of their records, overpayment is bounded, a fully paid contract completes (liveness) | 2 workers, 1 contract, 2 plans, 3 records, amounts 1–2; plans made and removed, payments, termination; no failures |
| `reimbursements_serial` | with one request at a time, which may fail: totals, details, costs and statuses of expenses agree | 1 worker, 2 expenses, 3 details, 3 costs, 1 budget, amounts 1–2, all operations |
| `reimbursements_overlap` | with two overlapping requests that may fail: costs once, only from APPROVED, used amounts exact; two payments that charge two budgets in opposite orders both end (liveness) | 2 workers, 2 expenses of 2 details on 2 annual budgets, initially PENDING or APPROVED; submit, verdicts, pay, removal of budgets |
| `sessions_serial` | with one request at a time, which may fail: types, who is evicted, tokens that work, locks that hold | 1 worker, 1 user, 3 sessions of at most 2, 2 seconds, 2 attempts |
| `sessions_overlap` | with two overlapping requests: the server implements `SessionLife` (`ClosedForGood`), the limit is passed by one at most for each other request in flight | 2 workers, 1 user, 3 sessions of at most 1, 1 second |
| `client` | one tab with two overlapping calls, against the server: refreshing never logs it out while nothing fails; with failures, timeouts and deactivation no call is forgotten (safety and liveness) | 1 tab, 2 calls, 2 workers, 3 seconds, access tokens of 2 seconds |
| `billing` | with two overlapping requests that may fail, in each service: payment requests implement `ApprovalFlow` (`FlowKept`), each retry of a number is a conflict lost to somebody, statistics that a write has outdated are dropped when it is answered, default accounts and invoiced sums exceed their limits by the overlap at most, however contracts are edited, files stay, sales have visible customers, credit codes are unique unless contested; no handler is stuck | 2 workers, 2 requests, 2 numbers a day, 3 attempts, 3 accounts, 3 invoices of 1 on 1 contract whose amount is 1 or 2 and is edited, 1 file, 2 parties of 1 name, 1 credit code |
| `administration` | with two overlapping requests that may fail, in each service: menus are a list that somebody chose, changes reach every reader (liveness), the tree stays one unless moves cross, a walk ends once the tree stays as it is unless it leads into a cycle (liveness), a removal leaves an administrator unless it is overtaken | 2 workers, 1 role, 3 menus, 2 functions, 3 departments, 3 users, 1 value of 2 types, one of them in 2 spellings |
| `receivables_v_paid`, `receivables_v_planned`, `reimbursements_v_costs` | rules of the requirements document that the code breaks, see below | small |

Why the bounds are enough: each hazard is between two handlers (a check of one,
a write of the other), so two workers show it; two plans tell
"its own plan" from "another's"; two records on one plan, or on one contract,
are the least for a sum that misses one; three let a payment come after two
that overlapped. Two details of one expense are the least for a payment that
has charged one and not the other, and two budgets for two payments that cross.
Amounts 1 and 2 against limits of 1 and 2 reach less, equal and more.
Three sessions of at most two are the least for a choice of whom to evict; with a
limit of one and two workers, two logins overlap and pass it, and a third finds
both. Access tokens of 2 seconds run out once within the 3 of `client`, at any
point of a call, and the session (5 seconds) does not: the client is then
logged out as it should be. One tab with two calls has one that leads the refresh
and one that is queued, answered late or sent meanwhile. Each session id is used
once (`Sid`), and the clock stops at `MaxTime`.
Two numbers a day are used up by two requests, and the third attempt meets the
end of the day. Three departments are the least in which two moves, each legal alone, close
a cycle and leave a third to be moved into it, so that its walk or that of one of
the two goes round for ever, and in which what is below a walk is moved away. Three users, one of them seeded,
let two removals run beside a demotion. Three invoices of 1 exceed what two
overlapping handlers can bring a contract of 1 to: a check of each row by itself would
let them all in. The two amounts of a contract make every edit, up and down, before and after
a check. One file is enough for a row and a removal to disagree about it.
A role with one function by default, one menu that brings a function with it, and one
that brings back a function of older rows, meet every rule by which an
answer is made of rows. Two batches of each import have a row that is refused and
one that is not, with a file and without one.

The serial runs are not idle: they separate what the checks of a handler
establish by themselves from what overlap destroys. The properties that hold
serially and fail with overlap are listed in section 6.

`CHECK_DEADLOCK FALSE` is set in runs where ids are used up for good, so that
clients have nothing left to ask.

### Fairness

`Receivables`: weak fairness of `Step(w)`. A handler that is running keeps
running; each of its statements returns, waits for a lock that a running
transaction releases, or fails. No fairness for clients (`Ask`) or failures.

`Reimbursements`: strong fairness of `Step(w)`. A payment waits for a row that
other transactions take and release again and again. PostgreSQL queues waiters on
a row, so a waiter that can go on infinitely often does; and it looks for cycles
of waiters and aborts one (`PayDeadlock`), which is a step of that handler.

`ApiClient`: weak fairness of a tab's event loop and of each server worker. No call
need be made, nothing need fail, and nothing need time out: queued calls end
without the ten seconds of axios. `Sessions` alone claims safety only.

`Permissions`, `Dictionaries`: weak fairness of `Step(w)` (the database answers)
and of `Expire` (the time to live of a cache entry passes). Without the latter a
stale entry would be served for ever, and `ChangesReach` fails. `Departments`: weak
fairness of `Walk(w)`, that is of each query of a walk. Moves that go on for
ever below a walk can keep it going, so `WalkEnds` supposes that the tree stays as it is from some time on;
then only a walk that leads into a cycle goes on (`Bottomless`), and every other one ends, cycles
elsewhere or not. `PaymentRequests`, `BankAccounts`,
`Invoices`, `Users` and `Counterparties` claim safety only; in `billing` deadlock
is checked.

`FullyPaidCompletes` is checked without failures, since a request that dies
between its commit and its reconciliation leaves the contract EXECUTING until
the next payment, and without removal of records.

## 4. What is proved

TLC explores small instances; the theorems hold for every number of workers,
rows, calls and tabs, under the constants' assumptions: NULL is no id; amounts, limits
and lifetimes are naturals, the latter positive; the ids of a table are finitely
many, since cuids and UUIDs are strings of one length, and where a bound counts
handlers, so are the workers. Every invariant that a run checks is stated by a theorem.

### Sums

`TypeOK` of a total, exact statuses and every bound on what is paid or invoiced
are about sums of rows. `Total` is a fold, and `RowsProofs` says what it does under
the statements of the code without an induction theorem, which would take a
predicate: whatever fails for some finite set fails for a smallest one (`Smallest`, from the
well-foundedness of `<`), and there the equation of the fold refutes it. So a solution of the
equation exists (`FoldExists`) and is the only one (`FoldUnique`), and from there
`TotalWith`, `TotalWithout`, `TotalUnion`, `TotalGrows`, `TotalSame`, `TotalRenamed` and
`TotalBounded` are plain algebra, cited by name in the other modules.

### Whatever overlaps and fails

* `Receivables`. `TypeCorrect`, from `TypeInv`: what handlers hold is typed too, and
  contracts that records refer to exist. `RecordPlansCorrect`: records are filed under
  existing plans of their own contract. It is not inductive by itself: a
  `createRecord` in flight has checked its plan and others delete and replace
  plans. `RecordPlanInv` adds what makes the old check last: while the request is open
  its plan has the contract of the request whenever it still exists; during the
  transaction it does exist (the foreign key holds it); and plans about to be
  inserted are new, to each other and to every request, so a plan never comes back
  with another contract.
* `OverpaymentBounded` (`Receivables`, no edits of amounts: `AmountsStay`). In `OverInv`
  what is paid on a contract and what requests past the check carry stay together within the
  amount and the slack of `OverpayBounded`. A check that passes adds to what is
  paid now; of the others at most all workers but one carry something.
* `PlanNeverAhead` (`Receivables`, no removal of records: `RecordsStay`). `AheadInv` adds `Founded`: the status
  that an open transaction is about to commit is covered by the committed records together
  with its own, and those only become more.
* `Reimbursements`. `TypeCorrect`; `PaymentsCorrect`, `CostsOnce` and `PaidFromApproved`,
  from `PayInv`: a payment past its conditional update holds an
  APPROVED expense alone, and once it has counted, that expense has no costs. Every
  other writer of an expense waits for its row (`ExpenseFree`), removal only takes costs
  from an expense, and only `PayCommit` adds some. `BudgetsCorrect`: used amounts are
  exact. `BudgetInv` adds `NewBudgetsAreNew`: a budget about to be inserted
  with nothing used has no costs, is charged by nobody and is inserted by nobody else.
* `Sessions`. `TypeCorrect`, with what a handler has in hand at each point (`FieldsOK`).
  `Implements`: the server implements `SessionLife` under the mapping `Life` (a session
  is open while its row exists and is not revoked). `CloseStep` covers everything that
  revokes or deletes, or does not touch sessions, `OpenStep` the insertion, `RotateStep` the update at the
  end of a refresh, whose row may have been revoked or deleted since it was read: then it maps
  to nothing. The proof rests on two facts of the code: no statement sets `revokedAt` back to NULL, and ids are used
  once. `LimitCorrect`: a user has fewer live sessions than the limit and the
  workers together. In `CountInv` at most `MaxSessions - 1` of
  them were left by the eviction decided last, and every other one is charged to a
  worker whose login created it since; a worker that has still to create is charged
  with none. The same is kept for what each eviction that is decided but not done
  will leave.
* `ApiClient`. `ClientTypeCorrect`. `UninterruptedCorrect`, for a tab that is
  alone (`Alone`) and for behaviours that end before the session and before the tokens
  of a first refresh run out (`Brief`: `MaxTime < RefreshTTL`, `MaxTime < 2 * AccessTTL`). In `UpInv` a call that is
  sent holds the tokens of the jar or older ones of its session; a 401 means that the
  first tokens ran out and the call was not sent again yet; and what a refresh brings
  outlasts the rest, so no call is refused twice. Both hypotheses are needed, as TLC shows: with two tabs the second presents a
  token that the first has replaced, and with access tokens of 1 second within
  3 a call can be overtaken by two expiries, and is not retried twice.
* `PaymentRequests`. `FlowImplemented`: it implements `ApprovalFlow` under the mapping
  `Life` and `About`: a request on which two handlers overlapped is given up as
  "disputed", every other one is edited as a draft, judged as submitted and paid
  as approved. In `Inv`, `Found` says that a handler about to write an undisputed
  request has in hand a transition that its current status allows, and `OneWriter` that
  nobody else is about to write the same: the status can only be changed by
  another writer, whose read marked the request as disputed. `RetriesCorrect`: each
  retry of a number is a conflict lost to a create that succeeded. `NumberInv` adds `Losses`: rows before,
  tries and the number already lost to somebody (`Lost`) are no more than the rows there are;
  this needs that the next number is free (`NextIsFree`), hence facts about a maximum (`GreatestExists`).
  `StatisticsCorrect`: statistics that a write has outdated are cached only as long as
  that write is to be answered. `StatisticsInv` says the same of statistics that are being computed,
  which a handler is about to cache: what a write commits under them makes them outdated,
  and the end of its handler, with or without an answer, makes them late.
* `BankAccounts`, `Invoices`. `ExcessCorrect`. Defaults: each default account has an owner, the
  worker that set it, and no worker owns two (`Owns`), so there are no more than
  workers. Invoiced sums: in `BoundInv` a handler about to insert
  has a claim that fitted the amount it read, and sums and claims together stay within
  the highest amount once for each handler. `ReadInv` adds that what a handler read was the amount of the contract at
  some time, hence at most the highest; an edit only raises that (`EditBound`). `AttachmentsCorrect`: invoices keep their files. `AttachmentInv` adds that
  a file stored for a row to be inserted is pointed to by nobody and
  held by nobody else, and a file about to be deleted is pointed to by no row,
  unless the answer to its INSERT was lost.
* `Counterparties`. `CustomersCorrect`: a sale has a visible
  customer. `CounterpartiesProofs!Inv` says of every handler, import and update alike,
  what it has found: `Checked`, its customer is visible or exempt if the contract is a
  sale; `Known`, the contract to be updated still has the type and the
  customer that were read, or was overtaken; `Counted`, a customer about to be hidden has no sales yet.
  Every table only grows, or the one that shrinks it (`Hide`) and the ones that
  write a contract (`ContractWritten`) exempt exactly those whose findings they spoil.
  `CreditCorrect`: two visible parties of a kind share a credit code only if it is contested. `CreditInv` adds `Cleared`: a handler
  past its look-up still sees nobody with its code, unless the code became contested.
  `TypeCorrect`: every code is a number up to `LastNo`, the one after it, or `Foreign`. A
  code is one more than a maximum, so a code alone bounds nothing. `TypeInv` adds `PastLast`:
  the number after the last is only there when the last one is. Nobody gives up a code, so
  it stays that way, and since that number sorts below the last one it is never the maximum
  that is read; nor does a file bring it, as a number of another width is none.
* `Departments`, `Users`. `TreeCorrect`: moves that do not cross keep a tree. `TreeInv` adds `WalkOk`: the moving department
  and all that was walked are in a set whose children are in it or still to be
  walked, and the new parent is outside. Since `Acyclic` is stated over sets of
  departments (each has one whose parent is outside), no transitive
  closure is needed: a set that the move would close contains the
  moving department, and what was walked leads out of it. `RemovalCorrect`: of the two or more
  administrators that were counted one is not the user to be removed, and it is
  still one, unless `raced`.
* `Permissions`. `MenusCorrect`: the menus of a role lie between a list that was sent, or none, and the
  same with the defaults. In `RolesInv` that list is one for all handlers (`OneList`), and what a handler
  read before and is about to delete spares it, or leaves the defaults at most (`Spares`);
  two transactions at their commit have locked different rows (`CommitsApart`), and
  every handler but that of initialize is about a role (`RolesNamed`). The row of the system
  menu, which is in every list, is what makes two inserts collide.
* `MCBilling`. `TypesCorrect` and `TogetherCorrect` are about `SpecAll`, which the run explores and which picks
  a service in `Init`: every invariant of the run, and `FlowKept`. `EachRuns` shows
  that a behaviour of `SpecAll` is one of each service, or leaves its tables alone
  throughout; the theorems of the services do the rest.
* `Administration`. `TypesCorrect` and `TogetherCorrect` are about `SpecAll`, which the run explores: the four
  services interleaved keep their types, the tree, the menus and the last administrator.

### One request at a time

`OneAtATime` says that there is one worker. It is a hypothesis because overlapping
requests do break these (section 6). What it leaves is what the checks of a
handler establish by themselves while statements fail, plans are replaced, the clock runs
and accounts are switched off between any two of its statements: that a handler's reads are still so when it
writes (`StillSo` in each `SerialInv`).

* `Receivables`: `PlanStatusesCorrect` (statuses of plans are exact), `TerminationCorrect`, `SettlementCorrect`,
  `PlanningCorrect`.
* `Reimbursements`: `TotalsCorrect` (totals are sums of details), `CostsCorrect` (costs of a paid expense sum to its
  total).
* `Sessions`: `NewestCorrect`, `AnswersCorrect` (no session that lives expects a token older than one a client holds, and the token
  that is about to be answered is the stored one), `EvictionCorrect`, `LockCorrect`.

### What is only model-checked

* Liveness (`FullyPaidCompletes`, `PayAnswered`, `EveryCallSettles`, `ChangesReach`, `WalkEnds`), which rests on
  fairness, that is on ENABLED: out of the prover's reach.
* That an algorithm computes what it should for every input where that is an induction
  over data: an import of any length is proved about step by step, never as a whole.

## 5. Findings

The runs named `*_v_*` each end in a counterexample to a rule of
`docs/PRODUCT_REQUIREMENTS.md`:

* `receivables_v_paid`: two `createRecord` requests sum before either inserts, and
  overpay the contract (line 268). `OverpayBounded` says by how much at most.
* `receivables_v_planned`: `update` lowers the amount of a draft below
  its plans, with no overlap at all (line 269).
* `reimbursements_v_costs`: `pay` reads the details before its transaction; the
  expense is put back to DRAFT with other details by an edit that read it earlier,
  submitted and approved again, and the costs are those of the old details (line 316).

## 6. Rules that hold only when requests do not overlap

Seen while modelling, each from a status or sum that is read first and a write by id
that does not ask again: a plan's status after overlapping records (line 270);
a record inserted after the contract left EXECUTING (267); a stale transition
that revives a TERMINATED contract (223); an edit of a contract that left DRAFT
(224); a reconciliation that leaves COMPLETED after a record was removed (271); the
same period planned twice (`payments.service.spec.ts:272`); an expense edited
after it was submitted (312), submitted without details (313) or judged twice
(314); an annual budget created twice (353, a NULL month escapes the unique
index); a charged budget deleted (355); a closed budget reopened
(`budgets.service.ts:189`). Of sessions: two logins that overlap pass the limit
by one each; two refreshes with one token both answer tokens, of which only the
one written last works, and presenting the other ends the session; a failed login
that read the row before the account was locked writes the lock away
(`registerFailedLogin`), and one that succeeds clears it; a session created after
its user was deactivated survives, though the guard refuses it. Two tabs of one
browser have one session and a refresh queue each: when an access token runs
out in both, the second presents a token that the first has replaced, and both
are logged out (`Uninterrupted` fails with two tabs of one call each).

Of what is billed: a payment request submitted without details while they are
edited (`payment-requests.service.ts:648`); two default accounts after two
`setDefault`, none after a failed one; invoices beyond the contract's amount, and two of one
number (`invoiceNo` has no unique index); statistics that were cached after a write was answered, or of which the answer to a write
was lost, stay outdated for their time to live (`late`). The amount of a draft contract can be
lowered below what is invoiced on it, with no overlap at all
(`contracts.service.ts:976`), as `InvoicedBounded` says with the highest amount. Of counterparties: a customer with
contracts removed (line 155), and two visible ones with one credit code (line 152).
Some of these need no overlap: a contract's update or import
shows a deleted customer again whatever its credit code is by now; an import
that used a hidden customer for a purchase remembers it and gives it to a
later sale of an existing contract, while a new contract is refused; a customer's code
that a file brought under the prefix and that is no number stops the generator, for
good (`code-generator.utils.ts:46`); and the candidates for the code of
a contract type that an import adds are all equal, so its retries repeat one code.

Of administration: `users.service.ts:244` keeps the last administrator from being
removed, but `update` demotes or deactivates it even with no overlap; two
defaults of one type (line 139), with no overlap when an update moves a default to
another type; to clear the functions of a role brings its defaults back
(`permissions.service.spec.ts:244` says so), and so does an update that fails between
its two statements; separate updates of functions that overlap mix two lists (menus collide
on the system menu, functions have nothing in common); a department moved next to a
sibling of its name (FR-DEPT-001 is asked at creation and renaming only). Two moves that cross
close a cycle, in which the next walk never ends. A role without rows that is read in small
letters is cached without its defaults, and served so under every spelling until it expires
(`permissions.service.ts:515`, `628`); spellings of a dictionary type are offered each
other's cached values (`dictionaries.service.ts:39`). Where the answer to a write of
roles or dictionaries is lost, nothing is dropped and the time to live alone ends what was cached.

## 7. Plan

1. `Receivables`, `Reimbursements` and their proofs (done).
2. `Sessions`, its refinement of `SessionLife` with proof, and `ApiClient` (done).
3. `PaymentRequests`, its refinement of `ApprovalFlow` with proof, and the cache of
   statistics (done).
4. `BankAccounts`, `Invoices`, `Counterparties`; `Permissions`, `Departments`, `Users`,
   `Dictionaries`; proofs for invoices, departments and users (done).
   Proofs for customers and their contracts (done).
5. Lemmas about sums, and with them the proofs of every bound and sum; the serial properties of
   contracts, expenses and sessions; menus, numbers, statistics, defaults and credit
   codes; the web client (done).
6. The types of codes in `Counterparties`, and the theorems of billing under the
   specification that its run explores (done).
7. Left: members and managers of departments; contract types that an import adds. Neither is a
   question of which handlers interfere that the models do not ask already.

## 8. Not modelled

* Reading PDF, OFD and table files, templates and exports: parsing, then the operations that are
  modelled. Directions of contracts in invoices.
* Caches of options (purchase contracts, departments, users, customers, suppliers) and of the names of
  dictionary types: they feed pick lists only, and what a request picks is read again. (They
  are not dropped when a contract makes or shows a customer.)
* Projects, costs by hand, members, managers and toggleActive of departments:
  single rows, on which no other table's rule depends (a project is removed without
  any check). Attachments and renumbering of contracts.
* MFA enrolment, password changes and API keys: writes of one row that sessions do not read back.
* Uploads' checks of names and contents, reports (read-only), audit and
  notifications (best effort, not read back).
* Feishu login: an external service, with tickets in memory, that ends in the session creation
  of `Sessions`.
* Pages of the web client, which present what the API answers, and its hooks
  `useCachedData` and `useApi`, which no page uses. Together they are about
  half of the implementation's lines.
