-------------------------- MODULE PaymentRequests ---------------------------
(***************************************************************************)
(* Payment requests (payment-requests.service.ts): their numbers, their    *)
(* way through approval, and the cached statistics about them.             *)
(*                                                                         *)
(* As in Receivables, a worker handles one request at a time and every     *)
(* await is a step.  A write is two of them: the statement commits, and    *)
(* when its answer arrives the handler drops the cached statistics.        *)
(***************************************************************************)
EXTENDS Billing, FiniteSetsExt

VARIABLES
    paymentRequest,   \* the payment_requests table
    statistics,       \* statisticsCache, of the one process of the API
    req,              \* what each worker is handling
    disputed          \* requests on which two handlers overlapped (not in the code)

vars == <<paymentRequest, statistics, req, disputed>>

Status == {"DRAFT", "PENDING", "APPROVED", "REJECTED", "PAID", "CANCELLED"}

Row == [status : Status, amount : Content, no : Nat, deleted : BOOLEAN]

\* What is kept of statistics is how they relate to the table: no statement wrote
\* since the first of their queries; one did, and drops what is cached when it is
\* answered; or that is past, since they were not cached yet when it was answered
\* or since its answer was lost.
Statistics == {"exact", "outdated", "late"}
Cached == Statistics \cup {"none"}

\* The statuses in which an operation takes a request.
AllowedLax(op, status) ==
    \/ op \in {"update", "submit", "remove"} /\ status = "DRAFT"
    \/ op \in {"APPROVED", "REJECTED"} /\ status = "PENDING"
    \/ op = "PAID" /\ status = "APPROVED"
    \/ op = "CANCELLED" /\ status \in {"DRAFT", "PENDING", "APPROVED"}
Allowed(op, status) ==
    \/ op \in {"update", "submit", "remove"} /\ status = "DRAFT"
    \/ op \in {"APPROVED", "REJECTED"} /\ status = "PENDING"
    \/ op = "PAID" /\ status = "APPROVED"
    \/ op = "CANCELLED" /\ status \in {"DRAFT", "PENDING"}

Transitions == {"update", "submit", "remove", "APPROVED", "REJECTED", "PAID", "CANCELLED"}

Handler == [at : {"idle", "number", "insert", "write", "answer", "compute"},
            op : Transitions \cup {"create", "statistics", None},
            id : Request \cup {None},
            amount : Content \cup {None},
            no : Nat,          \* the number that was generated
            tries : Nat,       \* inserts that met a number already taken
            before : Nat,      \* rows there were when the create began
            found : Statistics]   \* what the statistics that it computes are like

Idle == [at |-> "idle", op |-> None, id |-> None, amount |-> None, no |-> 0,
         tries |-> 0, before |-> 0, found |-> "exact"]

TypeOK ==
    /\ DOMAIN paymentRequest \subseteq Request
    /\ paymentRequest \in [DOMAIN paymentRequest -> Row]
    /\ statistics \in Cached
    /\ req \in [Worker -> Handler]
    /\ disputed \subseteq Request

-----------------------------------------------------------------------------
Start(w, request) ==
    /\ req[w].at = "idle"
    /\ req' = [req EXCEPT ![w] = request]

\* A statement of w commits: whatever was or is being computed is behind.
Behind(kept) == IF kept = "exact" THEN "outdated" ELSE kept
Committed(w, request) ==
    /\ req' = [v \in Worker |->
                   IF v = w THEN request
                   ELSE IF req[v].at = "compute" THEN [req[v] EXCEPT !.found = Behind(@)]
                   ELSE req[v]]
    /\ statistics' = Behind(statistics)

Numbers == {paymentRequest[p].no : p \in DOMAIN paymentRequest}

\* The greatest number is looked up in string order and its last four digits
\* are read back: the first number of five digits sorts below the last of four.
NextNo ==
    CASE Numbers = {} -> 1
      [] LastNo \in Numbers -> LastNo + 1
      [] OTHER -> Max(Numbers) + 1

-----------------------------------------------------------------------------
\* The project, the contract and the account that a request names are looked
\* up before; one of them missing refuses the request.
CreateStart(w) ==
    /\ \E a \in Content :
          Start(w, [Idle EXCEPT !.at = "number", !.op = "create", !.amount = a,
                                !.before = Cardinality(DOMAIN paymentRequest)])
    /\ UNCHANGED <<paymentRequest, statistics, disputed>>

CreateNumber(w) ==
    /\ req[w].at = "number"
    /\ req' = [req EXCEPT ![w].at = "insert", ![w].no = NextNo]
    /\ UNCHANGED <<paymentRequest, statistics, disputed>>

\* requestNo is unique.  A conflict is tried again, under a new number, as
\* often as MaxTries.
RetrySameNumber(w) ==
    IF req[w].tries + 1 < MaxTries THEN [req[w] EXCEPT !.tries = @ + 1] ELSE Idle
Retry(w) ==
    IF req[w].tries + 1 < MaxTries
    THEN [req[w] EXCEPT !.at = "number", !.tries = @ + 1]
    ELSE Idle

NewRow(w) ==
    [status |-> "DRAFT", amount |-> req[w].amount, no |-> req[w].no, deleted |-> FALSE]

CreateInsert(w) ==
    /\ req[w].at = "insert"
    /\ \/ /\ req[w].no \in Numbers
          /\ req' = [req EXCEPT ![w] = Retry(w)]
          /\ UNCHANGED <<paymentRequest, statistics>>
       \/ /\ req[w].no \notin Numbers
          /\ \E p \in Request \ DOMAIN paymentRequest :
                paymentRequest' = [q \in DOMAIN paymentRequest \cup {p} |->
                                      IF q = p THEN NewRow(w) ELSE paymentRequest[q]]
          /\ Committed(w, [Idle EXCEPT !.at = "answer", !.op = "create"])
    /\ UNCHANGED disputed

\* update, submit, approve, confirmPayment, cancel and remove read the request
\* (findOne), look at its status, and write it by id in a later statement.
Writing(w, p) == req[w].at = "write" /\ req[w].id = p

Read(w, op, p) ==
    /\ p \in DOMAIN paymentRequest
    /\ ~paymentRequest[p].deleted
    /\ Allowed(op, paymentRequest[p].status)
    /\ \E a \in IF op = "update" THEN Content ELSE {None} :
          Start(w, [Idle EXCEPT !.at = "write", !.op = op, !.id = p, !.amount = a])
    /\ disputed' = IF \E v \in Worker : Writing(v, p) THEN disputed \cup {p} ELSE disputed
    /\ UNCHANGED <<paymentRequest, statistics>>

Written(op, row, amount) ==
    [row EXCEPT !.status = IF op = "submit" THEN "PENDING" ELSE IF op \in Status THEN op ELSE @,
                !.amount = IF op = "update" THEN amount ELSE @,
                !.deleted = @ \/ op = "remove"]

Write(w) ==
    /\ req[w].at = "write"
    /\ paymentRequest' =
          [paymentRequest EXCEPT ![req[w].id] = Written(req[w].op, @, req[w].amount)]
    /\ Committed(w, [Idle EXCEPT !.at = "answer", !.op = req[w].op])
    /\ UNCHANGED disputed

\* The handler of a write ends: what is still being computed without that write
\* is too late to be dropped by it.
Late(kept) == IF kept = "outdated" THEN "late" ELSE kept
Ended(w) ==
    /\ req[w].at = "answer"
    /\ req' = [v \in Worker |-> IF v = w THEN Idle ELSE [req[v] EXCEPT !.found = Late(@)]]
    /\ UNCHANGED <<paymentRequest, disputed>>

\* The answer of the database has arrived: the statistics are dropped, and
\* whoever has to be notified is (best effort).
AnswerKeepsOnCancel(w) ==
    /\ Ended(w)
    /\ statistics' = IF req[w].op = "CANCELLED" THEN statistics ELSE "none"
Answer(w) == Ended(w) /\ statistics' = "none"

\* The write committed but its answer does not arrive: the handler fails before
\* it drops anything.
AnswerLost(w) == Ended(w) /\ statistics' = Late(statistics)

\* getStatistics with nothing cached: nine queries side by side, then the cache
\* is filled with what they found.
Compute(w) ==
    /\ statistics = "none"
    /\ Start(w, [Idle EXCEPT !.at = "compute", !.op = "statistics"])
    /\ UNCHANGED <<paymentRequest, statistics, disputed>>

Fill(w) ==
    /\ req[w].at = "compute"
    /\ statistics' = req[w].found
    /\ req' = [req EXCEPT ![w] = Idle]
    /\ UNCHANGED <<paymentRequest, disputed>>

\* PAYMENT_REQUEST_STATS_CACHE_TTL_MS have passed.
Expire ==
    /\ statistics # "none"
    /\ statistics' = "none"
    /\ UNCHANGED <<paymentRequest, req, disputed>>

\* A statement fails and the handler with it.  (See AnswerLost for a write that
\* only seems to.)
Fail(w) ==
    /\ req[w].at \notin {"idle", "answer"}
    /\ req' = [req EXCEPT ![w] = Idle]
    /\ UNCHANGED <<paymentRequest, statistics, disputed>>

\* The process restarts: handlers end where they are and the cache is empty.
Restart ==
    /\ req' = [w \in Worker |-> Idle]
    /\ statistics' = "none"
    /\ UNCHANGED <<paymentRequest, disputed>>

-----------------------------------------------------------------------------
Init ==
    /\ paymentRequest = [p \in {} |-> None]
    /\ statistics = "none"
    /\ req = [w \in Worker |-> Idle]
    /\ disputed = {}

Ask(w) ==
    \/ CreateStart(w)
    \/ \E op \in Transitions, p \in Request : Read(w, op, p)
    \/ Compute(w)

Step(w) ==
    CreateNumber(w) \/ CreateInsert(w) \/ Write(w) \/ Answer(w) \/ AnswerLost(w) \/ Fill(w)

Next == (\E w \in Worker : Ask(w) \/ Step(w) \/ Fail(w)) \/ Expire \/ Restart

Spec == Init /\ [][Next]_vars

-----------------------------------------------------------------------------
(***************************************************************************)
(* Properties.                                                             *)
(***************************************************************************)

\* Requests go through approval as ApprovalFlow says: what is judged is what was
\* submitted, what is paid is what was approved, and a cancelled, rejected or
\* removed request stays so, except for a request on which two handlers
\* overlapped, since every status is read first and written by id
\* (update, submit, approve, confirmPayment, cancel, remove).
Life ==
    [p \in Request |->
        IF p \in disputed THEN "disputed"
        ELSE IF p \notin DOMAIN paymentRequest THEN "none"
        ELSE IF paymentRequest[p].deleted THEN "removed"
        ELSE paymentRequest[p].status]
About ==
    [p \in Request |->
        IF p \in disputed \/ p \notin DOMAIN paymentRequest THEN None
        ELSE paymentRequest[p].amount]

Flow == INSTANCE ApprovalFlow WITH Amounts <- Content, state <- Life, amount <- About

FlowKept == Flow!Spec

\* A create meets a taken number only because another create took it in the
\* meantime, so it gives up only after MaxTries others succeeded; until the
\* numbers of a day are used up (generateRequestNo inside the loop of create).
RetriesAreLosses ==
    \A w \in Worker :
        (req[w].at \in {"number", "insert"} /\ LastNo + 1 \notin Numbers)
        => req[w].tries <= Cardinality(DOMAIN paymentRequest) - req[w].before

\* Statistics that a write has left behind are about to be dropped by that write,
\* those too that are cached after it committed.  Only late ones stay until they
\* expire: a write was answered before they were cached, or never was
\* (invalidateStatisticsCache in every operation).
OutdatedIsDropped ==
    statistics = "outdated" => \E w \in Worker : req[w].at = "answer"

=============================================================================
