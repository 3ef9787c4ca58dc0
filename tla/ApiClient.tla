----------------------------- MODULE ApiClient ------------------------------
(***************************************************************************)
(* The response interceptor of the web client (lib/api.ts), talking to the *)
(* server of Sessions.  A tab that gets a 401 refreshes the tokens, queues *)
(* the calls that get one meanwhile, and sends them all again; when the    *)
(* refresh fails it logs out and leaves for the login page.                *)
(*                                                                         *)
(* The tabs of a browser share the cookie jar and nothing else.  An action *)
(* is one turn of a tab's event loop; a call waits in the browser before   *)
(* it is dispatched with the cookies of that moment.                       *)
(***************************************************************************)
EXTENDS Sessions

CONSTANTS
    Tab,    \* tabs of one browser
    Call    \* the API calls a tab makes

\* No cookie is no token.
ASSUME ClientAssumption == None \notin Token

VARIABLES
    jar,    \* the cookies accessToken and refreshToken, set and cleared together
    tab,    \* isRefreshing and the page of each tab
    call,   \* the calls of each tab; the queued ones are its pendingRequests
    hurt    \* has anything failed, timed out or been disabled so far?

clientVars == <<jar, tab, call>>
allVars == <<vars, clientVars, hurt>>

\* isRefreshing is true in every phase but "ready".
Phase == {"ready", "refresh", "refreshing", "logout", "logging_out"}
TabRow == [phase : Phase,
           worker : Worker \cup {None},  \* who handles the refresh or the logout
           leaving : BOOLEAN,            \* location.replace("/login") was called
           page : {"app", "login"}]

Unsettled == {"sending", "sent", "queued", "leading"}
Settled == {"ok", "error", "gone"}
CallRow == [at : {"idle"} \cup Unsettled \cup Settled,
            retry : BOOLEAN,             \* originalRequest._retry
            worker : Worker \cup {None}]

ClientTypeOK ==
    /\ TypeOK
    /\ jar \in Token \cup {None}
    /\ tab \in [Tab -> TabRow]
    /\ call \in [Tab -> [Call -> CallRow]]
    /\ hurt \in BOOLEAN

-----------------------------------------------------------------------------
NewCall == [at |-> "idle", retry |-> FALSE, worker |-> None]
Move(t, r, at) == call' = [call EXCEPT ![t][r].at = at, ![t][r].worker = None]

Awaited(w) == \E t \in Tab : tab[t].worker = w \/ \E r \in Call : call[t][r].worker = w

\* Every call of t that is in one of the states from goes on as row.
MoveAll(t, from, row) ==
    call' = [call EXCEPT ![t] = [r \in Call |-> IF @[r].at \in from THEN row ELSE @[r]]]

SendAgain == [at |-> "sending", retry |-> TRUE, worker |-> None]
GiveUpForgets(at) == [at |-> at, retry |-> TRUE]
GiveUp(at) == [at |-> at, retry |-> TRUE, worker |-> None]

-----------------------------------------------------------------------------
\* A call goes out and comes back.

Issue(t, r) ==
    /\ tab[t].page = "app"
    /\ call[t][r].at = "idle"
    /\ Move(t, r, "sending")
    /\ UNCHANGED <<vars, jar, tab>>

Dispatch(t, r, w) ==
    /\ call[t][r].at = "sending"
    /\ ReceiveGuarded(w, jar, "api", None)
    /\ call' = [call EXCEPT ![t][r].at = "sent", ![t][r].worker = w]
    /\ UNCHANGED <<jar, tab>>

Arrives(t, r, answer) ==
    /\ call[t][r].at = "sent"
    /\ req[call[t][r].worker].at = answer
    /\ Collect(call[t][r].worker)

Settle(t, r) ==
    \E answer \in {"ok", "error"} :
        /\ Arrives(t, r, answer)
        /\ Move(t, r, answer)
        /\ UNCHANGED <<jar, tab>>

UnauthorizedUnqueued(t, r) ==
    /\ Arrives(t, r, "unauthorized")
    /\ ~call[t][r].retry
    /\ IF tab[t].phase # "ready"
       THEN call' = [call EXCEPT ![t][r] = SendAgain] /\ UNCHANGED tab
       ELSE /\ call' = [call EXCEPT ![t][r] = [at |-> "leading", retry |-> TRUE, worker |-> None]]
            /\ tab' = [tab EXCEPT ![t].phase = "refresh"]
    /\ UNCHANGED jar
Unauthorized(t, r) ==
    /\ Arrives(t, r, "unauthorized")
    /\ ~call[t][r].retry
    /\ IF tab[t].phase # "ready"
       THEN Move(t, r, "queued") /\ UNCHANGED tab
       ELSE /\ call' = [call EXCEPT ![t][r] = [at |-> "leading", retry |-> TRUE, worker |-> None]]
            /\ tab' = [tab EXCEPT ![t].phase = "refresh"]
    /\ UNCHANGED jar

UnauthorizedAgain(t, r) ==
    /\ Arrives(t, r, "unauthorized")
    /\ call[t][r].retry
    /\ Move(t, r, "error")
    /\ tab' = [tab EXCEPT ![t].leaving = TRUE]
    /\ UNCHANGED jar

-----------------------------------------------------------------------------
\* The refresh of a tab, and the logout when it fails.

StartRefresh(t, w) ==
    /\ tab[t].phase = "refresh"
    /\ ReceiveRefresh(w, jar)
    /\ tab' = [tab EXCEPT ![t].phase = "refreshing", ![t].worker = w]
    /\ UNCHANGED <<jar, call>>

RefreshSucceedsUnflushed(t) ==
    /\ tab[t].phase = "refreshing"
    /\ req[tab[t].worker].at = "ok"
    /\ jar' = req[tab[t].worker].token
    /\ Collect(tab[t].worker)
    /\ MoveAll(t, {"leading"}, SendAgain)
    /\ tab' = [tab EXCEPT ![t].phase = "ready", ![t].worker = None]
\* setAuthCookies, flushPendingRequests(), and the call that led is sent again.
RefreshSucceeds(t) ==
    /\ tab[t].phase = "refreshing"
    /\ req[tab[t].worker].at = "ok"
    /\ jar' = req[tab[t].worker].token
    /\ Collect(tab[t].worker)
    /\ MoveAll(t, {"queued", "leading"}, SendAgain)
    /\ tab' = [tab EXCEPT ![t].phase = "ready", ![t].worker = None]

\* The 401 of the refresh itself goes through the interceptor, too.
RefreshFails(t) ==
    /\ tab[t].phase = "refreshing"
    /\ LET answer == req[tab[t].worker].at
       IN  /\ answer \in {"unauthorized", "error"}
           /\ tab' = [tab EXCEPT ![t].phase = "logout", ![t].worker = None,
                                 ![t].leaving = @ \/ answer = "unauthorized"]
    /\ Collect(tab[t].worker)
    /\ MoveAll(t, {"queued"}, GiveUp("error"))
    /\ UNCHANGED jar

StartLogout(t, w) ==
    /\ tab[t].phase = "logout"
    /\ ReceiveLogout(w, jar)
    /\ tab' = [tab EXCEPT ![t].phase = "logging_out", ![t].worker = w]
    /\ UNCHANGED <<jar, call>>

\* clearAuthCookies when it was answered; in any case the tab leaves.
LogoutEnds(t) ==
    /\ tab[t].phase = "logging_out"
    /\ req[tab[t].worker].at \in Answers
    /\ jar' = IF req[tab[t].worker].at = "ok" THEN None ELSE jar
    /\ Collect(tab[t].worker)
    /\ MoveAll(t, {"leading"}, GiveUp("error"))
    /\ tab' = [tab EXCEPT ![t].phase = "ready", ![t].worker = None, ![t].leaving = TRUE]

\* The page unloads; what its calls would have done is gone with it.
Leave(t) ==
    /\ tab[t].leaving
    /\ tab' = [tab EXCEPT ![t] = [phase |-> "ready", worker |-> None, leaving |-> FALSE,
                                  page |-> "login"]]
    /\ MoveAll(t, Unsettled, GiveUp("gone"))
    /\ UNCHANGED <<vars, jar>>

-----------------------------------------------------------------------------
\* axios gives up after ten seconds; the server does not notice.

TimeOutCall(t, r) ==
    /\ call[t][r].at = "sent"
    /\ Move(t, r, "error")
    /\ UNCHANGED <<vars, jar, tab>>

TimeOutRefresh(t) ==
    /\ tab[t].phase = "refreshing"
    /\ MoveAll(t, {"queued"}, GiveUp("error"))
    /\ tab' = [tab EXCEPT ![t].phase = "logout", ![t].worker = None]
    /\ UNCHANGED <<vars, jar>>

TimeOutLogout(t) ==
    /\ tab[t].phase = "logging_out"
    /\ MoveAll(t, {"leading"}, GiveUp("error"))
    /\ tab' = [tab EXCEPT ![t].phase = "ready", ![t].worker = None, ![t].leaving = TRUE]
    /\ UNCHANGED <<vars, jar>>

-----------------------------------------------------------------------------
ClientStep(t) ==
    \/ \E r \in Call : Settle(t, r) \/ Unauthorized(t, r) \/ UnauthorizedAgain(t, r)
    \/ \E r \in Call, w \in Worker : Dispatch(t, r, w)
    \/ \E w \in Worker : StartRefresh(t, w) \/ StartLogout(t, w)
    \/ RefreshSucceeds(t) \/ RefreshFails(t) \/ LogoutEnds(t) \/ Leave(t)

ServerStep(w) == (Step(w) \/ (~Awaited(w) /\ Drop(w))) /\ UNCHANGED clientVars

Trouble ==
    \/ \E w \in Worker : Fail(w) /\ UNCHANGED clientVars
    \/ /\ Failures
       /\ \E t \in Tab : \/ \E r \in Call : TimeOutCall(t, r)
                         \/ TimeOutRefresh(t) \/ TimeOutLogout(t)
    \/ \E u \in User : SetActive(u, FALSE) /\ Failures /\ UNCHANGED clientVars

\* The user logged in when the clock started.
ClientInit ==
    /\ now = 0
    /\ user = [u \in User |-> NewUser]
    /\ \E u \in User, s \in Sid :
          /\ opened = {s}
          /\ session = [i \in {s} |-> [user |-> u, token |-> 0, last |-> 0,
                                       expires |-> RefreshTTL, revoked |-> FALSE]]
          /\ jar = [user |-> u, sid |-> s, iat |-> 0]
    /\ held = {jar}
    /\ req = [w \in Worker |-> Idle]
    /\ tab = [t \in Tab |-> [phase |-> "ready", worker |-> None, leaving |-> FALSE, page |-> "app"]]
    /\ call = [t \in Tab |-> [r \in Call |-> NewCall]]
    /\ hurt = FALSE

ClientNext ==
    \/ /\ \/ \E t \in Tab : ClientStep(t) \/ \E r \in Call : Issue(t, r)
          \/ \E w \in Worker : ServerStep(w)
          \/ Tick /\ UNCHANGED clientVars
       /\ UNCHANGED hurt
    \/ Trouble /\ hurt' = TRUE

\* The event loops of the tabs and of the server keep turning; users need not
\* make a call, and nothing need fail.
ClientFairness ==
    /\ \A t \in Tab : WF_allVars(ClientStep(t) /\ UNCHANGED hurt)
    /\ \A w \in Worker : WF_allVars(ServerStep(w) /\ UNCHANGED hurt)

ClientSpec == ClientInit /\ [][ClientNext]_allVars /\ ClientFairness

-----------------------------------------------------------------------------
(***************************************************************************)
(* Properties.                                                             *)
(***************************************************************************)

\* As long as nothing fails, a tab that is alone and whose session has not run
\* out is never interrupted by its own refreshes: access tokens expire and
\* calls overlap, but no call fails and nobody is sent to log in again. A call
\* is sent again only once, so this asks that calls end before the tokens that
\* a refresh brought run out too.
Uninterrupted ==
    ~hurt =>
    \A t \in Tab :
        /\ tab[t].page = "app" /\ ~tab[t].leaving
        /\ tab[t].phase \notin {"logout", "logging_out"}
        /\ \A r \in Call : call[t][r].at # "error"

\* Every call ends: it succeeds, it fails, or its page is left.  In particular
\* a queued call is not forgotten, whenever the refresh and the logout end.
EveryCallSettles ==
    \A t \in Tab, r \in Call : (call[t][r].at \in Unsettled) ~> (call[t][r].at \in Settled)

=============================================================================
