------------------------------ MODULE Sessions ------------------------------
(***************************************************************************)
(* Logins, refresh rotation and revocation of sessions (auth.service.ts).  *)
(*                                                                         *)
(* As in Receivables, a worker handles one request at a time and every     *)
(* database statement is an action; none of these handlers opens a         *)
(* transaction.  A worker that has answered keeps its answer until the     *)
(* client has it (Collect) or nobody wants it any more (Drop).             *)
(*                                                                         *)
(* The access and the refresh token that are issued together are one       *)
(* element of Token.  A JWT is a function of its payload and of the second *)
(* it is signed in: two tokens of one session and second are the same.     *)
(***************************************************************************)
EXTENDS Integers, FiniteSets

CONSTANTS
    Worker,       \* request handlers that can be in flight at one time
    User,         \* user ids
    Sid,          \* session ids
    None,         \* SQL NULL, or no cookie
    MaxSessions,  \* AUTH_MAX_ACTIVE_SESSIONS
    MaxAttempts,  \* AUTH_MAX_LOGIN_ATTEMPTS
    LockTime,     \* AUTH_LOCK_MINUTES, in seconds
    AccessTTL,    \* JWT_EXPIRES_IN, in seconds
    RefreshTTL,   \* JWT_REFRESH_EXPIRES_IN, in seconds
    MaxTime,      \* bound: the clock stops here
    Failures      \* may a handler die at an await?

ASSUME ConstantsAssumption ==
    /\ None \notin Sid \cup User
    /\ {MaxSessions, MaxAttempts, LockTime, AccessTTL, RefreshTTL} \subseteq Nat \ {0}
    /\ MaxTime \in Nat
    /\ Failures \in BOOLEAN
    /\ IsFiniteSet(Worker) /\ IsFiniteSet(Sid)   \* UUIDs have one length

VARIABLES
    now,      \* the clock, in seconds
    user,     \* the users table
    session,  \* the user_sessions table
    opened,   \* ids of sessions created so far (a UUID is never drawn twice)
    req,      \* the request each worker is handling
    held      \* tokens that answers brought to clients

vars == <<now, user, session, opened, req, held>>

UserRow == [active : BOOLEAN, failed : 0..MaxAttempts, lockedUntil : Nat \cup {None}]
Token == [user : User, sid : Sid, iat : Nat]
\* token: the time of issue of the refresh token whose hash is stored.
SessionRow == [user : User, token : Nat, expires : Nat, last : Nat, revoked : BOOLEAN]

Pending == {"login_read", "login_check", "login_list", "login_evict", "login_create", "login_reset",
            "refresh_read", "refresh_revoke", "refresh_user", "refresh_write",
            "logout", "guard_user", "guard_session", "revoke", "revoke_others"}
Answers == {"ok", "unauthorized", "error"}
Guarded == {"api", "revoke", "revoke_others"}  \* endpoints behind JwtAuthGuard

Request == [at : {"idle"} \cup Pending \cup Answers,
            user : User \cup {None},
            token : Token \cup {None},      \* presented, then issued
            row : UserRow \cup {None},      \* the user as login read it
            now : Nat,                      \* the handler's const now
            victims : SUBSET Sid,           \* sessions about to be evicted
            op : Guarded \cup {None},
            target : Sid \cup {None}]

Idle == [at |-> "idle", user |-> None, token |-> None, row |-> None, now |-> 0,
         victims |-> {}, op |-> None, target |-> None]

TypeOK ==
    /\ now \in Nat
    /\ user \in [User -> UserRow]
    /\ opened \subseteq Sid
    /\ DOMAIN session \subseteq opened
    /\ session \in [DOMAIN session -> SessionRow]
    /\ req \in [Worker -> Request]
    /\ held \subseteq Token

-----------------------------------------------------------------------------
\* Queries and the small decisions of the handlers.

\* where: { revokedAt: null, expiresAt: { gt: time } }
Live(s, time) ==
    /\ s \in DOMAIN session
    /\ ~session[s].revoked
    /\ session[s].expires > time
SessionsOf(u) == {s \in DOMAIN session : session[s].user = u}
LiveOf(u, time) == {s \in SessionsOf(u) : Live(s, time)}

\* updateMany({ where: { revokedAt: null, ... }, data: { revokedAt } })
RevokeAll(ids) ==
    session' = [s \in DOMAIN session |->
                  IF s \in ids THEN [session[s] EXCEPT !.revoked = TRUE] ELSE session[s]]

OverflowLate(ids) ==
    {v \in SUBSET ids :
        /\ \A s \in v, k \in ids \ v : session[s].last <= session[k].last
        /\ Cardinality(ids \ v) = IF Cardinality(ids) < MaxSessions
                                  THEN Cardinality(ids) ELSE MaxSessions}
OverflowNewest(ids) ==
    {v \in SUBSET ids :
        /\ \A s \in v, k \in ids \ v : session[s].last >= session[k].last
        /\ Cardinality(ids \ v) = IF Cardinality(ids) < MaxSessions
                                  THEN Cardinality(ids) ELSE MaxSessions - 1}
\* What is left when the MaxSessions - 1 most recently active sessions are
\* kept; sessions active in the same second come in any order.
Overflow(ids) ==
    {v \in SUBSET ids :
        /\ \A s \in v, k \in ids \ v : session[s].last <= session[k].last
        /\ Cardinality(ids \ v) = IF Cardinality(ids) < MaxSessions
                                  THEN Cardinality(ids) ELSE MaxSessions - 1}

AccessValid(t) == t # None /\ now < t.iat + AccessTTL
RefreshValid(t) == t # None /\ now < t.iat + RefreshTTL

Locked(row) == row.lockedUntil # None /\ row.lockedUntil > now
LockExpired(row) == row.lockedUntil # None /\ row.lockedUntil <= now
Unlocked(row) == [row EXCEPT !.lockedUntil = None, !.failed = 0]

Become(w, at) == req' = [req EXCEPT ![w].at = at]
Answer(w, at) == req' = [req EXCEPT ![w] = [Idle EXCEPT !.at = at]]
AnswerToken(w, t) == req' = [req EXCEPT ![w] = [Idle EXCEPT !.at = "ok", !.token = t]]

-----------------------------------------------------------------------------
\* A request arrives.

Receive(w, request) ==
    /\ req[w].at = "idle"
    /\ req' = [req EXCEPT ![w] = request]
    /\ UNCHANGED <<now, user, session, opened, held>>

BeforeCreate == {"login_read", "login_check", "login_list", "login_evict", "login_create"}

\* Bound: a login arrives only while there is an id left for its session.
ReceiveLogin(w, u) ==
    /\ Cardinality({v \in Worker : req[v].at \in BeforeCreate}) < Cardinality(Sid \ opened)
    /\ Receive(w, [Idle EXCEPT !.at = "login_read", !.user = u])

ReceiveRefresh(w, t) == Receive(w, [Idle EXCEPT !.at = "refresh_read", !.token = t])
ReceiveLogout(w, t) == Receive(w, [Idle EXCEPT !.at = "logout", !.token = t])
ReceiveGuarded(w, t, op, target) ==
    Receive(w, [Idle EXCEPT !.at = "guard_user", !.token = t, !.op = op, !.target = target])

-----------------------------------------------------------------------------
\* Logins.

LoginRead(w) ==
    /\ req[w].at = "login_read"
    /\ req' = [req EXCEPT ![w].at = "login_check", ![w].row = user[req[w].user]]
    /\ UNCHANGED <<now, user, session, opened, held>>

\* clearLockIfExpired: the handler goes on with the cleared row.
LoginClearLock(w) ==
    /\ req[w].at = "login_check"
    /\ LockExpired(req[w].row)
    /\ user' = [user EXCEPT ![req[w].user] = Unlocked(@)]
    /\ req' = [req EXCEPT ![w].row = Unlocked(@)]
    /\ UNCHANGED <<now, session, opened, held>>

\* Locked, inactive, no password set, or the password right and the MFA code
\* missing or wrong: nothing is written.
LoginRefused(w) ==
    /\ req[w].at = "login_check"
    /\ ~LockExpired(req[w].row)
    /\ Answer(w, "unauthorized")
    /\ UNCHANGED <<now, user, session, opened, held>>

MayTryLocked(row) == ~LockExpired(row) /\ row.active
MayTry(row) == ~LockExpired(row) /\ ~Locked(row) /\ row.active

AfterFailureUnlocked(row) ==
    [failed |-> row.failed + 1, lockedUntil |-> row.lockedUntil]
\* registerFailedLogin counts from the row the handler read.
AfterFailure(row) ==
    IF row.failed + 1 >= MaxAttempts
    THEN [failed |-> MaxAttempts, lockedUntil |-> now + LockTime]
    ELSE [failed |-> row.failed + 1, lockedUntil |-> row.lockedUntil]

LoginWrong(w) ==
    /\ req[w].at = "login_check"
    /\ MayTry(req[w].row)
    /\ LET after == AfterFailure(req[w].row)
       IN  user' = [user EXCEPT ![req[w].user].failed = after.failed,
                                ![req[w].user].lockedUntil = after.lockedUntil]
    /\ Answer(w, "unauthorized")
    /\ UNCHANGED <<now, session, opened, held>>

\* The password is right: createSessionAndTokens signs the tokens and deletes
\* the user's sessions that have ended.
LoginPurge(w) ==
    /\ req[w].at = "login_check"
    /\ MayTry(req[w].row)
    /\ session' = [s \in {s \in DOMAIN session : s \in SessionsOf(req[w].user) => Live(s, now)}
                     |-> session[s]]
    /\ req' = [req EXCEPT ![w].at = "login_list", ![w].row = None, ![w].now = now]
    /\ UNCHANGED <<now, user, opened, held>>

LoginList(w) ==
    /\ req[w].at = "login_list"
    /\ \E victims \in Overflow(LiveOf(req[w].user, req[w].now)) :
          req' = [req EXCEPT ![w].victims = victims,
                             ![w].at = IF victims = {} THEN "login_create" ELSE "login_evict"]
    /\ UNCHANGED <<now, user, session, opened, held>>

LoginEvict(w) ==
    /\ req[w].at = "login_evict"
    /\ RevokeAll(req[w].victims)
    /\ req' = [req EXCEPT ![w].at = "login_create", ![w].victims = {}]
    /\ UNCHANGED <<now, user, opened, held>>

LoginCreate(w, s) ==
    /\ req[w].at = "login_create"
    /\ s \in Sid \ opened
    /\ opened' = opened \cup {s}
    /\ session' = [i \in DOMAIN session \cup {s} |->
                     IF i = s THEN [user |-> req[w].user, token |-> req[w].now, last |-> req[w].now,
                                    expires |-> req[w].now + RefreshTTL, revoked |-> FALSE]
                     ELSE session[i]]
    /\ req' = [req EXCEPT ![w].at = "login_reset",
                          ![w].token = [user |-> req[w].user, sid |-> s, iat |-> req[w].now]]
    /\ UNCHANGED <<now, user, held>>

LoginReset(w) ==
    /\ req[w].at = "login_reset"
    /\ user' = [user EXCEPT ![req[w].user] = Unlocked(@)]
    /\ AnswerToken(w, req[w].token)
    /\ UNCHANGED <<now, session, opened, held>>

-----------------------------------------------------------------------------
\* Refresh: the session is read, its stored hash compared with the token that
\* was presented, the user read, and the row updated whatever it is by then.

RefreshReadRevoked(w) ==
    /\ req[w].at = "refresh_read"
    /\ LET t == req[w].token
       IN  IF ~RefreshValid(t) \/ t.sid \notin DOMAIN session THEN Answer(w, "unauthorized")
           ELSE req' = [req EXCEPT ![w].now = now,
                          ![w].at = IF session[t.sid].token = t.iat
                                    THEN "refresh_user" ELSE "refresh_revoke"]
    /\ UNCHANGED <<now, user, session, opened, held>>
RefreshRead(w) ==
    /\ req[w].at = "refresh_read"
    /\ LET t == req[w].token
       IN  IF ~RefreshValid(t) \/ ~Live(t.sid, now) THEN Answer(w, "unauthorized")
           ELSE req' = [req EXCEPT ![w].now = now,
                          ![w].at = IF session[t.sid].token = t.iat
                                    THEN "refresh_user" ELSE "refresh_revoke"]
    /\ UNCHANGED <<now, user, session, opened, held>>

\* A token that was replaced before ends its session.
RefreshRevoke(w) ==
    /\ req[w].at = "refresh_revoke"
    /\ RevokeAll({req[w].token.sid})
    /\ Answer(w, "unauthorized")
    /\ UNCHANGED <<now, user, opened, held>>

RefreshUser(w) ==
    /\ req[w].at = "refresh_user"
    /\ IF user[req[w].token.user].active
       THEN req' = [req EXCEPT ![w].at = "refresh_write", ![w].token.iat = now]
       ELSE Answer(w, "unauthorized")
    /\ UNCHANGED <<now, user, session, opened, held>>

RefreshWriteKeepsToken(w) ==
    /\ req[w].at = "refresh_write"
    /\ LET t == req[w].token
       IN  IF t.sid \in DOMAIN session
           THEN /\ session' = [session EXCEPT ![t.sid].last = req[w].now,
                                              ![t.sid].expires = now + RefreshTTL]
                /\ AnswerToken(w, t)
           ELSE Answer(w, "error") /\ UNCHANGED session
    /\ UNCHANGED <<now, user, opened, held>>
RefreshWriteRevives(w) ==
    /\ req[w].at = "refresh_write"
    /\ LET t == req[w].token
       IN  IF t.sid \in DOMAIN session
           THEN /\ session' = [session EXCEPT ![t.sid].token = t.iat, ![t.sid].last = req[w].now,
                                              ![t.sid].expires = now + RefreshTTL,
                                              ![t.sid].revoked = FALSE]
                /\ AnswerToken(w, t)
           ELSE Answer(w, "error") /\ UNCHANGED session
    /\ UNCHANGED <<now, user, opened, held>>

\* userSession.update throws when the row is gone.
RefreshWrite(w) ==
    /\ req[w].at = "refresh_write"
    /\ LET t == req[w].token
       IN  IF t.sid \in DOMAIN session
           THEN /\ session' = [session EXCEPT ![t.sid].token = t.iat, ![t.sid].last = req[w].now,
                                              ![t.sid].expires = now + RefreshTTL]
                /\ AnswerToken(w, t)
           ELSE Answer(w, "error") /\ UNCHANGED session
    /\ UNCHANGED <<now, user, opened, held>>

-----------------------------------------------------------------------------
\* Revocation, and the guard of every other endpoint.

\* A missing or invalid token is ignored: logout is idempotent.
Logout(w) ==
    /\ req[w].at = "logout"
    /\ LET t == req[w].token
       IN  RevokeAll(IF RefreshValid(t) THEN {t.sid} ELSE {})
    /\ Answer(w, "ok")
    /\ UNCHANGED <<now, user, opened, held>>

GuardUser(w) ==
    /\ req[w].at = "guard_user"
    /\ LET t == req[w].token
       IN  IF AccessValid(t) THEN IF user[t.user].active THEN Become(w, "guard_session")
                                  ELSE Answer(w, "unauthorized")
           ELSE Answer(w, "unauthorized")
    /\ UNCHANGED <<now, user, session, opened, held>>

\* What the other endpoints do after the guard leaves sessions alone.
GuardSession(w) ==
    /\ req[w].at = "guard_session"
    /\ IF ~Live(req[w].token.sid, now) THEN Answer(w, "unauthorized")
       ELSE IF req[w].op = "api" THEN Answer(w, "ok") ELSE Become(w, req[w].op)
    /\ UNCHANGED <<now, user, session, opened, held>>

RevokeOne(w) ==
    /\ req[w].at = "revoke"
    /\ LET found == {s \in SessionsOf(req[w].token.user) \cap {req[w].target} : ~session[s].revoked}
       IN  /\ RevokeAll(found)
           /\ Answer(w, IF found = {} THEN "unauthorized" ELSE "ok")
    /\ UNCHANGED <<now, user, opened, held>>

RevokeOthers(w) ==
    /\ req[w].at = "revoke_others"
    /\ RevokeAll(SessionsOf(req[w].token.user) \ {req[w].token.sid})
    /\ Answer(w, "ok")
    /\ UNCHANGED <<now, user, opened, held>>

-----------------------------------------------------------------------------
\* Answers, failures, the clock, and the administrators (users.service.ts).

Collect(w) ==
    /\ req[w].at \in Answers
    /\ held' = held \cup ({req[w].token} \ {None})
    /\ req' = [req EXCEPT ![w] = Idle]
    /\ UNCHANGED <<now, user, session, opened>>

\* The answer does not reach its client.
Drop(w) ==
    /\ req[w].at \in Answers
    /\ req' = [req EXCEPT ![w] = Idle]
    /\ UNCHANGED <<now, user, session, opened, held>>

\* A statement fails: what was written before it stays.  (logout ignores it.)
Fail(w) ==
    /\ Failures
    /\ req[w].at \in Pending
    /\ Answer(w, IF req[w].at = "logout" THEN "ok" ELSE "error")
    /\ UNCHANGED <<now, user, session, opened, held>>

SetActive(u, active) ==
    /\ user[u].active # active
    /\ user' = [user EXCEPT ![u].active = active]
    /\ UNCHANGED <<now, session, opened, req, held>>

Tick ==
    /\ now < MaxTime
    /\ now' = now + 1
    /\ UNCHANGED <<user, session, opened, req, held>>

Ask(w) ==
    \/ \E u \in User : ReceiveLogin(w, u)
    \/ \E t \in held :
          \/ ReceiveRefresh(w, t) \/ ReceiveLogout(w, t)
          \/ ReceiveGuarded(w, t, "revoke_others", None)
          \/ \E s \in opened : ReceiveGuarded(w, t, "revoke", s)

Step(w) ==
    \/ LoginRead(w) \/ LoginClearLock(w) \/ LoginRefused(w) \/ LoginWrong(w)
    \/ LoginPurge(w) \/ LoginList(w) \/ LoginEvict(w) \/ LoginReset(w)
    \/ \E s \in Sid : LoginCreate(w, s)
    \/ RefreshRead(w) \/ RefreshRevoke(w) \/ RefreshUser(w) \/ RefreshWrite(w)
    \/ Logout(w) \/ GuardUser(w) \/ GuardSession(w) \/ RevokeOne(w) \/ RevokeOthers(w)

NewUser == [active |-> TRUE, failed |-> 0, lockedUntil |-> None]

Init ==
    /\ now = 0
    /\ user = [u \in User |-> NewUser]
    /\ session = [s \in {} |-> None]
    /\ opened = {}
    /\ req = [w \in Worker |-> Idle]
    /\ held = {}

Next ==
    \/ \E w \in Worker : Ask(w) \/ Step(w) \/ Collect(w) \/ Drop(w) \/ Fail(w)
    \/ \E u \in User, active \in BOOLEAN : SetActive(u, active)
    \/ Tick

Spec == Init /\ [][Next]_vars

-----------------------------------------------------------------------------
(***************************************************************************)
(* Properties.                                                             *)
(***************************************************************************)

\* A user has at most MaxSessions live sessions, and one more for each further
\* login that overlaps: what createSessionAndTokens evicts, without a
\* transaction, is decided on a list that may be out of date.
SessionLimit ==
    \A u \in User : Cardinality(LiveOf(u, now)) < MaxSessions + Cardinality(Worker)

\* A session as SessionLife sees it: open until it is revoked or its row is
\* deleted.  What a late refresh writes into a revoked row opens nothing.
OpenSessions == {s \in DOMAIN session : ~session[s].revoked}
Life == INSTANCE SessionLife WITH
    Time <- Nat,
    open <- OpenSessions,
    closed <- opened \ OpenSessions,
    accepted <- [s \in OpenSessions |-> session[s].token],
    owner <- [s \in OpenSessions |-> session[s].user]

\* Whatever overlaps and fails, a session is opened once, for one user, and a
\* session that was closed (evicted, revoked, logged out, replayed or deleted)
\* accepts no token any more (the unconditional update of refreshByToken).
ClosedForGood == Life!Spec

\* Serial.  A session is evicted only if no session of the user that is left
\* alive was idle for longer (createSessionAndTokens).
EvictsIdlest ==
    [][\A w \in Worker :
          (req[w].at = "login_evict" /\ req'[w].at = "login_create") =>
          \A s \in req[w].victims, k \in DOMAIN session' :
              (Live(s, req[w].now) /\ session'[k].user = req[w].user /\ ~session'[k].revoked)
              => session[s].last <= session'[k].last]_vars

\* Serial.  The server never takes a client back to an older token: as long as
\* a session lives, the last token a client got for it is the one accepted, or
\* an answer with a newer one was lost (refreshByToken).
NewestTokenAccepted == \A t \in held : Live(t.sid, now) => session[t.sid].token >= t.iat

\* Serial.  An answer that brings tokens brings tokens that work: their session
\* is there, not revoked, and expects them (login, refresh).
AnsweredTokenWorks ==
    \A w \in Worker :
        (req[w].at = "ok" /\ req[w].token # None) =>
        LET t == req[w].token
        IN  /\ t.sid \in DOMAIN session
            /\ ~session[t.sid].revoked
            /\ session[t.sid].token = t.iat

\* Serial.  An account that is locked stays locked until its time is over:
\* neither a right nor a wrong password changes that (login).
LockHolds ==
    [][\A u \in User : Locked(user[u]) => user'[u].lockedUntil = user[u].lockedUntil]_vars

=============================================================================
