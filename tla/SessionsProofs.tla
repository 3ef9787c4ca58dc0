--------------------------- MODULE SessionsProofs ---------------------------
(***************************************************************************)
(* Proofs about Sessions, for any number of workers, users and sessions,   *)
(* and any limits and lifetimes: the tables have their types (TypeInv),    *)
(* the server implements SessionLife, and whatever logins overlap, a user  *)
(* has a bounded number of live sessions (CountInv).  When requests do not *)
(* overlap, eviction, rotation and locking do what they are meant to do    *)
(* (SerialInv).  Of the web client that talks to it, for any number of     *)
(* calls and of handlers: its types (ClientInv), and that refreshing never *)
(* interrupts a tab that is alone (UpInv).                                 *)
(***************************************************************************)
EXTENDS ApiClient, FiniteSetTheorems, TLAPS

\* What a handler has in hand at each point.
InHand(r) ==
    /\ r.at \in BeforeCreate => r.user \in User
    /\ r.at = "login_reset" => r.user \in User /\ r.token \in Token
    /\ r.at = "login_check" => r.row \in UserRow
    /\ r.at \in {"refresh_revoke", "refresh_user", "refresh_write",
                 "guard_session", "revoke", "revoke_others"} => r.token \in Token
    /\ r.at \in {"guard_user", "guard_session"} => r.op \in Guarded
FieldsOK == \A w \in Worker : InHand(req[w])

TypeInv == TypeOK /\ FieldsOK

-----------------------------------------------------------------------------
\* The pieces that handlers build keep their types.

LEMMA IdleType == Idle \in Request
  BY DEF Idle, Request, Answers, Pending

\* An answer leaves nothing in hand but its tokens.
LEMMA AnswerType ==
  ASSUME TypeInv, NEW w \in Worker, NEW at \in Answers, Answer(w, at)
  PROVE  req' \in [Worker -> Request] /\ FieldsOK'
  BY DEF TypeInv, TypeOK, FieldsOK, InHand, Answer, Idle, Request, Answers, Pending, BeforeCreate

LEMMA AnswerTokenType ==
  ASSUME TypeInv, NEW w \in Worker, NEW t \in Token, AnswerToken(w, t)
  PROVE  req' \in [Worker -> Request] /\ FieldsOK'
  BY DEF TypeInv, TypeOK, FieldsOK, InHand, AnswerToken, Idle, Request, Answers, Pending, BeforeCreate

\* A handler that goes on has a well-formed request in hand.
LEMMA HandType ==
  ASSUME TypeInv, NEW w \in Worker, NEW r \in Request, InHand(r), req' = [req EXCEPT ![w] = r]
  PROVE  req' \in [Worker -> Request] /\ FieldsOK'
  BY DEF TypeInv, TypeOK, FieldsOK, InHand

LEMMA UnlockedType ==
  ASSUME NEW row \in UserRow
  PROVE  Unlocked(row) \in UserRow
  <1>1. 0 \in 0..MaxAttempts
    BY ConstantsAssumption
  <1> QED
    BY <1>1 DEF Unlocked, UserRow

\* revokedAt is the only column that updateMany sets.
LEMMA RevokeAllType ==
  ASSUME TypeOK, NEW ids, RevokeAll(ids)
  PROVE  /\ DOMAIN session' = DOMAIN session
         /\ session' \in [DOMAIN session' -> SessionRow]
         /\ \A s \in DOMAIN session :
               /\ session'[s].token = session[s].token
               /\ session'[s].user = session[s].user
               /\ session[s].revoked => session'[s].revoked
  BY DEF TypeOK, RevokeAll, SessionRow

LEMMA AfterFailureType ==
  ASSUME NEW row \in UserRow, now \in Nat
  PROVE  /\ AfterFailure(row).failed \in 0..MaxAttempts
         /\ AfterFailure(row).lockedUntil \in Nat \cup {None}
  BY ConstantsAssumption DEF AfterFailure, UserRow

-----------------------------------------------------------------------------
\* The type invariant, action by action.

LEMMA TypeInit == Init => TypeInv
  <1> SUFFICES ASSUME Init PROVE TypeInv
    OBVIOUS
  <1>1. user \in [User -> UserRow]
    BY ConstantsAssumption DEF Init, NewUser, UserRow
  <1>2. req \in [Worker -> Request] /\ FieldsOK
    BY IdleType DEF Init, FieldsOK, InHand, Idle, BeforeCreate
  <1> QED
    BY <1>1, <1>2 DEF Init, TypeInv, TypeOK

LEMMA TypeAsk ==
  ASSUME TypeInv, NEW w \in Worker, Ask(w)
  PROVE  TypeInv'
  <1> USE DEF TypeInv, TypeOK
  <1>1. ASSUME NEW request \in Request, Receive(w, request),
               request.at \in {"login_read", "refresh_read", "logout", "guard_user"},
               request.at = "login_read" => request.user \in User,
               request.at = "guard_user" => request.op \in Guarded
        PROVE  TypeInv'
    BY <1>1 DEF Receive, FieldsOK, InHand, BeforeCreate
  <1>2. ASSUME NEW u \in User, ReceiveLogin(w, u) PROVE TypeInv'
    <2> DEFINE request == [Idle EXCEPT !.at = "login_read", !.user = u]
    <2>1. request \in Request /\ request.at = "login_read" /\ request.user = u
      BY DEF Idle, Request, Pending
    <2> QED BY <1>1, <1>2, <2>1 DEF ReceiveLogin
  <1>3. ASSUME NEW t \in held, ReceiveRefresh(w, t) PROVE TypeInv'
    <2> DEFINE request == [Idle EXCEPT !.at = "refresh_read", !.token = t]
    <2>1. request \in Request /\ request.at = "refresh_read"
      BY DEF Idle, Request, Pending
    <2> QED BY <1>1, <1>3, <2>1 DEF ReceiveRefresh
  <1>4. ASSUME NEW t \in held, ReceiveLogout(w, t) PROVE TypeInv'
    <2> DEFINE request == [Idle EXCEPT !.at = "logout", !.token = t]
    <2>1. request \in Request /\ request.at = "logout"
      BY DEF Idle, Request, Pending
    <2> QED BY <1>1, <1>4, <2>1 DEF ReceiveLogout
  <1>5. ASSUME NEW t \in held, NEW op \in Guarded, NEW target \in Sid \cup {None},
               ReceiveGuarded(w, t, op, target)
        PROVE  TypeInv'
    <2> DEFINE request == [Idle EXCEPT !.at = "guard_user", !.token = t, !.op = op,
                                       !.target = target]
    <2>1. request \in Request /\ request.at = "guard_user" /\ request.op = op
      BY DEF Idle, Request, Pending
    <2> QED BY <1>1, <1>5, <2>1 DEF ReceiveGuarded
  <1> QED
    BY <1>2, <1>3, <1>4, <1>5 DEF Ask, Guarded

LEMMA TypeLogin ==
  ASSUME TypeInv, NEW w \in Worker,
         \/ LoginRead(w) \/ LoginClearLock(w) \/ LoginRefused(w) \/ LoginWrong(w)
         \/ LoginPurge(w) \/ LoginList(w) \/ LoginEvict(w) \/ LoginReset(w)
         \/ \E s \in Sid : LoginCreate(w, s)
  PROVE  TypeInv'
  <1> USE DEF TypeInv, TypeOK
  <1>0. req[w] \in Request /\ InHand(req[w]) /\ req \in [Worker -> Request]
    BY DEF FieldsOK
  <1>1. CASE LoginRead(w)
    <2> DEFINE r == [req[w] EXCEPT !.at = "login_check", !.row = user[req[w].user]]
    <2>1. user[req[w].user] \in UserRow
      BY <1>0, <1>1 DEF LoginRead, InHand, BeforeCreate
    <2>2. r \in Request /\ InHand(r)
      BY <1>0, <1>1, <2>1 DEF LoginRead, InHand, BeforeCreate, Request, Pending
    <2>3. req' = [req EXCEPT ![w] = r]
      BY <1>0, <1>1 DEF LoginRead
    <2> HIDE DEF r
    <2> QED BY <1>1, <2>2, <2>3, HandType DEF LoginRead
  <1>2. CASE LoginClearLock(w)
    <2> DEFINE r == [req[w] EXCEPT !.row = Unlocked(@)]
    <2>1. req[w].user \in User /\ Unlocked(req[w].row) \in UserRow
      BY <1>0, <1>2, UnlockedType DEF LoginClearLock, InHand, BeforeCreate
    <2>2. r \in Request /\ InHand(r)
      BY <1>0, <1>2, <2>1 DEF LoginClearLock, InHand, BeforeCreate, Request
    <2>3. req' = [req EXCEPT ![w] = r]
      BY <1>0, <1>2 DEF LoginClearLock
    <2>4. user' \in [User -> UserRow]
      BY <1>2, <2>1, UnlockedType DEF LoginClearLock
    <2> HIDE DEF r
    <2> QED BY <1>2, <2>2, <2>3, <2>4, HandType DEF LoginClearLock
  <1>3. CASE LoginRefused(w)
    BY <1>3, AnswerType DEF LoginRefused, Answers
  <1>4. CASE LoginWrong(w)
    <2>1. user' \in [User -> UserRow]
      <3>1. req[w].user \in User /\ req[w].row \in UserRow
        BY <1>0, <1>4 DEF LoginWrong, InHand, BeforeCreate
      <3> DEFINE after == AfterFailure(req[w].row)
      <3>2. after.failed \in 0..MaxAttempts /\ after.lockedUntil \in Nat \cup {None}
        BY <3>1, AfterFailureType
      <3>3. user' = [user EXCEPT ![req[w].user].failed = after.failed,
                                 ![req[w].user].lockedUntil = after.lockedUntil]
        BY <1>4 DEF LoginWrong
      <3> HIDE DEF after
      <3> QED BY <3>1, <3>2, <3>3 DEF UserRow
    <2> QED BY <1>4, <2>1, AnswerType DEF LoginWrong, Answers
  <1>5. CASE LoginPurge(w)
    <2> DEFINE r == [req[w] EXCEPT !.at = "login_list", !.row = None, !.now = now]
    <2>1. DOMAIN session' \subseteq opened' /\ session' \in [DOMAIN session' -> SessionRow]
      BY <1>5 DEF LoginPurge
    <2>2. r \in Request /\ InHand(r)
      BY <1>0, <1>5 DEF LoginPurge, InHand, BeforeCreate, Request, Pending
    <2>3. req' = [req EXCEPT ![w] = r]
      BY <1>0, <1>5 DEF LoginPurge
    <2> HIDE DEF r
    <2> QED BY <1>5, <2>1, <2>2, <2>3, HandType DEF LoginPurge
  <1>6. CASE LoginList(w)
    <2>1. PICK victims \in Overflow(LiveOf(req[w].user, req[w].now)) :
             req' = [req EXCEPT ![w].victims = victims,
                                ![w].at = IF victims = {} THEN "login_create" ELSE "login_evict"]
      BY <1>6 DEF LoginList
    <2> DEFINE at == IF victims = {} THEN "login_create" ELSE "login_evict"
               r == [req[w] EXCEPT !.victims = victims, !.at = at]
    <2>2. victims \subseteq Sid
      BY <2>1 DEF Overflow, LiveOf, SessionsOf
    <2>3. at \in {"login_create", "login_evict"}
      OBVIOUS
    <2>4. req' = [req EXCEPT ![w] = r]
      BY <1>0, <2>1
    <2> HIDE DEF at
    <2>5. r \in Request /\ InHand(r)
      BY <1>0, <1>6, <2>2, <2>3 DEF LoginList, InHand, BeforeCreate, Request, Pending
    <2> HIDE DEF r
    <2> QED BY <1>6, <2>4, <2>5, HandType DEF LoginList
  <1>7. CASE LoginEvict(w)
    <2> DEFINE r == [req[w] EXCEPT !.at = "login_create", !.victims = {}]
    <2>1. r \in Request /\ InHand(r)
      BY <1>0, <1>7 DEF LoginEvict, InHand, BeforeCreate, Request, Pending
    <2>2. req' = [req EXCEPT ![w] = r]
      BY <1>0, <1>7 DEF LoginEvict
    <2> HIDE DEF r
    <2> QED BY <1>7, <2>1, <2>2, HandType, RevokeAllType DEF LoginEvict
  <1>8. ASSUME NEW s \in Sid, LoginCreate(w, s) PROVE TypeInv'
    <2> DEFINE t == [user |-> req[w].user, sid |-> s, iat |-> req[w].now]
               r == [req[w] EXCEPT !.at = "login_reset", !.token = t]
               row == [user |-> req[w].user, token |-> req[w].now, last |-> req[w].now,
                       expires |-> req[w].now + RefreshTTL, revoked |-> FALSE]
    <2>1. req[w].user \in User /\ req[w].now \in Nat
      BY <1>0, <1>8 DEF LoginCreate, InHand, BeforeCreate, Request
    <2>2. row \in SessionRow /\ t \in Token
      BY <2>1, ConstantsAssumption DEF SessionRow, Token
    <2>3. session' = [i \in DOMAIN session \cup {s} |-> IF i = s THEN row ELSE session[i]]
      BY <1>8 DEF LoginCreate
    <2>4. req' = [req EXCEPT ![w] = r]
      BY <1>0, <1>8 DEF LoginCreate
    <2>o. opened' = opened \cup {s}
      BY <1>8 DEF LoginCreate
    <2> HIDE DEF row, t
    <2>5. DOMAIN session' \subseteq opened' /\ session' \in [DOMAIN session' -> SessionRow]
      <3>1. DOMAIN session' = DOMAIN session \cup {s}
        BY <2>3
      <3>2. \A i \in DOMAIN session' : session'[i] \in SessionRow
        BY <2>2, <2>3, <3>1
      <3>3. session' = [i \in DOMAIN session' |-> session'[i]]
        BY <2>3
      <3> QED BY <2>o, <3>1, <3>2, <3>3
    <2>6. r \in Request /\ InHand(r)
      BY <1>0, <2>1, <2>2 DEF InHand, BeforeCreate, Request, Pending
    <2> HIDE DEF r
    <2> QED BY <1>8, <2>4, <2>5, <2>6, HandType DEF LoginCreate
  <1>9. CASE LoginReset(w)
    <2>1. user' \in [User -> UserRow]
      BY <1>0, <1>9, UnlockedType DEF LoginReset, InHand
    <2>2. req[w].token \in Token
      BY <1>0, <1>9 DEF LoginReset, InHand
    <2> QED BY <1>9, <2>1, <2>2, AnswerTokenType DEF LoginReset
  <1> QED
    BY <1>1, <1>2, <1>3, <1>4, <1>5, <1>6, <1>7, <1>8, <1>9

LEMMA TypeRefresh ==
  ASSUME TypeInv, NEW w \in Worker,
         RefreshRead(w) \/ RefreshRevoke(w) \/ RefreshUser(w) \/ RefreshWrite(w)
  PROVE  TypeInv'
  <1> USE DEF TypeInv, TypeOK
  <1>1. CASE RefreshRead(w)
    <2>1. CASE Answer(w, "unauthorized")
      BY <1>1, <2>1, AnswerType DEF RefreshRead, Answers
    <2>2. CASE ~Answer(w, "unauthorized")
      <3>1. req[w].token \in Token
        BY <1>1, <2>2 DEF RefreshRead, RefreshValid, Request
      <3> QED
        BY <1>1, <2>2, <3>1 DEF RefreshRead, FieldsOK, InHand, BeforeCreate, Request, Pending
    <2> QED BY <2>1, <2>2
  <1>2. CASE RefreshRevoke(w)
    BY <1>2, AnswerType, RevokeAllType DEF RefreshRevoke, Answers
  <1>3. CASE RefreshUser(w)
    <2>1. CASE Answer(w, "unauthorized")
      BY <1>3, <2>1, AnswerType DEF RefreshUser, Answers
    <2>2. CASE ~Answer(w, "unauthorized")
      <3>1. req[w].token \in Token
        BY <1>3 DEF RefreshUser, FieldsOK, InHand
      <3>2. [req[w].token EXCEPT !.iat = now] \in Token
        BY <3>1 DEF Token
      <3>3. req' = [req EXCEPT ![w].at = "refresh_write", ![w].token.iat = now]
        BY <1>3, <2>2 DEF RefreshUser
      <3> DEFINE t == [req[w].token EXCEPT !.iat = now]
                 r == [req[w] EXCEPT !.at = "refresh_write", !.token = t]
      <3>4. req' = [req EXCEPT ![w] = r]
        BY <3>3
      <3> HIDE DEF t
      <3>5. r \in Request /\ InHand(r)
        BY <3>2 DEF t, InHand, BeforeCreate, Request, Pending
      <3> HIDE DEF r
      <3> QED BY <1>3, <3>4, <3>5, HandType DEF RefreshUser
    <2> QED BY <2>1, <2>2
  <1>4. CASE RefreshWrite(w)
    <2>1. req[w].token \in Token /\ req[w].now \in Nat
      BY <1>4 DEF RefreshWrite, FieldsOK, InHand, Request
    <2>2. CASE req[w].token.sid \in DOMAIN session
      <3>1. DOMAIN session' = DOMAIN session /\ session' \in [DOMAIN session' -> SessionRow]
        BY <1>4, <2>1, <2>2, ConstantsAssumption DEF RefreshWrite, Token, SessionRow
      <3> QED BY <1>4, <2>1, <2>2, <3>1, AnswerTokenType DEF RefreshWrite
    <2>3. CASE req[w].token.sid \notin DOMAIN session
      BY <1>4, <2>3, AnswerType DEF RefreshWrite, Answers
    <2> QED BY <2>2, <2>3
  <1> QED
    BY <1>1, <1>2, <1>3, <1>4

LEMMA TypeGuarded ==
  ASSUME TypeInv, NEW w \in Worker,
         Logout(w) \/ GuardUser(w) \/ GuardSession(w) \/ RevokeOne(w) \/ RevokeOthers(w)
  PROVE  TypeInv'
  <1> USE DEF TypeInv, TypeOK
  <1>1. CASE Logout(w)
    BY <1>1, AnswerType, RevokeAllType DEF Logout, Answers
  <1>2. CASE GuardUser(w)
    <2>1. CASE Answer(w, "unauthorized")
      BY <1>2, <2>1, AnswerType DEF GuardUser, Answers
    <2>2. CASE ~Answer(w, "unauthorized")
      <3>1. req[w].token \in Token
        BY <1>2, <2>2 DEF GuardUser, AccessValid, Request
      <3> QED
        BY <1>2, <2>2, <3>1 DEF GuardUser, Become, FieldsOK, InHand, BeforeCreate, Request, Pending
    <2> QED BY <2>1, <2>2
  <1>3. CASE GuardSession(w)
    <2>1. CASE Answer(w, "unauthorized") \/ Answer(w, "ok")
      BY <1>3, <2>1, AnswerType DEF GuardSession, Answers
    <2>2. CASE Become(w, req[w].op) /\ req[w].op \in {"revoke", "revoke_others"}
      BY <1>3, <2>2 DEF GuardSession, Become, FieldsOK, InHand, BeforeCreate, Request, Pending
    <2> QED BY <1>3, <2>1, <2>2 DEF GuardSession, FieldsOK, InHand, Guarded
  <1>4. CASE RevokeOne(w)
    <2> DEFINE found == {s \in SessionsOf(req[w].token.user) \cap {req[w].target} :
                            ~session[s].revoked}
    <2>1. RevokeAll(found) /\ (Answer(w, "unauthorized") \/ Answer(w, "ok"))
      BY <1>4 DEF RevokeOne
    <2> QED BY <1>4, <2>1, AnswerType, RevokeAllType DEF RevokeOne, Answers
  <1>5. CASE RevokeOthers(w)
    BY <1>5, AnswerType, RevokeAllType DEF RevokeOthers, Answers
  <1> QED
    BY <1>1, <1>2, <1>3, <1>4, <1>5

LEMMA TypeStep == TypeInv /\ [Next]_vars => TypeInv'
  <1> SUFFICES ASSUME TypeInv, [Next]_vars PROVE TypeInv'
    OBVIOUS
  <1>1. ASSUME NEW w \in Worker, Step(w) PROVE TypeInv'
    BY <1>1, TypeLogin, TypeRefresh, TypeGuarded DEF Step
  <1>2. ASSUME NEW w \in Worker, Collect(w) \/ Drop(w) PROVE TypeInv'
    BY <1>2, IdleType DEF Collect, Drop, TypeInv, TypeOK, FieldsOK, InHand, Idle, BeforeCreate, Request
  <1>3. ASSUME NEW w \in Worker, Fail(w) PROVE TypeInv'
    BY <1>3, AnswerType DEF Fail, TypeInv, TypeOK, Answers
  <1>4. ASSUME NEW u \in User, NEW active \in BOOLEAN, SetActive(u, active) PROVE TypeInv'
    <2>1. user' \in [User -> UserRow]
      BY <1>4 DEF SetActive, TypeInv, TypeOK, UserRow
    <2> QED BY <1>4, <2>1 DEF SetActive, TypeInv, TypeOK, FieldsOK, InHand
  <1>5. CASE Tick
    BY <1>5 DEF Tick, TypeInv, TypeOK, FieldsOK, InHand
  <1>6. CASE UNCHANGED vars
    BY <1>6 DEF vars, TypeInv, TypeOK, FieldsOK, InHand
  <1> QED
    BY <1>1, <1>2, <1>3, <1>4, <1>5, <1>6, TypeAsk DEF Next

LEMMA TypeInvariant == Spec => []TypeInv
  <1> QED
    BY TypeInit, TypeStep, PTL DEF Spec

\* Tables, requests and the tokens of clients always have their types.
THEOREM TypeCorrect == Spec => []TypeOK
  <1>1. TypeInv => TypeOK
    BY DEF TypeInv
  <1> QED
    BY <1>1, TypeInvariant, PTL

-----------------------------------------------------------------------------
\* The server implements SessionLife.  Whatever leaves or closes sessions, and
\* rewrites none of those that stay open, is SessionLife's Close (or nothing).

LEMMA CloseStep ==
  ASSUME TypeOK, UNCHANGED opened, DOMAIN session' \subseteq DOMAIN session,
         \A s \in DOMAIN session' :
            /\ session'[s].token = session[s].token
            /\ session'[s].user = session[s].user
            /\ session[s].revoked => session'[s].revoked
  PROVE  Life!Next
  <1>0. PICK ids : ids = OpenSessions \ OpenSessions'
    OBVIOUS
  <1>1. OpenSessions' \subseteq OpenSessions /\ OpenSessions' \subseteq DOMAIN session'
    BY DEF OpenSessions
  <1>2. OpenSessions \subseteq opened
    BY DEF OpenSessions, TypeOK
  <1>3. OpenSessions' = OpenSessions \ ids /\ ids \in SUBSET OpenSessions
    BY <1>0, <1>1
  <1>4. (opened \ OpenSessions)' = (opened \ OpenSessions) \cup ids
    BY <1>0, <1>1, <1>2
  <1>5. [s \in OpenSessions |-> session[s].token]'
          = [i \in OpenSessions' |-> [s \in OpenSessions |-> session[s].token][i]]
    BY <1>1
  <1>6. [s \in OpenSessions |-> session[s].user]'
          = [i \in OpenSessions' |-> [s \in OpenSessions |-> session[s].user][i]]
    BY <1>1
  <1>7. Life!Close(ids)
    BY <1>3, <1>4, <1>5, <1>6 DEF Life!Close
  <1> QED
    BY <1>3, <1>7 DEF Life!Next

LEMMA OpenStep ==
  ASSUME TypeInv, NEW w \in Worker, NEW s \in Sid, LoginCreate(w, s), TypeOK'
  PROVE  Life!Next
  <1>1. /\ s \in Sid \ opened /\ opened' = opened \cup {s}
        /\ DOMAIN session' = DOMAIN session \cup {s} /\ ~session'[s].revoked
        /\ \A i \in DOMAIN session : i # s => session'[i] = session[i]
    BY DEF LoginCreate
  <1>2. DOMAIN session \subseteq opened /\ OpenSessions \subseteq DOMAIN session
    BY DEF OpenSessions, TypeInv, TypeOK
  <1>3. OpenSessions' = OpenSessions \cup {s}
    BY <1>1, <1>2 DEF OpenSessions
  <1>4. (opened \ OpenSessions)' = opened \ OpenSessions
    BY <1>1, <1>2, <1>3
  <1>5. /\ [i \in OpenSessions |-> session[i].token]' \in [OpenSessions' -> Nat]
        /\ [i \in OpenSessions |-> session[i].user]' \in [OpenSessions' -> User]
    <2>1. \A i \in OpenSessions' : session'[i].token \in Nat /\ session'[i].user \in User
      BY DEF OpenSessions, TypeOK, SessionRow
    <2> QED BY <2>1
  <1>6. \A i \in OpenSessions :
           /\ [j \in OpenSessions |-> session[j].token]'[i]
                 = [j \in OpenSessions |-> session[j].token][i]
           /\ [j \in OpenSessions |-> session[j].user]'[i]
                 = [j \in OpenSessions |-> session[j].user][i]
    BY <1>1, <1>2, <1>3
  <1>7. s \in Sid \ (OpenSessions \cup (opened \ OpenSessions))
    BY <1>1, <1>2
  <1>8. Life!Open(s)
    BY <1>3, <1>4, <1>5, <1>6, <1>7 DEF Life!Open
  <1> QED
    BY <1>8 DEF Life!Next

\* The row that a refresh updates may have been revoked, or deleted, meanwhile.
LEMMA RotateStep ==
  ASSUME TypeInv, NEW w \in Worker, RefreshWrite(w), TypeOK'
  PROVE  [Life!Next]_Life!vars
  <1> DEFINE t == req[w].token
  <1>s. PICK sid : sid = t.sid
    OBVIOUS
  <1>0. UNCHANGED opened
    BY DEF RefreshWrite
  <1>1. CASE t.sid \notin DOMAIN session
    <2>1. UNCHANGED session
      BY <1>1 DEF RefreshWrite
    <2> QED BY <1>0, <2>1, CloseStep DEF TypeInv
  <1>2. CASE t.sid \in DOMAIN session
    <2>1. session' = [session EXCEPT ![t.sid].token = t.iat, ![t.sid].last = req[w].now,
                                     ![t.sid].expires = now + RefreshTTL]
      BY <1>2 DEF RefreshWrite
    <2>2. /\ DOMAIN session' = DOMAIN session
          /\ \A i \in DOMAIN session : i # t.sid => session'[i] = session[i]
          /\ \A i \in DOMAIN session : /\ session'[i].user = session[i].user
                                        /\ session'[i].revoked = session[i].revoked
      BY <1>2, <2>1 DEF TypeInv, TypeOK, SessionRow
    <2>3. OpenSessions' = OpenSessions
      BY <2>2 DEF OpenSessions
    <2>4. (opened \ OpenSessions)' = opened \ OpenSessions
      BY <1>0, <2>3
    <2>5. [i \in OpenSessions |-> session[i].user]' = [i \in OpenSessions |-> session[i].user]
      BY <2>2, <2>3 DEF OpenSessions
    <2>6. \A i \in OpenSessions \ {t.sid} :
             [j \in OpenSessions |-> session[j].token]'[i]
               = [j \in OpenSessions |-> session[j].token][i]
      BY <2>2, <2>3 DEF OpenSessions
    <2>7. CASE t.sid \in OpenSessions
      <3>1. [i \in OpenSessions |-> session[i].token]' \in [OpenSessions -> Nat]
        <4>1. \A i \in OpenSessions' : session'[i].token \in Nat
          BY DEF OpenSessions, TypeOK, SessionRow
        <4> QED BY <2>3, <4>1
      <3>2. Life!Rotate(sid)
        BY <2>3, <2>4, <2>5, <2>6, <2>7, <3>1, <1>s DEF Life!Rotate
      <3>3. sid \in Sid
        BY <1>2, <1>s DEF TypeInv, TypeOK
      <3> QED BY <3>2, <3>3 DEF Life!Next
    <2>8. CASE t.sid \notin OpenSessions
      <3>1. [i \in OpenSessions |-> session[i].token]' = [i \in OpenSessions |-> session[i].token]
        BY <2>3, <2>6, <2>8
      <3> QED BY <2>3, <2>4, <2>5, <3>1 DEF Life!vars
    <2> QED BY <2>7, <2>8
  <1> QED
    BY <1>1, <1>2

\* revokedAt is set, never cleared, by whatever calls updateMany.
LEMMA RevokeStep ==
  ASSUME TypeOK, NEW ids, RevokeAll(ids), UNCHANGED opened
  PROVE  Life!Next
  <1>1. /\ DOMAIN session' = DOMAIN session
        /\ \A s \in DOMAIN session' :
              /\ session'[s].token = session[s].token
              /\ session'[s].user = session[s].user
              /\ session[s].revoked => session'[s].revoked
    BY RevokeAllType
  <1> QED
    BY <1>1, CloseStep

LEMMA LifeInit == Init => Life!Init
  BY DEF Init, Life!Init, OpenSessions

LEMMA LifeStep ==
  ASSUME TypeInv, TypeInv', [Next]_vars
  PROVE  [Life!Next]_Life!vars
  <1> USE DEF TypeInv
  <1>1. CASE UNCHANGED <<session, opened>>
    BY <1>1, CloseStep
  <1>2. ASSUME NEW w \in Worker, Step(w) PROVE [Life!Next]_Life!vars
    <2>1. CASE LoginPurge(w)
      <3>1. UNCHANGED opened /\ DOMAIN session' \subseteq DOMAIN session
            /\ \A s \in DOMAIN session' : session'[s] = session[s]
        BY <2>1 DEF LoginPurge
      <3> QED BY <3>1, CloseStep
    <2>2. ASSUME NEW s \in Sid, LoginCreate(w, s) PROVE Life!Next
      BY <2>2, OpenStep
    <2>3. CASE RefreshWrite(w)
      BY <2>3, RotateStep
    <2>4. CASE LoginEvict(w)
      BY <2>4, RevokeStep DEF LoginEvict
    <2>5. CASE RefreshRevoke(w)
      BY <2>5, RevokeStep DEF RefreshRevoke
    <2>6. CASE Logout(w)
      BY <2>6, RevokeStep DEF Logout
    <2>7. CASE RevokeOne(w)
      <3>1. UNCHANGED opened /\ \E ids : RevokeAll(ids)
        BY <2>7 DEF RevokeOne
      <3> QED BY <3>1, RevokeStep
    <2>8. CASE RevokeOthers(w)
      BY <2>8, RevokeStep DEF RevokeOthers
    <2>9. CASE \/ LoginRead(w) \/ LoginClearLock(w) \/ LoginRefused(w) \/ LoginWrong(w)
               \/ LoginList(w) \/ LoginReset(w) \/ RefreshRead(w) \/ RefreshUser(w)
               \/ GuardUser(w) \/ GuardSession(w)
      BY <1>1, <2>9 DEF LoginRead, LoginClearLock, LoginRefused, LoginWrong, LoginList,
                        LoginReset, RefreshRead, RefreshUser, GuardUser, GuardSession
    <2> QED
      BY <1>2, <2>1, <2>2, <2>3, <2>4, <2>5, <2>6, <2>7, <2>8, <2>9 DEF Step
  <1>3. ASSUME NEW w \in Worker, Ask(w) \/ Collect(w) \/ Drop(w) \/ Fail(w)
        PROVE  [Life!Next]_Life!vars
    <2>1. UNCHANGED <<session, opened>>
      BY <1>3 DEF Ask, ReceiveLogin, ReceiveRefresh, ReceiveLogout, ReceiveGuarded, Receive,
                  Collect, Drop, Fail
    <2> QED BY <1>1, <2>1
  <1>4. ASSUME NEW u \in User, NEW active \in BOOLEAN, SetActive(u, active)
        PROVE  [Life!Next]_Life!vars
    BY <1>1, <1>4 DEF SetActive
  <1>5. CASE Tick
    BY <1>1, <1>5 DEF Tick
  <1>6. CASE UNCHANGED vars
    BY <1>1, <1>6 DEF vars
  <1> QED
    BY <1>2, <1>3, <1>4, <1>5, <1>6 DEF Next

\* Whatever overlaps and fails, a session is opened once, for one user, accepts
\* one refresh token at a time, and once closed (evicted, revoked, logged out,
\* replayed or deleted) accepts none: the unconditional update at the end of
\* refreshByToken reopens nothing.
THEOREM Implements == Spec => ClosedForGood
  <1>1. TypeInv /\ TypeInv' /\ [Next]_vars => [Life!Next]_Life!vars
    BY LifeStep
  <1> QED
    BY <1>1, LifeInit, TypeInvariant, PTL DEF Spec, ClosedForGood, Life!Spec

-----------------------------------------------------------------------------
(***************************************************************************)
(* The bound on live sessions.  A session may be used while it is not      *)
(* revoked and has not expired, or a refresh that found it in time is      *)
(* about to prolong it.  Only a login adds one.                            *)
(***************************************************************************)
AtRefresh == {"refresh_user", "refresh_write"}
AtLogin == {"login_list", "login_evict", "login_create"}

Refreshing(s) == \E w \in Worker : req[w].at \in AtRefresh /\ req[w].token.sid = s
Usable(u) ==
    {s \in SessionsOf(u) : ~session[s].revoked /\ (session[s].expires > now \/ Refreshing(s))}

\* What the login lists is all that may still be used: the rest was purged.
Listed(w) ==
    req[w].at = "login_list" =>
        /\ req[w].now <= now
        /\ \A s \in Usable(req[w].user) : session[s].expires > req[w].now
RefreshKnown(w) == req[w].at \in AtRefresh => req[w].token.sid \in opened

ListInv == TypeInv /\ \A w \in Worker : Listed(w) /\ RefreshKnown(w)

\* One request moves: where it can get to.
Moves(w) ==
    /\ \A v \in Worker \ {w} : req'[v] = req[v]
    /\ req'[w].at \in AtLogin => LoginPurge(w) \/ LoginList(w) \/ LoginEvict(w)
    /\ req'[w].at \in AtRefresh =>
          /\ req'[w].token.sid = req[w].token.sid
          /\ \/ req[w].at \in AtRefresh
             \/ /\ req[w].token.sid \in DOMAIN session
                /\ session[req[w].token.sid].expires > now

LEMMA AnswerMoves ==
  ASSUME TypeInv, NEW w \in Worker, NEW at \in Answers, Answer(w, at)
  PROVE  Moves(w) /\ req'[w].at = at /\ req'[w].token = None
  BY DEF Answer, Answers, Idle, TypeInv, TypeOK, Moves, AtLogin, AtRefresh

LEMMA AnswerTokenMoves ==
  ASSUME TypeInv, NEW w \in Worker, NEW t, AnswerToken(w, t)
  PROVE  Moves(w) /\ req'[w].at = "ok" /\ req'[w].token = t
  BY DEF AnswerToken, Idle, TypeInv, TypeOK, Moves, AtLogin, AtRefresh

LEMMA WorkerMoves ==
  ASSUME TypeInv, NEW w \in Worker, Ask(w) \/ Step(w) \/ Collect(w) \/ Drop(w) \/ Fail(w)
  PROVE  Moves(w)
  <1> USE DEF TypeInv, TypeOK
  <1>1. CASE Ask(w)
    <2>1. ASSUME NEW request, Receive(w, request),
                 request.at \in {"login_read", "refresh_read", "logout", "guard_user"}
          PROVE  Moves(w)
      BY <2>1 DEF Receive, Moves, AtLogin, AtRefresh
    <2> QED
      BY <1>1, <2>1 DEF Ask, ReceiveLogin, ReceiveRefresh, ReceiveLogout, ReceiveGuarded, Idle
  <1>2. CASE Collect(w) \/ Drop(w)
    BY <1>2 DEF Collect, Drop, Idle, Moves, AtLogin, AtRefresh
  <1>3. CASE Fail(w)
    BY <1>3, AnswerMoves DEF Fail, Answers
  <1>4. CASE LoginRead(w) \/ LoginClearLock(w)
    BY <1>4 DEF LoginRead, LoginClearLock, Request, Moves, AtLogin, AtRefresh
  <1>5. CASE LoginPurge(w) \/ LoginEvict(w)
    BY <1>5 DEF LoginPurge, LoginEvict, Request, Moves, AtLogin, AtRefresh
  <1>6. CASE LoginList(w)
    BY <1>6 DEF LoginList, Request, Moves, AtLogin, AtRefresh
  <1>7. ASSUME NEW s \in Sid, LoginCreate(w, s) PROVE Moves(w)
    BY <1>7 DEF LoginCreate, Request, Moves, AtLogin, AtRefresh
  <1>8. CASE LoginReset(w)
    BY <1>8, AnswerTokenMoves DEF LoginReset
  <1>9. CASE RefreshRead(w)
    <2>1. CASE Answer(w, "unauthorized")
      BY <2>1, AnswerMoves DEF Answers
    <2>2. CASE ~Answer(w, "unauthorized")
      BY <1>9, <2>2 DEF RefreshRead, Live, Request, Moves, AtLogin, AtRefresh
    <2> QED BY <2>1, <2>2
  <1>10. CASE RefreshUser(w)
    <2>1. CASE Answer(w, "unauthorized")
      BY <2>1, AnswerMoves DEF Answers
    <2>2. CASE ~Answer(w, "unauthorized")
      <3>1. req[w].token \in Token
        BY <1>10 DEF RefreshUser, FieldsOK, InHand
      <3>2. req' = [req EXCEPT ![w].at = "refresh_write", ![w].token.iat = now]
        BY <1>10, <2>2 DEF RefreshUser
      <3> QED
        BY <1>10, <3>1, <3>2 DEF RefreshUser, Request, Token, Moves, AtLogin, AtRefresh
    <2> QED BY <2>1, <2>2
  <1>11. CASE RefreshWrite(w)
    BY <1>11, AnswerMoves, AnswerTokenMoves DEF RefreshWrite, Answers
  <1>12. CASE \/ LoginRefused(w) \/ LoginWrong(w) \/ RefreshRevoke(w) \/ Logout(w)
              \/ RevokeOne(w) \/ RevokeOthers(w)
    <2>1. \E at \in Answers : Answer(w, at)
      BY <1>12 DEF LoginRefused, LoginWrong, RefreshRevoke, Logout, RevokeOne, RevokeOthers, Answers
    <2> QED BY <2>1, AnswerMoves
  <1>13. CASE GuardUser(w) \/ GuardSession(w)
    <2>1. \/ \E at \in Answers : Answer(w, at)
          \/ \E at \in {"guard_session", "revoke", "revoke_others"} : Become(w, at)
      BY <1>13 DEF GuardUser, GuardSession, FieldsOK, InHand, Guarded, Answers
    <2>2. ASSUME NEW at \in {"guard_session", "revoke", "revoke_others"}, Become(w, at)
          PROVE  Moves(w)
      BY <2>2 DEF Become, Request, Moves, AtLogin, AtRefresh
    <2> QED BY <2>1, <2>2, AnswerMoves
  <1> QED
    BY <1>1, <1>2, <1>3, <1>4, <1>5, <1>6, <1>7, <1>8, <1>9, <1>10, <1>11, <1>12, <1>13 DEF Step

-----------------------------------------------------------------------------
\* What a step leaves of the sessions: only a login adds one, and only a
\* refresh that is on its way prolongs one.
Lasting(s) ==
    /\ s \in DOMAIN session
    /\ session'[s].user = session[s].user
    /\ session[s].revoked => session'[s].revoked
    /\ \/ session'[s].expires = session[s].expires
       \/ Refreshing(s) /\ session'[s].expires > now

LEMMA RevokeLasts ==
  ASSUME TypeInv, NEW ids, RevokeAll(ids)
  PROVE  \A s \in DOMAIN session' : Lasting(s)
  BY DEF RevokeAll, Lasting, TypeInv, TypeOK, SessionRow

LEMMA SessionsLast ==
  ASSUME TypeInv, [Next]_vars
  PROVE  \/ \E w \in Worker, s \in Sid : LoginCreate(w, s)
         \/ \A s \in DOMAIN session' : Lasting(s)
  <1> DEFINE Last == \A s \in DOMAIN session' : Lasting(s)
  <1>1. ASSUME UNCHANGED session PROVE Last
    BY <1>1 DEF Lasting
  <1>2. ASSUME NEW w \in Worker, LoginPurge(w) PROVE Last
    BY <1>2 DEF LoginPurge, Lasting
  <1>3. ASSUME NEW w \in Worker, RefreshWrite(w) PROVE Last
    <2>1. CASE req[w].token.sid \notin DOMAIN session
      BY <1>1, <1>3, <2>1 DEF RefreshWrite
    <2>2. CASE req[w].token.sid \in DOMAIN session
      <3>1. Refreshing(req[w].token.sid)
        BY <1>3 DEF RefreshWrite, Refreshing, AtRefresh
      <3>2. now + RefreshTTL > now
        BY ConstantsAssumption DEF TypeInv, TypeOK
      <3> PICK sid : sid = req[w].token.sid
        OBVIOUS
      <3>3. /\ DOMAIN session' = DOMAIN session
            /\ \A s \in DOMAIN session \ {sid} : session'[s] = session[s]
            /\ session'[sid].user = session[sid].user
            /\ session'[sid].revoked = session[sid].revoked
            /\ session'[sid].expires = now + RefreshTTL
        <4>1. session' = [session EXCEPT ![sid].token = req[w].token.iat, ![sid].last = req[w].now,
                                         ![sid].expires = now + RefreshTTL]
          BY <1>3, <2>2 DEF RefreshWrite
        <4>2. session = [s \in DOMAIN session |-> session[s]] /\ session[sid] \in SessionRow
          BY <2>2 DEF TypeInv, TypeOK
        <4> QED BY <2>2, <4>1, <4>2 DEF SessionRow
      <3>4. ASSUME NEW s \in DOMAIN session', s # sid PROVE Lasting(s)
        BY <3>3, <3>4 DEF Lasting
      <3>5. Lasting(sid)
        BY <2>2, <3>1, <3>2, <3>3 DEF Lasting
      <3> QED
        BY <3>4, <3>5
    <2> QED BY <2>1, <2>2
  <1>4. ASSUME NEW w \in Worker,
               LoginEvict(w) \/ RefreshRevoke(w) \/ Logout(w) \/ RevokeOne(w) \/ RevokeOthers(w)
        PROVE  Last
    <2>1. \E ids : RevokeAll(ids)
      BY <1>4 DEF LoginEvict, RefreshRevoke, Logout, RevokeOne, RevokeOthers
    <2> QED BY <2>1, RevokeLasts
  <1>5. ASSUME NEW w \in Worker, Ask(w) \/ Collect(w) \/ Drop(w) \/ Fail(w) PROVE UNCHANGED session
    BY <1>5 DEF Ask, ReceiveLogin, ReceiveRefresh, ReceiveLogout, ReceiveGuarded, Receive,
                Collect, Drop, Fail
  <1>6. ASSUME NEW w \in Worker,
               \/ LoginRead(w) \/ LoginClearLock(w) \/ LoginRefused(w) \/ LoginWrong(w)
               \/ LoginList(w) \/ LoginReset(w) \/ RefreshRead(w) \/ RefreshUser(w)
               \/ GuardUser(w) \/ GuardSession(w)
        PROVE  UNCHANGED session
    BY <1>6 DEF LoginRead, LoginClearLock, LoginRefused, LoginWrong, LoginList, LoginReset,
                RefreshRead, RefreshUser, GuardUser, GuardSession
  <1>7. ASSUME (\E u \in User, active \in BOOLEAN : SetActive(u, active)) \/ Tick \/ UNCHANGED vars
        PROVE  UNCHANGED session
    BY <1>7 DEF SetActive, Tick, vars
  <1> QED
    BY <1>1, <1>2, <1>3, <1>4, <1>5, <1>6, <1>7 DEF Next, Step

LEMMA ClockRuns ==
  ASSUME TypeInv, [Next]_vars
  PROVE  /\ now' >= now
         /\ opened \subseteq opened'
  <1>1. ASSUME NEW w \in Worker, Ask(w) \/ Step(w) \/ Collect(w) \/ Drop(w) \/ Fail(w)
        PROVE  UNCHANGED now /\ opened \subseteq opened'
    BY <1>1 DEF Ask, ReceiveLogin, ReceiveRefresh, ReceiveLogout, ReceiveGuarded, Receive, Collect,
       Drop, Fail, Step, LoginRead, LoginClearLock, LoginRefused, LoginWrong, LoginPurge, LoginList,
       LoginEvict, LoginReset, LoginCreate, RefreshRead, RefreshRevoke, RefreshUser, RefreshWrite,
       Logout, GuardUser, GuardSession, RevokeOne, RevokeOthers
  <1>2. now \in Nat
    BY DEF TypeInv, TypeOK
  <1> QED
    BY <1>1, <1>2 DEF Next, SetActive, Tick, vars

\* A step of no worker leaves the requests alone.
LEMMA WhoMoves ==
  ASSUME TypeInv, [Next]_vars
  PROVE  UNCHANGED req \/ \E w \in Worker : Moves(w) /\ UNCHANGED now
  <1>1. ASSUME NEW w \in Worker, Ask(w) \/ Step(w) \/ Collect(w) \/ Drop(w) \/ Fail(w)
        PROVE  Moves(w) /\ UNCHANGED now
    <2>1. UNCHANGED now
      BY <1>1 DEF Ask, ReceiveLogin, ReceiveRefresh, ReceiveLogout, ReceiveGuarded, Receive, Collect,
         Drop, Fail, Step, LoginRead, LoginClearLock, LoginRefused, LoginWrong, LoginPurge, LoginList,
         LoginEvict, LoginReset, LoginCreate, RefreshRead, RefreshRevoke, RefreshUser, RefreshWrite,
         Logout, GuardUser, GuardSession, RevokeOne, RevokeOthers
    <2> QED BY <1>1, <2>1, WorkerMoves
  <1> QED
    BY <1>1 DEF Next, SetActive, Tick, vars

LEMMA RefreshingFrom ==
  ASSUME TypeInv, [Next]_vars, NEW s, Refreshing(s)'
  PROVE  Refreshing(s) \/ (s \in DOMAIN session /\ session[s].expires > now)
  BY WhoMoves DEF Refreshing, Moves

LEMMA UsableShrinks ==
  ASSUME TypeInv, TypeInv', [Next]_vars, \A s \in DOMAIN session' : Lasting(s), NEW u
  PROVE  Usable(u)' \subseteq Usable(u)
  <1> SUFFICES ASSUME NEW s \in Usable(u)' PROVE s \in Usable(u)
    OBVIOUS
  <1>1. /\ s \in DOMAIN session' /\ Lasting(s) /\ session'[s].user = u /\ ~session'[s].revoked
        /\ session'[s].expires > now' \/ Refreshing(s)'
    BY DEF Usable, SessionsOf
  <1>2. Refreshing(s)' => Refreshing(s) \/ session[s].expires > now
    BY RefreshingFrom
  <1>3. now' >= now /\ now \in Nat /\ now' \in Nat /\ session[s].expires \in Nat /\ session'[s].expires \in Nat
    BY <1>1, ClockRuns DEF Lasting, TypeInv, TypeOK, SessionRow
  <1> QED
    BY <1>1, <1>2, <1>3 DEF Lasting, Usable, SessionsOf

LEMMA UsableAdds ==
  ASSUME ListInv, TypeInv', NEW w \in Worker, NEW s \in Sid, LoginCreate(w, s), NEW u
  PROVE  /\ Usable(u)' \subseteq Usable(u) \cup {s}
         /\ u # req[w].user => Usable(u)' \subseteq Usable(u)
         /\ s \in Usable(u)' => session'[s].expires > now
  <1>1. /\ s \notin DOMAIN session /\ s \notin opened /\ UNCHANGED now
        /\ \A i \in DOMAIN session : session'[i] = session[i]
        /\ DOMAIN session' = DOMAIN session \cup {s}
        /\ session'[s].user = req[w].user
    BY DEF LoginCreate, ListInv, TypeInv, TypeOK
  <1>2. \A i : Refreshing(i)' => Refreshing(i)
    BY DEF LoginCreate, ListInv, TypeInv, TypeOK, Request, Refreshing, AtRefresh
  <1>3. ~Refreshing(s)
    BY <1>1 DEF ListInv, Refreshing, RefreshKnown
  <1> QED
    BY <1>1, <1>2, <1>3 DEF Usable, SessionsOf

LEMMA ListNext ==
  ASSUME ListInv, [Next]_vars
  PROVE  ListInv'
  <1>1. TypeInv /\ TypeInv'
    BY TypeStep DEF ListInv
  <1>2. now' >= now /\ opened \subseteq opened' /\ now \in Nat /\ now' \in Nat
    BY <1>1, ClockRuns DEF TypeInv, TypeOK
  <1>3. ASSUME NEW v \in Worker PROVE RefreshKnown(v)'
    <2>1. CASE UNCHANGED req
      BY <1>2, <2>1 DEF RefreshKnown, ListInv
    <2>2. ASSUME NEW w \in Worker, Moves(w) PROVE RefreshKnown(v)'
      BY <1>1, <1>2, <2>2 DEF RefreshKnown, ListInv, Moves, TypeInv, TypeOK
    <2> QED BY <1>1, <2>1, <2>2, WhoMoves
  <1>4. ASSUME NEW v \in Worker, req'[v] = req[v] PROVE Listed(v)'
    <2> SUFFICES ASSUME req[v].at = "login_list"
                 PROVE  /\ req[v].now <= now'
                        /\ \A s \in Usable(req[v].user)' : session'[s].expires > req[v].now
      BY <1>4 DEF Listed
    <2> PICK u, time : u = req[v].user /\ time = req[v].now
      OBVIOUS
    <2>1. u = req'[v].user
      BY <1>4
    <2>2. time \in Nat /\ time <= now /\ \A s \in Usable(u) : session[s].expires > time
      BY <1>1 DEF ListInv, Listed, TypeInv, TypeOK, Request
    <2>3. ASSUME NEW s \in Usable(u)' PROVE session'[s].expires > time
      <3>0. s \in DOMAIN session' /\ session'[s].expires \in Nat
        BY <1>1 DEF Usable, SessionsOf, TypeInv, TypeOK, SessionRow
      <3>1. ASSUME NEW w \in Worker, NEW i \in Sid, LoginCreate(w, i) PROVE session'[s].expires > time
        <4>1. CASE s = i
          <5>1. session'[s].expires > now
            BY <1>1, <3>1, <4>1, UsableAdds
          <5> QED BY <1>2, <2>2, <3>0, <5>1
        <4>2. CASE s # i
          <5>1. s \in Usable(u) /\ session'[s] = session[s]
            BY <1>1, <3>0, <3>1, <4>2, UsableAdds DEF LoginCreate
          <5> QED BY <2>2, <5>1
        <4> QED BY <4>1, <4>2
      <3>2. CASE \A i \in DOMAIN session' : Lasting(i)
        <4>1. s \in Usable(u)
          BY <1>1, <3>2, UsableShrinks
        <4>2. session'[s].expires = session[s].expires \/ session'[s].expires > now
          BY <3>0, <3>2 DEF Lasting
        <4> QED BY <1>2, <2>2, <3>0, <4>1, <4>2
      <3> QED BY <1>1, <3>1, <3>2, SessionsLast
    <2>4. Usable(req[v].user)' = Usable(u)'
      BY <2>1
    <2>5. time <= now'
      BY <1>2, <2>2
    <2> QED BY <2>3, <2>4, <2>5
  <1>5. ASSUME NEW w \in Worker, LoginPurge(w) PROVE Listed(w)'
    <2>1. /\ req'[w].now = now /\ req'[w].user = req[w].user /\ UNCHANGED now
          /\ \A s \in DOMAIN session' : session'[s] = session[s] /\ s \in DOMAIN session
          /\ \A s \in DOMAIN session' : s \in SessionsOf(req[w].user) => Live(s, now)
      BY <1>1, <1>5 DEF LoginPurge, TypeInv, TypeOK, Request
    <2> PICK u, time : u = req[w].user /\ time = now
      OBVIOUS
    <2>2. ASSUME NEW s \in Usable(u)' PROVE session'[s].expires > time
      <3>1. s \in DOMAIN session' /\ session'[s].user = u
        BY DEF Usable, SessionsOf
      <3> QED BY <2>1, <3>1 DEF SessionsOf, Live
    <2>3. req'[w].user = u /\ req'[w].now = time /\ time <= now'
      BY <1>2, <2>1
    <2>4. Usable(req[w].user)' = Usable(u)'
      BY <2>3
    <2>5. \A s \in Usable(req[w].user)' : session'[s].expires > req'[w].now
      BY <2>2, <2>3, <2>4
    <2> QED BY <2>3, <2>5 DEF Listed
  <1>6. ASSUME NEW w \in Worker, LoginList(w) \/ LoginEvict(w) PROVE Listed(w)'
    <2>1. req'[w].at # "login_list"
      <3>1. CASE LoginList(w)
        <4>1. \E at \in {"login_create", "login_evict"} : req'[w].at = at
          BY <1>1, <3>1 DEF LoginList, TypeInv, TypeOK, Request
        <4> QED BY <4>1
      <3>2. CASE LoginEvict(w)
        BY <1>1, <3>2 DEF LoginEvict, TypeInv, TypeOK, Request
      <3> QED BY <1>6, <3>1, <3>2
    <2> QED BY <2>1 DEF Listed
  <1>7. ASSUME NEW v \in Worker PROVE Listed(v)'
    <2>1. CASE UNCHANGED req
      BY <1>4, <2>1
    <2>2. ASSUME NEW w \in Worker, Moves(w) PROVE Listed(v)'
      <3>1. CASE v # w
        BY <1>4, <2>2, <3>1 DEF Moves
      <3>2. CASE v = w
        <4>1. CASE LoginPurge(w) \/ LoginList(w) \/ LoginEvict(w)
          BY <1>5, <1>6, <3>2, <4>1
        <4>2. CASE ~(LoginPurge(w) \/ LoginList(w) \/ LoginEvict(w))
          <5>1. req'[v].at # "login_list"
            BY <2>2, <3>2, <4>2 DEF Moves, AtLogin
          <5> QED BY <5>1 DEF Listed
        <4> QED BY <4>1, <4>2
      <3> QED BY <3>1, <3>2
    <2> QED BY <1>1, <2>1, <2>2, WhoMoves
  <1> QED BY <1>1, <1>3, <1>7 DEF ListInv

LEMMA ListInit == Init => ListInv
  BY TypeInit DEF Init, Idle, ListInv, Listed, RefreshKnown, AtRefresh

-----------------------------------------------------------------------------
(***************************************************************************)
(* Counting.  Of the sessions us of one user, at most MaxSessions - 1 (b)  *)
(* were left by the eviction decided last; every other was created since   *)
(* by a login of its own (d), which is over.  The same is true of what an  *)
(* eviction that is decided and not yet done (by a worker of e) will leave *)
(* of us: vs[v] are its victims.  The workers of c have yet to create.     *)
(***************************************************************************)
Pair(us, c, b, d) ==
    /\ Cardinality(b) < MaxSessions
    /\ Cardinality(us \ b) <= Cardinality(d)
    /\ d \cap c = {}
Counted(us, e, c, vs) ==
    \E base \in [Worker -> SUBSET Sid], done \in [Worker -> SUBSET Worker],
       b \in SUBSET Sid, d \in SUBSET Worker :
          /\ Pair(us, c, b, d)
          /\ \A v \in e : Pair(us \ vs[v], c \cup {v}, base[v], done[v])
          /\ \A v \in e : \A x \in e : x \in done[v] => done[x] \subseteq done[v]

LEMMA FewerStay ==
  ASSUME NEW b \in SUBSET Sid, NEW d \in SUBSET Worker, NEW us \in SUBSET Sid, NEW c, NEW us2, NEW c2,
         Pair(us, c, b, d), us2 \ b \subseteq us \ b, d \cap c2 = {}
  PROVE  Pair(us2, c2, b, d)
  <1>1. IsFiniteSet(us \ b) /\ IsFiniteSet(us2 \ b) /\ IsFiniteSet(d)
    BY ConstantsAssumption, FS_Subset
  <1>2. Cardinality(us2 \ b) <= Cardinality(us \ b)
    BY <1>1, FS_Subset
  <1>3. Cardinality(us2 \ b) \in Nat /\ Cardinality(us \ b) \in Nat /\ Cardinality(d) \in Nat
    BY <1>1, FS_CardinalityType
  <1> QED
    BY <1>2, <1>3 DEF Pair

LEMMA OneMore ==
  ASSUME NEW b \in SUBSET Sid, NEW d \in SUBSET Worker, NEW us \in SUBSET Sid, NEW c, NEW c2, NEW us2,
         NEW s, NEW y \in Worker,
         Pair(us, c, b, d), y \in c, us2 \subseteq us \cup {s}, (d \cup {y}) \cap c2 = {}
  PROVE  Pair(us2, c2, b, d \cup {y})
  <1>1. IsFiniteSet(us \ b) /\ IsFiniteSet((us \ b) \cup {s}) /\ IsFiniteSet(us2 \ b) /\ IsFiniteSet(d)
    <2>1. IsFiniteSet(us \ b) /\ IsFiniteSet(d)
      BY ConstantsAssumption, FS_Subset
    <2>2. IsFiniteSet((us \ b) \cup {s})
      BY <2>1, FS_AddElement
    <2>3. us2 \ b \subseteq (us \ b) \cup {s}
      OBVIOUS
    <2> QED BY <2>1, <2>2, <2>3, FS_Subset
  <1>2. Cardinality(us2 \ b) <= Cardinality((us \ b) \cup {s})
    <2>1. us2 \ b \subseteq (us \ b) \cup {s}
      OBVIOUS
    <2> QED BY <1>1, <2>1, FS_Subset
  <1>3. Cardinality((us \ b) \cup {s}) <= Cardinality(us \ b) + 1
    <2>1. Cardinality(us \ b) \in Nat
      BY <1>1, FS_CardinalityType
    <2> QED BY <1>1, <2>1, FS_AddElement
  <1>4. Cardinality(d \cup {y}) = Cardinality(d) + 1
    BY <1>1, FS_AddElement DEF Pair
  <1>5. /\ Cardinality(us2 \ b) \in Nat /\ Cardinality(us \ b) \in Nat /\ Cardinality(d) \in Nat
        /\ Cardinality((us \ b) \cup {s}) \in Nat
    BY <1>1, FS_CardinalityType
  <1> QED
    BY <1>2, <1>3, <1>4, <1>5 DEF Pair

LEMMA CountedShrinks ==
  ASSUME NEW us \in SUBSET Sid, NEW e \in SUBSET Worker, NEW c, NEW vs,
         NEW us2 \in SUBSET us, NEW e2 \in SUBSET e, NEW c2 \in SUBSET c, NEW vs2,
         \A v \in e2 : vs2[v] = vs[v], Counted(us, e, c, vs)
  PROVE  Counted(us2, e2, c2, vs2)
  <1> PICK base \in [Worker -> SUBSET Sid], done \in [Worker -> SUBSET Worker],
           b \in SUBSET Sid, d \in SUBSET Worker :
          /\ Pair(us, c, b, d)
          /\ \A v \in e : Pair(us \ vs[v], c \cup {v}, base[v], done[v])
          /\ \A v \in e : \A x \in e : x \in done[v] => done[x] \subseteq done[v]
    BY DEF Counted
  <1>1. Pair(us2, c2, b, d)
    <2>1. d \cap c2 = {} /\ us2 \ b \subseteq us \ b
      BY DEF Pair
    <2> QED BY <2>1, FewerStay
  <1>2. ASSUME NEW v \in e2 PROVE Pair(us2 \ vs2[v], c2 \cup {v}, base[v], done[v])
    <2>1. Pair(us \ vs[v], c \cup {v}, base[v], done[v])
      OBVIOUS
    <2>2. /\ done[v] \cap (c2 \cup {v}) = {}
          /\ (us2 \ vs2[v]) \ base[v] \subseteq (us \ vs[v]) \ base[v]
          /\ v \in Worker /\ us \ vs[v] \in SUBSET Sid
      BY <2>1 DEF Pair
    <2> QED BY <2>1, <2>2, FewerStay
  <1> QED
    BY <1>1, <1>2 DEF Counted

\* A login creates its session.
LEMMA CountedCreate ==
  ASSUME NEW us \in SUBSET Sid, NEW e \in SUBSET Worker, NEW c, NEW vs, NEW y \in Worker, NEW s,
         y \in c, y \notin e, Counted(us, e, c, vs)
  PROVE  Counted(us \cup {s}, e, c \ {y}, vs)
  <1> PICK base \in [Worker -> SUBSET Sid], done \in [Worker -> SUBSET Worker],
           b \in SUBSET Sid, d \in SUBSET Worker :
          /\ Pair(us, c, b, d)
          /\ \A v \in e : Pair(us \ vs[v], c \cup {v}, base[v], done[v])
          /\ \A v \in e : \A x \in e : x \in done[v] => done[x] \subseteq done[v]
    BY DEF Counted
  <1> DEFINE more == [v \in Worker |-> done[v] \cup {y}]
  <1>1. Pair(us \cup {s}, c \ {y}, b, d \cup {y})
    <2>1. (d \cup {y}) \cap (c \ {y}) = {}
      BY DEF Pair
    <2> QED BY <2>1, OneMore
  <1>2. ASSUME NEW v \in e PROVE Pair((us \cup {s}) \ vs[v], (c \ {y}) \cup {v}, base[v], more[v])
    <2>1. Pair(us \ vs[v], c \cup {v}, base[v], done[v])
      OBVIOUS
    <2>2. /\ (done[v] \cup {y}) \cap ((c \ {y}) \cup {v}) = {}
          /\ (us \cup {s}) \ vs[v] \subseteq (us \ vs[v]) \cup {s}
          /\ v \in Worker /\ us \ vs[v] \in SUBSET Sid /\ y \in c \cup {v}
      BY <2>1 DEF Pair
    <2>3. Pair((us \cup {s}) \ vs[v], (c \ {y}) \cup {v}, base[v], done[v] \cup {y})
      BY <2>1, <2>2, OneMore
    <2> QED BY <2>2, <2>3
  <1>3. ASSUME NEW v \in e, NEW x \in e, x \in more[v] PROVE more[x] \subseteq more[v]
    BY <1>3
  <1>4. more \in [Worker -> SUBSET Worker] /\ d \cup {y} \in SUBSET Worker
    OBVIOUS
  <1> HIDE DEF more
  <1> QED
    BY <1>1, <1>2, <1>3, <1>4 DEF Counted

\* A login decides whom to evict.
LEMMA CountedList ==
  ASSUME NEW us \in SUBSET Sid, NEW e \in SUBSET Worker, NEW c, NEW vs, NEW y \in Worker,
         NEW e2 \in SUBSET (e \cup {y}), NEW c2 \in SUBSET c, NEW vs2,
         \A v \in e2 \ {y} : vs2[v] = vs[v], y \notin e,
         Cardinality(us \ vs2[y]) < MaxSessions, y \notin c, Counted(us, e, c, vs)
  PROVE  Counted(us, e2, c2, vs2)
  <1> PICK base \in [Worker -> SUBSET Sid], done \in [Worker -> SUBSET Worker],
           b \in SUBSET Sid, d \in SUBSET Worker :
          /\ Pair(us, c, b, d)
          /\ \A v \in e : Pair(us \ vs[v], c \cup {v}, base[v], done[v])
          /\ \A v \in e : \A x \in e : x \in done[v] => done[x] \subseteq done[v]
    BY DEF Counted
  <1> DEFINE left == [base EXCEPT ![y] = us \ vs2[y]]
             none == [done EXCEPT ![y] = {}]
  <1>1. Pair(us, c2, b, d)
    <2>1. d \cap c2 = {} /\ us \ b \subseteq us \ b
      BY DEF Pair
    <2> QED BY <2>1, FewerStay
  <1>2. ASSUME NEW v \in e2 PROVE Pair(us \ vs2[v], c2 \cup {v}, left[v], none[v])
    <2>1. CASE v = y
      <3>1. left[v] = us \ vs2[y] /\ none[v] = {} /\ (us \ vs2[v]) \ left[v] = {}
        BY <2>1
      <3>2. Cardinality({}) = 0 /\ Cardinality(left[v]) < MaxSessions
        BY <2>1, <3>1, FS_EmptySet
      <3>3. Cardinality((us \ vs2[v]) \ left[v]) <= Cardinality(none[v])
        <4>1. Cardinality((us \ vs2[v]) \ left[v]) = Cardinality({})
          BY <3>1
        <4>2. Cardinality(none[v]) = Cardinality({})
          BY <3>1
        <4> HIDE DEF left, none
        <4> QED BY <3>2, <4>1, <4>2
      <3>4. none[v] \cap (c2 \cup {v}) = {}
        BY <3>1
      <3> HIDE DEF left, none
      <3> QED BY <3>2, <3>3, <3>4 DEF Pair
    <2>2. CASE v # y
      <3>1. Pair(us \ vs[v], c \cup {v}, base[v], done[v])
        BY <2>2
      <3>2. /\ done[v] \cap (c2 \cup {v}) = {}
            /\ (us \ vs2[v]) \ base[v] \subseteq (us \ vs[v]) \ base[v]
            /\ v \in Worker /\ us \ vs[v] \in SUBSET Sid
        BY <2>2, <3>1 DEF Pair
      <3>3. left[v] = base[v] /\ none[v] = done[v]
        BY <2>2, <3>2
      <3> QED BY <3>1, <3>2, <3>3, FewerStay
    <2> QED BY <2>1, <2>2
  <1>3. ASSUME NEW v \in e2, NEW x \in e2, x \in none[v] PROVE none[x] \subseteq none[v]
    BY <1>3
  <1>4. left \in [Worker -> SUBSET Sid] /\ none \in [Worker -> SUBSET Worker]
    OBVIOUS
  <1> HIDE DEF left, none
  <1> QED
    BY <1>1, <1>2, <1>3, <1>4 DEF Counted

\* So few sessions are left that none is evicted.
LEMMA CountedFew ==
  ASSUME NEW us \in SUBSET Sid, NEW e \in SUBSET Worker, NEW c, NEW vs, Cardinality(us) < MaxSessions
  PROVE  Counted(us, e, c, vs)
  <1> DEFINE left == [v \in Worker |-> us]
             none == [v \in Worker |-> {}]
  <1>1. \A a : Pair(us, a, us, {})
    BY FS_EmptySet DEF Pair
  <1>2. ASSUME NEW v \in e PROVE Pair(us \ vs[v], c \cup {v}, left[v], none[v])
    <2>1. (us \ vs[v]) \ us = {} /\ left[v] = us /\ none[v] = {}
      OBVIOUS
    <2> QED BY <2>1, FS_EmptySet DEF Pair
  <1>3. \A v \in e : \A x \in e : x \in none[v] => none[x] \subseteq none[v]
    OBVIOUS
  <1>4. left \in [Worker -> SUBSET Sid] /\ none \in [Worker -> SUBSET Worker]
    OBVIOUS
  <1>5. Pair(us, c, us, {}) /\ {} \in SUBSET Worker
    BY <1>1
  <1> HIDE DEF left, none
  <1> QED
    BY <1>5, <1>2, <1>3, <1>4 DEF Counted

\* A login evicts.  Every count that had this login behind it starts again
\* from what it left.
LEMMA CountedEvict ==
  ASSUME NEW us \in SUBSET Sid, NEW e \in SUBSET Worker, NEW c, NEW vs, NEW y \in e,
         NEW us2 \in SUBSET (us \ vs[y]), NEW e2 \in SUBSET (e \ {y}), NEW c2 \in SUBSET (c \cup {y}),
         NEW vs2, \A v \in e2 : vs2[v] = vs[v], Counted(us, e, c, vs)
  PROVE  Counted(us2, e2, c2, vs2)
  <1> PICK base \in [Worker -> SUBSET Sid], done \in [Worker -> SUBSET Worker],
           b \in SUBSET Sid, d \in SUBSET Worker :
          /\ Pair(us, c, b, d)
          /\ \A v \in e : Pair(us \ vs[v], c \cup {v}, base[v], done[v])
          /\ \A v \in e : \A x \in e : x \in done[v] => done[x] \subseteq done[v]
    BY DEF Counted
  <1> DEFINE left == [v \in Worker |-> IF y \in done[v] THEN base[y] ELSE base[v]]
             since == [v \in Worker |-> IF y \in done[v] THEN done[y] ELSE done[v]]
  <1>0. Pair(us \ vs[y], c \cup {y}, base[y], done[y]) /\ y \in Worker /\ us \ vs[y] \in SUBSET Sid
    OBVIOUS
  <1>1. Pair(us2, c2, base[y], done[y])
    <2>1. done[y] \cap c2 = {} /\ us2 \ base[y] \subseteq (us \ vs[y]) \ base[y]
      BY <1>0 DEF Pair
    <2> QED BY <1>0, <2>1, FewerStay
  <1>2. ASSUME NEW v \in e2 PROVE Pair(us2 \ vs2[v], c2 \cup {v}, left[v], since[v])
    <2>0. v \in Worker /\ v \in e /\ v # y
      OBVIOUS
    <2>1. CASE y \in done[v]
      <3>1. v \notin done[y]
        <4>1. done[y] \subseteq done[v]
          BY <2>0, <2>1
        <4>2. v \notin done[v]
          BY <2>0 DEF Pair
        <4> QED BY <4>1, <4>2
      <3>2. /\ done[y] \cap (c2 \cup {v}) = {}
            /\ (us2 \ vs2[v]) \ base[y] \subseteq (us \ vs[y]) \ base[y]
        BY <1>0, <3>1 DEF Pair
      <3>3. left[v] = base[y] /\ since[v] = done[y]
        BY <2>0, <2>1
      <3> QED BY <1>0, <3>2, <3>3, FewerStay
    <2>2. CASE y \notin done[v]
      <3>1. Pair(us \ vs[v], c \cup {v}, base[v], done[v]) /\ us \ vs[v] \in SUBSET Sid
        BY <2>0
      <3>2. /\ done[v] \cap (c2 \cup {v}) = {}
            /\ (us2 \ vs2[v]) \ base[v] \subseteq (us \ vs[v]) \ base[v]
        BY <2>2, <3>1 DEF Pair
      <3>3. left[v] = base[v] /\ since[v] = done[v]
        BY <2>0, <2>2
      <3> QED BY <2>0, <3>1, <3>2, <3>3, FewerStay
    <2> QED BY <2>1, <2>2
  <1>3. ASSUME NEW v \in e2, NEW x \in e2, x \in since[v] PROVE since[x] \subseteq since[v]
    <2>0. /\ v \in e /\ x \in e /\ v # y /\ x # y
          /\ since[v] = IF y \in done[v] THEN done[y] ELSE done[v]
          /\ since[x] = IF y \in done[x] THEN done[y] ELSE done[x]
      OBVIOUS
    <2>1. y \notin done[y]
      BY <1>0 DEF Pair
    <2>2. CASE y \in done[v]
      <3>1. x \in done[y]
        BY <1>3, <2>2
      <3>2. done[x] \subseteq done[y]
        BY <2>0, <3>1
      <3> QED BY <2>0, <2>1, <2>2, <3>2
    <2>3. CASE y \notin done[v]
      <3>1. x \in done[v]
        BY <1>3, <2>3
      <3>2. done[x] \subseteq done[v]
        BY <2>0, <3>1
      <3> QED BY <2>0, <2>3, <3>2
    <2> QED BY <2>2, <2>3
  <1>4. left \in [Worker -> SUBSET Sid] /\ since \in [Worker -> SUBSET Worker]
    OBVIOUS
  <1> HIDE DEF left, since
  <1> QED
    BY <1>0, <1>1, <1>2, <1>3, <1>4 DEF Counted
-----------------------------------------------------------------------------
Evictors(u) == {w \in Worker : req[w].at = "login_evict" /\ req[w].user = u}
Creators(u) == {w \in Worker : req[w].at = "login_create" /\ req[w].user = u}
Victims == [w \in Worker |-> req[w].victims]

CountInv == ListInv /\ \A u \in User : Counted(Usable(u), Evictors(u), Creators(u), Victims)

LEMMA UsableFinite ==
  ASSUME TypeInv, NEW u
  PROVE  Usable(u) \in SUBSET Sid /\ IsFiniteSet(Usable(u))
  <1>1. Usable(u) \subseteq Sid
    BY DEF Usable, SessionsOf, TypeInv, TypeOK
  <1> QED BY <1>1, ConstantsAssumption, FS_Subset

\* What LoginList finds, and leaves out.
LEMMA FewAreLeft ==
  ASSUME ListInv, NEW w \in Worker, req[w].at = "login_list",
         NEW victims \in Overflow(LiveOf(req[w].user, req[w].now))
  PROVE  Cardinality(Usable(req[w].user) \ victims) < MaxSessions
  <1> DEFINE ids == LiveOf(req[w].user, req[w].now)
  <1>1. Usable(req[w].user) \subseteq ids
    BY DEF ListInv, Listed, Usable, LiveOf, Live, SessionsOf
  <1>2. IsFiniteSet(ids) /\ IsFiniteSet(ids \ victims)
    <2>1. ids \subseteq Sid /\ ids \ victims \subseteq Sid
      BY DEF LiveOf, SessionsOf, ListInv, TypeInv, TypeOK
    <2> QED BY <2>1, ConstantsAssumption, FS_Subset
  <1>3. Usable(req[w].user) \ victims \subseteq ids \ victims
    BY <1>1
  <1>4. /\ Cardinality(Usable(req[w].user) \ victims) <= Cardinality(ids \ victims)
        /\ IsFiniteSet(Usable(req[w].user) \ victims)
    BY <1>2, <1>3, FS_Subset
  <1>5. Cardinality(ids \ victims) = IF Cardinality(ids) < MaxSessions
                                     THEN Cardinality(ids) ELSE MaxSessions - 1
    BY DEF Overflow
  <1>6. /\ Cardinality(ids) \in Nat /\ Cardinality(ids \ victims) \in Nat
        /\ Cardinality(Usable(req[w].user) \ victims) \in Nat
    BY <1>2, <1>4, FS_CardinalityType
  <1> HIDE DEF ids
  <1> QED
    BY <1>4, <1>5, <1>6, ConstantsAssumption

LEMMA CountInit == Init => CountInv
  <1> SUFFICES ASSUME Init PROVE CountInv
    OBVIOUS
  <1>1. ListInv
    BY ListInit
  <1>2. ASSUME NEW u \in User PROVE Counted(Usable(u), Evictors(u), Creators(u), Victims)
    <2>1. Usable(u) = {}
      BY DEF Init, Usable, SessionsOf
    <2>2. Usable(u) \in SUBSET Sid /\ Cardinality(Usable(u)) < MaxSessions
      BY <2>1, FS_EmptySet, ConstantsAssumption
    <2>3. Evictors(u) \in SUBSET Worker
      BY DEF Evictors
    <2> QED BY <2>2, <2>3, CountedFew
  <1> QED BY <1>1, <1>2 DEF CountInv

LEMMA CountNext ==
  ASSUME CountInv, [Next]_vars
  PROVE  CountInv'
  <1>0. ListInv /\ TypeInv /\ TypeInv' /\ ListInv'
    BY TypeStep, ListNext DEF CountInv, ListInv
  <1> SUFFICES ASSUME NEW u \in User
               PROVE  Counted(Usable(u)', Evictors(u)', Creators(u)', Victims')
    BY <1>0 DEF CountInv
  <1> PICK us, e, c, vs : us = Usable(u) /\ e = Evictors(u) /\ c = Creators(u) /\ vs = Victims
    OBVIOUS
  <1> PICK us2, e2, c2, vs2 : us2 = Usable(u)' /\ e2 = Evictors(u)' /\ c2 = Creators(u)' /\ vs2 = Victims'
    OBVIOUS
  <1>1. /\ us \in SUBSET Sid /\ us2 \in SUBSET Sid /\ e \in SUBSET Worker /\ e2 \in SUBSET Worker
        /\ Counted(us, e, c, vs)
    <2>1. Usable(u) \in SUBSET Sid /\ Usable(u)' \in SUBSET Sid
      BY <1>0 DEF Usable, SessionsOf, TypeInv, TypeOK
    <2> QED BY <2>1 DEF CountInv, Evictors
  <1>2. ASSUME NEW w \in Worker, NEW s \in Sid, LoginCreate(w, s)
        PROVE  Counted(us2, e2, c2, vs2)
    <2>1. us2 \subseteq us \cup {s} /\ (req[w].user # u => us2 \subseteq us)
      BY <1>0, <1>2, UsableAdds
    <2>2. /\ req[w].at = "login_create" /\ req'[w].at = "login_reset"
          /\ \A v \in Worker \ {w} : req'[v] = req[v]
      BY <1>0, <1>2 DEF LoginCreate, TypeInv, TypeOK, Request
    <2>3. /\ e2 \subseteq e /\ w \notin e /\ c2 \subseteq c \ {w}
          /\ \A v \in e2 : vs2[v] = vs[v]
      BY <2>2 DEF Evictors, Creators, Victims
    <2>4. CASE req[w].user = u
      <3>1. w \in c
        BY <2>2, <2>4 DEF Creators
      <3>2. Counted(us \cup {s}, e, c \ {w}, vs)
        BY <1>1, <2>3, <3>1, CountedCreate
      <3>3. us \cup {s} \in SUBSET Sid
        BY <1>1
      <3> QED BY <1>1, <2>1, <2>3, <3>2, <3>3, CountedShrinks
    <2>5. CASE req[w].user # u
      BY <1>1, <2>1, <2>3, <2>5, CountedShrinks
    <2> QED BY <2>4, <2>5
  <1>3. CASE \A s \in DOMAIN session' : Lasting(s)
    <2>1. us2 \subseteq us
      BY <1>0, <1>3, UsableShrinks
    <2>2. CASE UNCHANGED req
      <3>1. e2 = e /\ c2 = c /\ vs2 = vs
        BY <2>2 DEF Evictors, Creators, Victims
      <3> QED BY <1>1, <2>1, <3>1, CountedShrinks
    <2>3. ASSUME NEW w \in Worker, Moves(w) PROVE Counted(us2, e2, c2, vs2)
      <3>1. \A v \in Worker \ {w} : req'[v] = req[v]
        BY <2>3 DEF Moves
      <3>2. CASE req'[w].at \in {"login_evict", "login_create"}
        <4>1. LoginList(w) \/ LoginEvict(w)
          <5>1. LoginPurge(w) => req'[w].at = "login_list"
            BY <1>0 DEF LoginPurge, TypeInv, TypeOK, Request
          <5> QED BY <2>3, <3>2, <5>1 DEF Moves, AtLogin
        <4>2. CASE LoginList(w)
          <5>1. PICK victims \in Overflow(LiveOf(req[w].user, req[w].now)) :
                   req' = [req EXCEPT ![w].victims = victims,
                                      ![w].at = IF victims = {} THEN "login_create" ELSE "login_evict"]
            BY <4>2 DEF LoginList
          <5>2. /\ req'[w].victims = victims /\ req'[w].user = req[w].user
                /\ req'[w].at = IF victims = {} THEN "login_create" ELSE "login_evict"
                /\ req[w].at = "login_list" /\ Usable(u)' = Usable(u)
            <6>1. \A i : Refreshing(i)' <=> Refreshing(i)
              BY <1>0, <3>1, <3>2, <4>2 DEF LoginList, Refreshing, AtRefresh
            <6>2. Usable(u)' = Usable(u)
              BY <4>2, <6>1 DEF LoginList, Usable, SessionsOf
            <6> QED BY <1>0, <4>2, <5>1, <6>2 DEF LoginList, TypeInv, TypeOK, Request
          <5>3. CASE req[w].user # u
            <6>1. e2 \subseteq e /\ c2 \subseteq c /\ \A v \in e2 : vs2[v] = vs[v]
              BY <3>1, <5>2, <5>3 DEF Evictors, Creators, Victims
            <6> QED BY <1>1, <2>1, <6>1, CountedShrinks
          <5>4. CASE req[w].user = u
            <6>1. Cardinality(us \ victims) < MaxSessions
              BY <1>0, <5>2, <5>4, FewAreLeft
            <6>2. us2 = us /\ w \notin e /\ w \notin c
              BY <5>2 DEF Evictors, Creators
            <6>3. CASE victims = {}
              <7>1. Cardinality(us) < MaxSessions
                <8>1. us \ victims = us
                  BY <6>3
                <8> QED BY <6>1, <8>1
              <7> QED BY <1>1, <6>2, <7>1, CountedFew
            <6>4. CASE victims # {}
              <7>1. /\ e2 \subseteq e \cup {w} /\ c2 \subseteq c /\ vs2[w] = victims
                    /\ \A v \in e2 \ {w} : vs2[v] = vs[v]
                BY <3>1, <5>2, <6>4 DEF Evictors, Creators, Victims
              <7> QED BY <1>1, <6>1, <6>2, <7>1, CountedList
            <6> QED BY <6>3, <6>4
          <5> QED BY <5>3, <5>4
        <4>3. CASE LoginEvict(w)
          <5>1. /\ req[w].at = "login_evict" /\ req'[w].at = "login_create" /\ req'[w].user = req[w].user
                /\ RevokeAll(req[w].victims)
            BY <1>0, <4>3 DEF LoginEvict, TypeInv, TypeOK, Request
          <5>2. /\ e2 \subseteq e \ {w} /\ c2 \subseteq c \cup {w} /\ (req[w].user # u => c2 \subseteq c)
                /\ \A v \in e2 : vs2[v] = vs[v]
            BY <3>1, <5>1 DEF Evictors, Creators, Victims
          <5>3. CASE req[w].user # u
            BY <1>1, <2>1, <5>2, <5>3, CountedShrinks
          <5>4. CASE req[w].user = u
            <6>1. w \in e /\ vs[w] = req[w].victims
              BY <5>1, <5>4 DEF Evictors, Victims
            <6>2. us2 \cap vs[w] = {}
              BY <5>1, <6>1 DEF Usable, SessionsOf, RevokeAll, TypeInv, TypeOK, SessionRow
            <6> QED BY <1>1, <2>1, <5>2, <6>1, <6>2, CountedEvict
          <5> QED BY <5>3, <5>4
        <4> QED BY <4>1, <4>2, <4>3
      <3>3. CASE req'[w].at \notin {"login_evict", "login_create"}
        <4>1. e2 \subseteq e /\ c2 \subseteq c /\ \A v \in e2 : vs2[v] = vs[v]
          BY <3>1, <3>3 DEF Evictors, Creators, Victims
        <4> QED BY <1>1, <2>1, <4>1, CountedShrinks
      <3> QED BY <3>2, <3>3
    <2> QED BY <1>0, <2>2, <2>3, WhoMoves
  <1> QED
    BY <1>0, <1>2, <1>3, SessionsLast

\* SessionLimit: a user has fewer than MaxSessions sessions and one for each
\* worker, whatever logins overlap, fail or run late.
THEOREM LimitCorrect == Spec => []SessionLimit
  <1>1. ASSUME CountInv PROVE SessionLimit
    <2> SUFFICES ASSUME NEW u \in User
                 PROVE  Cardinality(LiveOf(u, now)) < MaxSessions + Cardinality(Worker)
      BY DEF SessionLimit
    <2> PICK us : us = Usable(u)
      OBVIOUS
    <2>1. LiveOf(u, now) \subseteq us /\ us \in SUBSET Sid /\ IsFiniteSet(us)
      BY <1>1, UsableFinite DEF CountInv, ListInv, LiveOf, Live, Usable
    <2>2. PICK b \in SUBSET Sid, d \in SUBSET Worker :
             Cardinality(b) < MaxSessions /\ Cardinality(us \ b) <= Cardinality(d)
      BY <1>1 DEF CountInv, Counted, Pair
    <2>3. IsFiniteSet(b) /\ IsFiniteSet(us \ b) /\ IsFiniteSet(d) /\ IsFiniteSet(Worker)
      BY ConstantsAssumption, <2>1, FS_Subset
    <2>4. Cardinality(LiveOf(u, now)) <= Cardinality(us) /\ IsFiniteSet(LiveOf(u, now))
      BY <2>1, FS_Subset
    <2>5. Cardinality(us) <= Cardinality(b) + Cardinality(us \ b)
      <3>1. Cardinality(b \cup (us \ b)) = Cardinality(b) + Cardinality(us \ b) - Cardinality(b \cap (us \ b))
        BY <2>3, FS_Union
      <3>2. us \subseteq b \cup (us \ b) /\ b \cap (us \ b) = {}
        OBVIOUS
      <3>3. IsFiniteSet(b \cup (us \ b))
        BY <2>3, FS_Union
      <3>4. Cardinality(us) <= Cardinality(b \cup (us \ b))
        BY <3>2, <3>3, FS_Subset
      <3>5. /\ Cardinality(b) \in Nat /\ Cardinality(us \ b) \in Nat /\ Cardinality(us) \in Nat
            /\ Cardinality({}) = 0
        BY <2>1, <2>3, FS_CardinalityType, FS_EmptySet
      <3>6. Cardinality(b \cup (us \ b)) = Cardinality(b) + Cardinality(us \ b)
        <4>1. Cardinality(b \cap (us \ b)) = 0
          BY <3>2, <3>5
        <4> QED BY <3>1, <3>5, <4>1
      <3> QED BY <3>4, <3>6
    <2>6. Cardinality(d) <= Cardinality(Worker)
      BY <2>3, FS_Subset
    <2>7. /\ Cardinality(b) \in Nat /\ Cardinality(us \ b) \in Nat /\ Cardinality(us) \in Nat
          /\ Cardinality(d) \in Nat /\ Cardinality(Worker) \in Nat /\ MaxSessions \in Nat
          /\ Cardinality(LiveOf(u, now)) \in Nat
      BY <2>1, <2>3, <2>4, FS_CardinalityType, ConstantsAssumption
    <2> QED
      BY <2>2, <2>4, <2>5, <2>6, <2>7
  <1> QED
    BY <1>1, CountInit, CountNext, PTL DEF Spec

-----------------------------------------------------------------------------
(***************************************************************************)
(* One request at a time.  What the handler has read then still is so when *)
(* it is used: only the clock runs meanwhile, and accounts are switched    *)
(* on and off.                                                             *)
(***************************************************************************)
OneAtATime == \A v, w \in Worker : v = w

TokensPast == \A s \in DOMAIN session : session[s].token <= now
HeldKnown ==
    \A t \in held : /\ t.sid \in opened
                    /\ t.sid \in DOMAIN session => session[t.sid].token >= t.iat

StillSo(r) ==
    /\ r.token # None => r.token.sid \in opened
    /\ r.at \in {"unauthorized", "error"} => r.token = None
    /\ r.at = "login_check" => r.row.lockedUntil = user[r.user].lockedUntil
    /\ r.at \in AtLogin => r.now <= now
    /\ r.at \in AtLogin \cup {"login_reset"} => user[r.user].lockedUntil = None
    /\ r.at \in {"login_list", "login_evict"} => \A k \in SessionsOf(r.user) : Live(k, r.now)
    /\ r.at = "login_evict" =>
          \A s \in r.victims, k \in SessionsOf(r.user) \ r.victims :
              session[s].last <= session[k].last
    /\ r.at \in AtRefresh =>
          r.token.sid \in DOMAIN session /\ ~session[r.token.sid].revoked
    /\ r.at = "refresh_write" =>
          session[r.token.sid].token <= r.token.iat /\ r.token.iat <= now
    /\ (r.at \in {"login_reset", "ok"} /\ r.token # None) =>
          /\ r.token.sid \in DOMAIN session
          /\ ~session[r.token.sid].revoked
          /\ session[r.token.sid].token = r.token.iat

SerialInv ==
    /\ OneAtATime /\ TypeInv /\ TokensPast /\ HeldKnown
    /\ \A w \in Worker : StillSo(req[w])

LEMMA SerialInit == OneAtATime /\ Init => SerialInv
  BY TypeInit DEF Init, Idle, SerialInv, TokensPast, HeldKnown, StillSo, AtLogin, AtRefresh

LEMMA SerialOver ==
  ASSUME SerialInv, TypeInv', NEW w \in Worker, TokensPast', HeldKnown', StillSo(req[w])'
  PROVE  SerialInv'
  <1>1. \A v \in Worker : v = w
    BY DEF SerialInv, OneAtATime
  <1>2. \A v \in Worker : StillSo(req[v])'
    BY <1>1
  <1> QED BY <1>2 DEF SerialInv, OneAtATime

\* The request is over, without tokens.
LEMMA SerialAnswer ==
  ASSUME SerialInv, NEW w \in Worker, NEW at \in Answers, Answer(w, at)
  PROVE  StillSo(req[w])'
  <1>1. req'[w].at = at /\ req'[w].token = None
    BY DEF Answer, Idle, SerialInv, TypeInv, TypeOK
  <1>2. at \notin AtLogin \cup AtRefresh \cup {"login_check", "login_reset"}
    BY DEF Answers, AtLogin, AtRefresh
  <1> QED
    BY <1>1, <1>2 DEF StillSo, AtLogin, AtRefresh

\* Sessions that stay keep their tokens.
LEMMA TokensKept ==
  ASSUME SerialInv, TypeInv', UNCHANGED held, opened \subseteq opened', now <= now',
         \A s \in DOMAIN session' : s \in DOMAIN session /\ session'[s].token = session[s].token
  PROVE  TokensPast' /\ HeldKnown'
  <1>1. /\ now \in Nat /\ now' \in Nat /\ \A s \in DOMAIN session : session[s].token \in Nat
    BY DEF SerialInv, TypeInv, TypeOK, SessionRow
  <1>2. TokensPast'
    <2> SUFFICES ASSUME NEW s \in DOMAIN session' PROVE session'[s].token <= now'
      BY DEF TokensPast
    <2> QED BY <1>1 DEF SerialInv, TokensPast
  <1>3. HeldKnown'
    BY DEF SerialInv, HeldKnown
  <1> QED BY <1>2, <1>3

LEMMA SerialAsk ==
  ASSUME SerialInv, TypeInv', NEW w \in Worker, Ask(w)
  PROVE  SerialInv'
  <1>1. UNCHANGED <<now, user, session, opened, held>>
    BY DEF Ask, ReceiveLogin, ReceiveRefresh, ReceiveLogout, ReceiveGuarded, Receive
  <1>2. TokensPast' /\ HeldKnown'
    BY <1>1 DEF SerialInv, TokensPast, HeldKnown
  <1>3. ASSUME NEW request, Receive(w, request),
               request.at \in {"login_read", "refresh_read", "logout", "guard_user"},
               request.token # None => request.token \in held
        PROVE  StillSo(req[w])'
    <2>1. req'[w] = request
      BY <1>3 DEF Receive, SerialInv, TypeInv, TypeOK
    <2>2. request.token # None => request.token.sid \in opened
      BY <1>3 DEF SerialInv, HeldKnown
    <2> QED BY <1>1, <1>3, <2>1, <2>2 DEF StillSo, AtLogin, AtRefresh
  <1>4. StillSo(req[w])'
    <2>1. ASSUME NEW u \in User, ReceiveLogin(w, u) PROVE StillSo(req[w])'
      BY <1>3, <2>1 DEF ReceiveLogin, Idle
    <2>2. ASSUME NEW t \in held, ReceiveRefresh(w, t) \/ ReceiveLogout(w, t) PROVE StillSo(req[w])'
      BY <1>3, <2>2 DEF ReceiveRefresh, ReceiveLogout, Idle
    <2>3. ASSUME NEW t \in held, NEW op, NEW target, ReceiveGuarded(w, t, op, target)
          PROVE  StillSo(req[w])'
      BY <1>3, <2>3 DEF ReceiveGuarded, Idle
    <2> QED BY <2>1, <2>2, <2>3 DEF Ask
  <1> QED BY <1>2, <1>4, SerialOver

LEMMA SerialLogin ==
  ASSUME SerialInv, TypeInv', NEW w \in Worker,
         \/ LoginRead(w) \/ LoginClearLock(w) \/ LoginRefused(w) \/ LoginWrong(w)
         \/ LoginPurge(w) \/ LoginList(w) \/ LoginEvict(w) \/ LoginReset(w)
         \/ \E s \in Sid : LoginCreate(w, s)
  PROVE  SerialInv'
  <1> USE DEF TypeInv, TypeOK
  <1>0. /\ StillSo(req[w]) /\ TypeInv /\ req[w] \in Request /\ InHand(req[w])
        /\ now \in Nat /\ TokensPast /\ HeldKnown
    BY DEF SerialInv, FieldsOK
  <1>1. CASE LoginRead(w)
    <2>1. /\ UNCHANGED <<now, user, session, opened, held>> /\ req'[w].at = "login_check"
          /\ req'[w].row = user[req[w].user] /\ req'[w].user = req[w].user
          /\ req'[w].token = req[w].token
      BY <1>0, <1>1 DEF LoginRead, Request
    <2>2. StillSo(req[w])'
      BY <1>0, <2>1 DEF StillSo, AtLogin, AtRefresh
    <2> QED BY <2>1, <2>2, TokensKept, SerialOver
  <1>2. CASE LoginClearLock(w)
    <2>1. req[w].user \in User /\ req[w].row \in UserRow /\ req[w].at = "login_check"
      BY <1>0, <1>2 DEF LoginClearLock, InHand, BeforeCreate
    <2>2. /\ UNCHANGED <<now, session, opened, held>> /\ req'[w].at = "login_check"
          /\ req'[w].row.lockedUntil = None /\ req'[w].user = req[w].user
          /\ req'[w].token = req[w].token /\ user'[req[w].user].lockedUntil = None
      BY <1>0, <1>2, <2>1 DEF LoginClearLock, Request, Unlocked, UserRow
    <2>3. StillSo(req[w])'
      BY <1>0, <2>2 DEF StillSo, AtLogin, AtRefresh
    <2> QED BY <1>0, <2>2, <2>3, TokensKept, SerialOver
  <1>3. CASE LoginRefused(w) \/ LoginWrong(w)
    <2>1. UNCHANGED <<now, session, opened, held>> /\ Answer(w, "unauthorized")
      BY <1>3 DEF LoginRefused, LoginWrong
    <2>2. StillSo(req[w])'
      BY <2>1, SerialAnswer DEF Answers
    <2> QED BY <1>0, <2>1, <2>2, TokensKept, SerialOver
  <1>4. CASE LoginPurge(w)
    <2>1. /\ UNCHANGED <<now, user, opened, held>> /\ req'[w].at = "login_list"
          /\ req'[w].now = now /\ req'[w].user = req[w].user /\ req'[w].token = req[w].token
          /\ \A s \in DOMAIN session' : /\ s \in DOMAIN session /\ session'[s] = session[s]
                                        /\ s \in SessionsOf(req[w].user) => Live(s, now)
      BY <1>0, <1>4 DEF LoginPurge, Request
    <2>2. user[req[w].user].lockedUntil = None
      <3>1. req[w].row.lockedUntil = user[req[w].user].lockedUntil
        BY <1>0, <1>4 DEF LoginPurge, StillSo
      <3>2. req[w].row.lockedUntil \in Nat \cup {None}
        BY <1>0, <1>4 DEF LoginPurge, InHand, UserRow
      <3> QED BY <1>0, <1>4, <3>1, <3>2 DEF LoginPurge, MayTry, Locked, LockExpired
    <2>3. ASSUME NEW k \in SessionsOf(req[w].user)' PROVE Live(k, now)'
      <3>1. k \in DOMAIN session' /\ session'[k].user = req[w].user
        BY <2>1, <2>3 DEF SessionsOf
      <3> QED BY <2>1, <3>1 DEF SessionsOf, Live
    <2>4. \A k \in SessionsOf(req[w].user)' : Live(k, req[w].now)'
      BY <2>1, <2>3 DEF Live
    <2>5. StillSo(req[w])'
      BY <1>0, <2>1, <2>2, <2>4 DEF StillSo, AtLogin, AtRefresh
    <2> QED BY <1>0, <2>1, <2>5, TokensKept, SerialOver
  <1>5. CASE LoginList(w)
    <2>1. PICK victims \in Overflow(LiveOf(req[w].user, req[w].now)) :
             req' = [req EXCEPT ![w].victims = victims,
                                ![w].at = IF victims = {} THEN "login_create" ELSE "login_evict"]
      BY <1>5 DEF LoginList
    <2>2. /\ UNCHANGED <<now, user, session, opened, held>>
          /\ req'[w].now = req[w].now /\ req'[w].user = req[w].user
          /\ req'[w].token = req[w].token /\ req'[w].victims = victims
          /\ req[w].at = "login_list"
      BY <1>0, <1>5, <2>1 DEF LoginList, Request
    <2>3. req'[w].at \in {"login_create", "login_evict"}
      <3>1. \E at \in {"login_create", "login_evict"} : req' = [req EXCEPT ![w].victims = victims, ![w].at = at]
        BY <2>1
      <3> QED BY <1>0, <3>1 DEF Request
    <2>4. \A k \in SessionsOf(req[w].user) : Live(k, req[w].now)
      BY <1>0, <2>2 DEF StillSo
    <2>5. \A s \in victims, k \in SessionsOf(req[w].user) \ victims : session[s].last <= session[k].last
      BY <2>4, <2>1 DEF Overflow, LiveOf
    <2>6. StillSo(req[w])'
      <3>1. /\ \A k \in SessionsOf(req[w].user)' : Live(k, req[w].now)'
            /\ \A s \in req'[w].victims, k \in SessionsOf(req[w].user)' \ req'[w].victims :
                  session'[s].last <= session'[k].last
        BY <2>2, <2>4, <2>5 DEF SessionsOf, Live
      <3> QED BY <1>0, <2>2, <2>3, <3>1 DEF StillSo, AtLogin, AtRefresh
    <2> QED BY <1>0, <2>2, <2>6, TokensKept, SerialOver
  <1>6. CASE LoginEvict(w)
    <2>1. /\ UNCHANGED <<now, user, opened, held>> /\ req[w].at = "login_evict"
          /\ req'[w].now = req[w].now /\ req'[w].user = req[w].user
          /\ req'[w].token = req[w].token /\ req'[w].at = "login_create"
      BY <1>0, <1>6 DEF LoginEvict, Request
    <2>2. \A s \in DOMAIN session' : s \in DOMAIN session /\ session'[s].token = session[s].token
      BY <1>0, <1>6, RevokeAllType DEF LoginEvict
    <2>3. StillSo(req[w])'
      BY <1>0, <2>1 DEF StillSo, AtLogin, AtRefresh
    <2> QED BY <1>0, <2>1, <2>2, <2>3, TokensKept, SerialOver
  <1>7. ASSUME NEW s \in Sid, LoginCreate(w, s) PROVE SerialInv'
    <2>1. /\ UNCHANGED <<now, user, held>> /\ req[w].at = "login_create" /\ req'[w].at = "login_reset"
          /\ req'[w].user = req[w].user /\ req'[w].token.sid = s /\ req'[w].token.iat = req[w].now
          /\ s \notin opened /\ opened' = opened \cup {s}
          /\ DOMAIN session' = DOMAIN session \cup {s}
          /\ \A i \in DOMAIN session : session'[i] = session[i]
          /\ ~session'[s].revoked /\ session'[s].token = req[w].now
      BY <1>0, <1>7 DEF LoginCreate, Request
    <2>2. req[w].now <= now /\ user[req[w].user].lockedUntil = None
      BY <1>0, <2>1 DEF StillSo, AtLogin
    <2>3. TokensPast'
      BY <1>0, <2>1, <2>2 DEF TokensPast
    <2>4. HeldKnown'
      BY <1>0, <2>1 DEF HeldKnown
    <2>5. StillSo(req[w])'
      BY <2>1, <2>2 DEF StillSo, AtLogin, AtRefresh
    <2> QED BY <2>3, <2>4, <2>5, SerialOver
  <1>8. CASE LoginReset(w)
    <2>1. /\ UNCHANGED <<now, session, opened, held>> /\ req[w].at = "login_reset"
          /\ req'[w].at = "ok" /\ req'[w].token = req[w].token
      BY <1>0, <1>8 DEF LoginReset, AnswerToken, Idle
    <2>2. StillSo(req[w])'
      BY <1>0, <2>1 DEF StillSo, AtLogin, AtRefresh
    <2> QED BY <1>0, <2>1, <2>2, TokensKept, SerialOver
  <1> QED
    BY <1>1, <1>2, <1>3, <1>4, <1>5, <1>6, <1>7, <1>8

LEMMA SerialRefresh ==
  ASSUME SerialInv, TypeInv', NEW w \in Worker,
         RefreshRead(w) \/ RefreshRevoke(w) \/ RefreshUser(w) \/ RefreshWrite(w)
  PROVE  SerialInv'
  <1> USE DEF TypeInv, TypeOK
  <1>0. /\ StillSo(req[w]) /\ TypeInv /\ req[w] \in Request /\ InHand(req[w])
        /\ now \in Nat /\ TokensPast /\ HeldKnown
    BY DEF SerialInv, FieldsOK
  <1>1. CASE Answer(w, "unauthorized") /\ UNCHANGED <<now, session, opened, held>>
    <2>1. StillSo(req[w])'
      BY <1>1, SerialAnswer DEF Answers
    <2> QED BY <1>0, <1>1, <2>1, TokensKept, SerialOver
  <1>2. CASE RefreshRead(w) /\ ~Answer(w, "unauthorized")
    <2> PICK sid : sid = req[w].token.sid
      OBVIOUS
    <2>1. /\ UNCHANGED <<now, user, session, opened, held>>
          /\ req'[w].token = req[w].token /\ req[w].token # None
          /\ req'[w].at \in {"refresh_user", "refresh_revoke"} /\ Live(sid, now)
      <3>1. /\ RefreshValid(req[w].token) /\ Live(req[w].token.sid, now)
            /\ \E at \in {"refresh_user", "refresh_revoke"} : req' = [req EXCEPT ![w].now = now, ![w].at = at]
        BY <1>2 DEF RefreshRead
      <3> QED BY <1>0, <1>2, <3>1 DEF RefreshRead, RefreshValid, Request
    <2>2. req'[w].token.sid = sid /\ sid \in opened /\ sid \in DOMAIN session' /\ ~session'[sid].revoked
      BY <1>0, <2>1 DEF Live
    <2>3. StillSo(req[w])'
      BY <2>1, <2>2 DEF StillSo, AtLogin, AtRefresh
    <2> QED BY <1>0, <2>1, <2>3, TokensKept, SerialOver
  <1>3. CASE RefreshRevoke(w)
    <2>1. UNCHANGED <<now, user, opened, held>> /\ Answer(w, "unauthorized")
      BY <1>3 DEF RefreshRevoke
    <2>2. \A s \in DOMAIN session' : s \in DOMAIN session /\ session'[s].token = session[s].token
      BY <1>0, <1>3, RevokeAllType DEF RefreshRevoke
    <2>3. StillSo(req[w])'
      BY <2>1, SerialAnswer DEF Answers
    <2> QED BY <1>0, <2>1, <2>2, <2>3, TokensKept, SerialOver
  <1>4. CASE RefreshUser(w) /\ ~Answer(w, "unauthorized")
    <2> PICK sid : sid = req[w].token.sid
      OBVIOUS
    <2>1. /\ UNCHANGED <<now, user, session, opened, held>> /\ req[w].at = "refresh_user"
          /\ req[w].token \in Token /\ req' = [req EXCEPT ![w].at = "refresh_write", ![w].token.iat = now]
      BY <1>0, <1>4 DEF RefreshUser, InHand
    <2>2. req'[w].at = "refresh_write" /\ req'[w].token.sid = sid /\ req'[w].token.iat = now
      BY <1>0, <2>1 DEF Request, Token
    <2>3. sid \in DOMAIN session' /\ ~session'[sid].revoked /\ sid \in opened /\ session'[sid].token <= now
      BY <1>0, <2>1 DEF StillSo, AtRefresh, TokensPast
    <2>4. StillSo(req[w])'
      BY <1>0, <2>1, <2>2, <2>3 DEF StillSo, AtLogin, AtRefresh
    <2> QED BY <1>0, <2>1, <2>4, TokensKept, SerialOver
  <1>5. CASE RefreshWrite(w)
    <2> PICK sid, t : sid = req[w].token.sid /\ t = req[w].token
      OBVIOUS
    <2>1. /\ req[w].at = "refresh_write" /\ t \in Token /\ sid \in DOMAIN session /\ sid \in opened
          /\ ~session[sid].revoked /\ session[sid].token <= t.iat /\ t.iat <= now /\ t.sid = sid
      <3>1. req[w].at = "refresh_write" /\ req[w].token \in Token
        BY <1>0, <1>5 DEF RefreshWrite, InHand
      <3> QED BY <1>0, <3>1 DEF StillSo, AtRefresh
    <2>2. /\ UNCHANGED <<now, user, opened, held>> /\ req'[w].at = "ok" /\ req'[w].token = t
          /\ session' = [session EXCEPT ![sid].token = t.iat, ![sid].last = req[w].now,
                                        ![sid].expires = now + RefreshTTL]
      BY <1>0, <1>5, <2>1 DEF RefreshWrite, AnswerToken, Idle
    <2>3. /\ DOMAIN session' = DOMAIN session
          /\ \A s \in DOMAIN session \ {sid} : session'[s] = session[s]
          /\ session'[sid].token = t.iat /\ session'[sid].revoked = session[sid].revoked
      <3>1. session = [s \in DOMAIN session |-> session[s]] /\ session[sid] \in SessionRow
        BY <1>0, <2>1
      <3> QED BY <2>1, <2>2, <3>1 DEF SessionRow
    <2>4. TokensPast'
      BY <1>0, <2>1, <2>2, <2>3 DEF TokensPast
    <2>5. HeldKnown'
      <3> SUFFICES ASSUME NEW h \in held, h.sid \in DOMAIN session
                   PROVE  session'[h.sid].token >= h.iat
        BY <1>0, <2>2, <2>3 DEF HeldKnown
      <3>1. session[h.sid].token >= h.iat /\ h \in Token /\ session[h.sid].token \in Nat
        BY <1>0 DEF HeldKnown, SessionRow
      <3>2. t.iat \in Nat /\ h.iat \in Nat
        BY <2>1, <3>1 DEF Token
      <3> QED BY <2>1, <2>3, <3>1, <3>2
    <2>6. StillSo(req[w])'
      BY <2>1, <2>2, <2>3 DEF StillSo, AtLogin, AtRefresh
    <2> QED BY <2>4, <2>5, <2>6, SerialOver
  <1> QED
    BY <1>1, <1>2, <1>3, <1>4, <1>5 DEF RefreshRead, RefreshUser

LEMMA SerialGuarded ==
  ASSUME SerialInv, TypeInv', NEW w \in Worker,
         Logout(w) \/ GuardUser(w) \/ GuardSession(w) \/ RevokeOne(w) \/ RevokeOthers(w)
  PROVE  SerialInv'
  <1> USE DEF TypeInv, TypeOK
  <1>0. /\ StillSo(req[w]) /\ TypeInv /\ req[w] \in Request /\ InHand(req[w])
        /\ now \in Nat
    BY DEF SerialInv, FieldsOK
  <1>1. CASE Logout(w) \/ RevokeOne(w) \/ RevokeOthers(w)
    <2>1. /\ UNCHANGED <<now, user, opened, held>>
          /\ \E at \in Answers : Answer(w, at)
          /\ \E ids : RevokeAll(ids)
      BY <1>1 DEF Logout, RevokeOne, RevokeOthers, Answers
    <2>2. \A s \in DOMAIN session' : s \in DOMAIN session /\ session'[s].token = session[s].token
      BY <1>0, <2>1, RevokeAllType
    <2>3. StillSo(req[w])'
      BY <2>1, SerialAnswer
    <2> QED BY <1>0, <2>1, <2>2, <2>3, TokensKept, SerialOver
  <1>2. CASE GuardUser(w) \/ GuardSession(w)
    <2>1. /\ UNCHANGED <<now, user, session, opened, held>>
          /\ \/ \E at \in Answers : Answer(w, at)
             \/ \E at \in {"guard_session", "revoke", "revoke_others"} : Become(w, at)
      BY <1>0, <1>2 DEF GuardUser, GuardSession, InHand, Guarded, Answers
    <2>2. ASSUME NEW at \in {"guard_session", "revoke", "revoke_others"}, Become(w, at)
          PROVE  StillSo(req[w])'
      <3>1. req'[w].at = at /\ req'[w].token = req[w].token
        BY <1>0, <2>2 DEF Become, Request
      <3> QED BY <1>0, <2>1, <3>1 DEF StillSo, AtLogin, AtRefresh
    <2>3. StillSo(req[w])'
      BY <2>1, <2>2, SerialAnswer
    <2> QED BY <1>0, <2>1, <2>3, TokensKept, SerialOver
  <1> QED BY <1>1, <1>2

\* Nothing but the clock, or whether an account is active, has changed.
LEMMA SerialRest ==
  ASSUME SerialInv, TypeInv', UNCHANGED <<session, opened, req, held>>, now <= now',
         \A u \in User : user'[u].lockedUntil = user[u].lockedUntil
  PROVE  SerialInv'
  <1>1. TypeInv /\ TokensPast' /\ HeldKnown'
    BY TokensKept DEF SerialInv
  <1>2. ASSUME NEW w \in Worker PROVE StillSo(req[w])'
    <2> PICK r : r = req[w]
      OBVIOUS
    <2>1. /\ StillSo(r) /\ req'[w] = r /\ r \in Request /\ InHand(r)
          /\ now \in Nat /\ now' \in Nat
      BY DEF SerialInv, TypeInv, TypeOK, FieldsOK
    <2>2. r.now \in Nat /\ (r.at \in BeforeCreate \cup {"login_reset"} => r.user \in User)
          /\ (r.at = "refresh_write" => r.token.iat \in Nat)
      BY <2>1 DEF Request, InHand, Token
    <2>3. SessionsOf(r.user)' = SessionsOf(r.user)
      BY DEF SessionsOf
    <2>4. \A k : Live(k, r.now)' <=> Live(k, r.now)
      BY DEF Live
    <2>5. /\ (r.at \in AtLogin => r.now <= now')
          /\ (r.at = "login_check" => r.row.lockedUntil = user'[r.user].lockedUntil)
          /\ (r.at \in AtLogin \cup {"login_reset"} => user'[r.user].lockedUntil = None)
          /\ (r.at = "refresh_write" => r.token.iat <= now')
      <3>1. /\ (r.at \in AtLogin => r.now <= now')
            /\ (r.at = "refresh_write" => r.token.iat <= now')
        BY <2>1, <2>2 DEF StillSo
      <3>2. /\ (r.at = "login_check" => r.row.lockedUntil = user'[r.user].lockedUntil)
            /\ (r.at \in AtLogin \cup {"login_reset"} => user'[r.user].lockedUntil = None)
        BY <2>1, <2>2 DEF StillSo, AtLogin, BeforeCreate
      <3> QED BY <3>1, <3>2
    <2>6. StillSo(r)'
      BY <2>1, <2>3, <2>4, <2>5 DEF StillSo
    <2> QED BY <2>1, <2>6
  <1> QED BY <1>1, <1>2 DEF SerialInv, OneAtATime

LEMMA SerialStep ==
  ASSUME SerialInv, [Next]_vars
  PROVE  SerialInv'
  <1>0. TypeInv /\ TypeInv' /\ now \in Nat
    BY TypeStep DEF SerialInv, TypeInv, TypeOK
  <1>1. ASSUME NEW w \in Worker, Step(w) PROVE SerialInv'
    BY <1>0, <1>1, SerialLogin, SerialRefresh, SerialGuarded DEF Step
  <1>2. ASSUME NEW w \in Worker, Collect(w) \/ Drop(w) PROVE SerialInv'
    <2>1. /\ UNCHANGED <<now, user, session, opened>> /\ req'[w] = Idle
          /\ held' = held \/ held' = held \cup ({req[w].token} \ {None})
          /\ req[w].at \in Answers /\ StillSo(req[w]) /\ req[w] \in Request
      BY <1>0, <1>2 DEF Collect, Drop, SerialInv, TypeInv, TypeOK
    <2>2. StillSo(req[w])'
      BY <2>1 DEF StillSo, Idle, AtLogin, AtRefresh
    <2>3. HeldKnown'
      <3>1. req[w].token # None =>
              /\ req[w].token.sid \in opened /\ req[w].token.sid \in DOMAIN session
              /\ session[req[w].token.sid].token = req[w].token.iat
              /\ req[w].token.iat \in Nat
        BY <2>1 DEF StillSo, Answers, Request, Token
      <3> QED BY <2>1, <3>1 DEF HeldKnown, SerialInv
    <2>4. TokensPast'
      BY <2>1 DEF TokensPast, SerialInv
    <2> QED BY <1>0, <2>2, <2>3, <2>4, SerialOver
  <1>3. ASSUME NEW w \in Worker, Fail(w) PROVE SerialInv'
    <2>1. /\ UNCHANGED <<now, user, session, opened, held>>
          /\ \E at \in Answers : Answer(w, at)
      BY <1>3 DEF Fail, Answers
    <2>2. StillSo(req[w])'
      BY <2>1, SerialAnswer
    <2> QED BY <1>0, <2>1, <2>2, TokensKept, SerialOver
  <1>4. ASSUME NEW u \in User, NEW active \in BOOLEAN, SetActive(u, active) PROVE SerialInv'
    <2>1. \A i \in User : user'[i].lockedUntil = user[i].lockedUntil
      BY <1>0, <1>4 DEF SetActive, TypeInv, TypeOK, UserRow
    <2> QED BY <1>0, <1>4, <2>1, SerialRest DEF SetActive
  <1>5. CASE Tick \/ UNCHANGED vars
    BY <1>0, <1>5, SerialRest DEF Tick, vars
  <1> QED
    BY <1>0, <1>1, <1>2, <1>3, <1>4, <1>5, SerialAsk DEF Next

-----------------------------------------------------------------------------
LEMMA SerialInvariant == OneAtATime /\ Spec => []SerialInv
  <1> QED BY SerialInit, SerialStep, PTL DEF Spec

\* NewestTokenAccepted, when requests do not overlap.
THEOREM NewestCorrect == OneAtATime /\ Spec => []NewestTokenAccepted
  <1>1. SerialInv => NewestTokenAccepted
    BY DEF SerialInv, HeldKnown, NewestTokenAccepted, Live
  <1> QED BY <1>1, SerialInvariant, PTL

\* AnsweredTokenWorks, when requests do not overlap.
THEOREM AnswersCorrect == OneAtATime /\ Spec => []AnsweredTokenWorks
  <1>1. SerialInv => AnsweredTokenWorks
    BY DEF SerialInv, StillSo, AnsweredTokenWorks
  <1> QED BY <1>1, SerialInvariant, PTL

\* EvictsIdlest, when requests do not overlap.
THEOREM EvictionCorrect == OneAtATime /\ Spec => EvictsIdlest
  <1>1. ASSUME SerialInv, [Next]_vars, NEW w \in Worker,
               req[w].at = "login_evict", req'[w].at = "login_create",
               NEW s \in req[w].victims, NEW k \in DOMAIN session',
               session'[k].user = req[w].user, ~session'[k].revoked
        PROVE  session[s].last <= session'[k].last
    <2>1. LoginEvict(w)
      <3>1. PICK v \in Worker : Moves(v)
        BY <1>1, WhoMoves DEF SerialInv
      <3>2. v = w
        BY <1>1, <3>1 DEF Moves
      <3> QED BY <1>1, <3>1, <3>2 DEF Moves, AtLogin, LoginPurge, LoginList
    <2>2. /\ k \in DOMAIN session /\ session[k].user = req[w].user /\ k \notin req[w].victims
          /\ session'[k].last = session[k].last
      BY <1>1, <2>1 DEF LoginEvict, RevokeAll, SerialInv, TypeInv, TypeOK, SessionRow
    <2> QED BY <1>1, <2>2 DEF SerialInv, StillSo, SessionsOf
  <1>2. SerialInv /\ [Next]_vars =>
          [\A w \in Worker :
              (req[w].at = "login_evict" /\ req'[w].at = "login_create") =>
              \A s \in req[w].victims, k \in DOMAIN session' :
                  (Live(s, req[w].now) /\ session'[k].user = req[w].user /\ ~session'[k].revoked)
                  => session[s].last <= session'[k].last]_vars
    BY <1>1
  <1> QED BY <1>2, SerialInvariant, PTL DEF Spec, EvictsIdlest

\* LockHolds, when requests do not overlap.
THEOREM LockCorrect == OneAtATime /\ Spec => LockHolds
  <1>1. ASSUME SerialInv, [Next]_vars, NEW u \in User, Locked(user[u])
        PROVE  user'[u].lockedUntil = user[u].lockedUntil
    <2> USE DEF SerialInv, TypeInv, TypeOK
    <2>1. user[u] \in UserRow /\ user[u].lockedUntil # None /\ user[u].lockedUntil > now /\ now \in Nat
          /\ user[u].lockedUntil \in Nat
      BY <1>1 DEF Locked, UserRow
    <2>2. ASSUME NEW w \in Worker, LoginClearLock(w) \/ LoginWrong(w) \/ LoginReset(w)
          PROVE  req[w].user # u
      <3>1. /\ req[w].at = "login_check" => req[w].row.lockedUntil = user[req[w].user].lockedUntil
            /\ req[w].at = "login_reset" => user[req[w].user].lockedUntil = None
        BY <1>1 DEF StillSo
      <3> QED
        BY <2>1, <2>2, <3>1 DEF LoginClearLock, LoginWrong, LoginReset, MayTry, LockExpired, Locked
    <2>3. ASSUME NEW w \in Worker, LoginClearLock(w) \/ LoginWrong(w) \/ LoginReset(w)
          PROVE  user'[u] = user[u]
      BY <1>1, <2>2, <2>3 DEF LoginClearLock, LoginWrong, LoginReset
    <2>4. ASSUME NEW w \in Worker, Ask(w) \/ Collect(w) \/ Drop(w) \/ Fail(w) PROVE UNCHANGED user
      BY <2>4 DEF Ask, ReceiveLogin, ReceiveRefresh, ReceiveLogout, ReceiveGuarded, Receive,
                  Collect, Drop, Fail
    <2>5. ASSUME NEW w \in Worker, Step(w), ~(LoginClearLock(w) \/ LoginWrong(w) \/ LoginReset(w))
          PROVE  UNCHANGED user
      BY <2>5 DEF Step, LoginRead, LoginRefused, LoginPurge, LoginList, LoginEvict, LoginCreate,
                  RefreshRead, RefreshRevoke, RefreshUser, RefreshWrite, Logout, GuardUser,
                  GuardSession, RevokeOne, RevokeOthers
    <2>6. ASSUME NEW i \in User, NEW active \in BOOLEAN, SetActive(i, active)
          PROVE  user'[u].lockedUntil = user[u].lockedUntil
      BY <1>1, <2>1, <2>6 DEF SetActive, UserRow
    <2>7. CASE Tick \/ UNCHANGED vars
      BY <2>7 DEF Tick, vars
    <2> QED
      BY <1>1, <2>3, <2>4, <2>5, <2>6, <2>7 DEF Next
  <1>2. SerialInv /\ [Next]_vars =>
          [\A u \in User : Locked(user[u]) => user'[u].lockedUntil = user[u].lockedUntil]_vars
    BY <1>1
  <1> QED BY <1>2, SerialInvariant, PTL DEF Spec, LockHolds

-----------------------------------------------------------------------------
(***************************************************************************)
(* The web client.  Tabs and their calls have their types while the server *)
(* answers, fails or times out: whoever waits for an answer knows who      *)
(* handles it.                                                             *)
(***************************************************************************)
Waiting ==
    \A t \in Tab :
        /\ tab[t].phase \in {"refreshing", "logging_out"} => tab[t].worker \in Worker
        /\ \A c \in Call : call[t][c].at = "sent" => call[t][c].worker \in Worker

ClientInv == ClientTypeOK /\ TypeInv /\ Waiting

LEMMA ReceiveTyped ==
  ASSUME TypeInv, NEW w \in Worker, NEW t \in Token \cup {None},
         ReceiveRefresh(w, t) \/ ReceiveLogout(w, t) \/ ReceiveGuarded(w, t, "api", None)
  PROVE  TypeInv'
  <1>1. \A request \in Request :
           Receive(w, request)
           /\ request.at \in {"refresh_read", "logout", "guard_user"}
           /\ (request.at = "guard_user" => request.op \in Guarded) => TypeInv'
    BY DEF Receive, TypeInv, TypeOK, FieldsOK, InHand, BeforeCreate
  <1>2. /\ [Idle EXCEPT !.at = "refresh_read", !.token = t] \in Request
        /\ [Idle EXCEPT !.at = "logout", !.token = t] \in Request
        /\ [Idle EXCEPT !.at = "guard_user", !.token = t, !.op = "api", !.target = None] \in Request
    BY DEF Idle, Request, Pending, Guarded
  <1>3. /\ [Idle EXCEPT !.at = "refresh_read", !.token = t].at = "refresh_read"
        /\ [Idle EXCEPT !.at = "logout", !.token = t].at = "logout"
        /\ [Idle EXCEPT !.at = "guard_user", !.token = t, !.op = "api", !.target = None].at = "guard_user"
        /\ [Idle EXCEPT !.at = "guard_user", !.token = t, !.op = "api", !.target = None].op = "api"
    BY DEF Idle
  <1> QED
    BY <1>1, <1>2, <1>3 DEF ReceiveRefresh, ReceiveLogout, ReceiveGuarded, Guarded

LEMMA CollectTyped ==
  ASSUME TypeInv, NEW w \in Worker, Collect(w)
  PROVE  TypeInv' /\ req[w] \in Request
  BY TypeStep DEF Next, TypeInv, TypeOK

\* One call moves.
Moved(t, c, at, w) == call' = [call EXCEPT ![t][c].at = at, ![t][c].worker = w]
Leads(t, c) == call' = [call EXCEPT ![t][c] = [at |-> "leading", retry |-> TRUE, worker |-> None]]

LEMMA LeadsTyped ==
  ASSUME call \in [Tab -> [Call -> CallRow]], NEW t \in Tab, NEW c \in Call, Leads(t, c)
  PROVE  /\ call' \in [Tab -> [Call -> CallRow]]
         /\ call'[t][c].at = "leading" /\ call'[t][c].retry = TRUE
         /\ \A u \in Tab, d \in Call : (u # t \/ d # c) => call'[u][d] = call[u][d]
  <1> DEFINE row == [at |-> "leading", retry |-> TRUE, worker |-> None]
  <1>1. row \in CallRow /\ row.at = "leading" /\ row.retry = TRUE
    BY DEF CallRow, Unsettled
  <1>2. call' = [call EXCEPT ![t][c] = row]
    BY DEF Leads
  <1> HIDE DEF row
  <1> QED
    BY <1>1, <1>2

LEMMA MoveTyped ==
  ASSUME call \in [Tab -> [Call -> CallRow]], NEW t \in Tab, NEW c \in Call,
         NEW at \in {"idle"} \cup Unsettled \cup Settled, NEW w \in Worker \cup {None},
         Moved(t, c, at, w)
  PROVE  /\ call' \in [Tab -> [Call -> CallRow]]
         /\ call'[t][c].at = at
         /\ call'[t][c].worker = w
         /\ call'[t][c].retry = call[t][c].retry
         /\ \A u \in Tab, d \in Call : (u # t \/ d # c) => call'[u][d] = call[u][d]
  <1> DEFINE r == call[t][c]
             q == [r EXCEPT !.at = at, !.worker = w]
  <1>1. call' = [call EXCEPT ![t][c] = q]
    BY DEF Moved
  <1>2. r \in CallRow
    OBVIOUS
  <1> HIDE DEF r
  <1>3. q \in CallRow /\ q.at = at /\ q.worker = w /\ q.retry = r.retry
    BY <1>2 DEF CallRow
  <1> HIDE DEF q
  <1>4. call' \in [Tab -> [Call -> CallRow]]
    BY <1>1, <1>3
  <1>5. call'[t][c] = q
    BY <1>1
  <1>6. \A u \in Tab, d \in Call : (u # t \/ d # c) => call'[u][d] = call[u][d]
    BY <1>1
  <1> QED
    BY <1>3, <1>4, <1>5, <1>6 DEF r

\* The calls of a tab move.
LEMMA MoveAllTyped ==
  ASSUME call \in [Tab -> [Call -> CallRow]], NEW t \in Tab, NEW from, NEW row \in CallRow,
         MoveAll(t, from, row)
  PROVE  /\ call' \in [Tab -> [Call -> CallRow]]
         /\ \A c \in Call : call'[t][c] = IF call[t][c].at \in from THEN row ELSE call[t][c]
         /\ \A u \in Tab : u # t => call'[u] = call[u]
  BY DEF MoveAll

LEMMA RowsOfCalls ==
  /\ NewCall \in CallRow /\ SendAgain \in CallRow
  /\ GiveUp("error") \in CallRow /\ GiveUp("gone") \in CallRow
  /\ SendAgain.at = "sending" /\ SendAgain.retry = TRUE
  /\ GiveUp("error").at = "error" /\ GiveUp("gone").at = "gone" /\ NewCall.at = "idle"
  BY DEF NewCall, SendAgain, GiveUp, CallRow, Unsettled, Settled

LEMMA ClientTypeInit == ClientInit => ClientInv
  <1> SUFFICES ASSUME ClientInit PROVE ClientInv
    OBVIOUS
  <1>1. user \in [User -> UserRow]
    BY ConstantsAssumption DEF ClientInit, NewUser, UserRow
  <1>2. req \in [Worker -> Request] /\ FieldsOK
    BY IdleType DEF ClientInit, FieldsOK, InHand, Idle, BeforeCreate
  <1>3. PICK u \in User, s \in Sid :
          /\ opened = {s}
          /\ session = [i \in {s} |-> [user |-> u, token |-> 0, last |-> 0,
                                       expires |-> RefreshTTL, revoked |-> FALSE]]
          /\ jar = [user |-> u, sid |-> s, iat |-> 0]
    BY DEF ClientInit
  <1>4. jar \in Token /\ [user |-> u, token |-> 0, last |-> 0, expires |-> RefreshTTL,
                          revoked |-> FALSE] \in SessionRow
    BY <1>3, ConstantsAssumption DEF Token, SessionRow
  <1>5. session \in [DOMAIN session -> SessionRow] /\ DOMAIN session \subseteq opened
    BY <1>3, <1>4
  <1>6. /\ tab \in [Tab -> TabRow] /\ call \in [Tab -> [Call -> CallRow]] /\ Waiting
    BY RowsOfCalls DEF ClientInit, TabRow, Phase, Waiting
  <1> QED
    BY <1>1, <1>2, <1>3, <1>4, <1>5, <1>6
    DEF ClientInit, ClientInv, ClientTypeOK, TypeInv, TypeOK

LEMMA IssueTyped ==
  ASSUME ClientInv, hurt' \in BOOLEAN, NEW t \in Tab, NEW c \in Call,
         Issue(t, c) \/ TimeOutCall(t, c)
  PROVE  ClientInv'
  <1> USE DEF ClientInv, ClientTypeOK
  <1>1. PICK at \in {"sending", "error"} : Move(t, c, at)
    BY DEF Issue, TimeOutCall
  <1>2. UNCHANGED <<vars, jar, tab>>
    BY DEF Issue, TimeOutCall
  <1>3. /\ call' \in [Tab -> [Call -> CallRow]]
        /\ call'[t][c].at = at
        /\ \A u \in Tab, d \in Call : (u # t \/ d # c) => call'[u][d] = call[u][d]
    <2>1. at \in {"idle"} \cup Unsettled \cup Settled
      BY DEF Unsettled, Settled
    <2>2. Moved(t, c, at, None)
      BY <1>1 DEF Move, Moved
    <2> QED
      BY <2>1, <2>2, MoveTyped
  <1>4. TypeInv'
    BY <1>2, TypeStep
  <1> QED
    BY <1>1, <1>2, <1>3, <1>4 DEF Waiting, TypeInv

LEMMA DispatchTyped ==
  ASSUME ClientInv, hurt' \in BOOLEAN, NEW t \in Tab, NEW c \in Call, NEW w \in Worker,
         Dispatch(t, c, w)
  PROVE  /\ ClientInv'
         /\ call'[t][c].at = "sent" /\ call'[t][c].worker = w
         /\ call'[t][c].retry = call[t][c].retry
         /\ \A u \in Tab, d \in Call : (u # t \/ d # c) => call'[u][d] = call[u][d]
  <1> USE DEF ClientInv, ClientTypeOK
  <1>1. TypeInv'
    BY ReceiveTyped DEF Dispatch
  <1>2. "sent" \in {"idle"} \cup Unsettled \cup Settled
    BY DEF Unsettled
  <1>3. Moved(t, c, "sent", w)
    BY DEF Dispatch, Moved
  <1>4. /\ call' \in [Tab -> [Call -> CallRow]]
        /\ call'[t][c].at = "sent" /\ call'[t][c].worker = w
        /\ call'[t][c].retry = call[t][c].retry
        /\ \A u \in Tab, d \in Call : (u # t \/ d # c) => call'[u][d] = call[u][d]
    BY <1>2, <1>3, MoveTyped
  <1>5. Waiting'
    BY <1>4 DEF Dispatch, Waiting
  <1> QED
    BY <1>1, <1>4, <1>5 DEF Dispatch, TypeInv

LEMMA ArrivesTyped ==
  ASSUME ClientInv, NEW t \in Tab, NEW c \in Call, NEW answer, Arrives(t, c, answer)
  PROVE  TypeInv'
  BY CollectTyped DEF ClientInv, Waiting, Arrives

\* What the tab does with the answer to a call.
LEMMA CallGoesOn ==
  ASSUME ClientInv, NEW t \in Tab, NEW c \in Call,
         (\E at \in {"ok", "error", "queued"} : Move(t, c, at)) \/ Leads(t, c)
  PROVE  /\ call' \in [Tab -> [Call -> CallRow]]
         /\ \A u \in Tab, d \in Call : (u # t \/ d # c) => call'[u][d] = call[u][d]
         /\ call'[t][c].at # "sent"
  <1> USE DEF ClientInv, ClientTypeOK
  <1>1. ASSUME NEW at \in {"ok", "error", "queued"}, Move(t, c, at)
        PROVE  /\ call' \in [Tab -> [Call -> CallRow]]
               /\ \A u \in Tab, d \in Call : (u # t \/ d # c) => call'[u][d] = call[u][d]
               /\ call'[t][c].at # "sent"
    <2>1. at \in {"idle"} \cup Unsettled \cup Settled
      BY DEF Unsettled, Settled
    <2>2. Moved(t, c, at, None)
      BY <1>1 DEF Move, Moved
    <2> QED
      BY <2>1, <2>2, MoveTyped
  <1> QED
    BY <1>1, LeadsTyped

LEMMA AnsweredTyped ==
  ASSUME ClientInv, hurt' \in BOOLEAN, NEW t \in Tab, NEW c \in Call,
         Settle(t, c) \/ Unauthorized(t, c) \/ UnauthorizedAgain(t, c)
  PROVE  ClientInv'
  <1> USE DEF ClientInv, ClientTypeOK
  <1>1. TypeInv'
    BY ArrivesTyped DEF Settle, Unauthorized, UnauthorizedAgain
  <1>2. jar' = jar
    BY DEF Settle, Unauthorized, UnauthorizedAgain
  <1>3. tab' = tab \/ tab' = [tab EXCEPT ![t].leaving = TRUE]
                  \/ tab' = [tab EXCEPT ![t].phase = "refresh"]
    BY DEF Settle, Unauthorized, UnauthorizedAgain
  <1>4. /\ tab' \in [Tab -> TabRow]
        /\ \A u \in Tab : tab'[u].worker = tab[u].worker
        /\ \A u \in Tab : tab'[u].phase \in {tab[u].phase, "refresh"}
    <2>1. CASE tab' = tab
      BY <2>1
    <2>2. CASE tab' = [tab EXCEPT ![t].leaving = TRUE]
      BY <2>2 DEF TabRow
    <2>3. CASE tab' = [tab EXCEPT ![t].phase = "refresh"]
      BY <2>3 DEF TabRow, Phase
    <2> QED
      BY <1>3, <2>1, <2>2, <2>3
  <1>5. /\ call' \in [Tab -> [Call -> CallRow]]
        /\ \A u \in Tab, d \in Call : (u # t \/ d # c) => call'[u][d] = call[u][d]
        /\ call'[t][c].at # "sent"
    <2>1. (\E at \in {"ok", "error", "queued"} : Move(t, c, at)) \/ Leads(t, c)
      BY DEF Settle, Unauthorized, UnauthorizedAgain, Leads
    <2> QED
      BY <2>1, CallGoesOn
  <1>6. Waiting'
    BY <1>4, <1>5 DEF Waiting
  <1> QED
    BY <1>1, <1>2, <1>4, <1>5, <1>6 DEF TypeInv

\* The tab itself moves.
LEMMA TabMoved ==
  ASSUME tab \in [Tab -> TabRow], NEW t \in Tab,
         RefreshSucceeds(t) \/ RefreshFails(t) \/ LogoutEnds(t) \/ Leave(t)
            \/ TimeOutRefresh(t) \/ TimeOutLogout(t)
  PROVE  /\ tab' \in [Tab -> TabRow]
         /\ tab'[t].phase \in {"ready", "logout"}
         /\ \A u \in Tab : u # t => tab'[u] = tab[u]
  <1>1. CASE RefreshSucceeds(t)
    <2>1. tab' = [tab EXCEPT ![t].phase = "ready", ![t].worker = None]
      BY <1>1 DEF RefreshSucceeds
    <2> QED
      BY <2>1 DEF TabRow, Phase
  <1>2. CASE RefreshFails(t)
    <2> DEFINE to == req[tab[t].worker].at = "unauthorized"
    <2>1. tab' = [tab EXCEPT ![t].phase = "logout", ![t].worker = None, ![t].leaving = @ \/ to]
      BY <1>2 DEF RefreshFails
    <2>2. to \in BOOLEAN
      OBVIOUS
    <2> HIDE DEF to
    <2> QED
      BY <2>1, <2>2 DEF TabRow, Phase
  <1>3. CASE LogoutEnds(t) \/ TimeOutLogout(t)
    <2>1. tab' = [tab EXCEPT ![t].phase = "ready", ![t].worker = None, ![t].leaving = TRUE]
      BY <1>3 DEF LogoutEnds, TimeOutLogout
    <2> QED
      BY <2>1 DEF TabRow, Phase
  <1>4. CASE Leave(t)
    <2> DEFINE row == [phase |-> "ready", worker |-> None, leaving |-> FALSE, page |-> "login"]
    <2>1. tab' = [tab EXCEPT ![t] = row]
      BY <1>4 DEF Leave
    <2>2. row \in TabRow /\ row.phase = "ready"
      BY DEF TabRow, Phase
    <2> HIDE DEF row
    <2> QED
      BY <2>1, <2>2
  <1>5. CASE TimeOutRefresh(t)
    <2>1. tab' = [tab EXCEPT ![t].phase = "logout", ![t].worker = None]
      BY <1>5 DEF TimeOutRefresh
    <2> QED
      BY <2>1 DEF TabRow, Phase
  <1> QED
    BY <1>1, <1>2, <1>3, <1>4, <1>5

LEMMA CallsMoved ==
  ASSUME call \in [Tab -> [Call -> CallRow]], NEW t \in Tab,
         RefreshSucceeds(t) \/ RefreshFails(t) \/ LogoutEnds(t) \/ Leave(t)
            \/ TimeOutRefresh(t) \/ TimeOutLogout(t)
  PROVE  /\ call' \in [Tab -> [Call -> CallRow]]
         /\ \A u \in Tab, c \in Call : call'[u][c] = call[u][c] \/ call'[u][c].at # "sent"
  <1>1. PICK from \in {{"queued", "leading"}, {"queued"}, {"leading"}, Unsettled},
             row \in {SendAgain, GiveUp("error"), GiveUp("gone")} : MoveAll(t, from, row)
    BY DEF RefreshSucceeds, RefreshFails, LogoutEnds, Leave, TimeOutRefresh, TimeOutLogout
  <1>2. row \in CallRow /\ row.at # "sent"
    BY <1>1, RowsOfCalls
  <1>3. /\ call' \in [Tab -> [Call -> CallRow]]
        /\ \A c \in Call : call'[t][c] = IF call[t][c].at \in from THEN row ELSE call[t][c]
        /\ \A u \in Tab : u # t => call'[u] = call[u]
    BY <1>1, <1>2, MoveAllTyped
  <1> QED
    BY <1>2, <1>3

LEMMA TabTyped ==
  ASSUME ClientInv, hurt' \in BOOLEAN, NEW t \in Tab,
         \/ \E w \in Worker : StartRefresh(t, w) \/ StartLogout(t, w)
         \/ RefreshSucceeds(t) \/ RefreshFails(t) \/ LogoutEnds(t) \/ Leave(t)
         \/ TimeOutRefresh(t) \/ TimeOutLogout(t)
  PROVE  ClientInv'
  <1> USE DEF ClientInv, ClientTypeOK
  <1>1. ASSUME NEW w \in Worker, StartRefresh(t, w) \/ StartLogout(t, w) PROVE ClientInv'
    <2>1. TypeInv'
      BY <1>1, ReceiveTyped DEF StartRefresh, StartLogout
    <2>2. PICK phase \in {"refreshing", "logging_out"} :
             tab' = [tab EXCEPT ![t].phase = phase, ![t].worker = w]
      BY <1>1 DEF StartRefresh, StartLogout
    <2>3. /\ tab' \in [Tab -> TabRow]
          /\ tab'[t].worker = w
          /\ \A u \in Tab : u # t => tab'[u] = tab[u]
      BY <2>2 DEF TabRow, Phase
    <2>4. jar' = jar /\ call' = call
      BY <1>1 DEF StartRefresh, StartLogout
    <2>5. Waiting'
      BY <2>3, <2>4 DEF Waiting
    <2> QED
      BY <2>1, <2>3, <2>4, <2>5 DEF TypeInv
  <1>2. CASE RefreshSucceeds(t) \/ RefreshFails(t) \/ LogoutEnds(t)
    <2>1. TypeInv' /\ req[tab[t].worker] \in Request
      BY <1>2, CollectTyped DEF RefreshSucceeds, RefreshFails, LogoutEnds, Waiting
    <2>2. jar' \in Token \cup {None}
      BY <1>2, <2>1 DEF RefreshSucceeds, RefreshFails, LogoutEnds, Request
    <2>3. /\ tab' \in [Tab -> TabRow]
          /\ tab'[t].phase \in {"ready", "logout"}
          /\ \A u \in Tab : u # t => tab'[u] = tab[u]
      BY <1>2, TabMoved
    <2>4. /\ call' \in [Tab -> [Call -> CallRow]]
          /\ \A u \in Tab, c \in Call : call'[u][c] = call[u][c] \/ call'[u][c].at # "sent"
      BY <1>2, CallsMoved
    <2>5. Waiting'
      BY <2>3, <2>4 DEF Waiting
    <2> QED
      BY <2>1, <2>2, <2>3, <2>4, <2>5 DEF TypeInv
  <1>3. CASE Leave(t) \/ TimeOutRefresh(t) \/ TimeOutLogout(t)
    <2>1. TypeInv'
      BY <1>3, TypeStep DEF Leave, TimeOutRefresh, TimeOutLogout
    <2>2. jar' = jar
      BY <1>3 DEF Leave, TimeOutRefresh, TimeOutLogout
    <2>3. /\ tab' \in [Tab -> TabRow]
          /\ tab'[t].phase \in {"ready", "logout"}
          /\ \A u \in Tab : u # t => tab'[u] = tab[u]
      BY <1>3, TabMoved
    <2>4. /\ call' \in [Tab -> [Call -> CallRow]]
          /\ \A u \in Tab, c \in Call : call'[u][c] = call[u][c] \/ call'[u][c].at # "sent"
      BY <1>3, CallsMoved
    <2>5. Waiting'
      BY <2>3, <2>4 DEF Waiting
    <2> QED
      BY <2>1, <2>2, <2>3, <2>4, <2>5 DEF TypeInv
  <1> QED
    BY <1>1, <1>2, <1>3

\* The server, the clock and the administrators.
LEMMA AloneTyped ==
  ASSUME ClientInv, hurt' \in BOOLEAN, [Next]_vars, UNCHANGED clientVars
  PROVE  ClientInv'
  BY TypeStep DEF clientVars, ClientInv, ClientTypeOK, Waiting, TypeInv

LEMMA ClientTypeNext == ClientInv /\ [ClientNext]_allVars => ClientInv'
  <1> SUFFICES ASSUME ClientInv, [ClientNext]_allVars PROVE ClientInv'
    OBVIOUS
  <1>1. CASE UNCHANGED allVars
    BY <1>1, AloneTyped DEF allVars, ClientInv, ClientTypeOK
  <1>2. CASE ClientNext
    <2>0. hurt' \in BOOLEAN
      BY <1>2 DEF ClientNext, ClientInv, ClientTypeOK
    <2>1. ASSUME NEW t \in Tab, ClientStep(t) PROVE ClientInv'
      BY <2>0, <2>1, AnsweredTyped, DispatchTyped, TabTyped DEF ClientStep
    <2>2. ASSUME NEW t \in Tab, NEW c \in Call, Issue(t, c) PROVE ClientInv'
      BY <2>0, <2>2, IssueTyped
    <2>3. ASSUME NEW w \in Worker, ServerStep(w) \/ (Fail(w) /\ UNCHANGED clientVars) PROVE ClientInv'
      BY <2>0, <2>3, AloneTyped DEF ServerStep, Next
    <2>4. CASE Tick /\ UNCHANGED clientVars
      BY <2>0, <2>4, AloneTyped DEF Next
    <2>5. ASSUME NEW u \in User, SetActive(u, FALSE), UNCHANGED clientVars PROVE ClientInv'
      BY <2>0, <2>5, AloneTyped DEF Next
    <2>6. ASSUME NEW t \in Tab,
                 (\E c \in Call : TimeOutCall(t, c)) \/ TimeOutRefresh(t) \/ TimeOutLogout(t)
          PROVE  ClientInv'
      BY <2>0, <2>6, IssueTyped, TabTyped
    <2> QED
      BY <1>2, <2>1, <2>2, <2>3, <2>4, <2>5, <2>6 DEF ClientNext, Trouble
  <1> QED
    BY <1>1, <1>2

LEMMA ClientTypeInvariant == ClientSpec => []ClientInv
  <1> QED
    BY ClientTypeInit, ClientTypeNext, PTL DEF ClientSpec

\* Tabs, calls and cookies always have their types, and with them the tables
\* and requests of the server they talk to (lib/api.ts).
THEOREM ClientTypeCorrect == ClientSpec => []ClientTypeOK
  <1>1. ClientInv => ClientTypeOK
    BY DEF ClientInv
  <1> QED BY <1>1, ClientTypeInvariant, PTL

-----------------------------------------------------------------------------
(***************************************************************************)
(* One tab of which nothing fails.  Its session is up and expects the      *)
(* tokens of the jar, or those of a refresh that is about to arrive; it    *)
(* refreshes because a token ran out, so the tokens it gets last to the    *)
(* end, and no call is refused twice.                                      *)
(***************************************************************************)
Alone == \A t, u \in Tab : t = u
Brief == MaxTime < RefreshTTL /\ MaxTime < 2 * AccessTTL

Outlasts(token) == token.iat >= AccessTTL
Renewing == {"refresh_read", "refresh_user", "refresh_write"}

Harmless(w) ==
    /\ req[w].at \in {"idle", "guard_user", "guard_session", "ok", "unauthorized"} \cup Renewing
    /\ req[w].at \in {"guard_user", "guard_session"} => req[w].op = "api"
    /\ req[w].at \in Renewing =>
          \E t \in Tab : tab[t].phase = "refreshing" /\ tab[t].worker = w

Renewed(t) == tab[t].phase = "refreshing" /\ req[tab[t].worker].at = "ok"

SessionUp ==
    /\ now <= MaxTime
    /\ \A u \in User : user[u].active
    /\ jar \in Token /\ jar.iat <= now
    /\ jar.sid \in DOMAIN session
    /\ ~session[jar.sid].revoked
    /\ session[jar.sid].expires >= RefreshTTL
    /\ session[jar.sid].token = jar.iat \/ \E t \in Tab : Renewed(t)

RefreshUp(r) ==
    /\ r.at \in Renewing \cup {"ok"}
    /\ r.at \in {"refresh_read", "refresh_user"} => r.token = jar
    /\ r.at \in {"refresh_write", "ok"} =>
          /\ r.token \in Token /\ r.token.sid = jar.sid
          /\ Outlasts(r.token) /\ r.token.iat <= now
    /\ r.at = "ok" => session[jar.sid].token = r.token.iat

TabUp(t) ==
    /\ tab[t].page = "app" /\ ~tab[t].leaving
    /\ tab[t].phase \in {"ready", "refresh", "refreshing"}
    /\ tab[t].phase # "ready" => now >= AccessTTL
    /\ tab[t].phase = "refreshing" => RefreshUp(req[tab[t].worker])

\* r is the request that a call waits for.
SentUp(retry, r) ==
    /\ r.at \in {"guard_user", "guard_session", "ok", "unauthorized"}
    /\ r.at \in {"guard_user", "guard_session"} =>
          /\ r.token \in Token /\ r.token.sid = jar.sid /\ r.op = "api"
          /\ retry => Outlasts(r.token)
    /\ r.at \in {"ok", "unauthorized"} => r.token = None
    /\ r.at = "unauthorized" => now >= AccessTTL /\ ~retry

CallUp(t, c) ==
    /\ call[t][c].at # "error"
    /\ call[t][c].at = "idle" => ~call[t][c].retry
    /\ (call[t][c].at = "sending" /\ call[t][c].retry) => Outlasts(jar)
    /\ call[t][c].at = "sent" => SentUp(call[t][c].retry, req[call[t][c].worker])

\* Calls do not share the request they wait for.
Apart ==
    \A t \in Tab, c, d \in Call :
        (c # d /\ call[t][c].at = "sent" /\ call[t][d].at = "sent")
        => call[t][c].worker # call[t][d].worker

Well ==
    /\ SessionUp /\ Apart
    /\ \A w \in Worker : Harmless(w)
    /\ \A t \in Tab : TabUp(t) /\ \A c \in Call : CallUp(t, c)

UpInv == Alone /\ Brief /\ ClientInv /\ (hurt \/ Well)

LEMMA UpInit == Alone /\ Brief /\ ClientInit => UpInv
  <1> SUFFICES ASSUME Alone, Brief, ClientInit PROVE Well
    BY ClientTypeInit DEF UpInv
  <1>1. PICK u \in User, s \in Sid :
          /\ session = [i \in {s} |-> [user |-> u, token |-> 0, last |-> 0,
                                       expires |-> RefreshTTL, revoked |-> FALSE]]
          /\ jar = [user |-> u, sid |-> s, iat |-> 0]
    BY DEF ClientInit
  <1>2. SessionUp
    BY <1>1, ConstantsAssumption DEF SessionUp, Brief, ClientInit, Token, NewUser
  <1>3. \A w \in Worker : Harmless(w)
    BY DEF ClientInit, Harmless, Idle, Renewing
  <1>4. \A t \in Tab : TabUp(t) /\ \A c \in Call : CallUp(t, c)
    BY DEF ClientInit, TabUp, CallUp, NewCall
  <1>5. Apart
    BY DEF ClientInit, Apart, NewCall
  <1> QED
    BY <1>2, <1>3, <1>4, <1>5 DEF Well

\* What the request of one worker does not concern stays.
LEMMA CallStays ==
  ASSUME NEW w \in Worker, \A v \in Worker \ {w} : req'[v] = req[v], Waiting,
         now \in Nat, now' \in Nat, now <= now', jar'.sid = jar.sid,
         NEW t \in Tab, NEW c \in Call, CallUp(t, c), call'[t][c] = call[t][c],
         call[t][c].at = "sent" => call[t][c].worker # w,
         (call[t][c].at = "sending" /\ call[t][c].retry) => Outlasts(jar)'
  PROVE  CallUp(t, c)'
  <1>1. call[t][c].at = "sent" => req'[call[t][c].worker] = req[call[t][c].worker]
    BY DEF Waiting
  <1> QED
    BY <1>1, ConstantsAssumption DEF CallUp, SentUp

LEMMA TabStays ==
  ASSUME NEW w \in Worker, \A v \in Worker \ {w} : req'[v] = req[v], Waiting,
         now \in Nat, now' \in Nat, now <= now', jar' = jar, session' = session, TypeInv,
         NEW t \in Tab, TabUp(t), tab'[t] = tab[t],
         tab[t].phase = "refreshing" => tab[t].worker # w
  PROVE  TabUp(t)'
  <1>1. tab[t].phase = "refreshing" => req'[tab[t].worker] = req[tab[t].worker]
    BY DEF Waiting
  <1>2. \A token \in Token : token.iat \in Nat
    BY DEF Token
  <1> QED
    BY <1>1, <1>2, ConstantsAssumption DEF TabUp, RefreshUp, Outlasts

\* Nobody whose call or whose tab waits for w waits for another one, and those
\* that wait for an answer of the other kind do not wait for w.
LEMMA WhoWaits ==
  ASSUME UpInv, Well, NEW w \in Worker
  PROVE  /\ req[w].at = "idle" =>
                /\ \A t \in Tab : tab[t].phase = "refreshing" => tab[t].worker # w
                /\ \A t \in Tab, c \in Call : call[t][c].at = "sent" => call[t][c].worker # w
         /\ req[w].at \in Renewing =>
                \A t \in Tab, c \in Call : call[t][c].at = "sent" => call[t][c].worker # w
         /\ req[w].at \in {"guard_user", "guard_session", "unauthorized"} =>
                \A t \in Tab : tab[t].phase = "refreshing" => tab[t].worker # w
         /\ (req[w].at = "ok" /\ req[w].token = None) =>
                \A t \in Tab : tab[t].phase = "refreshing" => tab[t].worker # w
         /\ (req[w].at = "ok" /\ req[w].token # None) =>
                \A t \in Tab, c \in Call : call[t][c].at = "sent" => call[t][c].worker # w
  <1> QED
    BY ClientAssumption DEF Well, TabUp, RefreshUp, CallUp, SentUp, Renewing

\* A new request of the client, for which w had nothing to do.
LEMMA UpReceive ==
  ASSUME UpInv, Well, ClientInv', hurt' = hurt, NEW t \in Tab,
         \/ \E c \in Call : Issue(t, c)
         \/ \E c \in Call, w \in Worker : Dispatch(t, c, w)
         \/ \E w \in Worker : StartRefresh(t, w) \/ StartLogout(t, w)
  PROVE  Well'
  <1> USE DEF UpInv, ClientInv, ClientTypeOK
  <1>0. /\ now \in Nat /\ jar \in Token /\ TypeInv /\ Waiting
        /\ req \in [Worker -> Request]
    BY DEF Well, SessionUp, TypeInv, TypeOK
  <1>1. ASSUME NEW c \in Call, Issue(t, c) PROVE Well'
    <2>1. UNCHANGED <<vars, jar, tab>> /\ call[t][c].at = "idle" /\ Moved(t, c, "sending", None)
      BY <1>1 DEF Issue, Move, Moved
    <2>2. "sending" \in {"idle"} \cup Unsettled \cup Settled
      BY DEF Unsettled
    <2>3. /\ call'[t][c].at = "sending" /\ call'[t][c].retry = call[t][c].retry
          /\ \A u \in Tab, d \in Call : (u # t \/ d # c) => call'[u][d] = call[u][d]
      BY <2>1, <2>2, MoveTyped
    <2>4. \A u \in Tab, d \in Call : CallUp(u, d)'
      <3>1. CallUp(t, c)'
        BY <2>1, <2>3 DEF Well, CallUp
      <3>2. ASSUME NEW u \in Tab, NEW d \in Call, u # t \/ d # c PROVE CallUp(u, d)'
        <4>1. call'[u][d] = call[u][d] /\ req' = req /\ now' = now /\ jar' = jar
          BY <2>1, <2>3, <3>2 DEF vars
        <4>2. CallUp(u, d)
          BY DEF Well
        <4> QED
          BY <4>1, <4>2 DEF CallUp, SentUp, Outlasts
      <3> QED
        BY <3>1, <3>2
    <2>5. Apart'
      BY <2>1, <2>3 DEF Well, Apart
    <2>6. SessionUp' /\ (\A w \in Worker : Harmless(w)') /\ \A u \in Tab : TabUp(u)'
      BY <2>1 DEF Well, SessionUp, Renewed, Harmless, TabUp, RefreshUp, vars
    <2> QED
      BY <2>4, <2>5, <2>6 DEF Well
  <1>2. ASSUME NEW c \in Call, NEW w \in Worker, Dispatch(t, c, w) PROVE Well'
    <2>1. /\ call'[t][c].at = "sent" /\ call'[t][c].worker = w
          /\ call'[t][c].retry = call[t][c].retry
          /\ \A u \in Tab, d \in Call : (u # t \/ d # c) => call'[u][d] = call[u][d]
      BY <1>2, DispatchTyped
    <2>2. /\ UNCHANGED <<now, user, session, opened, held, jar, tab>>
          /\ req[w].at = "idle" /\ call[t][c].at = "sending"
          /\ \A v \in Worker \ {w} : req'[v] = req[v]
          /\ req'[w].at = "guard_user" /\ req'[w].token = jar /\ req'[w].op = "api"
      BY <1>0, <1>2 DEF Dispatch, ReceiveGuarded, Receive, Idle
    <2>3. \A u \in Tab : TabUp(u)'
      BY <1>0, <2>2, TabStays, WhoWaits DEF Well
    <2>4. CallUp(t, c)'
      BY <1>0, <2>1, <2>2 DEF Well, CallUp, SentUp
    <2>5. ASSUME NEW u \in Tab, NEW d \in Call, u # t \/ d # c PROVE CallUp(u, d)'
      <3>1. call'[u][d] = call[u][d] /\ (call[u][d].at = "sent" => call[u][d].worker # w)
        BY <2>1, <2>2, <2>5, WhoWaits
      <3>2. (call[u][d].at = "sending" /\ call[u][d].retry) => Outlasts(jar)'
        BY <2>2 DEF Well, CallUp, Outlasts
      <3> QED
        BY <1>0, <2>2, <3>1, <3>2, CallStays DEF Well
    <2>6. Apart'
      <3>1. \A u \in Tab, d \in Call : (call[u][d].at = "sent") => call[u][d].worker # w
        BY <2>2, WhoWaits
      <3> QED
        BY <2>1, <3>1 DEF Well, Apart
    <2>7. SessionUp' /\ \A v \in Worker : Harmless(v)'
      <3>1. \A u \in Tab : Renewed(u) => Renewed(u)'
        BY <2>2, WhoWaits DEF Renewed, Waiting
      <3>2. SessionUp'
        BY <2>2, <3>1 DEF Well, SessionUp
      <3> QED
        BY <2>2, <3>2 DEF Well, Harmless, Renewing
    <2> QED
      BY <2>3, <2>4, <2>5, <2>6, <2>7 DEF Well
  <1>3. ASSUME NEW w \in Worker, StartRefresh(t, w) PROVE Well'
    <2>1. /\ UNCHANGED <<now, user, session, opened, held, jar, call>>
          /\ req[w].at = "idle" /\ tab[t].phase = "refresh"
          /\ \A v \in Worker \ {w} : req'[v] = req[v]
          /\ req'[w].at = "refresh_read" /\ req'[w].token = jar
          /\ tab' = [tab EXCEPT ![t].phase = "refreshing", ![t].worker = w]
      BY <1>0, <1>3 DEF StartRefresh, ReceiveRefresh, Receive, Idle
    <2>2. /\ tab'[t].phase = "refreshing" /\ tab'[t].worker = w
          /\ tab'[t].page = tab[t].page /\ tab'[t].leaving = tab[t].leaving
      BY <2>1 DEF TabRow
    <2>3. \A u \in Tab : u = t
      BY DEF Alone
    <2>4. \A u \in Tab : TabUp(u)'
      BY <2>1, <2>2, <2>3 DEF Well, TabUp, RefreshUp, Renewing
    <2>5. \A u \in Tab, d \in Call : CallUp(u, d)'
      <3> SUFFICES ASSUME NEW u \in Tab, NEW d \in Call PROVE CallUp(u, d)'
        OBVIOUS
      <3>1. call'[u][d] = call[u][d] /\ (call[u][d].at = "sent" => call[u][d].worker # w)
        BY <2>1, WhoWaits
      <3>2. (call[u][d].at = "sending" /\ call[u][d].retry) => Outlasts(jar)'
        BY <2>1 DEF Well, CallUp, Outlasts
      <3> QED
        BY <1>0, <2>1, <3>1, <3>2, CallStays DEF Well
    <2>6. Apart'
      BY <2>1 DEF Well, Apart
    <2>7. SessionUp'
      BY <2>1, <2>3 DEF Well, SessionUp, Renewed
    <2>8. \A v \in Worker : Harmless(v)'
      <3>1. \A v \in Worker : req[v].at \notin Renewing
        BY <2>1, <2>3 DEF Well, Harmless
      <3> QED
        BY <2>1, <2>2, <3>1 DEF Well, Harmless, Renewing
    <2> QED
      BY <2>4, <2>5, <2>6, <2>7, <2>8 DEF Well
  <1>4. ASSUME NEW w \in Worker, StartLogout(t, w) PROVE FALSE
    BY <1>4 DEF StartLogout, Well, TabUp
  <1> QED
    BY <1>1, <1>2, <1>3, <1>4

\* The answer to a call.
LEMMA UpAnswered ==
  ASSUME UpInv, Well, ClientInv', hurt' = hurt, NEW t \in Tab, NEW c \in Call,
         Settle(t, c) \/ Unauthorized(t, c) \/ UnauthorizedAgain(t, c)
  PROVE  Well'
  <1> USE DEF UpInv, ClientInv, ClientTypeOK
  <1> DEFINE w == call[t][c].worker
  <1>0. /\ now \in Nat /\ jar \in Token /\ TypeInv /\ Waiting
        /\ req \in [Worker -> Request]
    BY DEF Well, SessionUp, TypeInv, TypeOK
  <1>1. PICK answer \in {"ok", "error", "unauthorized"} : Arrives(t, c, answer)
    BY DEF Settle, Unauthorized, UnauthorizedAgain
  <1>2. /\ call[t][c].at = "sent" /\ w \in Worker /\ SentUp(call[t][c].retry, req[w])
        /\ req[w].at = answer
    BY <1>1 DEF Arrives, Waiting, Well, CallUp
  <1>3. /\ answer \in {"ok", "unauthorized"} /\ req[w].token = None
        /\ answer = "unauthorized" => now >= AccessTTL /\ ~call[t][c].retry
    BY <1>2 DEF SentUp
  <1>4. /\ UNCHANGED <<now, user, session, opened>> /\ jar' = jar
        /\ \A v \in Worker \ {w} : req'[v] = req[v]
        /\ req'[w] = Idle
    BY <1>0, <1>1, <1>2
    DEF Arrives, Collect, Settle, Unauthorized, UnauthorizedAgain
  <1> HIDE DEF w
  <1>5. \A u \in Tab : tab[u].phase = "refreshing" => tab[u].worker # w
    BY <1>2, <1>3, WhoWaits
  <1>6. \A d \in Call : d # c /\ call[t][d].at = "sent" => call[t][d].worker # w
    BY <1>2 DEF Well, Apart, w
  <1>7. \A u \in Tab : u = t
    BY DEF Alone
  <1>8. /\ \A d \in Call : d # c => call'[t][d] = call[t][d]
        /\ call'[t][c].at \in {"ok", "queued", "leading"}
        /\ \/ tab' = tab
           \/ tab' = [tab EXCEPT ![t].phase = "refresh"] /\ now >= AccessTTL
              /\ tab[t].phase = "ready"
    <2>1. CASE Settle(t, c)
      <3>1. Move(t, c, "ok") /\ tab' = tab
        BY <1>2, <1>3, <2>1 DEF Settle, Arrives, w
      <3>2. Moved(t, c, "ok", None)
        BY <3>1 DEF Move, Moved
      <3> QED
        BY <3>1, <3>2, MoveTyped DEF Settled
    <2>2. CASE Unauthorized(t, c)
      <3>1. now >= AccessTTL
        BY <1>2, <1>3, <2>2 DEF Unauthorized, Arrives, w
      <3>2. CASE tab[t].phase # "ready"
        <4>1. Moved(t, c, "queued", None) /\ tab' = tab
          BY <2>2, <3>2 DEF Unauthorized, Move, Moved
        <4>2. "queued" \in {"idle"} \cup Unsettled \cup Settled
          BY DEF Unsettled
        <4>3. /\ call'[t][c].at = "queued"
              /\ \A d \in Call : d # c => call'[t][d] = call[t][d]
          BY <4>1, <4>2, MoveTyped
        <4> QED
          BY <4>1, <4>3
      <3>3. CASE tab[t].phase = "ready"
        <4>1. Leads(t, c) /\ tab' = [tab EXCEPT ![t].phase = "refresh"]
          BY <2>2, <3>3 DEF Unauthorized, Leads
        <4>2. /\ call'[t][c].at = "leading"
              /\ \A d \in Call : d # c => call'[t][d] = call[t][d]
          BY <4>1, LeadsTyped
        <4> QED
          BY <3>1, <3>3, <4>1, <4>2
      <3> QED
        BY <3>2, <3>3
    <2>3. CASE UnauthorizedAgain(t, c)
      BY <1>2, <1>3, <2>3 DEF UnauthorizedAgain, Arrives, w
    <2> QED
      BY <2>1, <2>2, <2>3
  <1>9. \A u \in Tab : TabUp(u)'
    <2>1. CASE tab' = tab
      BY <1>0, <1>2, <1>4, <1>5, <2>1, TabStays DEF Well
    <2>2. CASE tab' = [tab EXCEPT ![t].phase = "refresh"] /\ now >= AccessTTL
      <3>1. /\ tab'[t].phase = "refresh"
            /\ tab'[t].page = tab[t].page /\ tab'[t].leaving = tab[t].leaving
        BY <2>2 DEF TabRow
      <3> QED
        BY <1>4, <1>7, <2>2, <3>1 DEF Well, TabUp
    <2> QED
      BY <1>8, <2>1, <2>2
  <1>10. \A u \in Tab, d \in Call : CallUp(u, d)'
    <2>1. ASSUME NEW d \in Call, d # c PROVE CallUp(t, d)'
      <3>1. call'[t][d] = call[t][d] /\ (call[t][d].at = "sent" => call[t][d].worker # w)
        BY <1>6, <1>8, <2>1
      <3>2. (call[t][d].at = "sending" /\ call[t][d].retry) => Outlasts(jar)'
        BY <1>4 DEF Well, CallUp, Outlasts
      <3> QED
        BY <1>0, <1>2, <1>4, <3>1, <3>2, CallStays DEF Well
    <2>2. CallUp(t, c)'
      BY <1>8 DEF CallUp
    <2> QED
      BY <1>7, <2>1, <2>2
  <1>11. Apart'
    BY <1>7, <1>8 DEF Well, Apart
  <1>12. SessionUp'
    <2>1. \A u \in Tab : Renewed(u) => Renewed(u)'
      <3>1. \A u \in Tab : tab[u].phase = "refreshing" => tab' = tab
        BY <1>7, <1>8
      <3>2. \A u \in Tab : tab[u].phase = "refreshing" => req'[tab[u].worker] = req[tab[u].worker]
        BY <1>0, <1>4, <1>5 DEF Waiting
      <3> QED
        BY <3>1, <3>2 DEF Renewed
    <2> QED
      BY <1>4, <2>1 DEF Well, SessionUp
  <1>13. \A v \in Worker : Harmless(v)'
    <2>1. \A v \in Worker : req'[v].at \in Renewing => req'[v] = req[v]
      BY <1>4 DEF Idle, Renewing
    <2>2. \A v \in Worker, u \in Tab :
             tab[u].phase = "refreshing" => tab' = tab
      BY <1>7, <1>8
    <2>3. \A v \in Worker : req'[v] = req[v] \/ req'[v].at = "idle"
      BY <1>4 DEF Idle
    <2> QED
      BY <2>1, <2>2, <2>3 DEF Well, Harmless, Renewing
  <1> QED
    BY <1>9, <1>10, <1>11, <1>12, <1>13 DEF Well

\* The end of a refresh; it does not fail, and nothing makes the tab leave.
LEMMA UpRefreshed ==
  ASSUME UpInv, Well, ClientInv', hurt' = hurt, NEW t \in Tab,
         RefreshSucceeds(t) \/ RefreshFails(t) \/ LogoutEnds(t) \/ Leave(t)
  PROVE  Well'
  <1> USE DEF UpInv, ClientInv, ClientTypeOK
  <1> DEFINE w == tab[t].worker
  <1>0. /\ now \in Nat /\ jar \in Token /\ TypeInv /\ Waiting
        /\ req \in [Worker -> Request] /\ TabUp(t)
    BY DEF Well, SessionUp, TypeInv, TypeOK
  <1>1. RefreshSucceeds(t)
    <2>1. ~LogoutEnds(t) /\ ~Leave(t)
      BY <1>0 DEF TabUp, LogoutEnds, Leave
    <2>2. ~RefreshFails(t)
      BY <1>0 DEF TabUp, RefreshUp, RefreshFails, Renewing
    <2> QED
      BY <2>1, <2>2
  <1>2. /\ tab[t].phase = "refreshing" /\ w \in Worker
        /\ req[w].at = "ok" /\ jar' = req[w].token
    BY <1>0, <1>1 DEF RefreshSucceeds, Waiting
  <1>3. /\ jar' \in Token /\ jar'.sid = jar.sid /\ jar'.iat >= AccessTTL /\ jar'.iat <= now
        /\ session[jar.sid].token = jar'.iat
    BY <1>0, <1>2 DEF TabUp, RefreshUp, Outlasts
  <1>4. /\ UNCHANGED <<now, user, session, opened>>
        /\ \A v \in Worker \ {w} : req'[v] = req[v]
        /\ req'[w] = Idle
        /\ MoveAll(t, {"queued", "leading"}, SendAgain)
        /\ tab' = [tab EXCEPT ![t].phase = "ready", ![t].worker = None]
    BY <1>0, <1>1, <1>2 DEF RefreshSucceeds, Collect
  <1>5. \A u \in Tab : u = t
    BY DEF Alone
  <1> HIDE DEF w
  <1>6. \A u \in Tab, d \in Call : call[u][d].at = "sent" => call[u][d].worker # w
    BY <1>2, <1>3, ClientAssumption, WhoWaits
  <1>7. \A d \in Call : call'[t][d] = IF call[t][d].at \in {"queued", "leading"}
                                       THEN SendAgain ELSE call[t][d]
    BY <1>4, RowsOfCalls, MoveAllTyped
  <1>8. \A u \in Tab : TabUp(u)'
    <2>1. tab'[t].phase = "ready" /\ tab'[t].page = tab[t].page /\ tab'[t].leaving = tab[t].leaving
      BY <1>4 DEF TabRow
    <2> QED
      BY <1>0, <1>5, <2>1 DEF TabUp
  <1>9. \A u \in Tab, d \in Call : CallUp(u, d)'
    <2> SUFFICES ASSUME NEW d \in Call PROVE CallUp(t, d)'
      BY <1>5
    <2>0. Outlasts(jar)'
      BY <1>3 DEF Outlasts
    <2>1. CASE call[t][d].at \in {"queued", "leading"}
      BY <1>7, <2>0, <2>1, RowsOfCalls DEF CallUp
    <2>2. CASE call[t][d].at \notin {"queued", "leading"}
      BY <1>0, <1>2, <1>3, <1>4, <1>6, <1>7, <2>0, <2>2, CallStays DEF Well
    <2> QED
      BY <2>1, <2>2
  <1>10. Apart'
    BY <1>5, <1>7, RowsOfCalls DEF Well, Apart
  <1>11. SessionUp'
    BY <1>3, <1>4 DEF Well, SessionUp
  <1>12. \A v \in Worker : Harmless(v)'
    <2>1. \A v \in Worker : req'[v].at \notin Renewing
      BY <1>2, <1>4, <1>5 DEF Well, Harmless, Idle, Renewing, w
    <2> QED
      BY <1>4, <2>1 DEF Well, Harmless, Idle
  <1> QED
    BY <1>8, <1>9, <1>10, <1>11, <1>12 DEF Well

\* A step of the server for a request that is in flight.
LEMMA UpServer ==
  ASSUME UpInv, Well, ClientInv', hurt' = hurt, NEW w \in Worker, Step(w), UNCHANGED clientVars
  PROVE  Well'
  <1> USE DEF UpInv, ClientInv, ClientTypeOK
  <1>0. /\ now \in Nat /\ jar \in Token /\ TypeInv /\ Waiting /\ now <= MaxTime /\ jar.iat \in Nat
        /\ req \in [Worker -> Request] /\ Harmless(w) /\ InHand(req[w])
        /\ {MaxTime, AccessTTL, RefreshTTL} \subseteq Nat
    BY ConstantsAssumption DEF Well, SessionUp, TypeInv, TypeOK, Token, FieldsOK
  <1>c. UNCHANGED <<jar, tab, call>>
    BY DEF clientVars
  <1>1. GuardUser(w) \/ GuardSession(w) \/ RefreshRead(w) \/ RefreshUser(w) \/ RefreshWrite(w)
    BY <1>0 DEF Harmless, Renewing, Step, LoginRead, LoginClearLock, LoginRefused, LoginWrong,
       LoginPurge, LoginList, LoginEvict, LoginReset, LoginCreate, RefreshRevoke, Logout,
       RevokeOne, RevokeOthers
  <1>2. UNCHANGED <<now, user>> /\ \A v \in Worker \ {w} : req'[v] = req[v]
    BY <1>0, <1>1 DEF GuardUser, GuardSession, RefreshRead, RefreshUser, RefreshWrite, Become,
       Answer, AnswerToken
  <1>3. CASE GuardUser(w) \/ GuardSession(w)
    <2>1. req[w].at \in {"guard_user", "guard_session"} /\ UNCHANGED session
      BY <1>3 DEF GuardUser, GuardSession
    <2>2. \A u \in Tab : tab[u].phase = "refreshing" => tab[u].worker # w
      BY <2>1, WhoWaits
    <2>3. \A u \in Tab : TabUp(u)'
      BY <1>0, <1>2, <1>c, <2>1, <2>2, TabStays DEF Well
    <2>4. ASSUME NEW u \in Tab, NEW d \in Call, call[u][d].at = "sent", call[u][d].worker = w
          PROVE  CallUp(u, d)'
      <3>1. CallUp(u, d) /\ SentUp(call[u][d].retry, req[w])
        BY <2>4 DEF Well, CallUp
      <3>2. SentUp(call[u][d].retry, req[w])'
        <4>t. /\ req[w].token \in Token /\ req[w].token.sid = jar.sid /\ req[w].op = "api"
              /\ req[w].token.iat \in Nat /\ req[w].token.user \in User
              /\ call[u][d].retry => Outlasts(req[w].token)
          BY <2>1, <3>1 DEF SentUp, Token
        <4>1. CASE GuardUser(w)
          <5>1. CASE AccessValid(req[w].token)
            <6>1. user[req[w].token.user].active
              BY <4>t DEF Well, SessionUp
            <6>2. req' = [req EXCEPT ![w].at = "guard_session"]
              BY <4>1, <5>1, <6>1 DEF GuardUser, Become
            <6>3. /\ req'[w].at = "guard_session" /\ req'[w].token = req[w].token
                  /\ req'[w].op = req[w].op
              BY <1>0, <6>2 DEF Request
            <6> QED
              BY <1>2, <1>c, <4>t, <6>3 DEF SentUp, Outlasts
          <5>2. CASE ~AccessValid(req[w].token)
            <6>1. req'[w] = [Idle EXCEPT !.at = "unauthorized"]
              BY <1>0, <4>1, <5>2 DEF GuardUser, Answer
            <6>2. now >= req[w].token.iat + AccessTTL
              BY <1>0, <4>t, <5>2, ClientAssumption DEF AccessValid
            <6>3. now >= AccessTTL /\ ~call[u][d].retry
              BY <1>0, <4>t, <6>2 DEF Brief, Outlasts
            <6> QED
              BY <1>2, <1>c, <6>1, <6>3 DEF SentUp, Idle
          <5> QED
            BY <5>1, <5>2
        <4>2. CASE GuardSession(w)
          <5>1. Live(jar.sid, now)
            BY <1>0 DEF Well, SessionUp, Live, Brief, TypeInv, TypeOK, SessionRow
          <5>2. req'[w] = [Idle EXCEPT !.at = "ok"]
            BY <1>0, <4>2, <4>t, <5>1 DEF GuardSession, Answer
          <5> QED
            BY <1>2, <1>c, <5>2 DEF SentUp, Idle
        <4> QED
          BY <1>3, <4>1, <4>2
      <3> QED
        BY <1>c, <2>4, <3>1, <3>2 DEF CallUp
    <2>5. ASSUME NEW u \in Tab, NEW d \in Call, call[u][d].at = "sent" => call[u][d].worker # w
          PROVE  CallUp(u, d)'
      <3>1. (call[u][d].at = "sending" /\ call[u][d].retry) => Outlasts(jar)'
        BY <1>c DEF Well, CallUp, Outlasts
      <3> QED
        BY <1>0, <1>2, <1>c, <2>5, <3>1, CallStays DEF Well
    <2>6. Apart'
      BY <1>c DEF Well, Apart
    <2>7. SessionUp'
      <3>1. \A u \in Tab : Renewed(u) => Renewed(u)'
        BY <1>0, <1>2, <1>c, <2>2 DEF Renewed, Waiting
      <3> QED
        BY <1>2, <1>c, <2>1, <3>1 DEF Well, SessionUp
    <2>8. \A v \in Worker : Harmless(v)'
      <3>1. req[w].op = "api"
        BY <1>0, <2>1 DEF Harmless
      <3>2. \/ Become(w, "guard_session")
            \/ \E at \in {"ok", "unauthorized"} : Answer(w, at)
        BY <1>3, <3>1 DEF GuardUser, GuardSession
      <3>3. /\ req'[w].at \in {"guard_session", "ok", "unauthorized"}
            /\ req'[w].at = "guard_session" => req'[w].op = "api"
        BY <1>0, <3>1, <3>2 DEF Become, Answer, Idle, Request
      <3> QED
        BY <1>2, <1>c, <3>3 DEF Well, Harmless, Renewing
    <2> QED
      BY <2>3, <2>4, <2>5, <2>6, <2>7, <2>8 DEF Well
  <1>4. CASE RefreshRead(w) \/ RefreshUser(w) \/ RefreshWrite(w)
    <2>1. req[w].at \in Renewing
      BY <1>4 DEF RefreshRead, RefreshUser, RefreshWrite, Renewing
    <2>2. PICK t \in Tab : tab[t].phase = "refreshing" /\ tab[t].worker = w
      BY <1>0, <2>1 DEF Harmless
    <2>3. \A u \in Tab : u = t
      BY DEF Alone
    <2>4. TabUp(t) /\ RefreshUp(req[w])
      BY <2>2 DEF Well, TabUp
    <2>5. ~Renewed(t) /\ session[jar.sid].token = jar.iat
      BY <2>1, <2>2, <2>3 DEF Well, SessionUp, Renewed, Renewing
    <2>6. \A u \in Tab, d \in Call : CallUp(u, d)'
      <3> SUFFICES ASSUME NEW u \in Tab, NEW d \in Call PROVE CallUp(u, d)'
        OBVIOUS
      <3>1. call[u][d].at = "sent" => call[u][d].worker # w
        BY <2>1, WhoWaits
      <3>2. (call[u][d].at = "sending" /\ call[u][d].retry) => Outlasts(jar)'
        BY <1>c DEF Well, CallUp, Outlasts
      <3> QED
        BY <1>0, <1>2, <1>c, <3>1, <3>2, CallStays DEF Well
    <2>7. Apart'
      BY <1>c DEF Well, Apart
    <2>8. RefreshUp(req[w])' /\ SessionUp'
      <3>1. CASE RefreshRead(w)
        <4>1. req[w].token = jar /\ req[w].at = "refresh_read"
          BY <2>4, <3>1 DEF RefreshRead, RefreshUp
        <4>2. RefreshValid(jar) /\ Live(jar.sid, now)
          BY <1>0, ClientAssumption DEF RefreshValid, Live, Well, SessionUp, Brief, TypeInv, TypeOK, SessionRow
        <4>3. req' = [req EXCEPT ![w].now = now, ![w].at = "refresh_user"] /\ session' = session
          BY <2>5, <3>1, <4>1, <4>2 DEF RefreshRead
        <4>4. req'[w].at = "refresh_user" /\ req'[w].token = jar
          BY <1>0, <4>1, <4>3 DEF Request
        <4> QED
          BY <1>2, <1>c, <2>5, <4>3, <4>4 DEF Well, SessionUp, RefreshUp, Renewing
      <3>2. CASE RefreshUser(w)
        <4>1. req[w].token = jar /\ req[w].at = "refresh_user"
          BY <2>4, <3>2 DEF RefreshUser, RefreshUp
        <4>2. user[jar.user].active
          BY <1>0 DEF Well, SessionUp, Token
        <4>3. req' = [req EXCEPT ![w].at = "refresh_write", ![w].token.iat = now] /\ session' = session
          BY <3>2, <4>1, <4>2 DEF RefreshUser
        <4>4. req'[w].at = "refresh_write" /\ req'[w].token = [jar EXCEPT !.iat = now]
          BY <1>0, <4>1, <4>3 DEF Request
        <4>5. [jar EXCEPT !.iat = now] \in Token /\ [jar EXCEPT !.iat = now].sid = jar.sid
                /\ [jar EXCEPT !.iat = now].iat = now
          BY <1>0 DEF Token
        <4>6. now >= AccessTTL
          BY <2>2, <2>4 DEF TabUp
        <4> QED
          <5> DEFINE token == [jar EXCEPT !.iat = now]
          <5>1. /\ token \in Token /\ token.sid = jar.sid /\ token.iat = now
                /\ req'[w].token = token /\ req'[w].at = "refresh_write"
            BY <4>4, <4>5
          <5> HIDE DEF token
          <5>2. RefreshUp(req[w])'
            BY <1>0, <1>2, <1>c, <4>6, <5>1 DEF RefreshUp, Renewing, Outlasts
          <5>3. SessionUp'
            BY <1>2, <1>c, <2>5, <4>3 DEF Well, SessionUp
          <5> QED
            BY <5>2, <5>3
      <3>3. CASE RefreshWrite(w)
        <4> DEFINE token == req[w].token
        <4>1. /\ token \in Token /\ token.sid = jar.sid /\ Outlasts(token) /\ token.iat <= now
              /\ jar.sid \in DOMAIN session /\ req[w].at = "refresh_write"
          BY <2>4, <3>3 DEF RefreshWrite, RefreshUp, Well, SessionUp
        <4>2. /\ session' = [session EXCEPT ![jar.sid].token = token.iat,
                                            ![jar.sid].last = req[w].now,
                                            ![jar.sid].expires = now + RefreshTTL]
              /\ AnswerToken(w, token)
          BY <3>3, <4>1 DEF RefreshWrite
        <4> HIDE DEF token
        <4>3. req'[w].at = "ok" /\ req'[w].token = token
          BY <1>0, <4>2 DEF AnswerToken, Idle
        <4>4. /\ jar.sid \in DOMAIN session' /\ session'[jar.sid].token = token.iat
              /\ session'[jar.sid].expires = now + RefreshTTL
              /\ session'[jar.sid].revoked = session[jar.sid].revoked
          BY <4>1, <4>2 DEF TypeInv, TypeOK, SessionRow
        <4>5. Renewed(t)'
          BY <1>c, <2>2, <4>3 DEF Renewed
        <4>6. SessionUp'
          BY <1>0, <1>2, <1>c, <4>4, <4>5 DEF Well, SessionUp
        <4> QED
          BY <1>0, <1>2, <1>c, <4>1, <4>3, <4>4, <4>6 DEF RefreshUp, Renewing, Outlasts
      <3> QED
        BY <1>4, <3>1, <3>2, <3>3
    <2>9. \A u \in Tab : TabUp(u)'
      BY <1>2, <1>c, <2>2, <2>3, <2>4, <2>8 DEF TabUp
    <2>10. \A v \in Worker : Harmless(v)'
      <3>1. req'[w].at \in Renewing \cup {"ok"}
        BY <2>8 DEF RefreshUp
      <3> QED
        BY <1>2, <1>c, <2>2, <3>1 DEF Well, Harmless, Renewing
    <2> QED
      BY <2>6, <2>7, <2>8, <2>9, <2>10 DEF Well
  <1> QED
    BY <1>1, <1>3, <1>4

\* An answer that nobody waits for, and the clock.
LEMMA UpIdle ==
  ASSUME UpInv, Well, ClientInv', hurt' = hurt, UNCHANGED clientVars,
         (\E w \in Worker : ~Awaited(w) /\ Drop(w)) \/ Tick
  PROVE  Well'
  <1> USE DEF UpInv, ClientInv, ClientTypeOK
  <1>0. /\ now \in Nat /\ jar \in Token /\ TypeInv /\ Waiting /\ jar.iat \in Nat
        /\ req \in [Worker -> Request] /\ {MaxTime, AccessTTL} \subseteq Nat
    BY ConstantsAssumption DEF Well, SessionUp, TypeInv, TypeOK, Token
  <1>c. UNCHANGED <<jar, tab, call>>
    BY DEF clientVars
  <1>1. ASSUME NEW w \in Worker, ~Awaited(w), Drop(w) PROVE Well'
    <2>1. /\ UNCHANGED <<now, user, session>>
          /\ \A v \in Worker \ {w} : req'[v] = req[v]
          /\ req'[w] = Idle
      BY <1>0, <1>1 DEF Drop
    <2>2. /\ \A u \in Tab : tab[u].worker # w
          /\ \A u \in Tab, d \in Call : call[u][d].worker # w
      BY <1>1 DEF Awaited
    <2>3. \A u \in Tab : TabUp(u)'
      BY <1>0, <1>c, <2>1, <2>2, TabStays DEF Well
    <2>4. \A u \in Tab, d \in Call : CallUp(u, d)'
      <3> SUFFICES ASSUME NEW u \in Tab, NEW d \in Call PROVE CallUp(u, d)'
        OBVIOUS
      <3>1. (call[u][d].at = "sending" /\ call[u][d].retry) => Outlasts(jar)'
        BY <1>c DEF Well, CallUp, Outlasts
      <3> QED
        BY <1>0, <1>c, <2>1, <2>2, <3>1, CallStays DEF Well
    <2>5. Apart'
      BY <1>c DEF Well, Apart
    <2>6. SessionUp'
      <3>1. \A u \in Tab : Renewed(u) => Renewed(u)'
        BY <1>0, <1>c, <2>1, <2>2 DEF Renewed, Waiting
      <3> QED
        BY <1>c, <2>1, <3>1 DEF Well, SessionUp
    <2>7. \A v \in Worker : Harmless(v)'
      BY <1>c, <2>1 DEF Well, Harmless, Idle, Renewing
    <2> QED
      BY <2>3, <2>4, <2>5, <2>6, <2>7 DEF Well
  <1>2. CASE Tick
    <2>1. UNCHANGED <<user, session, req>> /\ now' = now + 1 /\ now < MaxTime
      BY <1>2 DEF Tick
    <2>2. \A u \in Tab : TabUp(u)'
      BY <1>0, <1>c, <2>1 DEF Well, TabUp, RefreshUp, Outlasts, Token
    <2>3. \A u \in Tab, d \in Call : CallUp(u, d)'
      <3> SUFFICES ASSUME NEW u \in Tab, NEW d \in Call PROVE CallUp(u, d)'
        OBVIOUS
      <3>1. CallUp(u, d)
        BY DEF Well
      <3>2. now >= AccessTTL => now' >= AccessTTL
        BY <1>0, <2>1
      <3> QED
        BY <1>c, <2>1, <3>1, <3>2 DEF CallUp, SentUp, Outlasts
    <2>4. SessionUp'
      BY <1>0, <1>c, <2>1 DEF Well, SessionUp, Renewed
    <2>5. Apart' /\ \A v \in Worker : Harmless(v)'
      BY <1>c, <2>1 DEF Well, Apart, Harmless
    <2> QED
      BY <2>2, <2>3, <2>4, <2>5 DEF Well
  <1> QED
    BY <1>1, <1>2

LEMMA UpNext == UpInv /\ [ClientNext]_allVars => UpInv'
  <1> SUFFICES ASSUME UpInv, [ClientNext]_allVars PROVE UpInv'
    OBVIOUS
  <1>1. ClientInv'
    BY ClientTypeNext DEF UpInv
  <1>2. CASE hurt'
    BY <1>1, <1>2 DEF UpInv, Alone, Brief
  <1>3. CASE ~hurt' /\ UNCHANGED allVars
    <2>1. ~hurt /\ Well
      BY <1>3 DEF UpInv, allVars
    <2>2. Well'
      BY <1>3, <2>1 DEF allVars, vars, clientVars, Well, SessionUp, Renewed, Apart, Harmless,
         TabUp, RefreshUp, CallUp, SentUp, Outlasts
    <2> QED
      BY <1>1, <2>2 DEF UpInv, Alone, Brief
  <1>4. CASE ~hurt' /\ ClientNext
    <2>1. hurt' = hurt /\ ~hurt /\ Well
      BY <1>4 DEF ClientNext, UpInv
    <2>2. \/ \E t \in Tab : ClientStep(t) \/ \E c \in Call : Issue(t, c)
          \/ \E w \in Worker : ServerStep(w)
          \/ Tick /\ UNCHANGED clientVars
      BY <1>4 DEF ClientNext
    <2>3. ASSUME NEW t \in Tab, ClientStep(t) \/ \E c \in Call : Issue(t, c) PROVE Well'
      BY <1>1, <2>1, <2>3, UpReceive, UpAnswered, UpRefreshed DEF ClientStep
    <2>4. ASSUME NEW w \in Worker, ServerStep(w) PROVE Well'
      BY <1>1, <2>1, <2>4, UpServer, UpIdle DEF ServerStep
    <2>5. ASSUME Tick, UNCHANGED clientVars PROVE Well'
      BY <1>1, <2>1, <2>5, UpIdle
    <2>6. Well'
      BY <2>2, <2>3, <2>4, <2>5
    <2> QED
      BY <1>1, <2>6 DEF UpInv, Alone, Brief
  <1> QED
    BY <1>2, <1>3, <1>4

\* A tab alone, of which nothing fails and whose calls end before the tokens
\* it refreshes run out again, is not interrupted: no call fails, nobody is
\* sent to log in (the interceptor of lib/api.ts, refreshByToken, the guard).
THEOREM UninterruptedCorrect == Alone /\ Brief /\ ClientSpec => []Uninterrupted
  <1>1. UpInv => Uninterrupted
    BY DEF UpInv, Well, TabUp, CallUp, Uninterrupted
  <1> QED
    BY <1>1, UpInit, UpNext, PTL DEF ClientSpec
=============================================================================
