---------------------------- MODULE SessionLife -----------------------------
(***************************************************************************)
(* What the server promises of a session, whatever requests overlap and    *)
(* fail: it is opened once, for one user; while it is open it accepts one  *)
(* refresh token, which changes from time to time; it is closed for good.  *)
(***************************************************************************)
CONSTANTS Sid, User, Time, None

VARIABLES
    open,      \* sessions that are open
    closed,    \* sessions that were open and are no more
    accepted,  \* the refresh token an open session accepts, by its time of issue
    owner      \* the user an open session belongs to

vars == <<open, closed, accepted, owner>>

TypeOK ==
    /\ open \subseteq Sid /\ closed \subseteq Sid
    /\ accepted \in [open -> Time]
    /\ owner \in [open -> User]

Init ==
    /\ open = {} /\ closed = {}
    /\ accepted = [s \in {} |-> None]
    /\ owner = [s \in {} |-> None]

\* An id is used for one session only.
Open(s) ==
    /\ s \in Sid \ (open \cup closed)
    /\ open' = open \cup {s}
    /\ accepted' \in [open' -> Time]
    /\ owner' \in [open' -> User]
    /\ \A i \in open : accepted'[i] = accepted[i] /\ owner'[i] = owner[i]
    /\ UNCHANGED closed

Rotate(s) ==
    /\ s \in open
    /\ accepted' \in [open -> Time]
    /\ \A i \in open \ {s} : accepted'[i] = accepted[i]
    /\ UNCHANGED <<open, closed, owner>>

\* Eviction, revocation, logout, replay, expiry: any number at once.
Close(ids) ==
    /\ ids \subseteq open
    /\ open' = open \ ids
    /\ closed' = closed \cup ids
    /\ accepted' = [i \in open' |-> accepted[i]]
    /\ owner' = [i \in open' |-> owner[i]]

Next ==
    \/ \E s \in Sid : Open(s) \/ Rotate(s)
    \/ \E ids \in SUBSET open : Close(ids)

Spec == Init /\ [][Next]_vars

=============================================================================
