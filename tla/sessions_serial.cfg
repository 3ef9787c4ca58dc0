CONSTANTS
    Worker = {w1}
    User = {u1}
    Sid = {s1, s2, s3}
    None = None
    MaxSessions = 2
    MaxAttempts = 2
    LockTime = 1
    AccessTTL = 1
    RefreshTTL = 2
    MaxTime = 2
    Failures = TRUE
SPECIFICATION Spec
SYMMETRY Symmetry
INVARIANT TypeOK
INVARIANT NewestTokenAccepted
INVARIANT AnsweredTokenWorks
PROPERTY EvictsIdlest
PROPERTY LockHolds
