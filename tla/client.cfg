CONSTANTS
    Worker = {w1, w2}
    User = {u1}
    Sid = {s1}
    None = None
    MaxSessions = 1
    MaxAttempts = 2
    LockTime = 1
    AccessTTL = 2
    RefreshTTL = 5
    MaxTime = 3
    Failures = TRUE
    Tab = {t1}
    Call = {r1, r2}
SPECIFICATION ClientSpec
CHECK_DEADLOCK FALSE
INVARIANT ClientTypeOK
INVARIANT Uninterrupted
PROPERTY EveryCallSettles
