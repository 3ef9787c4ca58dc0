CONSTANTS
    Worker = {w1, w2}
    User = {u1}
    Sid = {s1, s2, s3}
    None = None
    MaxSessions = 1
    MaxAttempts = 1
    LockTime = 1
    AccessTTL = 1
    RefreshTTL = 2
    MaxTime = 1
    Failures = FALSE
SPECIFICATION Spec
SYMMETRY Symmetry
INVARIANT SessionLimit
PROPERTY ClosedForGood
