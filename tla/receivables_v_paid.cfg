CONSTANTS
    Worker = {w1, w2}
    Contract = {c1}
    Plan = {p1}
    Record = {r1, r2}
    None = None
    Amounts = {1, 2}
    Periods = {1}
    Sales = {c1}
    Ops = {"create", "EXECUTING", "createRecord"}
    Admin = FALSE
    Failures = FALSE
SPECIFICATION Spec
CHECK_DEADLOCK FALSE
INVARIANT PaidWithinAmount
