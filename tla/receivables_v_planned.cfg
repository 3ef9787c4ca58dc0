CONSTANTS
    Worker = {w1}
    Contract = {c1}
    Plan = {p1, p2}
    Record = {r1}
    None = None
    Amounts = {1, 2}
    Periods = {1, 2}
    Sales = {c1}
    Ops = {"create", "EXECUTING", "update", "createPlan"}
    Admin = FALSE
    Failures = FALSE
SPECIFICATION Spec
CHECK_DEADLOCK FALSE
INVARIANT PlannedWithinAmount
