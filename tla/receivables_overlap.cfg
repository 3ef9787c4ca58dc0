CONSTANTS
    Worker = {w1, w2}
    Contract = {c1}
    Plan = {p1, p2}
    Record = {r1, r2, r3}
    None = None
    Amounts = {1, 2}
    Periods = {1}
    Sales = {c1}
    Ops = {"TERMINATED", "createPlan", "createPlans", "removePlan", "createRecord"}
    Admin = FALSE
    Failures = FALSE
SPECIFICATION SpecExecuting
CHECK_DEADLOCK FALSE
INVARIANTS RecordPlanConsistent PlanStatusNeverAhead OverpayBounded
PROPERTY FullyPaidCompletes
