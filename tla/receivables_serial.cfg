CONSTANTS
    Worker = {w1}
    Contract = {c1}
    Plan = {p1, p2}
    Record = {r1, r2}
    None = None
    Amounts = {0, 1, 2}
    Periods = {1, 2}
    Sales = {c1}
    Ops = {"create", "EXECUTING", "COMPLETED", "TERMINATED", "update", "remove", "createPlan", "createPlans", "removePlan", "createRecord", "removeRecord"}
    Admin = TRUE
    Failures = TRUE
SPECIFICATION Spec
SYMMETRY Symmetry
CHECK_DEADLOCK FALSE
INVARIANTS TypeOK PlanStatusExact
PROPERTIES PlanKeepsWithinAmount SettledStatus TerminatedIsFinal
