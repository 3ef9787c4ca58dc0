CONSTANTS
    Worker = {w1, w2}
    Expense = {e1, e2}
    Detail = {d1, d2, d3, d4}
    Cost = {k1, k2, k3, k4}
    Budget = {b1, b2}
    None = None
    Amounts = {1}
    Kind = {f1, f2}
    Month = {m1}
    Ops = {"submit", "pay", "APPROVED", "REJECTED", "removeBudget"}
    Failures = TRUE
SPECIFICATION SpecCrossing
CHECK_DEADLOCK FALSE
INVARIANT BudgetMatchesCosts
PROPERTY CostsGeneratedOnce PaidOnlyFromApproved PayAnswered
