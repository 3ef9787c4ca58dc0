CONSTANTS
    Worker = {w1}
    Expense = {e1, e2}
    Detail = {d1, d2, d3}
    Cost = {k1, k2, k3}
    Budget = {b1}
    None = None
    Amounts = {1, 2}
    Kind = {f1}
    Month = {m1}
    Ops = {"create", "update", "submit", "APPROVED", "REJECTED", "remove", "pay", "createBudget", "toggleFreeze", "close", "removeBudget"}
    Failures = TRUE
SPECIFICATION Spec
SYMMETRY Symmetry
CHECK_DEADLOCK FALSE
INVARIANT TypeOK TotalMatchesDetails CostsMatchExpense
