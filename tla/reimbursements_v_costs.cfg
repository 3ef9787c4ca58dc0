CONSTANTS
    Worker = {w1, w2}
    Expense = {e1}
    Detail = {d1, d2}
    Cost = {k1, k2}
    Budget = {b1}
    None = None
    Amounts = {1}
    Kind = {f1}
    Month = {m1}
    Ops = {"create", "update", "submit", "APPROVED", "pay"}
    Failures = FALSE
SPECIFICATION Spec
SYMMETRY Symmetry
CHECK_DEADLOCK FALSE
INVARIANT CostForEachDetail
