SPECIFICATION BudgetSpec
CONSTANTS
    Roles = {"executor", "reviewer"}
    Keys = {1, 2, 3}
    RunLimits <- MCRunLimits
    Allowance <- MCAllowance
    Usages <- MCUsages
    Unset = Unset
    MaxNow = 2
CHECK_DEADLOCK FALSE
INVARIANTS OvershootIsBounded CountedOnce AggregateAgrees
