SPECIFICATION Spec
CONSTANTS
    Route = "standard"
    Workers = {w1}
    ContractRisk = 2
    StartsWithContract = TRUE
    MaxReworkRounds = 0
    MaxIterations = 12
    MayExhaust = FALSE
    ConsolePhases = {"requirements", "architecture", "interface"}
    Waivable = {"interface"}
    MaxRevision = 5
    MaxAttempts = 1
    MaxFailures = 1
    MaxCrashes = 0
    MaxPushes = 1
    MaxReviews = 2
    MaxOrders = 0
CHECK_DEADLOCK FALSE
INVARIANT InterfaceIsApproved
