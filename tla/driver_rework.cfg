SPECIFICATION FairSpec
CONSTANTS
    Route = "quick"
    Workers = {w1}
    ContractRisk = 1
    StartsWithContract = FALSE
    MaxReworkRounds = 1
    MaxIterations = 12
    MayExhaust = FALSE
    ConsolePhases = {"requirements", "architecture"}
    Waivable = {}
    MaxRevision = 3
    MaxAttempts = 2
    MaxFailures = 0
    MaxCrashes = 1
    MaxPushes = 0
    MaxReviews = 0
    MaxOrders = 1
CHECK_DEADLOCK FALSE
INVARIANTS RoundsAccounted NoAdvanceIsRejected StatusFitsRows
PROPERTIES ComesToRest WaitIsTakenUp
