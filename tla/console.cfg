SPECIFICATION ConsoleSpec
CONSTANTS
    w1 = w1
    Route = "standard"
    Workers = {w1}
    ContractRisk = 1
    StartsWithContract = TRUE
    MaxReworkRounds = 1
    MaxIterations = 12
    MayExhaust = FALSE
    ConsolePhases = {"requirements", "architecture", "interface"}
    Waivable = {"interface"}
    MaxRevision = 4
    MaxAttempts = 1
    MaxFailures = 0
    MaxCrashes = 0
    MaxPushes = 0
    MaxReviews = 1
    MaxOrders = 1
    MaxTurns = 1
CHECK_DEADLOCK FALSE
INVARIANTS PromisedAdvanceMoves ProjectionsAgree
