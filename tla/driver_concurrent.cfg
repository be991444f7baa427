SPECIFICATION Spec
CONSTANTS
    Route = "quick"
    Workers = {w1, w2}
    ContractRisk = 1
    StartsWithContract = TRUE
    MaxReworkRounds = 1
    MaxIterations = 12
    MayExhaust = TRUE
    ConsolePhases = {"requirements", "architecture"}
    Waivable = {}
    MaxRevision = 4
    MaxAttempts = 1
    MaxFailures = 0
    MaxCrashes = 0
    MaxPushes = 0
    MaxReviews = 1
    MaxOrders = 0
CHECK_DEADLOCK FALSE
SYMMETRY Symmetry
INVARIANTS DecisionIsNew StageOrder ReleaseIsAuthorized
PROPERTY TerminalIsFinal
