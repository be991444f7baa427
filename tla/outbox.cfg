SPECIFICATION FairSpec
CONSTANTS
    Events = {e1, e2}
    aggregate <- OneStream
    Consumers = {c1}
    Passes = {p1, p2}
    BatchSize = 2
    MaxAttempts = 2
    MaxCrashes = 1
    MaxOperator = 1
    NoItem = NoItem
CHECK_DEADLOCK FALSE
INVARIANTS InOrder NothingLost AttemptBudget
PROPERTIES SettledIsFinal EventuallySettled
