SPECIFICATION FairSpec
CONSTANTS
    Route = "quick"
    Runs = {1, 2}
    Drivers = {d1}
    Passes = {p1}
    StableOwner = FALSE
    Observable <- SomeFacts
    MaxRevision = 3
    MaxMishaps = 1
CHECK_DEADLOCK FALSE
INVARIANTS CorrectionIsExclusive CanonicalSurvives PassesConverge
PROPERTY DuplicateIsClosed
