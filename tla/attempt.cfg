SPECIFICATION FairSpec
CONSTANTS
    Paths = {"a", "b", "patch"}
    PatchPath = "patch"
    Base <- MCBase
    Contents = {"v0", "v1"}
    None = None
    MayCommit = FALSE
    MayDetach = TRUE
    PageSize = 9
    MaxCalls = 2
    MaxKills = 1
    MaxFaults = 1
    MaxAttempts = 3
    MaxMoves = 2
CHECK_DEADLOCK FALSE
INVARIANT EditsSurvive
PROPERTIES PublicationIsExact PublishesOnce AttemptEnds
