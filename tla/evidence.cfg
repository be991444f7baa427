SPECIFICATION Spec
CONSTANTS
    p1 = p1
    p2 = p2
    None = None
    Torn = Torn
    Actors = {p1, p2}
    Operations <- MCOperations
    Verifications <- MCVerifications
    Terminal <- MCTerminal
    Digests = {"d1", "d2"}
    InitialDigest = "d1"
    SlugOf <- MCSlugOf
    Rank <- MCRank
    SmokeAttempts = 2
    MonthLength = 2
    Serial = TRUE
    MaxClock = 2
    MaxFaults = 1
    MaxDeploys = 1
SYMMETRY MCSymmetry
INVARIANTS ExitIsPersisted RecordsAreTrue
PROPERTY CommittedIsKept
