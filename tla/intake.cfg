SPECIFICATION FairSpec
CONSTANTS
    c1 = c1
    c2 = c2
    k1 = k1
    k2 = k2
    Callers = {c1, c2}
    ChangeIds = {k1, k2}
    Limit = 1
    MaxCalls = 3
    MaxFaults = 1
    MaxRevision = 7
CHECK_DEADLOCK FALSE
INVARIANT RepliesAgree
PROPERTIES ProgressIsKept GuidanceLeadsToRun
