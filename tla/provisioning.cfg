SPECIFICATION ProvisioningSpec
CONSTANTS
    c1 = c1
    c2 = c2
    Callers = {c1, c2}
    ApiCallers = {c1}
    Packs = {"product-baseline", "extra"}
    Baseline = "product-baseline"
    MaxForeign = 1
    MaxFaults = 2
    MaxCalls = 2
CHECK_DEADLOCK FALSE
INVARIANTS ReportIsTrue RetryRecovers RepeatIsNoOp
