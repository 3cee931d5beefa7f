CONSTANTS
    Caller = {"t1"}
    DailyBudget = 2
    HasFallback = FALSE
    MaxToolIterations = 1
    MaxToolCalls = 1
    MaxChecks = 1
    MaxHitches = 5
SPECIFICATION LlmSpec
INVARIANT HardStop
CHECK_DEADLOCK FALSE
