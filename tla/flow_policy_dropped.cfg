CONSTANTS
    Unset = Unset
    c1 = c1
    c2 = c2
    r1 = r1
    r2 = r2
    r3 = r3
    Run = {r1}
    Commit = {c1, c2}
    HeadOf <- MCHeadOf
    File = {"a", "b", "c"}
    Patch <- MCPatch
    Added <- MCAdded
    Reports <- MCReports
    Settings <- MCSettings
    Base <- MCBase
    MaxInline = 2
    Seen <- MCSeen
    Kinds = {"clear", "save", "filter", "list", "lookup", "post", "check"}
    Budget = 0
    Task = {"t1", "t2"}
    Caller = {"t1", "t2"}
    DailyBudget = 2
    HasFallback = TRUE
    MaxToolIterations = 2
    MaxToolCalls = 2
    MaxChecks = 1
    MaxHitches = 1
    Asked = {"exists", "metadata", "osv", "osv_batch"}
    Ttl = 2
    SoftTtl = 1
    Flight = 1
SPECIFICATION MCSpec
INVARIANTS
    PolicyEnforced
CHECK_DEADLOCK FALSE
