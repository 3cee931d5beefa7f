CONSTANTS
    None = None
    Task = {"t1", "t2"}
    Comment <- MCComment
    File = {"x", "y"}
    Finding = {"f"}
    Permits = 1
    HasLlm = TRUE
    Extras = {"readiness", "llm_summary"}
    AllowAutoFix = TRUE
    TestGeneration = FALSE
    MaxCommands = 2
    MaxFaults = 1
    MaxPushes = 1
SPECIFICATION Spec
INVARIANTS
    OneComment
    CompletedRowsWhole
    FixKeepsPushes
PROPERTY
    CommandsEnd
CHECK_DEADLOCK FALSE
