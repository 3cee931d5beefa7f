CONSTANTS
    None = None
    t1 = t1
    t2 = t2
    v1 = v1
    Global = ""
    Scope = {"", "a/", "a/1", "b/1"}
    Repo = {"a/1", "b/1"}
    Chain <- Chains
    Pr = {"p1", "p2", "p3"}
    PrRepo <- MCPrRepo
    Pages <- MCPages
    Fp <- MCFp
    Mined <- MCMined
    Prefixes <- MCPrefixes
    Detector = {"slop", "secrets"}
    Security = {"secrets"}
    File = {"src/x"}
    Pattern = {"src", "a"}
    PatternOf <- MCPatternOf
    Under <- MCUnder
    Message = {"m"}
    PhraseOf <- MCPhraseOf
    Findings <- MCFindings
    Comments <- MCComments
    Handwritten <- MCHandwritten
    AutoApprove = {TRUE, FALSE}
    MinDismissals = 2
    Task = {t1, t2}
    Review = {v1}
    RepoOf <- MCRepoOf
    MaxStarts = 3
SPECIFICATION Spec
SYMMETRY Tasks
INVARIANTS
    DetectorsDismissed
CHECK_DEADLOCK FALSE
