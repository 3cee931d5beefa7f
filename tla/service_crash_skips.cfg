CONSTANTS
    p1 = p1
    p2 = p2
    c1 = c1
    c2 = c2
    c3 = c3
    a = a
    b = b
    w1 = w1
    w2 = w2
    w3 = w3
    s1 = s1
    h1 = h1
    NoCommit = NoCommit
    NoPr = NoPr
    NoRunner = NoRunner
    Gone = Gone
    MaxPosted = 2
    Timeout = 1
    Stale = 2
    Pr = {p1}
    Commit = {c1}
    PrOf <- SamePr
    Replica = {a}
    Worker = {w1}
    Commander = {}
    Inline = {}
    Home <- OnA
    Permits = 1
    MaxAttempts = 2
    StartAsDraft = {}
    Kinds = {"crash"}
    Budget = 1
SPECIFICATION Spec
INVARIANTS
    QuietHeadReviewed
CHECK_DEADLOCK FALSE
