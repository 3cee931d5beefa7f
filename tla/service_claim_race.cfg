CONSTANTS
    p1 = p1
    p2 = p2
    c1 = c1
    c2 = c2
    c3 = c3
    a = a
    b = b
    w1 = w1
    w2 = w2
    w3 = w3
    s1 = s1
    h1 = h1
    NoCommit = NoCommit
    NoPr = NoPr
    NoRunner = NoRunner
    Gone = Gone
    MaxPosted = 2
    Timeout = 1
    Stale = 2
    Pr = {p1}
    Commit = {c1, c2}
    PrOf <- SamePr
    Replica = {a, b}
    Worker = {w1, w2}
    Commander = {}
    Inline = {}
    Home <- OnBoth
    Permits = 1
    MaxAttempts = 2
    StartAsDraft = {}
    Kinds = {}
    Budget = 0
SPECIFICATION Spec
PROPERTIES
    ReviewedOnce
CHECK_DEADLOCK FALSE
