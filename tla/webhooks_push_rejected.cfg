CONSTANTS
    None = None
    t1 = t1
    t2 = t2
    a = a
    b = b
    Task = {t1, t2}
    Delivery = {"pull", "created", "added", "deleted", "comment", "push"}
    Event <- MCEvent
    Repo = {"r1", "r2"}
    Listing <- MCListing
    Replica = {a, b}
    Home <- MCHome
    MaxSends = 1
    MaxFaults = 1
    MaxEdits = 1
    Path = {"x", "y"}
    Version = {1, 2}
    Nothing = Nothing
    Indexer = {t1, t2}
    Tree <- MCTree
    Touched <- MCTouched
    Semantic = TRUE
    MaxPushes = 0
SPECIFICATION MCSpec
PROPERTY
    PushesHandled
CHECK_DEADLOCK FALSE
