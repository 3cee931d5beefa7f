CONSTANTS
    Task = {t1, t2, t3}
    Pr = {p1, p2}
    LockId = {l1, l2, l3}
    Panicky = {t1, t2, t3}
    NoTask = NoTask
    NoPr = NoPr
    NoLock = NoLock
    Replica = {r1, r2}
    Releases = {0, 21}
    Attempts = 2
    MaxFaults = 1
    TornStarts = FALSE
    Client = {"c1"}
    Session = {"s1"}
    Limit = 2
    Window = 2
SPECIFICATION MCSpec
INVARIANTS
    OneTaskPerPr
    NothingSkipped
    TwiceTheLimit
PROPERTIES
    ImplementsMutex
    WorkEnds
CHECK_DEADLOCK FALSE
