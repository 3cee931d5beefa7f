CONSTANTS
    r1 = r1
    r2 = r2
    k1 = k1
    k2 = k2
    v1 = v1
    v2 = v2
    t1 = t1
    t2 = t2
    Replica = {r1, r2}
    Key = {k1}
    Value = {v1}
    Task = {t1, t2}
    Absent = Absent
    SyncKeys = {k1}
    MirrorKeys = {k1}
    Host <- MCHost
    TTL = 1
    Flight = 1
    MaxWrites = 2
    MaxRestarts = 1
    Watched = {"r"}
    Elsewhere = "elsewhere"
    Hosts <- MCHosts
    MaxOps = 2
    MaxMishaps = 1
SPECIFICATION MCSpec
INVARIANTS
    FreshEnough
    SeedsWhatWasMissing
    FailsClosed
SYMMETRY Alike
