CONSTANTS
    r1 = r1
    r2 = r2
    k1 = k1
    k2 = k2
    v1 = v1
    v2 = v2
    t1 = t1
    t2 = t2
    Replica = {r1}
    Key = {k1}
    Value = {v1}
    Task = {t1, t2}
    Absent = Absent
    SyncKeys = {}
    MirrorKeys = {}
    Host <- MCHost
    TTL = 1
    Flight = 1
    MaxWrites = 1
    MaxRestarts = 0
    Watched = {"r"}
    Elsewhere = "elsewhere"
    Hosts <- MCHosts
    MaxOps = 2
    MaxMishaps = 1
SPECIFICATION MCSpec
PROPERTIES
    StaysSeen
