CONSTANTS
    e1 = e1
    e2 = e2
    e3 = e3
    i1 = i1
    i2 = i2
    i3 = i3
    v1 = v1
    v2 = v2
    r1 = r1
    r2 = r2
    Email = {e1, e2}
    Id = {i1, i2}
    Invite = {}
    Request = {r1, r2}
    OpenJoin = FALSE
    Role = {"owner", "viewer"}
    Overlap = TRUE
    NoEmail = NoEmail
    NoId = NoId
    NoInvite = NoInvite
SPECIFICATION Spec
PROPERTIES
    BootstrapProtected
SYMMETRY Alike
CHECK_DEADLOCK FALSE
