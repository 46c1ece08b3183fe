CONSTANTS
    boss = boss
    u1 = u1
    u2 = u2
    k1 = k1
    k2 = k2
    t1 = t1
    t2 = t2
    Users <- MCUsers
    Keys = {k1, k2}
    Tokens = {t1, t2}
    Boss = boss
    LegacyUsers <- MCLegacyUsers
    LegacyRole <- MCLegacyRole
    LegacyKey <- MCLegacyKey
    LegacySession <- MCLegacySession
    Requests = {r1, r2}
    None = None
    MaxPatches = 2
    MaxKeyRequests = 1
    MaxStops = 2
SPECIFICATION Spec
INVARIANTS
    TypeOK
    ImportedOnce
PROPERTY AdminRemains
SYMMETRY MCSymmetry
CHECK_DEADLOCK FALSE
