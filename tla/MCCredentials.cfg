CONSTANTS
    a1 = a1
    a2 = a2
    c1 = c1
    c2 = c2
    k1 = k1
    k2 = k2
    None = None
    Accounts = {a1, a2}
    Provider <- MCProvider
    Cookies = {c1, c2}
    Boot <- MCBoot
    Jobs = {k1, k2}
    Kinds <- MCAllKinds
    Rotations <- MCRotations
    MaxJobs = 3
    MaxFailures = 1
    MaxRestarts = 1
SPECIFICATION Spec
INVARIANTS
    TypeOK
    OwnTokens
    CookieKept
    RefreshTokenUsable
    DeletedHasNoRow
SYMMETRY MCSymmetry
CHECK_DEADLOCK FALSE
