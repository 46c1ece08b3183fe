CONSTANTS
    a1 = a1
    a2 = a2
    k1 = k1
    k2 = k2
    Accounts <- MCAccounts
    Provider <- MCProvider
    Priority <- MCPriority
    Index <- MCIndex
    Models = {}
    RouteTables <- MCNoRoutes
    TimeoutPauseThreshold = 2
    ForbiddenPauseThreshold = 1
    RateLimitPauseThreshold = 1
    TimeoutCooldown = 1
    ForbiddenCooldown = 1
    RateLimitCooldowns = {1}
    Admins = {k1, k2}
    NoAccount = NoAccount
    NoRow = NoRow
    Seeded = {a2}
    Bootstrapped = {a1}
    Used = {a1}
    Results <- MCResults
    MaxResults = 2
    MaxWrites = 2
    MaxHandled = 2
    MaxFailures = 1
    MaxRestarts = 1
SPECIFICATION HealthSpec
INVARIANTS
    TypeOK
    CopiesAgree
    PauseKept
    DeletedStaysGone
SYMMETRY MCSymmetry
CHECK_DEADLOCK FALSE
