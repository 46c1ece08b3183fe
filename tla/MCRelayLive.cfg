CONSTANTS
    a1 = a1
    a2 = a2
    b1 = b1
    m1 = m1
    m2 = m2
    q1 = q1
    q2 = q2
    Accounts <- MCFewAccounts
    Provider <- MCProvider
    Priority <- MCPriority
    Index <- MCIndex
    Models <- MCModels
    RouteTables <- MCRouteTables
    TimeoutPauseThreshold = 2
    ForbiddenPauseThreshold = 1
    RateLimitPauseThreshold = 2
    TimeoutCooldown = 1
    ForbiddenCooldown = 2
    RateLimitCooldowns = {1}
    NoAccount = NoAccount
    Requests = {q1}
    Chains <- MCChains
    MaxAttempts = 3
    Failures <- MCFailuresRouted
    Operable <- MCFewAccounts
    Reloads <- MCReloads
SPECIFICATION FairSpec
INVARIANT
    SidewaysThenDown
PROPERTIES
    WalksEnd
    CooledReturn
CHECK_DEADLOCK FALSE
