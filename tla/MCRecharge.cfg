CONSTANTS
    u1 = u1
    ghost = ghost
    p10 = p10
    p50 = p50
    Users <- MCUsers
    UnknownUsers <- MCUnknown
    Packages <- MCPackages
    Price <- MCPrice
    Credit <- MCCredit
    Keys = {k1}
    NoKey = NoKey
    OrderIds = {o1, o2}
    Calls = {c1, c2}
    ManualCredits = {7}
    InitialTotal <- MCInitialTotal
    Modes = {TRUE, FALSE}
    StoreErrors = TRUE
    MaxRestarts = 1
    Nobody = Nobody
SPECIFICATION FairSpec
INVARIANTS
    TypeOK
    CreditedOnce
    PaidCreditedAudited
    OneOrderPerKey
PROPERTY
    PaymentsCredited
CHECK_DEADLOCK FALSE
