CONSTANTS
    u1 = u1
    r1 = r1
    r2 = r2
    r3 = r3
    r4 = r4
    Users <- MCUsers
    Requests <- MCRequests
    Owner <- MCOwner
    PromptSizes = {8}
    DefaultReservation = 2
    MaxReservation = 3
    Costs = {4}
    BrokenCost = 2
    InitialTotal <- MCInitialTotal
    Totals = {0, 3}
    Credits = {4}
    WindowSize = 2
    MinBroken = 1
    ThresholdNum = 1
    ThresholdDen = 2
    StoreErrors = TRUE
    MaxTotal = 7
    MaxRestarts = 1
SPECIFICATION Spec
INVARIANTS
    TypeOK
    HoldsAccounted
    UsedIsLedger
    RefundsAreMarked
    SpendBounded
PROPERTY
    ImplementsBilling
