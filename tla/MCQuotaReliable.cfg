CONSTANTS
    u1 = u1
    r1 = r1
    r2 = r2
    r3 = r3
    r4 = r4
    Users <- MCUsers
    Requests <- MCRequests4
    Owner <- MCOwner4
    PromptSizes = {0}
    DefaultReservation = 2
    MaxReservation = 3
    Costs = {1}
    BrokenCost = 2
    InitialTotal <- MCInitialTotal
    Totals = {0}
    Credits = {}
    WindowSize = 3
    MinBroken = 2
    ThresholdNum = 1
    ThresholdDen = 2
    StoreErrors = FALSE
    MaxTotal = 7
    MaxRestarts = 0
SPECIFICATION FairSpec
INVARIANT
    NoMissedRefund
PROPERTY
    HoldsResolved
