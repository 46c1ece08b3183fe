CONSTANTS
    Accounts = {a1, a2}
    Sessions = {s1, s2}
    Workers = {w1, w2}
    None = None
    MaxCodes = 2
    OnboardTries = 2
    MaxExchanges = 2
    MaxFaults = 1
SPECIFICATION Spec
INVARIANTS
    TypeOK
    StatusTrue
PROPERTY ExchangesEnd
CHECK_DEADLOCK FALSE
