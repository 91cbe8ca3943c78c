SPECIFICATION FairSpec
CONSTANTS
    InitCoin = 10
    Faults <- NoFaults
    Capacity = 2
    Outcomes <- Nothing
    MaxKeys = 1
    FirstLines <- OneKey
    UserWaits = TRUE
    TimelyServer = TRUE
PROPERTY ButtonStops
CHECK_DEADLOCK FALSE
