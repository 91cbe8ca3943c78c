SPECIFICATION FairSpec
CONSTANTS
    InitCoin = 10
    Faults <- NoFaults
    Capacity = 2
    Outcomes <- Nothing
    MaxKeys = 3
    FirstLines <- OneKey
    UserWaits = TRUE
    TimelyServer = TRUE
PROPERTY RestartReturns
CHECK_DEADLOCK FALSE
