SPECIFICATION ScreenSpec
CONSTANTS
    InitCoin = 10
    Faults <- NoFaults
    Capacity = 2
    Outcomes <- ThreeRewards
    MaxKeys = 3
    FirstLines <- Lines
    UserWaits = TRUE
    TimelyServer = TRUE
    STOP_DELAY = 2
    MaxPresses = 2
INVARIANT RestsAt64
CHECK_DEADLOCK FALSE
