SPECIFICATION Spec
CONSTANTS
    InitCoin = 20
    Faults <- Unordered
    Capacity = 2
    Outcomes <- AllRewards
    MaxKeys = 5
    FirstLines <- Lines
    UserWaits = FALSE
    TimelyServer = FALSE
INVARIANTS TypeOK CoinsAgree RepliesMatch ReelsMeetResult StopAndWait InConversation
PROPERTY ImplementsLedger
CHECK_DEADLOCK FALSE
