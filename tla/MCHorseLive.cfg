SPECIFICATION FairSpec
CONSTANTS
    HORSES = 4
    TRACK_LENGTH = 2
    MaxRoll = 2
    Faults <- NoFaults
    Capacity = 2
    UserWaits = TRUE
    KeepsUp = TRUE
INVARIANT RankingsAgree
PROPERTY ClientSeesEnd
CHECK_DEADLOCK FALSE
