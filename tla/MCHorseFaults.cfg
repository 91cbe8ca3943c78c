SPECIFICATION FairSpec
CONSTANTS
    HORSES = 4
    TRACK_LENGTH = 1
    MaxRoll = 2
    Faults <- AllFaults
    Capacity = 2
    UserWaits = FALSE
    KeepsUp = FALSE
INVARIANTS TypeOK ServerRanking ClientRanking NoPhantomFinisher
PROPERTIES RanksStand RaceEnds
CHECK_DEADLOCK FALSE
