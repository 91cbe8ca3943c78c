SPECIFICATION LandSpec
CONSTANTS
    anna = anna
    ben = ben
    Clients <- Two
    Games <- TwoGames
    Arguments <- Numbered
    MaxCommands = 3
    Dice <- OneFace
    Faults <- NoFaults
    Capacity = 16
    UserWaits = TRUE
    ProcessesFail = FALSE
    PlayersLeave = TRUE
    ServerBound = FALSE
INVARIANTS LandTypeOK OneRollPerGame RequestConserved
PROPERTY ImplementsLobby
CHECK_DEADLOCK FALSE
