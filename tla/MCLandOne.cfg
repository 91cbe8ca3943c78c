SPECIFICATION FairLandSpec
CONSTANTS
    anna = anna
    ben = ben
    Clients <- One
    Games <- TwoGames
    Arguments <- GivenArgument
    MaxCommands = 5
    Dice <- OneFace
    Faults <- NoFaults
    Capacity = 14
    UserWaits = TRUE
    ProcessesFail = FALSE
    PlayersLeave = FALSE
    ServerBound = TRUE
INVARIANTS NothingEaten GameHasPlayer
PROPERTIES CommandsReturn GameEnds ImplementsFairLobby
CHECK_DEADLOCK FALSE
