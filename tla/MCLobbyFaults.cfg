SPECIFICATION Spec
CONSTANTS
    anna = anna
    ben = ben
    Clients <- Two
    Games <- OneGame
    Arguments <- AnyArgument
    MaxCommands = 2
    Faults <- Unordered
    Capacity = 3
    UserWaits = FALSE
    ProcessesFail = TRUE
    PlayersLeave = TRUE
    ServerBound = FALSE
INVARIANTS TypeOK RepliesMatch
CHECK_DEADLOCK FALSE
