SPECIFICATION Spec
CONSTANTS
    anna = anna
    ben = ben
    Clients <- Two
    Dice <- TwoFaces
    Faults <- AllFaults
    Capacity = 2
    UserWaits = FALSE
INVARIANTS TypeOK OneClientServed
CHECK_DEADLOCK FALSE
