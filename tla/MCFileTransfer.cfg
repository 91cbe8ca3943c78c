SPECIFICATION FairSpec
CONSTANTS
    BUF_SIZE = 3
    Lengths <- UpToFourBuffers
    Faults <- Lossy
    Capacity = 3
INVARIANTS TypeOK EndedCopy CopyInOrder
PROPERTY TransferEnds
CHECK_DEADLOCK FALSE
