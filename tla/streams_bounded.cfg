SPECIFICATION Spec
CONSTANTS
    Stream = {b1}
    Lossless = {}
    ChanCapacity = 1
    OutCapacity = 1
    MaxFrames = 4
    Sends = {"admission", "chunk", "terminal", "faulty"}
INVARIANTS
    TypeOK
    BoundedIsConcluded
PROPERTIES
    ImplementsContract
    DrainStallsOnlyOnLossless
CHECK_DEADLOCK FALSE
