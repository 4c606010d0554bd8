SPECIFICATION Spec
CONSTANTS
    Stream = {l1}
    Lossless = {l1}
    ChanCapacity = 1
    OutCapacity = 1
    MaxFrames = 4
    Sends = {"admission", "chunk", "terminal", "faulty"}
INVARIANTS
    EntryHasHandle
    StreamIsFaithful
    CanonicalOrder
PROPERTIES
    DrainStallsOnlyOnLossless
CHECK_DEADLOCK FALSE
