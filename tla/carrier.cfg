SPECIFICATION Spec
CONSTANTS
    Call = {b, s}
    BidiCall = {b}
    StreamCall = {s}
    UnaryCall = {}
    SessionBudget = 3
    CallBudget = 2
    MaxInputs = 3
    IngressCapacity = 1
    MaxTracked = 1
    MaxScopes = 1
    EofAt = {3}
INVARIANTS TypeOK PermitsMatchFrames LaneOrder StallLeavesRoom InputIsFaithful AdmissionIsBarrier NoStaleRegistration RuntimeIsOwned LeftEntryIsAnswered
CHECK_DEADLOCK FALSE
