SPECIFICATION FairSpec
CONSTANTS
    Call = {s, u}
    BidiCall = {}
    StreamCall = {s}
    UnaryCall = {u}
    SessionBudget = 2
    CallBudget = 1
    MaxInputs = 1
    IngressCapacity = 1
    MaxTracked = 1
    MaxScopes = 2
    EofAt = {}
PROPERTIES ScopeEndStopsStreams
CHECK_DEADLOCK FALSE
