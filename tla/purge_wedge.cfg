SPECIFICATION Spec
CONSTANTS
    Agent = {a1}
    Incarnation = {i1}
    Txn = {t1}
    Worker = {w1}
    Replay = replay
    Drain = drainer
    Caller = {w1, replay, drainer}
    None = none
    MaxGeneration = 1
    MaxFence = 1
    MaxInFlight = 1
    MaxAttempts = 1
INVARIANT AssignmentIsReplayable
CHECK_DEADLOCK FALSE
