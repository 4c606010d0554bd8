SPECIFICATION Spec
CONSTANTS
    Agent = {a1}
    Incarnation = {i1, i2}
    Txn = {t1, t2}
    Worker = {w1}
    Replay = replay
    Drain = drainer
    Caller = {w1, replay, drainer}
    None = none
    MaxGeneration = 3
    MaxFence = 2
    MaxInFlight = 2
    MaxAttempts = 1
INVARIANTS TypeOK RecoveryNeverWedges PublishedIsActive RetiredIsRevoked
    RetirementIsAsked DirectoryIsBacked
PROPERTIES RevokeIsExact ImplementsContract
CHECK_DEADLOCK FALSE
