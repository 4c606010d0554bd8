SPECIFICATION Spec
CONSTANTS
    Ura = {u1}
    SelfUra = {}
    Key = {}
    MaxSession = 2
    EventCapacity = 2
    Subscriber = {offlineWatcher}
    Watcher = offlineWatcher
    Call = {c1}
    Streamed = {}
    Beating = {1}
    DownCapacity = 1
INVARIANTS
    NoGhostPresence
    NoOrphanWaiter
    OfflineReachesWaiters
PROPERTIES
    SettlesOnce
    LeaseIsFenced
    ImplementsContract
CHECK_DEADLOCK FALSE
