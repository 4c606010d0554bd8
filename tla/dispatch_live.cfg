SPECIFICATION FairSpec
CONSTANTS
    Ura = {u1, me}
    SelfUra = {me}
    Key = {}
    MaxSession = 1
    EventCapacity = 2
    Subscriber = {offlineWatcher}
    Watcher = offlineWatcher
    Call = {c1}
    Streamed = {1}
    Beating = {1}
    DownCapacity = 1
INVARIANTS
    TypeOK
    EntryHasHandle
PROPERTIES
    DispatchReturns
    RetiredProviderEnds
CHECK_DEADLOCK FALSE
