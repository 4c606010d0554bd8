SPECIFICATION Spec
CONSTANTS
    Ura = {u1, u2}
    SelfUra = {u1}
    Key = {k1}
    MaxSession = 3
    EventCapacity = 1
    Subscriber = {directory}
    Pump = directory
INVARIANTS
    TypeOK
    EventsAccountForMap
    SettledViewIsExact
PROPERTIES
    NoResurrection
