CONSTANTS
    Producers = {p1, p2}
    Consumers = {c1, c2}
    NoThread = NoThread
    Capacity = 2
    MaxPushes = 4
SPECIFICATION FairSpec
INVARIANT
    NoLostPush
PROPERTIES
    ImplementsWindow
    StopReleasesConsumers
    ItemsLeave
CHECK_DEADLOCK FALSE
