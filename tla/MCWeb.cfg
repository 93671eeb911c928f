CONSTANTS
    s1 = s1
    s2 = s2
    other = other
    Crossbow = {1, 2, 3}
    Stored <- MCStored
    Slots = {s1, s2}
    Stranger = other
    Clients = {s1, s2, other}
    Readers = {s1, s2}
    Backlog = 2
    Local = {1}
    Requests <- MCRequests
    MaxActions = 2
SPECIFICATION WebSpec
INVARIANT ShownIsStored
PROPERTIES
    ServerStops
    ConnectionsEnd
    PageCatchesUp
    ImplementsExchange
CHECK_DEADLOCK FALSE
