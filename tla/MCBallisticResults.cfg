CONSTANTS
    Workers = {w1}
    Crossbows = {c1, c2}
    RecentLimit = 2
    MaxSamples = 5
    MaxRequests = 2
SPECIFICATION Spec
INVARIANTS
    RecentAreLastStored
    LatestIsNewest
CHECK_DEADLOCK FALSE
