CONSTANTS
    Workers = {w1, w2}
    Crossbows = {c1}
    RecentLimit = 2
    MaxSamples = 3
    MaxRequests = 0
SPECIFICATION Spec
INVARIANT LatestIsNewest
CHECK_DEADLOCK FALSE
