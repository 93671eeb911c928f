CONSTANTS
    Workers = {w1, w2}
    Clients = {c1, c2}
    Priorities = {1, 2}
    MaxTasks = 2
SPECIFICATION FairSpec
INVARIANTS
    PendingExact
    NoLostSubmission
PROPERTIES
    QuietWhenStopped
    ImplementsPool
    StopReturns
    SyncCallReturns
CHECK_DEADLOCK FALSE
