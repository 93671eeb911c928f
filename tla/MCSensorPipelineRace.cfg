CONSTANTS
    b1 = b1
    b2 = b2
    a1 = a1
    m1 = m1
    Workers = {b1, a1, m1}
    ServiceOf <- MCServiceOf
    Capacity = 1
    MaxSamples = 2
SPECIFICATION Spec
INVARIANT FanOutAlive
CHECK_DEADLOCK FALSE
