CONSTANTS
    b1 = b1
    b2 = b2
    a1 = a1
    m1 = m1
    Workers = {b1, b2}
    ServiceOf <- MCServiceOf
    Capacity = 2
    MaxSamples = 3
SPECIFICATION FairSpec
INVARIANTS
    SamplesInOrder
    NewestSurvive
PROPERTIES
    QuietOutsideService
    ImplementsBroadcast
    ShutdownEnds
    SampleIsHandled
CHECK_DEADLOCK FALSE
