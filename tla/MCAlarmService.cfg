SPECIFICATION Spec
CONSTANTS
    c1 = c1
    c2 = c2
    unknown = unknown
    Crossbows <- MCCrossbows
    KnownCrossbows <- MCKnown
    Readings <- MCReadings
    Capacity = 2
    Cooldown = 1
    DebounceSeconds = 1
    ActiveLimit = 2
    StoreLimit = 3
    StoreTrim = 2
    MaxTime = 4
    MaxSamples = 3
    MaxFaults = 1
SYMMETRY Symmetry
INVARIANTS
    Debounced
    NoMissedAlarm
    SinksAgree
    ListsHoldLatest
