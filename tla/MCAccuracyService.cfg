CONSTANTS
    Crossbows = {1, 2}
    MinShots = 2
    DataLimit = 3
    MaxShots = 5
SPECIFICATION FairSpec
INVARIANTS
    AnalysesAreSnapshots
    AnswerIsFresh
PROPERTY ShotsGetAnalysed
CHECK_DEADLOCK FALSE
