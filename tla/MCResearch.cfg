CONSTANTS
    near = near
    none = none
    silk = silk
    sinew = sinew
    hemp = hemp
    unknown = unknown
    Phases = 2
    MinSteps = 1
    ConvergedLimit = 0
    Rewards = {1, 2}
    Explored = {2, 12, 21}
    Targets = {near}
    NoTarget = none
    Configs <- MCConfigs
    Coverages <- MCCoverages
    MaxTargets = 2
    Healths = {0, 3, 4}
    MaxShots = 4
    Materials = {silk, sinew, hemp}
    Unknown = unknown
    Measures <- MCMeasures
    Top = 16
    Reaches <- MCReaches
    Spans <- MCSpans
    Slips = {0, 1}
    AimTargets <- MCAimTargets
    Spreads = {0, 8}
    Scores = {7}
    GridSamples <- MCGrid
    Types = {1, 99}
    Crossbows = {0, 9}
    Episodes = {0, 1, 3}
    SightTypes = {2, 7}
    MaxSolved = 8
    TargetCount = 1
    HitsPerTarget = 1
    MaxArrows = 1
    MaxFields = 3
    Weights = {0, 90, 150}
    Lengths = {95, 138}
    MaxBatch = 2
    MaxMade = 4
    WornOut = 1
SPECIFICATION Spec
INVARIANTS
    PlacementsAreValid
    EvaluationsUseOneTarget
    BestIsFirstMaximum
    DamageIsHits
    NoDominatedWinner
    
    RoundsAgree
    HitsAreShots
    BatchLeavesSettings
PROPERTY
    AnimationsEnd
CHECK_DEADLOCK FALSE
