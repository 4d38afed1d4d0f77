CONSTANTS
    Lines <- FiveLines
    WordsPerPage = 2
    WordMax = 9
    Hash <- MixedHash
    RefreshInterval = 3
    Depth = 2
    Budgets <- ThreeAndFour
    ProbeConfigs <- SomeConfigs
    Requests <- SomeRequests
    MaxAccesses = 6
SPECIFICATION Spec
INVARIANT EpochsAreWhole
INVARIANT HeavyHittersKept
INVARIANT ScoresFair
INVARIANT NeverUnderestimates
INVARIANT SummarySurvives
PROPERTY NewcomersHotter
PROPERTY ImplementsSpaceSaving
CHECK_DEADLOCK FALSE
