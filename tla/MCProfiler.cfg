CONSTANTS
    Lines <- ThreeLines
    GeomL1 <- OneLine
    GeomL2 <- OneLine
    GeomLLC <- OneLine
    WordsPerPage = 2
    WordMax = 1
    Threads = {t1, t2}
    Configs <- AllConfigs
    BblSizes = {1}
    ExitCodes = {0, 1}
    Bounds <- BoundsOf
SPECIFICATION Spec
SYMMETRY ThreadSymmetry
INVARIANT AuditsPass
INVARIANT ObserversAgree
INVARIANT FillsWithinAccesses
INVARIANT NothingLost
INVARIANT RawCoversEpochs
INVARIANT OneInvocation
INVARIANT NothingMissed
PROPERTY Overshoot
PROPERTY StoppedForGood
CHECK_DEADLOCK FALSE
