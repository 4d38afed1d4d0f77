CONSTANTS
    Lines <- ThreeLines
    GeomL1 <- OneLine
    GeomL2 <- OneLine
    GeomLLC <- OneLine
    WordsPerPage = 2
    WordMax = 2
    Threads = {t1, t2}
    Configs <- PairedRegionConfigs
    BblSizes = {1}
    ExitCodes = {0}
    Bounds <- TwoEach
SPECIFICATION Spec
INVARIANT RegionsAudited
CHECK_DEADLOCK FALSE
