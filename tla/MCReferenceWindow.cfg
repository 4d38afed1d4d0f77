CONSTANTS
    Lines <- ThreeLines
    GeomL1 <- OneLine
    GeomL2 <- OneLine
    GeomLLC <- OneLine
    WordsPerPage = 2
    WordMax = 3
    Threads = {t1, t2}
    Configs <- UnpairedReferenceConfigs
    BblSizes = {}
    ExitCodes = {0}
    Bounds <- NoInstructions
SPECIFICATION Spec
INVARIANT ReferenceWindow
CHECK_DEADLOCK FALSE
