CONSTANTS
    Lines <- const_Lines
    GeomL1 <- OneLine
    GeomL2 <- TwoWay
    GeomLLC <- OneLine
    Threads = {t1, t2}
    Modes = {TRUE, FALSE}
SPECIFICATION Spec
SYMMETRY ThreadSymmetry
INVARIANT NothingFromNowhere
INVARIANT FirstTouchFills
PROPERTY WritebackConservation
CHECK_DEADLOCK FALSE
