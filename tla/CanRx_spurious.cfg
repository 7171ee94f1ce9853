\* more frames than boxes while the reader is busy
SPECIFICATION Spec
CONSTANTS
    BoxNum = 2
    HwDepth = 3
    SemMod = 16
    MaxMsgs = 4
    EarlyTraffic = FALSE
INVARIANTS ReadGetsFrame
CHECK_DEADLOCK FALSE
