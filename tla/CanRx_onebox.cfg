\* one box: the reader may hold all there are
SPECIFICATION Spec
CONSTANTS
    BoxNum = 1
    HwDepth = 2
    SemMod = 16
    MaxMsgs = 6
    EarlyTraffic = TRUE
INVARIANTS TypeOK
PROPERTIES IsFrameQueue
CHECK_DEADLOCK FALSE
