\* overflows and overruns, traffic after the callback is registered
SPECIFICATION Spec
CONSTANTS
    BoxNum = 2
    HwDepth = 2
    SemMod = 16
    MaxMsgs = 7
    EarlyTraffic = FALSE
INVARIANTS BoxesConserved NoFrameStranded
PROPERTIES NoSilentLoss  IsFrameQueue
CHECK_DEADLOCK FALSE
