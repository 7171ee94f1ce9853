\* frames arrive between rt_device_open and rt_device_set_rx_indicate
SPECIFICATION Spec
CONSTANTS
    BoxNum = 3
    HwDepth = 3
    SemMod = 16
    MaxMsgs = 4
    EarlyTraffic = TRUE
INVARIANTS NoFrameStranded
CHECK_DEADLOCK FALSE
