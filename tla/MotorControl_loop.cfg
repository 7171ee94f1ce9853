\* three frames of the remote control, an encoder of 4 counts
SPECIFICATION Spec
CONSTANTS
    Frames <- MCFrames
    Counts = 4
    Iters = 3
    MaxCount = 4
INVARIANTS TypeOK SpeedsBounded CommandSkew StopsWithinAPair
PROPERTIES AngleTracks FollowsSticks
