\* the interrupt may be served late, after bytes of the next frames
SPECIFICATION Spec
CONSTANTS
    N = 4
    F = 3
    Frames = 1
    MaxShort = 1
    Prompt = FALSE
    OpenMidFrame = TRUE
INVARIANTS PutFollowsDma ReaderDrained NeverFull FitsBuffer
