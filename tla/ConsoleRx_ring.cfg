\* overflows of the ring, bytes before and after the callback
SPECIFICATION Spec
CONSTANTS
    N = 3
    SemMod = 16
    MaxBytes = 8
INVARIANTS TypeOK SleeperHasReadAll
PROPERTIES IsLossyQueue ComesToRest
CHECK_DEADLOCK FALSE
