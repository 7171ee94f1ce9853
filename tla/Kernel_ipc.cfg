\* three threads, a semaphore, a mutex and the clock
SPECIFICATION Spec
CONSTANTS
    high = high
    mid = mid
    low = low
    idle = idle
    Threads <- MCThreads
    Idle = idle
    InitPrio <- MCPrio
    TickMax = 7
    SemUsers = {high, mid}
    MutexUsers = {high, mid, low}
    Sleepers = {high}
    SemTimes = {0, 1}
    MutexTimes = {2}
    SleepTimes = {1}
    SemFlag = "fifo"
    MutexFlag = "prio"
    MaxValue = 1
    MaxHold = 2
INVARIANTS TypeOK Placed MutexExclusive NoInversion Restored 
PROPERTIES IsTimedSemaphore TimedWaitEnds PreemptionDue
