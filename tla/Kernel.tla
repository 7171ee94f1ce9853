------------------------------- MODULE Kernel -------------------------------
(***************************************************************************)
(* The kernel under the drivers: the scheduler with its ready queues, the  *)
(* clock interrupt with the thread timers, a semaphore and a mutex with    *)
(* timeouts and priority inheritance.                                      *)
(*                                                                         *)
(* A step of a thread ends where it enables interrupts again.  A call that *)
(* waits is three steps: it suspends the thread, it calls rt_schedule, and *)
(* it reads the error number once it runs again; the clock interrupt and   *)
(* another handler, which releases the semaphore, come in between.         *)
(* Priority 0 is the highest.                                              *)
(* The error number that a refused release leaves behind is left out.      *)
(***************************************************************************)
EXTENDS Integers, Sequences, FiniteSets, SequencesExt

CONSTANTS
    Threads, Idle,        \* Idle never waits: something is always ready
    InitPrio,             \* priority each thread is created with
    TickMax,              \* RT_TICK_MAX
    SemTimes, MutexTimes, SleepTimes,  \* ticks the calls wait, 0 for ever
    SemFlag, MutexFlag,   \* "fifo" or "prio"
    SemUsers, MutexUsers, \* threads that call the semaphore, the mutex
    Sleepers,             \* threads that call rt_thread_sleep
    MaxValue, MaxHold     \* bounds of sem->value and mutex->hold

Nobody == "nobody"

ASSUME KernelAssumption ==
    /\ IsFiniteSet(Threads) /\ Idle \in Threads /\ Nobody \notin Threads
    /\ InitPrio \in [Threads -> Nat]
    /\ TickMax \in Nat \ {0}
    /\ \A d \in SemTimes \cup MutexTimes \cup SleepTimes :
          d \in Nat /\ d < TickMax \div 2
    /\ 0 \notin SleepTimes
    /\ {SemFlag, MutexFlag} \subseteq {"fifo", "prio"}
    /\ SemUsers \cup MutexUsers \cup Sleepers \subseteq Threads \ {Idle}
    /\ MaxValue \in Nat /\ MaxHold \in Nat \ {0}

Prios == {InitPrio[t] : t \in Threads}
Ticks == 0..TickMax
Forever == 0

VARIABLES
    tick,      \* rt_tick
    isr,       \* the clock interrupt: "off", "timer" before rt_timer_check, or
               \* "check" in its loop, which runs with interrupts disabled
    timers,    \* rt_timer_list: the threads whose timer runs
    at,        \* timeout_tick of each thread's timer, 0 while it does not run
    sch,       \* stat, prio, ready, current and yield of the scheduler
    error,     \* thread->error
    pc,        \* "run", or "sched" when rt_schedule comes next
    call,      \* what the thread waits in: "none", "sem", "mutex" or "sleep"
    semVal, semQ,                    \* the semaphore
    mutVal, owner, hold, orig, mutQ, \* the mutex
    held       \* how often each thread has the mutex by the answers it got

mutVars == <<mutVal, owner, hold, orig, mutQ, held>>
semVars == <<semVal, semQ>>
clkVars == <<tick, isr>>
timVars == <<timers, at>>
vars == <<clkVars, timVars, sch, error, pc, call, semVars, mutVars>>

-----------------------------------------------------------------------------
(* Queues and timers                                                       *)

\* rt_list_remove
Without(q, t) ==
    IF t \in ToSet(q) THEN RemoveAt(q, CHOOSE i \in DOMAIN q : q[i] = t) ELSE q

\* rt_list_insert_before the first of some entries, given by their places
Before(q, places, t) ==
    IF places = {} THEN Append(q, t)
    ELSE InsertAt(q, CHOOSE i \in places : \A j \in places : i <= j, t)

\* rt_ipc_list_suspend: at the end, or before the first of lower priority.
Enqueue(q, t, flag) ==
    Before(q, {i \in DOMAIN q : flag = "prio" /\ sch.prio[t] < sch.prio[q[i]]}, t)

\* Tick b is at a or after it: the unsigned difference is small.
Reached(a, b) == (b - a) % (TickMax + 1) < TickMax \div 2

\* A list sorted by the tick counts themselves.
StartTimerPlain(t, d) ==
    LET end == (tick + d) % (TickMax + 1)
    IN  /\ timers' = IF d = Forever THEN timers
                     ELSE Before(timers, {i \in DOMAIN timers : at[timers[i]] > end}, t)
        /\ at' = IF d = Forever THEN at ELSE [at EXCEPT ![t] = end]

\* rt_timer_start: before the first timer that ends later.
StartTimer(t, d) ==
    LET end == (tick + d) % (TickMax + 1)
        later == {i \in DOMAIN timers :
                    at[timers[i]] # end /\ Reached(end, at[timers[i]])}
    IN  /\ timers' = IF d = Forever THEN timers ELSE Before(timers, later, t)
        /\ at' = IF d = Forever THEN at ELSE [at EXCEPT ![t] = end]

\* rt_timer_stop
StopTimer(t) ==
    /\ timers' = Without(timers, t)
    /\ at' = [at EXCEPT ![t] = 0]

-----------------------------------------------------------------------------
(* The scheduler, on its record k                                          *)

\* rt_schedule_insert_thread: the current thread just goes on.
Insert(k, t) ==
    IF t = k.current THEN [k EXCEPT !.stat[t] = "running"]
    ELSE [k EXCEPT !.stat[t] = "ready", !.ready[k.prio[t]] = Append(@, t)]

\* rt_schedule_remove_thread; the thread that runs is in no queue.
Unready(k, t) == [k EXCEPT !.ready[k.prio[t]] = Without(@, t)]

Suspend(k, t) == [k EXCEPT !.stat[t] = "suspend"]

\* rt_thread_control, RT_THREAD_CTRL_CHANGE_PRIORITY
ChangePrio(k, t, p) ==
    IF k.stat[t] = "ready" THEN Insert([Unready(k, t) EXCEPT !.prio[t] = p], t)
    ELSE [k EXCEPT !.prio[t] = p]

\* rt_schedule: the first thread of the highest priority, unless the current
\* one runs and has a higher priority, or the same and no order to yield.
Schedule(k) ==
    LET some == {p \in Prios : k.ready[p] # <<>>}
        highest == CHOOSE p \in some : \A q \in some : p <= q
        to == Head(k.ready[highest])
        from == k.current
        runs == k.stat[from] = "running"
        picked == [k EXCEPT !.current = to, !.stat[to] = "running",
                            !.ready[highest] = Tail(@)]
    IN  IF some = {} THEN k
        ELSE IF ~runs THEN picked
        ELSE IF k.prio[from] < highest \/ (k.prio[from] = highest /\ from \notin k.yield)
        THEN k
        ELSE [Insert(picked, from) EXCEPT !.yield = @ \ {from}]

-----------------------------------------------------------------------------
(* The threads                                                             *)

Init ==
    /\ tick = 0 /\ isr = "off" /\ timers = <<>> /\ at = [t \in Threads |-> 0]
    /\ sch = Schedule([stat    |-> [t \in Threads |->
                                     IF t = Idle THEN "running" ELSE "ready"],
                       prio    |-> InitPrio,
                       ready   |-> [p \in Prios |->
                          SetToSeq({t \in Threads \ {Idle} : InitPrio[t] = p})],
                       current |-> Idle,
                       yield   |-> {}])
    /\ error = [t \in Threads |-> "ok"]
    /\ pc = [t \in Threads |-> "run"]
    /\ call = [t \in Threads |-> "none"]
    /\ semVal = 0 /\ semQ = <<>>
    /\ mutVal = 1 /\ owner = Nobody /\ hold = 0 /\ orig = 255 /\ mutQ = <<>>
    /\ held = [t \in Threads |-> 0]

Executes(t) == isr = "off" /\ t = sch.current
Runs(t) == Executes(t) /\ sch.stat[t] = "running" /\ pc[t] = "run"

\* The common end of a call that waits: suspended, the timer started.
Block(t, c, d) ==
    /\ StartTimer(t, d)
    /\ pc' = [pc EXCEPT ![t] = "sched"]
    /\ call' = [call EXCEPT ![t] = c]

\* A take that does not look at the value.
SemTakeUnchecked(t) ==
    /\ Runs(t)
    /\ semVal' = semVal - 1
    /\ UNCHANGED <<clkVars, timVars, sch, error, pc, call, semQ, mutVars>>

\* rt_sem_take: a call that does not wait and finds nothing changes nothing.
SemTake(t) ==
    /\ Runs(t) /\ semVal > 0
    /\ semVal' = semVal - 1
    /\ UNCHANGED <<clkVars, timVars, sch, error, pc, call, semQ, mutVars>>

\* A wait that starts with the error of the one before.
SemWaitStaleError(t, d) ==
    /\ Runs(t) /\ semVal = 0
    /\ sch' = Suspend(sch, t)
    /\ semQ' = Enqueue(semQ, t, SemFlag)
    /\ Block(t, "sem", d)
    /\ UNCHANGED <<clkVars, error, semVal, mutVars>>

SemWait(t, d) ==
    /\ Runs(t) /\ semVal = 0
    /\ error' = [error EXCEPT ![t] = "ok"]
    /\ sch' = Suspend(sch, t)
    /\ semQ' = Enqueue(semQ, t, SemFlag)
    /\ Block(t, "sem", d)
    /\ UNCHANGED <<clkVars, semVal, mutVars>>

\* A release that lets the timer of the thread run on.
GiveTimerRuns(k) ==
    /\ semQ # <<>>
    /\ semQ' = Tail(semQ)
    /\ sch' = k
    /\ UNCHANGED <<clkVars, timVars, error, call, semVal, mutVars>>

\* rt_sem_release up to its rt_schedule
Give(k) ==
    /\ semQ # <<>>
    /\ semQ' = Tail(semQ)
    /\ StopTimer(Head(semQ))
    /\ sch' = k
    /\ UNCHANGED <<clkVars, error, call, semVal, mutVars>>

Keep ==
    /\ semQ = <<>> /\ semVal < MaxValue
    /\ semVal' = semVal + 1
    /\ UNCHANGED <<clkVars, timVars, sch, error, pc, call, semQ, mutVars>>

SemRelease(t) ==
    /\ Runs(t)
    /\ \/ Keep
       \/ Give(Insert(sch, Head(semQ))) /\ pc' = [pc EXCEPT ![t] = "sched"]

\* ... called by the handler of a device, which may interrupt the clock's.
IsrRelease ==
    /\ isr # "check"
    /\ \/ Keep
       \/ Give(Schedule(Insert(sch, Head(semQ)))) /\ pc' = pc

\* rt_mutex_take
MutexAgain(t) ==
    /\ Runs(t) /\ owner = t /\ hold < MaxHold
    /\ hold' = hold + 1
    /\ held' = [held EXCEPT ![t] = @ + 1]
    /\ error' = [error EXCEPT ![t] = "ok"]
    /\ UNCHANGED <<clkVars, timVars, sch, pc, call, semVars, mutVal, owner, orig, mutQ>>

MutexTry(t) ==
    /\ Runs(t) /\ owner # t /\ mutVal = 0
    /\ error' = [error EXCEPT ![t] = "timeout"]
    /\ UNCHANGED <<clkVars, timVars, sch, pc, call, semVars, mutVars>>

MutexTake(t) ==
    /\ Runs(t) /\ mutVal > 0
    /\ mutVal' = mutVal - 1
    /\ owner' = t /\ orig' = sch.prio[t] /\ hold' = hold + 1
    /\ held' = [held EXCEPT ![t] = @ + 1]
    /\ error' = [error EXCEPT ![t] = "ok"]
    /\ UNCHANGED <<clkVars, timVars, sch, pc, call, semVars, mutQ>>

\* A mutex without priority inheritance.
InheritNothing(t) == sch

\* The owner inherits the priority of a thread it keeps waiting.
Inherit(t) ==
    IF sch.prio[t] < sch.prio[owner] THEN ChangePrio(sch, owner, sch.prio[t]) ELSE sch

\* A wait that starts with the error of the one before.
MutexWaitStaleError(t, d) ==
    /\ Runs(t) /\ owner # t /\ mutVal = 0
    /\ sch' = Suspend(Inherit(t), t)
    /\ mutQ' = Enqueue(mutQ, t, MutexFlag)
    /\ Block(t, "mutex", d)
    /\ UNCHANGED <<clkVars, error, semVars, mutVal, owner, hold, orig, held>>

MutexWait(t, d) ==
    /\ Runs(t) /\ owner # t /\ mutVal = 0
    /\ error' = [error EXCEPT ![t] = "ok"]
    /\ sch' = Suspend(Inherit(t), t)
    /\ mutQ' = Enqueue(mutQ, t, MutexFlag)
    /\ Block(t, "mutex", d)
    /\ UNCHANGED <<clkVars, semVars, mutVal, owner, hold, orig, held>>

\* rt_mutex_release; a thread that does not own the mutex is refused.
MutexKeep(t) ==
    /\ Runs(t) /\ owner = t /\ hold > 1
    /\ hold' = hold - 1
    /\ held' = [held EXCEPT ![t] = @ - 1]
    /\ UNCHANGED <<clkVars, timVars, sch, error, pc, call, semVars, mutVal, owner, orig,
                   mutQ>>

Restore(t) == IF orig # sch.prio[t] THEN ChangePrio(sch, t, orig) ELSE sch

\* A release that restores the priority only when it passes the mutex on.
MutexFreeKeepsPrio(t) ==
    /\ Runs(t) /\ owner = t /\ hold = 1 /\ mutQ = <<>>
    /\ mutVal' = mutVal + 1 /\ owner' = Nobody /\ hold' = 0 /\ orig' = 255
    /\ held' = [held EXCEPT ![t] = @ - 1]
    /\ UNCHANGED <<clkVars, timVars, sch, error, pc, call, semVars, mutQ>>

MutexFree(t) ==
    /\ Runs(t) /\ owner = t /\ hold = 1 /\ mutQ = <<>>
    /\ sch' = Restore(t)
    /\ mutVal' = mutVal + 1 /\ owner' = Nobody /\ hold' = 0 /\ orig' = 255
    /\ held' = [held EXCEPT ![t] = @ - 1]
    /\ UNCHANGED <<clkVars, timVars, error, pc, call, semVars, mutQ>>

MutexPass(t) ==
    /\ Runs(t) /\ owner = t /\ hold = 1 /\ mutQ # <<>>
    /\ LET next == Head(mutQ)
       IN /\ sch' = Insert(Restore(t), next)
          /\ owner' = next /\ orig' = sch.prio[next]
          /\ StopTimer(next)
    /\ mutQ' = Tail(mutQ)
    /\ held' = [held EXCEPT ![t] = @ - 1]
    /\ pc' = [pc EXCEPT ![t] = "sched"]
    /\ UNCHANGED <<clkVars, error, call, semVars, mutVal, hold>>

\* rt_thread_sleep; it does not touch the error number before it waits.
Sleep(t, d) ==
    /\ Runs(t)
    /\ sch' = Suspend(sch, t)
    /\ Block(t, "sleep", d)
    /\ UNCHANGED <<clkVars, error, semVars, mutVars>>

\* rt_schedule, called by a thread that gave something away or is suspended.
CallSchedule(t) ==
    /\ Executes(t) /\ pc[t] = "sched"
    /\ call[t] = "none" \/ sch.stat[t] = "suspend"
    /\ sch' = Schedule(sch)
    /\ pc' = [pc EXCEPT ![t] = IF call[t] = "none" THEN "run" ELSE "sched"]
    /\ UNCHANGED <<clkVars, timVars, error, call, semVars, mutVars>>

\* The rest of a call that waited.  A handler may have resumed the thread before
\* its rt_schedule, which then comes now and may let another one go first.
Return(t) ==
    /\ Executes(t) /\ pc[t] = "sched" /\ call[t] # "none" /\ sch.stat[t] = "running"
    /\ sch' \in {sch, Schedule(sch)}
    /\ pc' = [pc EXCEPT ![t] = "run"]
    /\ call' = [call EXCEPT ![t] = "none"]
    /\ error' = IF call[t] = "sleep" /\ error[t] = "timeout"
                THEN [error EXCEPT ![t] = "ok"] ELSE error
    /\ held' = IF call[t] = "mutex" /\ error[t] = "ok"
               THEN [held EXCEPT ![t] = @ + 1] ELSE held
    /\ UNCHANGED <<clkVars, timVars, semVars, mutVal, owner, hold, orig, mutQ>>

-----------------------------------------------------------------------------
(* The clock interrupt                                                     *)

\* A clock that forgets the slices, and one that forgets to count.
TickForgets(over) ==
    /\ isr = "off" /\ isr' = "timer"
    /\ tick' = (tick + 1) % (TickMax + 1)
    /\ UNCHANGED <<timVars, sch, error, pc, call, semVars, mutVars>>
TickStands(over) ==
    /\ isr = "off" /\ isr' = "timer"
    /\ sch' = IF over THEN Schedule([sch EXCEPT !.yield = @ \cup {sch.current}])
              ELSE sch
    /\ UNCHANGED <<tick, timVars, error, pc, call, semVars, mutVars>>

\* rt_tick_increase: a thread whose slice is over yields; how long a slice
\* lasts (remaining_tick) is left open.
Tick(over) ==
    /\ isr = "off" /\ isr' = "timer"
    /\ tick' = (tick + 1) % (TickMax + 1)
    /\ sch' = IF over THEN Schedule([sch EXCEPT !.yield = @ \cup {sch.current}])
              ELSE sch
    /\ UNCHANGED <<timVars, error, pc, call, semVars, mutVars>>

Due == timers # <<>> /\ Reached(at[Head(timers)], tick)

\* A turn of the loop of rt_timer_check, with rt_thread_timeout.
TimerFires ==
    /\ isr # "off" /\ Due
    /\ isr' = "check"
    /\ LET t == Head(timers)
       IN /\ StopTimer(t)
          /\ error' = [error EXCEPT ![t] = "timeout"]
          /\ semQ' = Without(semQ, t)
          /\ mutQ' = Without(mutQ, t)
          /\ sch' = Schedule(Insert(sch, t))
    /\ UNCHANGED <<tick, pc, call, semVal, mutVal, owner, hold, orig, held>>

TimerCheckEnds ==
    /\ isr # "off" /\ ~Due
    /\ isr' = "off"
    /\ UNCHANGED <<tick, timVars, sch, error, pc, call, semVars, mutVars>>

-----------------------------------------------------------------------------

Semaphore(t) ==
    SemTake(t) \/ SemRelease(t) \/ \E d \in SemTimes : SemWait(t, d)
Mutex(t) ==
    \/ MutexAgain(t) \/ MutexTake(t) \/ MutexTry(t)
    \/ MutexKeep(t) \/ MutexFree(t) \/ MutexPass(t)
    \/ \E d \in MutexTimes : MutexWait(t, d)
Thread ==
    \/ \E t \in SemUsers : Semaphore(t)
    \/ \E t \in MutexUsers : Mutex(t)
    \/ \E t \in Sleepers, d \in SleepTimes : Sleep(t, d)
    \/ \E t \in Threads : CallSchedule(t) \/ Return(t)
Clock == TimerFires \/ TimerCheckEnds \/ \E over \in BOOLEAN : Tick(over)

Next == Clock \/ IsrRelease \/ Thread

\* The clock interrupt, which nothing disables for ever, comes again and again,
\* and a time slice is over after finitely many ticks.  One of the two is always
\* possible, so these are the fair behaviours of Clock and of Tick(TRUE).
Spec == Init /\ [][Next]_vars /\ []<><<Clock>>_vars /\ []<><<Tick(TRUE)>>_vars

-----------------------------------------------------------------------------
(* Properties                                                              *)

Timed == ToSet(timers)

Scheduler ==
    [stat    : [Threads -> {"running", "ready", "suspend"}],
     prio    : [Threads -> Prios],
     ready   : [Prios -> Seq(Threads)],
     current : Threads,
     yield   : SUBSET Threads]

\* Types of the variables.
TypeOK ==
    /\ tick \in Ticks /\ isr \in {"off", "timer", "check"}
    /\ timers \in Seq(Threads) /\ at \in [Threads -> Ticks]
    /\ sch \in Scheduler
    /\ error \in [Threads -> {"ok", "timeout"}]
    /\ pc \in [Threads -> {"run", "sched"}]
    /\ call \in [Threads -> {"none", "sem", "mutex", "sleep"}]
    /\ semVal \in 0..MaxValue /\ semQ \in Seq(Threads)
    /\ mutVal \in 0..1 /\ owner \in Threads \cup {Nobody} /\ hold \in 0..MaxHold
    /\ orig \in Prios \cup {255} /\ mutQ \in Seq(Threads)
    /\ held \in [Threads -> 0..MaxHold]

Holds(q, S) == IsInjective(q) /\ ToSet(q) = S
Coherent(k) ==
    /\ \A p \in Prios :
          Holds(k.ready[p], {t \in Threads : k.stat[t] = "ready" /\ k.prio[t] = p})
    /\ \A t \in Threads : k.stat[t] = "running" => t = k.current
Suspended == {t \in Threads : sch.stat[t] = "suspend"}
WaitsFor(c) == {t \in Suspended : call[t] = c}

\* One list node per thread: a thread that is ready is once in the queue of its
\* present priority, one that waits is once in the queue of what it waits for,
\* one that runs is in none; a timer only runs for a suspended thread.
Placed ==
    /\ Coherent(sch)
    /\ Holds(semQ, WaitsFor("sem"))
    /\ Holds(mutQ, WaitsFor("mutex"))
    /\ Holds(timers, Timed) /\ WaitsFor("sleep") \subseteq Timed /\ Timed \subseteq Suspended

\* The mutex was passed to a thread that has not returned from its wait yet.
Granted(t) == call[t] = "mutex" /\ t \notin ToSet(mutQ) /\ error[t] = "ok"

\* At most one thread acts as if it had the mutex, it is the owner, and the
\* count agrees with the answers it got; a thread that was told it timed out is
\* not the owner, and a free mutex keeps nobody waiting.
MutexExclusive ==
    /\ mutVal = 1 <=> owner = Nobody
    /\ mutVal = 1 => hold = 0 /\ mutQ = <<>>
    /\ owner \notin ToSet(mutQ)
    /\ \A t \in Threads :
        /\ Granted(t) => t = owner
        /\ held[t] = IF t # owner THEN 0 ELSE IF Granted(t) THEN hold - 1 ELSE hold

\* A thread does not wait for the mutex while its owner has a lower priority.
NoInversion ==
    \A t \in ToSet(mutQ) : sch.prio[owner] <= sch.prio[t]

\* An inherited priority ends with the mutex.
Restored ==
    /\ \A t \in Threads \ {owner} : sch.prio[t] = InitPrio[t]
    /\ owner # Nobody => orig = InitPrio[owner]

\* The timer list is sorted by the time left, across the wrap of the tick, and
\* no timer is overdue once the clock interrupt is over.
TimersInOrder ==
    LET Left(i) == (at[timers[i]] - tick) % (TickMax + 1)
    IN \A i \in DOMAIN timers :
        /\ Left(i) < TickMax \div 2
        /\ isr = "off" => Left(i) > 0
        /\ i > 1 => Left(i - 1) <= Left(i)

\* The semaphore is the one rt_sem_take promises.
Phase(t) ==
    IF call[t] # "sem" THEN "idle"
    ELSE IF t \in ToSet(semQ) THEN IF t \in Timed THEN "timed" ELSE "forever"
    ELSE IF error[t] = "ok" THEN "granted" ELSE "expired"
Sem == INSTANCE TimedSemaphore WITH
    tokens <- semVal,
    phase <- [t \in Threads |-> Phase(t)],
    tick <- isr # "off"
IsTimedSemaphore == Sem!Spec

\* A sleep ends, and so does any other wait with a timeout of a thread that sleeps.
TimedWaitEnds == \A t \in Sleepers : []<>(t \notin Timed)

\* A thread of a lower priority never keeps running for good while others are
\* ready: rt_mutex_release may leave such a thread running, the time slice ends it.
Preempted ==
    \A p \in Prios : sch.ready[p] # <<>> => sch.prio[sch.current] <= p
PreemptionDue == []<>Preempted
=============================================================================
