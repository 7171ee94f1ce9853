----------------------------- MODULE Kernel_proofs -----------------------------
(***************************************************************************)
(* For every number of threads and priorities, size of the tick and set of *)
(* timeouts: each thread is in one place, the mutex has one owner, an      *)
(* inherited priority ends with the mutex, the timer list stays sorted     *)
(* across the wrap of the tick, and Kernel implements TimedSemaphore.      *)
(***************************************************************************)
EXTENDS KernelSched_proofs

-----------------------------------------------------------------------------
(* The inductive invariant                                                 *)

\* A thread that acts has returned from the call before, one that is suspended
\* has not; a thread that waits for the mutex has no error yet; an owner has
\* taken the mutex at least once.
CallsAgree ==
    \A t \in Threads :
        /\ pc[t] = "run" => call[t] = "none"
        /\ sch.stat[t] = "suspend" => call[t] # "none"
NoErrorYet == \A t \in ToSet(mutQ) : error[t] = "ok"
OwnerHolds == owner # Nobody => hold >= 1

IInv ==
    /\ TypeOK /\ Placed /\ MutexExclusive /\ Restored
    /\ CallsAgree /\ NoErrorYet /\ OwnerHolds

LEMMA SchNow ==
    ASSUME IInv
    PROVE  /\ sch \in Scheduler /\ Coherent(sch)
           /\ sch.stat \in [Threads -> {"running", "ready", "suspend"}]
           /\ sch.prio \in [Threads -> Prios] /\ sch.current \in Threads
BY Fields DEF IInv, TypeOK, Placed

-----------------------------------------------------------------------------
(* What a step leaves as it was                                            *)

LEMMA SameWaiters ==
    ASSUME \A t \in Threads : sch'.stat[t] = "suspend" <=> sch.stat[t] = "suspend",
           \A t \in Suspended : call'[t] = call[t]
    PROVE  Suspended' = Suspended /\ \A c : WaitsFor(c)' = WaitsFor(c)
BY DEF Suspended, WaitsFor

LEMMA PlacedFrame ==
    ASSUME Placed, Coherent(sch'),
           \A t \in Threads : sch'.stat[t] = "suspend" <=> sch.stat[t] = "suspend",
           \A t \in Suspended : call'[t] = call[t],
           UNCHANGED <<semQ, mutQ, timers>>
    PROVE  Placed'
<1>1. Suspended' = Suspended /\ \A c : WaitsFor(c)' = WaitsFor(c)
  BY SameWaiters
<1> QED BY <1>1 DEF Placed, Timed, Holds

LEMMA MutexFrame ==
    ASSUME MutexExclusive, NoErrorYet, OwnerHolds,
           UNCHANGED <<mutVal, owner, hold, mutQ, held>>,
           \A t \in Threads : call'[t] = "mutex" <=> call[t] = "mutex",
           \A t \in Threads : call[t] = "mutex" => error'[t] = error[t],
           ToSet(mutQ) \subseteq {t \in Threads : call[t] = "mutex"}
    PROVE  MutexExclusive' /\ NoErrorYet' /\ OwnerHolds'
<1>1. NoErrorYet' /\ OwnerHolds'
  BY DEF NoErrorYet, OwnerHolds
<1>2. MutexExclusive'
  BY DEF MutexExclusive, Granted
<1> QED BY <1>1, <1>2

LEMMA RestoredFrame ==
    ASSUME Restored, sch'.prio = sch.prio, UNCHANGED <<owner, orig>>
    PROVE  Restored'
BY DEF Restored

LEMMA MutexWaiters ==
    ASSUME Placed
    PROVE  ToSet(mutQ) \subseteq {t \in Threads : call[t] = "mutex" /\ sch.stat[t] = "suspend"}
BY DEF Placed, Holds, WaitsFor, Suspended

-----------------------------------------------------------------------------
(* The initial state                                                       *)

LEMMA InitSafe == Init => IInv
<1> SUFFICES ASSUME Init PROVE IInv
  OBVIOUS
<1> DEFINE R(p) == {t \in Threads \ {Idle} : InitPrio[t] = p}
           k == [stat    |-> [t \in Threads |-> IF t = Idle THEN "running" ELSE "ready"],
                 prio    |-> InitPrio,
                 ready   |-> [p \in Prios |-> SetToSeq(R(p))],
                 current |-> Idle,
                 yield   |-> {}]
<1>1. sch = Schedule(k)
  BY DEF Init
<1>2. ASSUME NEW p \in Prios
      PROVE  SetToSeq(R(p)) \in Seq(Threads) /\ Holds(SetToSeq(R(p)), R(p))
  <2>1. IsFiniteSet(R(p))
    BY Constants, FS_Subset
  <2>2. SetToSeq(R(p)) \in Seq(R(p)) /\ Holds(SetToSeq(R(p)), R(p))
    BY <2>1, SetToSeqHolds
  <2> QED BY <2>2, SeqMonotonic
<1>3. /\ k.stat = [t \in Threads |-> IF t = Idle THEN "running" ELSE "ready"]
      /\ k.prio = InitPrio /\ k.ready = [p \in Prios |-> SetToSeq(R(p))] /\ k.current = Idle
  OBVIOUS
<1>4. k \in Scheduler
  <2>1. [t \in Threads |-> IF t = Idle THEN "running" ELSE "ready"]
           \in [Threads -> {"running", "ready", "suspend"}]
    OBVIOUS
  <2>2. InitPrio \in [Threads -> Prios]
    BY Constants, PriosNat
  <2>3. [p \in Prios |-> SetToSeq(R(p))] \in [Prios -> Seq(Threads)]
    BY <1>2
  <2>4. Idle \in Threads /\ {} \in SUBSET Threads
    BY Constants
  <2> QED BY <2>1, <2>2, <2>3, <2>4 DEF Scheduler
<1> HIDE DEF k
<1>5. Coherent(k)
  <2>1. ASSUME NEW p \in Prios
        PROVE  Holds(k.ready[p], {t \in Threads : k.stat[t] = "ready" /\ k.prio[t] = p})
    <3>1. {t \in Threads : k.stat[t] = "ready" /\ k.prio[t] = p} = R(p)
      BY <1>3, Constants
    <3> QED BY <3>1, <1>2, <1>3
  <2>2. \A t \in Threads : k.stat[t] = "running" => t = k.current
    BY <1>3, Constants
  <2> QED BY <2>1, <2>2 DEF Coherent
<1>6. /\ sch \in Scheduler /\ Coherent(sch) /\ sch.prio = InitPrio
      /\ \A t \in Threads : sch.stat[t] # "suspend"
  BY <1>1, <1>3, <1>4, <1>5, ScheduleKeeps
<1>7. Suspended = {} /\ \A c : WaitsFor(c) = {}
  BY <1>6 DEF Suspended, WaitsFor
<1>8. \A S : <<>> \in Seq(S)
  BY EmptySeq
<1>9. ToSet(<<>>) = {} /\ IsInjective(<<>>)
  BY DEF ToSet, IsInjective
<1>10. TypeOK
  <2>1. /\ 0 \in Ticks /\ 0 \in 0..MaxValue /\ 0 \in 0..MaxHold /\ 1 \in 0..1
    BY Constants, SMT DEF Ticks
  <2> QED BY <1>6, <1>8, <2>1, Constants DEF Init, TypeOK
<1>11. Placed
  BY <1>6, <1>7, <1>9 DEF Init, Placed, Timed, Holds
<1>12. MutexExclusive /\ OwnerHolds /\ NoErrorYet
  BY <1>9, Constants DEF Init, MutexExclusive, Granted, OwnerHolds, NoErrorYet
<1>13. Restored
  BY <1>6 DEF Init, Restored
<1>14. CallsAgree
  BY <1>6 DEF Init, CallsAgree
<1> QED BY <1>10, <1>11, <1>12, <1>13, <1>14 DEF IInv

-----------------------------------------------------------------------------
(* The semaphore                                                           *)

LEMMA SemTakeSafe == ASSUME IInv, NEW t \in Threads, SemTake(t) PROVE IInv'
<1> USE DEF SemTake, clkVars, timVars, mutVars
<1>1. TypeOK'
  <2>1. semVal - 1 \in 0..MaxValue
    BY Constants, SMT DEF IInv, TypeOK
  <2> QED BY <2>1 DEF IInv, TypeOK
<1>2. Placed'
  BY PlacedFrame DEF IInv, Placed
<1>3. MutexExclusive' /\ NoErrorYet' /\ OwnerHolds'
  BY MutexFrame, MutexWaiters DEF IInv
<1>4. Restored'
  BY RestoredFrame DEF IInv
<1>5. CallsAgree'
  BY DEF IInv, CallsAgree
<1> QED BY <1>1, <1>2, <1>3, <1>4, <1>5 DEF IInv

LEMMA KeepSafe == ASSUME IInv, Keep PROVE IInv'
<1> USE DEF Keep, clkVars, timVars, mutVars
<1>1. TypeOK'
  <2>1. semVal + 1 \in 0..MaxValue
    BY Constants, SMT DEF IInv, TypeOK
  <2> QED BY <2>1 DEF IInv, TypeOK
<1>2. Placed'
  BY PlacedFrame DEF IInv, Placed
<1>3. MutexExclusive' /\ NoErrorYet' /\ OwnerHolds'
  BY MutexFrame, MutexWaiters DEF IInv
<1>4. Restored'
  BY RestoredFrame DEF IInv
<1>5. CallsAgree'
  BY DEF IInv, CallsAgree
<1> QED BY <1>1, <1>2, <1>3, <1>4, <1>5 DEF IInv

\* A thread is taken out of the three lists and resumed.
LEMMA WakePlaced ==
    ASSUME IInv, NEW t \in Suspended, Coherent(sch'),
           \A x \in Threads : sch'.stat[x] = "suspend" <=> sch.stat[x] = "suspend" /\ x # t,
           call' = call,
           Holds(semQ', ToSet(semQ) \ {t}), Holds(mutQ', ToSet(mutQ) \ {t}),
           Holds(timers', ToSet(timers) \ {t})
    PROVE  Placed'
<1>1. Suspended' = Suspended \ {t}
  BY DEF Suspended
<1>2. \A c : WaitsFor(c)' = WaitsFor(c) \ {t}
  BY DEF WaitsFor, Suspended
<1>3. ToSet(semQ) = WaitsFor("sem") /\ ToSet(mutQ) = WaitsFor("mutex")
  BY DEF IInv, Placed, Holds
<1>4. WaitsFor("sleep") \subseteq Timed /\ Timed \subseteq Suspended
  BY DEF IInv, Placed
<1>5. Timed' = Timed \ {t} /\ Holds(timers', Timed')
  BY DEF Holds, Timed
<1> QED BY <1>1, <1>2, <1>3, <1>4, <1>5 DEF Placed

LEMMA StopTimerKeeps ==
    ASSUME IInv, NEW t \in Threads, StopTimer(t)
    PROVE  /\ timers' \in Seq(Threads) /\ at' \in [Threads -> Ticks]
           /\ Holds(timers', ToSet(timers) \ {t})
<1>1. timers \in Seq(Threads) /\ Holds(timers, ToSet(timers)) /\ at \in [Threads -> Ticks]
  BY DEF IInv, TypeOK, Placed, Timed
<1>2. 0 \in Ticks
  BY Constants, SMT DEF Ticks
<1> QED BY <1>1, <1>2, WithoutHolds DEF StopTimer

LEMMA GiveSafe ==
    ASSUME IInv, NEW n \in {Insert(sch, Head(semQ)), Schedule(Insert(sch, Head(semQ)))},
           Give(n), pc' = pc \/ \E t \in Threads : pc' = [pc EXCEPT ![t] = "sched"]
    PROVE  IInv'
<1> USE DEF clkVars, mutVars
<1> DEFINE h == Head(semQ)
<1>1. /\ h \in WaitsFor("sem") /\ h \in Threads /\ Tail(semQ) \in Seq(Threads)
      /\ Holds(Tail(semQ), WaitsFor("sem") \ {h})
  <2>1. semQ \in Seq(Threads) /\ Holds(semQ, WaitsFor("sem")) /\ semQ # <<>>
    BY DEF IInv, Placed, TypeOK, Give
  <2> QED BY <2>1, TailHolds
<1>2. h \in Suspended /\ sch.stat[h] = "suspend" /\ call[h] = "sem"
  BY <1>1 DEF WaitsFor, Suspended
<1>3. semQ' = Tail(semQ) /\ StopTimer(h) /\ sch' = n
  BY DEF Give
<1> HIDE DEF h
<1>4. /\ sch' \in Scheduler /\ Coherent(sch') /\ sch'.prio = sch.prio
      /\ \A x \in Threads : sch'.stat[x] = "suspend" <=> sch.stat[x] = "suspend" /\ x # h
  BY <1>1, <1>2, <1>3, SchNow, Resumes DEF h
<1>5. /\ timers' \in Seq(Threads) /\ at' \in [Threads -> Ticks]
      /\ Holds(timers', ToSet(timers) \ {h})
  BY <1>1, <1>3, StopTimerKeeps
<1>6. UNCHANGED <<clkVars, error, call, semVal, mutVars>>
  BY DEF Give
<1>0. pc' \in [Threads -> {"run", "sched"}] /\ \A x \in Threads : pc'[x] = "run" => pc[x] = "run"
  <2>1. pc \in [Threads -> {"run", "sched"}]
    BY DEF IInv, TypeOK
  <2> QED BY <2>1
<1>7. TypeOK'
  <2>1. TypeOK /\ semQ' \in Seq(Threads)
    BY <1>1, <1>3 DEF IInv
  <2> QED BY <2>1, <1>0, <1>4, <1>5, <1>6 DEF TypeOK
<1>8. Placed'
  <2>1. Holds(semQ', ToSet(semQ) \ {h})
    BY <1>1, <1>3 DEF IInv, Placed, Holds
  <2>2. Holds(mutQ', ToSet(mutQ) \ {h})
    <3>1. h \notin WaitsFor("mutex")
      BY <1>2 DEF WaitsFor
    <3> QED BY <3>1, <1>6 DEF IInv, Placed, Holds
  <2> QED BY <2>1, <2>2, <1>2, <1>4, <1>5, <1>6, WakePlaced
<1>9. MutexExclusive' /\ NoErrorYet' /\ OwnerHolds'
  BY <1>6, MutexFrame, MutexWaiters DEF IInv
<1>10. Restored'
  BY <1>4, <1>6, RestoredFrame DEF IInv
<1>11. CallsAgree'
  BY <1>0, <1>4, <1>6 DEF IInv, CallsAgree
<1> QED BY <1>7, <1>8, <1>9, <1>10, <1>11 DEF IInv

LEMMA EnqueueHolds ==
    ASSUME NEW q \in Seq(Threads), NEW S, Holds(q, S), NEW t \in Threads, t \notin S, NEW flag
    PROVE  Enqueue(q, t, flag) \in Seq(Threads) /\ Holds(Enqueue(q, t, flag), S \cup {t})
<1> DEFINE places == {i \in DOMAIN q : flag = "prio" /\ sch.prio[t] < sch.prio[q[i]]}
<1>1. places \subseteq DOMAIN q
  OBVIOUS
<1>2. Enqueue(q, t, flag) = Before(q, places, t)
  BY DEF Enqueue
<1> HIDE DEF places
<1> QED BY <1>1, <1>2, BeforeHolds

LEMMA StartTimerKeeps ==
    ASSUME IInv, NEW t \in Threads, t \notin Timed, NEW d \in Nat, StartTimer(t, d)
    PROVE  /\ timers' \in Seq(Threads) /\ at' \in [Threads -> Ticks]
           /\ Holds(timers', Timed')
           /\ Timed \subseteq Timed' /\ Timed' \subseteq Timed \cup {t}
           /\ d # 0 => t \in Timed'
<1>1. timers \in Seq(Threads) /\ Holds(timers, Timed) /\ at \in [Threads -> Ticks]
  BY DEF IInv, TypeOK, Placed
<1>2. CASE d = 0
  BY <1>1, <1>2 DEF StartTimer, Forever, Timed, Holds
<1>3. CASE d # 0
  <2> DEFINE end == (tick + d) % (TickMax + 1)
             later == {i \in DOMAIN timers : at[timers[i]] # end /\ Reached(end, at[timers[i]])}
  <2>1. timers' = Before(timers, later, t) /\ at' = [at EXCEPT ![t] = end]
    BY <1>3 DEF StartTimer, Forever
  <2>2. end \in Ticks
    BY Constants, SMT DEF IInv, TypeOK, Ticks
  <2>3. later \subseteq DOMAIN timers
    OBVIOUS
  <2> HIDE DEF end, later
  <2>4. timers' \in Seq(Threads) /\ Holds(timers', Timed \cup {t})
    BY <1>1, <2>1, <2>3, BeforeHolds
  <2>5. Timed' = Timed \cup {t}
    BY <2>4 DEF Holds, Timed
  <2> QED BY <1>1, <2>1, <2>2, <2>4, <2>5
<1> QED BY <1>2, <1>3

\* The running thread t is suspended in the call c, in one of the queues or in none.
LEMMA BlockPlaced ==
    ASSUME IInv, NEW t \in Threads, sch.stat[t] = "running", NEW c,
           c \in {"sem", "mutex", "sleep"}, NEW d \in Nat, Block(t, c, d),
           c = "sleep" => d # 0, Coherent(sch'),
           \A x \in Threads : sch'.stat[x] = "suspend" <=> sch.stat[x] = "suspend" \/ x = t,
           Holds(semQ', IF c = "sem" THEN ToSet(semQ) \cup {t} ELSE ToSet(semQ)),
           Holds(mutQ', IF c = "mutex" THEN ToSet(mutQ) \cup {t} ELSE ToSet(mutQ))
    PROVE  /\ Placed'
           /\ timers' \in Seq(Threads) /\ at' \in [Threads -> Ticks]
           /\ pc' = [pc EXCEPT ![t] = "sched"] /\ call' = [call EXCEPT ![t] = c]
<1>0. call \in [Threads -> {"none", "sem", "mutex", "sleep"}]
  BY DEF IInv, TypeOK
<1>1. Suspended' = Suspended \cup {t} /\ t \notin Suspended
  BY DEF Suspended
<1>2. pc' = [pc EXCEPT ![t] = "sched"] /\ call' = [call EXCEPT ![t] = c] /\ StartTimer(t, d)
  BY DEF Block
<1>3. WaitsFor(c)' = WaitsFor(c) \cup {t}
  BY <1>0, <1>1, <1>2 DEF WaitsFor
<1>4. \A b : b # c => WaitsFor(b)' = WaitsFor(b)
  BY <1>0, <1>1, <1>2 DEF WaitsFor
<1>5. /\ ToSet(semQ) = WaitsFor("sem") /\ ToSet(mutQ) = WaitsFor("mutex")
      /\ WaitsFor("sleep") \subseteq Timed /\ Timed \subseteq Suspended
  BY DEF IInv, Placed, Holds
<1>6. /\ timers' \in Seq(Threads) /\ at' \in [Threads -> Ticks]
      /\ Holds(timers', Timed')
      /\ Timed \subseteq Timed' /\ Timed' \subseteq Timed \cup {t}
      /\ d # 0 => t \in Timed'
  BY <1>1, <1>2, <1>5, StartTimerKeeps
<1>7. Holds(semQ', WaitsFor("sem")') /\ Holds(mutQ', WaitsFor("mutex")')
  BY <1>3, <1>4, <1>5
<1>8. WaitsFor("sleep")' \subseteq Timed' /\ Timed' \subseteq Suspended'
  BY <1>1, <1>3, <1>4, <1>5, <1>6
<1> QED BY <1>2, <1>6, <1>7, <1>8 DEF Placed

LEMMA RunsNow ==
    ASSUME IInv, NEW t \in Threads, Runs(t)
    PROVE  /\ sch.stat[t] = "running" /\ call[t] = "none" /\ t = sch.current
           /\ t \notin Suspended /\ t \notin ToSet(semQ) /\ t \notin ToSet(mutQ)
           /\ t \notin Timed /\ pc[t] = "run"
<1>1. sch.stat[t] = "running" /\ call[t] = "none" /\ t = sch.current /\ pc[t] = "run"
  BY DEF IInv, CallsAgree, Runs, Executes
<1>2. t \notin Suspended
  BY <1>1 DEF Suspended
<1>3. /\ ToSet(semQ) \subseteq Suspended /\ ToSet(mutQ) \subseteq Suspended
      /\ Timed \subseteq Suspended
  BY DEF IInv, Placed, Holds, WaitsFor
<1> QED BY <1>1, <1>2, <1>3

LEMMA SemWaitSafe ==
    ASSUME IInv, NEW t \in Threads, NEW d \in Nat, SemWait(t, d)
    PROVE  IInv'
<1> USE DEF clkVars, mutVars
<1>1. /\ sch' = Suspend(sch, t) /\ semQ' = Enqueue(semQ, t, SemFlag) /\ Block(t, "sem", d)
      /\ error' = [error EXCEPT ![t] = "ok"]
      /\ UNCHANGED <<clkVars, semVal, mutVars>>
  BY DEF SemWait
<1>2. /\ sch.stat[t] = "running" /\ call[t] = "none" /\ t \notin ToSet(semQ)
  BY RunsNow DEF SemWait
<1>3. /\ sch' \in Scheduler /\ Coherent(sch') /\ sch'.prio = sch.prio
      /\ sch'.stat = [sch.stat EXCEPT ![t] = "suspend"]
  BY <1>1, <1>2, SchNow, SuspendKeeps
<1>4. \A x \in Threads : sch'.stat[x] = "suspend" <=> sch.stat[x] = "suspend" \/ x = t
  BY <1>3, SchNow
<1>5. semQ' \in Seq(Threads) /\ Holds(semQ', ToSet(semQ) \cup {t})
  BY <1>1, <1>2, EnqueueHolds DEF IInv, TypeOK, Placed, Holds
<1>6. Holds(mutQ', ToSet(mutQ))
  BY <1>1 DEF IInv, Placed, Holds
<1>7. /\ Placed'
      /\ timers' \in Seq(Threads) /\ at' \in [Threads -> Ticks]
      /\ pc' = [pc EXCEPT ![t] = "sched"] /\ call' = [call EXCEPT ![t] = "sem"]
  BY <1>1, <1>2, <1>3, <1>4, <1>5, <1>6, BlockPlaced
<1>8. TypeOK'
  BY <1>1, <1>3, <1>5, <1>7 DEF IInv, TypeOK
<1>9. MutexExclusive' /\ NoErrorYet' /\ OwnerHolds'
  <2>1. \A x \in Threads : call'[x] = "mutex" <=> call[x] = "mutex"
    BY <1>2, <1>7 DEF IInv, TypeOK
  <2>2. \A x \in Threads : call[x] = "mutex" => error'[x] = error[x]
    BY <1>1, <1>2 DEF IInv, TypeOK
  <2> QED BY <2>1, <2>2, <1>1, MutexFrame, MutexWaiters DEF IInv
<1>10. Restored'
  BY <1>1, <1>3, RestoredFrame DEF IInv
<1>11. CallsAgree'
  BY <1>3, <1>7 DEF IInv, CallsAgree, TypeOK
<1> QED BY <1>7, <1>8, <1>9, <1>10, <1>11 DEF IInv

-----------------------------------------------------------------------------
(* The mutex                                                               *)

\* What the mutex is like for a thread that calls one of its functions.
LEMMA MutexNow ==
    ASSUME IInv, NEW t \in Threads, Runs(t)
    PROVE  /\ mutVal \in 0..1 /\ hold \in 0..MaxHold /\ held \in [Threads -> 0..MaxHold]
           /\ error \in [Threads -> {"ok", "timeout"}]
           /\ call \in [Threads -> {"none", "sem", "mutex", "sleep"}]
           /\ call[t] = "none" /\ t \notin ToSet(mutQ)
           /\ owner = t => held[t] = hold /\ hold >= 1
           /\ owner # t => held[t] = 0
<1>1. /\ mutVal \in 0..1 /\ hold \in 0..MaxHold /\ held \in [Threads -> 0..MaxHold]
      /\ error \in [Threads -> {"ok", "timeout"}]
      /\ call \in [Threads -> {"none", "sem", "mutex", "sleep"}]
  BY DEF IInv, TypeOK
<1>2. call[t] = "none" /\ t \notin ToSet(mutQ)
  BY RunsNow
<1>3. ~Granted(t)
  BY <1>2 DEF Granted
<1>4. owner = t => owner # Nobody
  BY Constants
<1> QED BY <1>1, <1>2, <1>3, <1>4 DEF IInv, MutexExclusive, OwnerHolds

\* The answers of the other threads stay the same.
LEMMA SameAnswers ==
    ASSUME IInv, NEW t \in Threads, call[t] = "none", UNCHANGED <<call, mutQ>>,
           NEW v, error' = [error EXCEPT ![t] = v] \/ error' = error
    PROVE  \A x \in Threads : Granted(x)' <=> Granted(x)
BY DEF IInv, TypeOK, Granted

LEMMA MutexTrySafe == ASSUME IInv, NEW t \in Threads, MutexTry(t) PROVE IInv'
<1> USE DEF MutexTry, clkVars, timVars, semVars, mutVars
<1>1. TypeOK'
  BY DEF IInv, TypeOK
<1>2. Placed'
  BY PlacedFrame DEF IInv, Placed
<1>3. MutexExclusive' /\ NoErrorYet' /\ OwnerHolds'
  <2>1. \A x \in Threads : call[x] = "mutex" => error'[x] = error[x]
    BY RunsNow DEF IInv, TypeOK
  <2> QED BY <2>1, MutexFrame, MutexWaiters DEF IInv
<1>4. Restored'
  BY RestoredFrame DEF IInv
<1>5. CallsAgree'
  BY DEF IInv, CallsAgree
<1> QED BY <1>1, <1>2, <1>3, <1>4, <1>5 DEF IInv

LEMMA MutexAgainSafe == ASSUME IInv, NEW t \in Threads, MutexAgain(t) PROVE IInv'
<1> USE DEF clkVars, timVars, semVars
<1>0. /\ Runs(t) /\ owner = t /\ hold < MaxHold /\ hold' = hold + 1
      /\ held' = [held EXCEPT ![t] = @ + 1] /\ error' = [error EXCEPT ![t] = "ok"]
      /\ UNCHANGED <<clkVars, timVars, sch, pc, call, semVars, mutVal, owner, orig, mutQ>>
  BY DEF MutexAgain
<1>1. /\ hold \in 0..MaxHold /\ held \in [Threads -> 0..MaxHold] /\ call[t] = "none"
      /\ held[t] = hold /\ hold >= 1 /\ t \notin ToSet(mutQ)
  BY <1>0, MutexNow
<1>2. hold' \in 0..MaxHold /\ hold' >= 1 /\ held' \in [Threads -> 0..MaxHold] /\ held'[t] = hold'
  <2>1. hold + 1 \in 0..MaxHold /\ hold + 1 >= 1
    BY <1>0, <1>1, Constants, SMT
  <2> QED BY <2>1, <1>0, <1>1
<1>3. TypeOK'
  BY <1>0, <1>2 DEF IInv, TypeOK
<1>4. Placed'
  BY <1>0, PlacedFrame DEF IInv, Placed
<1>5. MutexExclusive'
  <2>1. mutVal # 1
    BY <1>0, Constants DEF IInv, MutexExclusive
  <2>2. \A x \in Threads : Granted(x)' <=> Granted(x)
    BY <1>0, <1>1, SameAnswers
  <2>3. ~Granted(t)
    BY <1>1 DEF Granted
  <2>4. ASSUME NEW x \in Threads
        PROVE  /\ Granted(x)' => x = owner'
               /\ held'[x] = IF x # owner' THEN 0 ELSE IF Granted(x)' THEN hold' - 1 ELSE hold'
    BY <1>0, <1>1, <1>2, <2>2, <2>3 DEF IInv, MutexExclusive
  <2> QED BY <2>1, <2>4, <1>0 DEF IInv, MutexExclusive
<1>6. NoErrorYet' /\ OwnerHolds'
  BY <1>0, <1>1, <1>2, MutexWaiters DEF IInv, NoErrorYet, OwnerHolds, TypeOK
<1>7. Restored'
  BY <1>0, RestoredFrame DEF IInv
<1>8. CallsAgree'
  BY <1>0 DEF IInv, CallsAgree
<1> QED BY <1>3, <1>4, <1>5, <1>6, <1>7, <1>8 DEF IInv

LEMMA MutexTakeSafe == ASSUME IInv, NEW t \in Threads, MutexTake(t) PROVE IInv'
<1> USE DEF clkVars, timVars, semVars
<1>0. /\ Runs(t) /\ mutVal > 0 /\ mutVal' = mutVal - 1 /\ owner' = t
      /\ orig' = sch.prio[t] /\ hold' = hold + 1
      /\ held' = [held EXCEPT ![t] = @ + 1] /\ error' = [error EXCEPT ![t] = "ok"]
      /\ UNCHANGED <<clkVars, timVars, sch, pc, call, semVars, mutQ>>
  BY DEF MutexTake
<1>1. /\ mutVal \in 0..1 /\ held \in [Threads -> 0..MaxHold] /\ call[t] = "none"
      /\ t \notin ToSet(mutQ)
  BY <1>0, MutexNow
<1>2. mutVal = 1 /\ mutVal' = 0
  BY <1>0, <1>1, SMT
<1>3. owner = Nobody /\ hold = 0 /\ mutQ = <<>> /\ \A x \in Threads : held[x] = 0
  BY <1>2, Constants DEF IInv, MutexExclusive
<1>4. \A x \in Threads : ~Granted(x)
  BY <1>3, Constants DEF IInv, MutexExclusive
<1>5. \A x \in Threads : Granted(x)' <=> Granted(x)
  BY <1>0, <1>1, SameAnswers
<1>6. hold' = 1 /\ 1 \in 0..MaxHold
  BY <1>0, <1>3, Constants, SMT
<1>7. held' = [held EXCEPT ![t] = 1] /\ held' \in [Threads -> 0..MaxHold]
  BY <1>0, <1>1, <1>3, <1>6
<1>8. TypeOK'
  BY <1>0, <1>2, <1>6, <1>7, SchNow DEF IInv, TypeOK
<1>9. Placed'
  BY <1>0, PlacedFrame DEF IInv, Placed
<1>10. MutexExclusive'
  BY <1>0, <1>1, <1>2, <1>3, <1>4, <1>5, <1>6, <1>7, Constants DEF MutexExclusive
<1>11. NoErrorYet' /\ OwnerHolds'
  BY <1>0, <1>3, <1>6 DEF NoErrorYet, OwnerHolds, ToSet
<1>12. Restored'
  BY <1>0, <1>3, Constants DEF IInv, Restored
<1>13. CallsAgree'
  BY <1>0 DEF IInv, CallsAgree
<1> QED BY <1>8, <1>9, <1>10, <1>11, <1>12, <1>13 DEF IInv

LEMMA MutexKeepSafe == ASSUME IInv, NEW t \in Threads, MutexKeep(t) PROVE IInv'
<1> USE DEF clkVars, timVars, semVars
<1>0. /\ Runs(t) /\ owner = t /\ hold > 1 /\ hold' = hold - 1
      /\ held' = [held EXCEPT ![t] = @ - 1]
      /\ UNCHANGED <<clkVars, timVars, sch, error, pc, call, semVars, mutVal, owner, orig, mutQ>>
  BY DEF MutexKeep
<1>1. /\ hold \in 0..MaxHold /\ held \in [Threads -> 0..MaxHold] /\ call[t] = "none"
      /\ held[t] = hold /\ t \notin ToSet(mutQ)
  BY <1>0, MutexNow
<1>2. hold' \in 0..MaxHold /\ hold' >= 1 /\ held' \in [Threads -> 0..MaxHold] /\ held'[t] = hold'
  <2>1. hold - 1 \in 0..MaxHold /\ hold - 1 >= 1
    BY <1>0, <1>1, Constants, SMT
  <2> QED BY <2>1, <1>0, <1>1
<1>3. TypeOK'
  BY <1>0, <1>2 DEF IInv, TypeOK
<1>4. Placed'
  BY <1>0, PlacedFrame DEF IInv, Placed
<1>5. MutexExclusive'
  <2>1. mutVal # 1
    BY <1>0, Constants DEF IInv, MutexExclusive
  <2>2. \A x \in Threads : Granted(x)' <=> Granted(x)
    BY <1>0 DEF Granted
  <2>3. ~Granted(t)
    BY <1>1 DEF Granted
  <2>4. ASSUME NEW x \in Threads
        PROVE  /\ Granted(x)' => x = owner'
               /\ held'[x] = IF x # owner' THEN 0 ELSE IF Granted(x)' THEN hold' - 1 ELSE hold'
    BY <1>0, <1>1, <1>2, <2>2, <2>3 DEF IInv, MutexExclusive
  <2> QED BY <2>1, <2>4, <1>0 DEF IInv, MutexExclusive
<1>6. NoErrorYet' /\ OwnerHolds'
  BY <1>0, <1>2 DEF IInv, NoErrorYet, OwnerHolds
<1>7. Restored'
  BY <1>0, RestoredFrame DEF IInv
<1>8. CallsAgree'
  BY <1>0 DEF IInv, CallsAgree
<1> QED BY <1>3, <1>4, <1>5, <1>6, <1>7, <1>8 DEF IInv

\* Giving the owner its own priority back.
LEMMA RestoreKeeps ==
    ASSUME IInv, NEW t \in Threads, owner = t
    PROVE  /\ Restore(t) \in Scheduler /\ Coherent(Restore(t))
           /\ Restore(t).prio = InitPrio
           /\ \A x \in Threads : Restore(t).stat[x] = "suspend" <=> sch.stat[x] = "suspend"
<1>1. orig = InitPrio[t] /\ orig \in Prios
  BY Constants, PriosNat DEF IInv, Restored
<1>2. /\ ChangePrio(sch, t, orig) \in Scheduler /\ Coherent(ChangePrio(sch, t, orig))
      /\ ChangePrio(sch, t, orig).prio = [sch.prio EXCEPT ![t] = orig]
      /\ \A x \in Threads :
            ChangePrio(sch, t, orig).stat[x] = "suspend" <=> sch.stat[x] = "suspend"
  BY <1>1, SchNow, ChangePrioKeeps
<1>3. \A x \in Threads \ {t} : sch.prio[x] = InitPrio[x]
  BY DEF IInv, Restored
<1>4. [sch.prio EXCEPT ![t] = orig] = InitPrio
  BY <1>1, <1>3, SchNow, Constants
<1>5. CASE orig # sch.prio[t]
  BY <1>2, <1>4, <1>5 DEF Restore
<1>6. CASE orig = sch.prio[t]
  <2>1. sch.prio = InitPrio
    BY <1>4, <1>6, SchNow
  <2> QED BY <2>1, <1>6, SchNow DEF Restore
<1> QED BY <1>5, <1>6

LEMMA MutexFreeSafe == ASSUME IInv, NEW t \in Threads, MutexFree(t) PROVE IInv'
<1> USE DEF clkVars, timVars, semVars
<1>0. /\ Runs(t) /\ owner = t /\ hold = 1 /\ mutQ = <<>> /\ sch' = Restore(t)
      /\ mutVal' = mutVal + 1 /\ owner' = Nobody /\ hold' = 0 /\ orig' = 255
      /\ held' = [held EXCEPT ![t] = @ - 1]
      /\ UNCHANGED <<clkVars, timVars, error, pc, call, semVars, mutQ>>
  BY DEF MutexFree
<1>1. /\ mutVal \in 0..1 /\ held \in [Threads -> 0..MaxHold] /\ call[t] = "none"
      /\ held[t] = 1
  BY <1>0, MutexNow
<1>2. mutVal' = 1
  <2>1. mutVal # 1
    BY <1>0, Constants DEF IInv, MutexExclusive
  <2> QED BY <2>1, <1>0, <1>1, SMT
<1>3. /\ sch' \in Scheduler /\ Coherent(sch') /\ sch'.prio = InitPrio
      /\ \A x \in Threads : sch'.stat[x] = "suspend" <=> sch.stat[x] = "suspend"
  BY <1>0, RestoreKeeps
<1>4. \A x \in Threads : ~Granted(x)' /\ held'[x] = 0
  <2>1. \A x \in Threads : Granted(x) => x = t
    BY <1>0 DEF IInv, MutexExclusive
  <2>2. ~Granted(t)
    BY <1>1 DEF Granted
  <2>3. \A x \in Threads : Granted(x)' <=> Granted(x)
    BY <1>0 DEF Granted
  <2>4. held'[t] = 0 /\ \A x \in Threads \ {t} : held'[x] = held[x]
    BY <1>0, <1>1
  <2>5. \A x \in Threads \ {t} : held[x] = 0
    BY <1>0 DEF IInv, MutexExclusive
  <2> QED BY <2>1, <2>2, <2>3, <2>4, <2>5
<1>5. held' \in [Threads -> 0..MaxHold] /\ 0 \in 0..MaxHold
  <2>1. 0 \in 0..MaxHold /\ 1 - 1 = 0
    BY Constants, SMT
  <2> QED BY <2>1, <1>0, <1>1
<1>6. TypeOK'
  BY <1>0, <1>2, <1>3, <1>5 DEF IInv, TypeOK
<1>7. Placed'
  BY <1>0, <1>3, PlacedFrame DEF IInv
<1>8. MutexExclusive'
  <2>1. owner' \notin ToSet(mutQ')
    BY <1>0 DEF IInv, MutexExclusive, ToSet
  <2>2. \A x \in Threads : x # Nobody
    BY Constants
  <2> QED BY <2>1, <2>2, <1>0, <1>2, <1>4 DEF MutexExclusive
<1>9. NoErrorYet' /\ OwnerHolds'
  BY <1>0 DEF IInv, NoErrorYet, OwnerHolds
<1>10. Restored'
  BY <1>0, <1>3 DEF Restored
<1>11. CallsAgree'
  BY <1>0, <1>3 DEF IInv, CallsAgree
<1> QED BY <1>6, <1>7, <1>8, <1>9, <1>10, <1>11 DEF IInv

LEMMA MutexPassSafe == ASSUME IInv, NEW t \in Threads, MutexPass(t) PROVE IInv'
<1> USE DEF clkVars, semVars
<1>a. mutQ \in Seq(Threads) /\ Holds(mutQ, WaitsFor("mutex")) /\ mutQ # <<>>
  BY DEF IInv, Placed, TypeOK, MutexPass
<1>b. PICK h \in Threads : h = Head(mutQ)
  BY <1>a, TailHolds
<1>0. /\ Runs(t) /\ owner = t /\ hold = 1 /\ mutQ # <<>>
      /\ sch' = Insert(Restore(t), h) /\ owner' = h /\ orig' = sch.prio[h]
      /\ StopTimer(h) /\ mutQ' = Tail(mutQ)
      /\ held' = [held EXCEPT ![t] = @ - 1] /\ pc' = [pc EXCEPT ![t] = "sched"]
      /\ UNCHANGED <<clkVars, error, call, semVars, mutVal, hold>>
  BY <1>b DEF MutexPass
<1>1. /\ h \in WaitsFor("mutex") /\ h \in Threads /\ Tail(mutQ) \in Seq(Threads)
      /\ Holds(Tail(mutQ), WaitsFor("mutex") \ {h})
  BY <1>a, <1>b, TailHolds
<1>2. h \in Suspended /\ sch.stat[h] = "suspend" /\ call[h] = "mutex" /\ h \in ToSet(mutQ)
  BY <1>1 DEF WaitsFor, Suspended, IInv, Placed, Holds
<1>3. /\ held \in [Threads -> 0..MaxHold] /\ call[t] = "none" /\ held[t] = 1
      /\ t \notin ToSet(mutQ) /\ t # h /\ error[h] = "ok"
  BY <1>0, <1>2, MutexNow DEF IInv, NoErrorYet
<1>4. /\ Restore(t) \in Scheduler /\ Coherent(Restore(t))
      /\ Restore(t).prio = InitPrio
      /\ \A x \in Threads : Restore(t).stat[x] = "suspend" <=> sch.stat[x] = "suspend"
  BY <1>0, RestoreKeeps
<1>5. /\ sch' \in Scheduler /\ Coherent(sch') /\ sch'.prio = InitPrio
      /\ \A x \in Threads : sch'.stat[x] = "suspend" <=> sch.stat[x] = "suspend" /\ x # h
  BY <1>0, <1>1, <1>2, <1>4, Resumes
<1>6. /\ timers' \in Seq(Threads) /\ at' \in [Threads -> Ticks]
      /\ Holds(timers', ToSet(timers) \ {h})
  BY <1>0, <1>1, StopTimerKeeps
<1>7. held' \in [Threads -> 0..MaxHold] /\ held'[t] = 0 /\ 0 \in 0..MaxHold
  <2>1. 0 \in 0..MaxHold /\ 1 - 1 = 0
    BY Constants, SMT
  <2> QED BY <2>1, <1>0, <1>3
<1>8. orig' = InitPrio[h] /\ orig' \in Prios
  BY <1>0, <1>1, <1>3, PriosNat DEF IInv, Restored
<1>9. TypeOK'
  BY <1>0, <1>1, <1>5, <1>6, <1>7, <1>8 DEF IInv, TypeOK
<1>10. Placed'
  <2>1. Holds(mutQ', ToSet(mutQ) \ {h})
    BY <1>0, <1>1 DEF IInv, Placed, Holds
  <2>2. Holds(semQ', ToSet(semQ) \ {h})
    <3>1. h \notin WaitsFor("sem")
      BY <1>2 DEF WaitsFor
    <3> QED BY <3>1, <1>0 DEF IInv, Placed, Holds
  <2> QED BY <2>1, <2>2, <1>0, <1>2, <1>5, <1>6, WakePlaced
<1>11. ToSet(mutQ') = ToSet(mutQ) \ {h}
  BY <1>0, <1>1 DEF IInv, Placed, Holds
<1>12. MutexExclusive'
  <2>1. owner' # Nobody /\ mutVal' # 1 /\ owner' \notin ToSet(mutQ')
    BY <1>0, <1>1, <1>11, Constants DEF IInv, MutexExclusive
  <2>2. \A x \in Threads : Granted(x) => x = t
    BY <1>0 DEF IInv, MutexExclusive
  <2>3. ~Granted(t)
    BY <1>3 DEF Granted
  <2>4. Granted(h)'
    BY <1>0, <1>2, <1>3, <1>11 DEF Granted
  <2>5. \A x \in Threads \ {h} : Granted(x)' <=> Granted(x)
    BY <1>0, <1>11 DEF Granted
  <2>6. \A x \in Threads \ {t} : held[x] = 0 /\ held'[x] = held[x]
    BY <1>0, <1>3 DEF IInv, MutexExclusive
  <2>7. hold' - 1 = 0
    BY <1>0, SMT
  <2> QED BY <2>1, <2>2, <2>3, <2>4, <2>5, <2>6, <2>7, <1>0, <1>7 DEF MutexExclusive
<1>13. NoErrorYet' /\ OwnerHolds'
  BY <1>0, <1>11 DEF IInv, NoErrorYet, OwnerHolds
<1>14. Restored'
  BY <1>0, <1>5, <1>8 DEF Restored
<1>15. CallsAgree'
  BY <1>0, <1>5 DEF IInv, CallsAgree, TypeOK
<1> QED BY <1>9, <1>10, <1>12, <1>13, <1>14, <1>15 DEF IInv

\* The owner of the mutex, which is not the thread that waits, may change its priority.
LEMMA InheritKeeps ==
    ASSUME IInv, NEW t \in Threads, owner \in Threads \ {t}, sch.stat[t] = "running"
    PROVE  /\ Inherit(t) \in Scheduler /\ Coherent(Inherit(t))
           /\ \A x \in Threads : Inherit(t).stat[x] = "suspend" <=> sch.stat[x] = "suspend"
           /\ Inherit(t).stat[t] = "running"
           /\ \A x \in Threads \ {owner} : Inherit(t).prio[x] = sch.prio[x]
<1>1. owner \in Threads /\ owner # t /\ sch.prio[t] \in Prios
  BY SchNow
<1>2. /\ ChangePrio(sch, owner, sch.prio[t]) \in Scheduler
      /\ Coherent(ChangePrio(sch, owner, sch.prio[t]))
      /\ ChangePrio(sch, owner, sch.prio[t]).prio = [sch.prio EXCEPT ![owner] = sch.prio[t]]
      /\ \A x \in Threads \ {owner} :
            ChangePrio(sch, owner, sch.prio[t]).stat[x] = sch.stat[x]
      /\ \A x \in Threads :
            ChangePrio(sch, owner, sch.prio[t]).stat[x] = "suspend" <=> sch.stat[x] = "suspend"
  BY <1>1, SchNow, ChangePrioKeeps
<1>3. CASE sch.prio[t] < sch.prio[owner]
  <2>1. Inherit(t) = ChangePrio(sch, owner, sch.prio[t])
    BY <1>3 DEF Inherit
  <2> QED BY <2>1, <1>1, <1>2, SchNow
<1>4. CASE ~(sch.prio[t] < sch.prio[owner])
  BY <1>4, SchNow DEF Inherit
<1> QED BY <1>3, <1>4

LEMMA MutexWaitSafe ==
    ASSUME IInv, NEW t \in Threads, NEW d \in Nat, MutexWait(t, d)
    PROVE  IInv'
<1> USE DEF clkVars, semVars
<1>1. /\ Runs(t) /\ owner # t /\ mutVal = 0
      /\ sch' = Suspend(Inherit(t), t) /\ mutQ' = Enqueue(mutQ, t, MutexFlag)
      /\ Block(t, "mutex", d) /\ error' = [error EXCEPT ![t] = "ok"]
      /\ UNCHANGED <<clkVars, semVars, mutVal, owner, hold, orig, held>>
  BY DEF MutexWait
<1>2. /\ sch.stat[t] = "running" /\ call[t] = "none" /\ t \notin ToSet(mutQ)
  BY <1>1, RunsNow
<1>3. owner \in Threads \ {t}
  BY <1>1 DEF IInv, TypeOK, MutexExclusive
<1> DEFINE k == Inherit(t)
<1>4. /\ k \in Scheduler /\ Coherent(k) /\ k.stat[t] = "running"
      /\ \A x \in Threads : k.stat[x] = "suspend" <=> sch.stat[x] = "suspend"
      /\ \A x \in Threads \ {owner} : k.prio[x] = sch.prio[x]
  BY <1>2, <1>3, InheritKeeps
<1>5. k.stat \in [Threads -> {"running", "ready", "suspend"}]
  BY <1>4, Fields
<1>6. sch' = Suspend(k, t)
  BY <1>1
<1> HIDE DEF k
<1>7. /\ sch' \in Scheduler /\ Coherent(sch') /\ sch'.prio = k.prio
      /\ sch'.stat = [k.stat EXCEPT ![t] = "suspend"]
  BY <1>4, <1>6, SuspendKeeps
<1>8. \A x \in Threads : sch'.stat[x] = "suspend" <=> sch.stat[x] = "suspend" \/ x = t
  BY <1>4, <1>5, <1>7
<1>9. mutQ' \in Seq(Threads) /\ Holds(mutQ', ToSet(mutQ) \cup {t})
  BY <1>1, <1>2, EnqueueHolds DEF IInv, TypeOK, Placed, Holds
<1>10. Holds(semQ', ToSet(semQ))
  BY <1>1 DEF IInv, Placed, Holds
<1>11. /\ Placed'
       /\ timers' \in Seq(Threads) /\ at' \in [Threads -> Ticks]
       /\ pc' = [pc EXCEPT ![t] = "sched"] /\ call' = [call EXCEPT ![t] = "mutex"]
  BY <1>1, <1>2, <1>7, <1>8, <1>9, <1>10, BlockPlaced
<1>12. TypeOK'
  BY <1>1, <1>7, <1>9, <1>11 DEF IInv, TypeOK
<1>13. ToSet(mutQ') = ToSet(mutQ) \cup {t}
  BY <1>9 DEF Holds
<1>14. \A x \in Threads : Granted(x)' <=> Granted(x)
  <2>1. ~Granted(t) /\ t \in ToSet(mutQ')
    BY <1>2, <1>13 DEF Granted
  <2>2. ASSUME NEW x \in Threads, x # t PROVE Granted(x)' <=> Granted(x)
    <3>1. call'[x] = call[x] /\ error'[x] = error[x] /\ (x \in ToSet(mutQ') <=> x \in ToSet(mutQ))
      BY <2>2, <1>1, <1>11, <1>13 DEF IInv, TypeOK
    <3> QED BY <3>1 DEF Granted
  <2> QED BY <2>1, <2>2 DEF Granted
<1>15. MutexExclusive'
  BY <1>1, <1>13, <1>14 DEF IInv, MutexExclusive
<1>16. NoErrorYet' /\ OwnerHolds'
  BY <1>1, <1>13, MutexWaiters DEF IInv, NoErrorYet, OwnerHolds, TypeOK
<1>17. Restored'
  BY <1>1, <1>4, <1>7 DEF IInv, Restored
<1>18. CallsAgree'
  BY <1>8, <1>11 DEF IInv, CallsAgree, TypeOK
<1> QED BY <1>11, <1>12, <1>15, <1>16, <1>17, <1>18 DEF IInv

-----------------------------------------------------------------------------
(* Sleeping, switching and returning                                       *)

LEMMA SleepSafe ==
    ASSUME IInv, NEW t \in Threads, NEW d \in Nat, d # 0, Sleep(t, d)
    PROVE  IInv'
<1> USE DEF clkVars, semVars, mutVars
<1>1. /\ Runs(t) /\ sch' = Suspend(sch, t) /\ Block(t, "sleep", d)
      /\ UNCHANGED <<clkVars, error, semVars, mutVars>>
  BY DEF Sleep
<1>2. sch.stat[t] = "running" /\ call[t] = "none"
  BY <1>1, RunsNow
<1>3. /\ sch' \in Scheduler /\ Coherent(sch') /\ sch'.prio = sch.prio
      /\ sch'.stat = [sch.stat EXCEPT ![t] = "suspend"]
  BY <1>1, <1>2, SchNow, SuspendKeeps
<1>4. \A x \in Threads : sch'.stat[x] = "suspend" <=> sch.stat[x] = "suspend" \/ x = t
  BY <1>3, SchNow
<1>5. Holds(semQ', ToSet(semQ)) /\ Holds(mutQ', ToSet(mutQ))
  BY <1>1 DEF IInv, Placed, Holds
<1>6. /\ Placed'
      /\ timers' \in Seq(Threads) /\ at' \in [Threads -> Ticks]
      /\ pc' = [pc EXCEPT ![t] = "sched"] /\ call' = [call EXCEPT ![t] = "sleep"]
  BY <1>1, <1>2, <1>3, <1>4, <1>5, BlockPlaced
<1>7. TypeOK'
  BY <1>1, <1>3, <1>6 DEF IInv, TypeOK
<1>8. MutexExclusive' /\ NoErrorYet' /\ OwnerHolds'
  <2>1. \A x \in Threads : call'[x] = "mutex" <=> call[x] = "mutex"
    BY <1>2, <1>6 DEF IInv, TypeOK
  <2> QED BY <2>1, <1>1, MutexFrame, MutexWaiters DEF IInv
<1>9. Restored'
  BY <1>1, <1>3, RestoredFrame DEF IInv
<1>10. CallsAgree'
  BY <1>3, <1>6 DEF IInv, CallsAgree, TypeOK
<1> QED BY <1>6, <1>7, <1>8, <1>9, <1>10 DEF IInv

LEMMA CallScheduleSafe == ASSUME IInv, NEW t \in Threads, CallSchedule(t) PROVE IInv'
<1> USE DEF clkVars, timVars, semVars, mutVars
<1>1. /\ sch' = Schedule(sch)
      /\ pc' = [pc EXCEPT ![t] = IF call[t] = "none" THEN "run" ELSE "sched"]
      /\ UNCHANGED <<clkVars, timVars, error, call, semVars, mutVars>>
  BY DEF CallSchedule
<1>2. /\ sch' \in Scheduler /\ Coherent(sch') /\ sch'.prio = sch.prio
      /\ \A x \in Threads : sch'.stat[x] = "suspend" <=> sch.stat[x] = "suspend"
  BY <1>1, SchNow, ScheduleKeeps
<1>3. TypeOK'
  BY <1>1, <1>2 DEF IInv, TypeOK
<1>4. Placed'
  BY <1>1, <1>2, PlacedFrame DEF IInv
<1>5. MutexExclusive' /\ NoErrorYet' /\ OwnerHolds'
  BY <1>1, MutexFrame, MutexWaiters DEF IInv
<1>6. Restored'
  BY <1>1, <1>2, RestoredFrame DEF IInv
<1>7. CallsAgree'
  BY <1>1, <1>2 DEF IInv, CallsAgree, TypeOK
<1> QED BY <1>3, <1>4, <1>5, <1>6, <1>7 DEF IInv

LEMMA ReturnSafe == ASSUME IInv, NEW t \in Threads, Return(t) PROVE IInv'
<1> USE DEF clkVars, timVars, semVars
<1>1. /\ sch.stat[t] = "running" /\ sch' \in {sch, Schedule(sch)}
      /\ pc' = [pc EXCEPT ![t] = "run"] /\ call' = [call EXCEPT ![t] = "none"]
      /\ error' = IF call[t] = "sleep" /\ error[t] = "timeout"
                  THEN [error EXCEPT ![t] = "ok"] ELSE error
      /\ held' = IF call[t] = "mutex" /\ error[t] = "ok"
                 THEN [held EXCEPT ![t] = @ + 1] ELSE held
      /\ UNCHANGED <<clkVars, timVars, semVars, mutVal, owner, hold, orig, mutQ>>
  BY DEF Return
<1>2. /\ sch' \in Scheduler /\ Coherent(sch') /\ sch'.prio = sch.prio
      /\ \A x \in Threads : sch'.stat[x] = "suspend" <=> sch.stat[x] = "suspend"
  BY <1>1, SchNow, ScheduleKeeps
<1>3. /\ t \notin Suspended /\ t \notin ToSet(mutQ)
      /\ call \in [Threads -> {"none", "sem", "mutex", "sleep"}]
      /\ error \in [Threads -> {"ok", "timeout"}]
      /\ hold \in 0..MaxHold /\ held \in [Threads -> 0..MaxHold]
  BY <1>1, MutexWaiters DEF IInv, TypeOK, Suspended
<1>4. Granted(t) <=> call[t] = "mutex" /\ error[t] = "ok"
  BY <1>3 DEF Granted
<1>5. Granted(t) => owner = t /\ held[t] = hold - 1 /\ held[t] + 1 = hold
  <2>1. Granted(t) => owner = t /\ held[t] = hold - 1
    BY DEF IInv, MutexExclusive
  <2> QED BY <2>1, <1>3, Constants, SMT
<1>6. /\ held' \in [Threads -> 0..MaxHold]
      /\ held'[t] = IF Granted(t) THEN hold ELSE held[t]
      /\ \A x \in Threads \ {t} : held'[x] = held[x]
  BY <1>1, <1>3, <1>4, <1>5
<1>7. error' \in [Threads -> {"ok", "timeout"}] /\ \A x \in Threads \ {t} : error'[x] = error[x]
  BY <1>1, <1>3
<1>8. TypeOK'
  BY <1>1, <1>2, <1>6, <1>7 DEF IInv, TypeOK
<1>9. Placed'
  <2>1. \A x \in Suspended : call'[x] = call[x]
    BY <1>1, <1>3
  <2> QED BY <2>1, <1>1, <1>2, PlacedFrame DEF IInv
<1>10. MutexExclusive'
  <2>1. ~Granted(t)'
    BY <1>1, <1>3 DEF Granted
  <2>2. \A x \in Threads \ {t} : Granted(x)' <=> Granted(x)
    BY <1>1, <1>3, <1>7 DEF Granted
  <2>3. held'[t] = IF t # owner' THEN 0 ELSE hold'
    BY <1>1, <1>5, <1>6 DEF IInv, MutexExclusive
  <2> QED BY <2>1, <2>2, <2>3, <1>1, <1>6 DEF IInv, MutexExclusive
<1>11. NoErrorYet' /\ OwnerHolds'
  BY <1>1, <1>3, <1>7, MutexWaiters DEF IInv, NoErrorYet, OwnerHolds
<1>12. Restored'
  BY <1>1, <1>2, RestoredFrame DEF IInv
<1>13. CallsAgree'
  BY <1>1, <1>2 DEF IInv, CallsAgree, TypeOK
<1> QED BY <1>8, <1>9, <1>10, <1>11, <1>12, <1>13 DEF IInv

-----------------------------------------------------------------------------
(* The clock                                                               *)

LEMMA TickSafe == ASSUME IInv, NEW over \in BOOLEAN, Tick(over) PROVE IInv'
<1> USE DEF timVars, semVars, mutVars
<1>1. /\ isr' = "timer" /\ tick' = (tick + 1) % (TickMax + 1)
      /\ UNCHANGED <<timVars, error, pc, call, semVars, mutVars>>
  BY DEF Tick
<1>2. tick' \in Ticks
  BY <1>1, Constants, SMT DEF IInv, TypeOK, Ticks
<1> DEFINE k == [sch EXCEPT !.yield = @ \cup {sch.current}]
<1>3. sch' = IF over THEN Schedule(k) ELSE sch
  BY DEF Tick
<1>4. /\ k \in Scheduler /\ k.prio = sch.prio /\ k.stat = sch.stat /\ k.ready = sch.ready
      /\ k.current = sch.current
  BY SchNow DEF Scheduler
<1> HIDE DEF k
<1>5. Coherent(k)
  BY <1>4, SchNow DEF Coherent
<1>6. /\ sch' \in Scheduler /\ Coherent(sch') /\ sch'.prio = sch.prio
      /\ \A x \in Threads : sch'.stat[x] = "suspend" <=> sch.stat[x] = "suspend"
  BY <1>3, <1>4, <1>5, SchNow, ScheduleKeeps
<1>7. TypeOK'
  BY <1>1, <1>2, <1>6 DEF IInv, TypeOK
<1>8. Placed'
  BY <1>1, <1>6, PlacedFrame DEF IInv
<1>9. MutexExclusive' /\ NoErrorYet' /\ OwnerHolds'
  BY <1>1, MutexFrame, MutexWaiters DEF IInv
<1>10. Restored'
  BY <1>1, <1>6, RestoredFrame DEF IInv
<1>11. CallsAgree'
  BY <1>1, <1>6 DEF IInv, CallsAgree, TypeOK
<1> QED BY <1>7, <1>8, <1>9, <1>10, <1>11 DEF IInv

LEMMA TimerFiresSafe == ASSUME IInv, TimerFires PROVE IInv'
<1>1. /\ timers \in Seq(Threads) /\ timers # <<>> /\ Holds(timers, ToSet(timers))
      /\ ToSet(timers) \subseteq Suspended
  BY DEF IInv, TypeOK, Placed, Timed, TimerFires, Due
<1>2. PICK t \in Threads : t = Head(timers) /\ t \in ToSet(timers)
  BY <1>1, TailHolds
<1>3. /\ isr' = "check" /\ StopTimer(t) /\ error' = [error EXCEPT ![t] = "timeout"]
      /\ semQ' = Without(semQ, t) /\ mutQ' = Without(mutQ, t)
      /\ sch' = Schedule(Insert(sch, t))
      /\ UNCHANGED <<tick, pc, call, semVal, mutVal, owner, hold, orig, held>>
  BY <1>2 DEF TimerFires
<1>4. t \in Suspended /\ sch.stat[t] = "suspend"
  BY <1>1, <1>2 DEF Suspended
<1>5. /\ sch' \in Scheduler /\ Coherent(sch') /\ sch'.prio = sch.prio
      /\ \A x \in Threads : sch'.stat[x] = "suspend" <=> sch.stat[x] = "suspend" /\ x # t
  BY <1>3, <1>4, SchNow, Resumes
<1>6. /\ timers' \in Seq(Threads) /\ at' \in [Threads -> Ticks]
      /\ Holds(timers', ToSet(timers) \ {t})
  BY <1>3, StopTimerKeeps
<1>7. semQ' \in Seq(Threads) /\ Holds(semQ', ToSet(semQ) \ {t})
  BY <1>3, WithoutHolds DEF IInv, TypeOK, Placed, Holds
<1>8. mutQ' \in Seq(Threads) /\ Holds(mutQ', ToSet(mutQ) \ {t})
  BY <1>3, WithoutHolds DEF IInv, TypeOK, Placed, Holds
<1>9. TypeOK'
  BY <1>3, <1>5, <1>6, <1>7, <1>8 DEF IInv, TypeOK
<1>10. Placed'
  BY <1>3, <1>4, <1>5, <1>6, <1>7, <1>8, WakePlaced
<1>11. ToSet(mutQ') = ToSet(mutQ) \ {t}
  BY <1>8 DEF Holds
<1>12. \A x \in Threads : Granted(x)' <=> Granted(x)
  <2>1. ~Granted(t)' /\ ~Granted(t)
    <3>1. error'[t] = "timeout"
      BY <1>3 DEF IInv, TypeOK
    <3>2. call[t] = "mutex" => t \in ToSet(mutQ)
      BY <1>4 DEF IInv, Placed, Holds, WaitsFor
    <3> QED BY <3>1, <3>2 DEF Granted
  <2>2. ASSUME NEW x \in Threads, x # t PROVE Granted(x)' <=> Granted(x)
    <3>1. call'[x] = call[x] /\ error'[x] = error[x] /\ (x \in ToSet(mutQ') <=> x \in ToSet(mutQ))
      BY <2>2, <1>3, <1>11 DEF IInv, TypeOK
    <3> QED BY <3>1 DEF Granted
  <2> QED BY <2>1, <2>2
<1>13. MutexExclusive'
  <2>1. mutQ = <<>> => mutQ' = <<>>
    BY <1>3 DEF Without, ToSet
  <2> QED BY <2>1, <1>3, <1>11, <1>12 DEF IInv, MutexExclusive
<1>14. NoErrorYet' /\ OwnerHolds'
  BY <1>3, <1>11, MutexWaiters DEF IInv, NoErrorYet, OwnerHolds, TypeOK
<1>15. Restored'
  BY <1>3, <1>5, RestoredFrame DEF IInv
<1>16. CallsAgree'
  BY <1>3, <1>5 DEF IInv, CallsAgree, TypeOK
<1> QED BY <1>9, <1>10, <1>13, <1>14, <1>15, <1>16 DEF IInv

LEMMA TimerCheckEndsSafe == ASSUME IInv, TimerCheckEnds PROVE IInv'
<1> USE DEF TimerCheckEnds, timVars, semVars, mutVars
<1>1. TypeOK'
  BY DEF IInv, TypeOK
<1>2. Placed'
  BY PlacedFrame DEF IInv, Placed
<1>3. MutexExclusive' /\ NoErrorYet' /\ OwnerHolds'
  BY MutexFrame, MutexWaiters DEF IInv
<1>4. Restored'
  BY RestoredFrame DEF IInv
<1>5. CallsAgree'
  BY DEF IInv, CallsAgree
<1> QED BY <1>1, <1>2, <1>3, <1>4, <1>5 DEF IInv

-----------------------------------------------------------------------------
(* The specification                                                       *)

LEMMA StutterSafe == ASSUME IInv, UNCHANGED vars PROVE IInv'
<1> USE DEF vars, clkVars, timVars, semVars, mutVars
<1>1. TypeOK'
  BY DEF IInv, TypeOK
<1>2. Placed'
  BY PlacedFrame DEF IInv, Placed
<1>3. MutexExclusive' /\ NoErrorYet' /\ OwnerHolds'
  BY MutexFrame, MutexWaiters DEF IInv
<1>4. Restored'
  BY RestoredFrame DEF IInv
<1>5. CallsAgree'
  BY DEF IInv, CallsAgree
<1> QED BY <1>1, <1>2, <1>3, <1>4, <1>5 DEF IInv

LEMMA ReleaseSafe ==
    ASSUME IInv, (\E t \in Threads : SemRelease(t)) \/ IsrRelease
    PROVE  IInv'
<1>1. CASE Keep
  BY <1>1, KeepSafe
<1>2. ASSUME NEW t \in Threads, Runs(t), Give(Insert(sch, Head(semQ))),
             pc' = [pc EXCEPT ![t] = "sched"]
      PROVE  IInv'
  BY <1>2, GiveSafe
<1>3. ASSUME Give(Schedule(Insert(sch, Head(semQ)))), pc' = pc PROVE IInv'
  <2>1. PICK n \in {Insert(sch, Head(semQ)), Schedule(Insert(sch, Head(semQ)))} :
          n = Schedule(Insert(sch, Head(semQ)))
    OBVIOUS
  <2> QED BY <2>1, <1>3, GiveSafe
<1> QED BY <1>1, <1>2, <1>3 DEF SemRelease, IsrRelease

LEMMA NextSafe == IInv /\ [Next]_vars => IInv'
<1> SUFFICES ASSUME IInv, [Next]_vars PROVE IInv'
  OBVIOUS
<1>1. CASE UNCHANGED vars
  BY <1>1, StutterSafe
<1>2. CASE Clock
  BY <1>2, TimerFiresSafe, TimerCheckEndsSafe, TickSafe DEF Clock
<1>3. CASE IsrRelease
  BY <1>3, ReleaseSafe
<1>4. ASSUME NEW t \in Threads, Semaphore(t) PROVE IInv'
  <2>1. ASSUME NEW d \in SemTimes, SemWait(t, d) PROVE IInv'
    BY <2>1, Constants, SemWaitSafe
  <2> QED BY <1>4, <2>1, SemTakeSafe, ReleaseSafe DEF Semaphore
<1>5. ASSUME NEW t \in Threads, Mutex(t) PROVE IInv'
  <2>1. ASSUME NEW d \in MutexTimes, MutexWait(t, d) PROVE IInv'
    BY <2>1, Constants, MutexWaitSafe
  <2> QED BY <1>5, <2>1, MutexAgainSafe, MutexTakeSafe, MutexTrySafe, MutexKeepSafe,
             MutexFreeSafe, MutexPassSafe DEF Mutex
<1>6. ASSUME NEW t \in Threads, NEW d \in SleepTimes, Sleep(t, d) PROVE IInv'
  <2>1. d \in Nat /\ d # 0
    BY Constants, KernelAssumption DEF KernelAssumption
  <2> QED BY <2>1, <1>6, SleepSafe
<1>7. CASE Thread
  BY <1>7, <1>4, <1>5, <1>6, CallScheduleSafe, ReturnSafe, Constants DEF Thread
<1> QED BY <1>1, <1>2, <1>3, <1>7 DEF Next

LEMMA Invariance == Spec => []IInv
BY InitSafe, NextSafe, PTL DEF Spec

\* Types are kept: the priority a release restores was a thread's, the count of
\* the mutex and the answers stay within their bounds.
THEOREM Typing == Spec => []TypeOK
<1>1. IInv => TypeOK
  BY DEF IInv
<1> QED BY <1>1, Invariance, PTL

\* rt_schedule, the queues of the semaphore and the mutex and the timers never
\* lose a thread nor have it twice, however timeouts, releases and changes of
\* priority interleave.
THEOREM OnePlace == Spec => []Placed
<1>1. IInv => Placed
  BY DEF IInv
<1> QED BY <1>1, Invariance, PTL

\* rt_mutex_take never tells two threads that they have the mutex, and never
\* tells its owner that it timed out.
THEOREM Exclusion == Spec => []MutexExclusive
<1>1. IInv => MutexExclusive
  BY DEF IInv
<1> QED BY <1>1, Invariance, PTL

\* Only the owner of the mutex may have another priority than its own.
THEOREM PriorityRestored == Spec => []Restored
<1>1. IInv => Restored
  BY DEF IInv
<1> QED BY <1>1, Invariance, PTL

-----------------------------------------------------------------------------
(* Priority inheritance, with the queue of the mutex in order of priority  *)

Ordered(q, prio) == \A i, j \in DOMAIN q : i < j => prio[q[i]] <= prio[q[j]]

LEMMA WithoutOrdered ==
    ASSUME NEW q \in Seq(Threads), NEW t, NEW prio, Ordered(q, prio)
    PROVE  Ordered(Without(q, t), prio)
<1>1. CASE t \notin ToSet(q)
  BY <1>1 DEF Without
<1>2. CASE t \in ToSet(q)
  <2> DEFINE i == CHOOSE i \in DOMAIN q : q[i] = t
             r == RemoveAt(q, i)
             n == Len(q)
  <2>1. n \in Nat /\ DOMAIN q = 1..n
    BY LenProperties
  <2>2. i \in 1..n
    BY <1>2, <2>1 DEF ToSet
  <2>3. Without(q, t) = r
    BY <1>2 DEF Without
  <2>4. /\ r \in Seq(Threads) /\ Len(r) = n - 1
        /\ \A j \in 1..n - 1 : r[j] = IF j < i THEN q[j] ELSE q[j + 1]
    BY <2>2, RemoveAtFacts
  <2>5. DOMAIN r = 1..n - 1
    BY <2>4, LenProperties
  <2> HIDE DEF i, r, n
  <2>6. ASSUME NEW j \in 1..n - 1, NEW k \in 1..n - 1, j < k
        PROVE  prio[r[j]] <= prio[r[k]]
    <3>1. PICK a \in 1..n, b \in 1..n : a < b /\ r[j] = q[a] /\ r[k] = q[b]
      <4>1. CASE k < i
        <5>1. j \in 1..n /\ k \in 1..n /\ r[j] = q[j] /\ r[k] = q[k]
          BY <2>1, <2>2, <2>4, <2>6, <4>1, SMT
        <5> QED BY <5>1, <2>6
      <4>2. CASE ~(k < i) /\ j < i
        <5>1. j \in 1..n /\ k + 1 \in 1..n /\ r[j] = q[j] /\ r[k] = q[k + 1] /\ j < k + 1
          BY <2>1, <2>2, <2>4, <2>6, <4>2, SMT
        <5> QED BY <5>1
      <4>3. CASE ~(j < i)
        <5>1. /\ j + 1 \in 1..n /\ k + 1 \in 1..n /\ r[j] = q[j + 1] /\ r[k] = q[k + 1]
              /\ j + 1 < k + 1
          BY <2>1, <2>2, <2>4, <2>6, <4>3, SMT
        <5> QED BY <5>1
      <4> QED BY <4>1, <4>2, <4>3
    <3> QED BY <3>1, <2>1 DEF Ordered
  <2> QED BY <2>3, <2>5, <2>6 DEF Ordered
<1> QED BY <1>1, <1>2

LEMMA TailOrdered ==
    ASSUME NEW q \in Seq(Threads), q # <<>>, NEW prio, Ordered(q, prio)
    PROVE  /\ Ordered(Tail(q), prio)
           /\ \A t \in ToSet(Tail(q)) : prio[Head(q)] <= prio[t]
<1>1. /\ Len(q) \in Nat \ {0} /\ Head(q) = q[1]
      /\ DOMAIN q = 1..Len(q) /\ DOMAIN Tail(q) = 1..Len(q) - 1
      /\ \A i \in 1..Len(q) - 1 : Tail(q)[i] = q[i + 1]
  BY HeadTailProperties, LenProperties, EmptySeq, SMT
<1>2. ASSUME NEW i \in 1..Len(q) - 1, NEW j \in 1..Len(q) - 1, i < j
      PROVE  prio[Tail(q)[i]] <= prio[Tail(q)[j]]
  <2>1. i + 1 \in DOMAIN q /\ j + 1 \in DOMAIN q /\ i + 1 < j + 1
    BY <1>1, <1>2, SMT
  <2>2. prio[q[i + 1]] <= prio[q[j + 1]]
    BY <2>1 DEF Ordered
  <2> QED BY <2>2, <1>1
<1>3. ASSUME NEW i \in 1..Len(q) - 1 PROVE prio[Head(q)] <= prio[Tail(q)[i]]
  <2>1. 1 \in DOMAIN q /\ i + 1 \in DOMAIN q /\ 1 < i + 1
    BY <1>1, SMT
  <2>2. prio[q[1]] <= prio[q[i + 1]]
    BY <2>1 DEF Ordered
  <2> QED BY <2>2, <1>1
<1> QED BY <1>1, <1>2, <1>3 DEF Ordered, ToSet

\* Inserted before the first entry of a greater number.
LEMMA BeforeOrdered ==
    ASSUME NEW q \in Seq(Threads), NEW t \in Threads, NEW prio \in [Threads -> Nat],
           Ordered(q, prio), NEW places, places \subseteq DOMAIN q,
           \A i \in DOMAIN q : i \in places <=> prio[t] < prio[q[i]]
    PROVE  Ordered(Before(q, places, t), prio)
<1> DEFINE n == Len(q)
           r == Before(q, places, t)
           P(x) == prio[x]
<1>1. n \in Nat /\ DOMAIN q = 1..n /\ \A i \in 1..n : q[i] \in Threads
  BY LenProperties, ElementOfSeq
<1>2. \A x \in Threads : P(x) \in Nat
  OBVIOUS
<1>3. r = Before(q, places, t)
  OBVIOUS
<1>4. \A i \in 1..n : i \in places <=> P(t) < P(q[i])
  BY <1>1
<1>5. places \subseteq 1..n
  BY <1>1
<1>6. \A i, j \in 1..n : i < j => P(q[i]) <= P(q[j])
  BY <1>1 DEF Ordered
<1> HIDE DEF n, r, P
<1>7. CASE places = {}
  <2>1. r = Append(q, t)
    BY <1>3, <1>7 DEF Before
  <2>2. /\ r \in Seq(Threads) /\ Len(r) = n + 1 /\ r[n + 1] = t
        /\ \A i \in 1..n : r[i] = q[i]
    BY <2>1, AppendProperties DEF n
  <2>3. DOMAIN r = 1..n + 1
    BY <2>2, LenProperties
  <2>4. ASSUME NEW i \in 1..n + 1, NEW j \in 1..n + 1, i < j PROVE P(r[i]) <= P(r[j])
    <3>1. i \in 1..n /\ r[i] = q[i] /\ q[i] \in Threads
      BY <1>1, <2>2, <2>4, SMT
    <3>2. CASE j = n + 1
      <4>1. ~(P(t) < P(q[i])) /\ P(t) \in Nat /\ P(q[i]) \in Nat
        BY <3>1, <1>2, <1>4, <1>7
      <4>2. P(q[i]) <= P(t)
        BY <4>1, SMT
      <4> QED BY <4>2, <3>1, <3>2, <2>2
    <3>3. CASE j # n + 1
      <4>1. j \in 1..n /\ r[j] = q[j]
        BY <3>3, <1>1, <2>2, SMT
      <4> QED BY <4>1, <3>1, <1>6, <2>4
    <3> QED BY <3>2, <3>3
  <2> QED BY <2>3, <2>4 DEF Ordered, r, P
<1>8. CASE places # {}
  <2> DEFINE i == CHOOSE i \in places : \A j \in places : i <= j
  <2>1. places \subseteq Nat
    BY <1>1, <1>5, SMT
  <2>2. i \in places /\ \A j \in places : i <= j
    BY <2>1, <1>8, Least
  <2>3. r = InsertAt(q, i, t)
    BY <1>3, <1>8 DEF Before
  <2> HIDE DEF i
  <2>4. i \in 1..n /\ P(t) < P(q[i])
    <3>1. i \in 1..n
      BY <2>2, <1>5
    <3> QED BY <3>1, <2>2, <1>4
  <2>5. /\ r \in Seq(Threads) /\ Len(r) = n + 1
        /\ \A j \in 1..n + 1 : r[j] = IF j < i THEN q[j] ELSE IF j = i THEN t ELSE q[j - 1]
    <3>1. i \in 1..Len(q)
      BY <2>4 DEF n
    <3>2. /\ InsertAt(q, i, t) \in Seq(Threads) /\ Len(InsertAt(q, i, t)) = Len(q) + 1
          /\ \A j \in 1..Len(q) + 1 :
                InsertAt(q, i, t)[j] = IF j < i THEN q[j] ELSE IF j = i THEN t ELSE q[j - 1]
      BY <3>1, InsertAtFacts
    <3> QED BY <3>2, <2>3 DEF n
  <2>6. DOMAIN r = 1..n + 1
    BY <2>5, LenProperties
  <2>7. \A j \in 1..n : j < i => P(q[j]) <= P(t)
    <3> SUFFICES ASSUME NEW j \in 1..n, j < i PROVE P(q[j]) <= P(t)
      OBVIOUS
    <3>1. j \notin places
      BY <2>2, <2>4, <1>1, SMT
    <3>2. ~(P(t) < P(q[j])) /\ P(t) \in Nat /\ P(q[j]) \in Nat
      BY <3>1, <1>1, <1>2, <1>4
    <3> QED BY <3>2, SMT
  <2>8. \A j \in 1..n : ~(j < i) => P(t) <= P(q[j])
    <3> SUFFICES ASSUME NEW j \in 1..n, ~(j < i) PROVE P(t) <= P(q[j])
      OBVIOUS
    <3>1. i < j => P(q[i]) <= P(q[j])
      BY <2>4, <1>6
    <3>2. P(t) \in Nat /\ P(q[j]) \in Nat /\ P(q[i]) \in Nat
      BY <2>4, <1>1, <1>2
    <3>3. i = j \/ i < j
      BY <2>4, <1>1, SMT
    <3> QED BY <3>1, <3>2, <3>3, <2>4, SMT
  <2>9. ASSUME NEW j \in 1..n + 1, NEW k \in 1..n + 1, j < k PROVE P(r[j]) <= P(r[k])
    <3>1. CASE k < i
      <4>1. j \in 1..n /\ k \in 1..n /\ r[j] = q[j] /\ r[k] = q[k]
        BY <3>1, <2>4, <2>5, <2>9, <1>1, SMT
      <4> QED BY <4>1, <1>6, <2>9
    <3>2. CASE k = i
      <4>1. j \in 1..n /\ j < i /\ r[j] = q[j] /\ r[k] = t
        BY <3>2, <2>4, <2>5, <2>9, <1>1, SMT
      <4> QED BY <4>1, <2>7
    <3>3. CASE j < i /\ i < k
      <4>1. /\ j \in 1..n /\ k - 1 \in 1..n /\ r[j] = q[j] /\ r[k] = q[k - 1]
            /\ j < k - 1
        BY <3>3, <2>4, <2>5, <1>1, SMT
      <4> QED BY <4>1, <1>6
    <3>4. CASE j = i
      <4>1. k - 1 \in 1..n /\ ~(k - 1 < i) /\ r[j] = t /\ r[k] = q[k - 1]
        BY <3>4, <2>4, <2>5, <2>9, <1>1, SMT
      <4> QED BY <4>1, <2>8
    <3>5. CASE i < j
      <4>1. /\ j - 1 \in 1..n /\ k - 1 \in 1..n /\ j - 1 < k - 1
            /\ ~(j < i) /\ j # i /\ ~(k < i) /\ k # i
        BY <3>5, <2>4, <2>9, <1>1, SMT
      <4>2. r[j] = q[j - 1] /\ r[k] = q[k - 1]
        BY <4>1, <2>5
      <4> QED BY <4>1, <4>2, <1>6
    <3>6. k < i \/ k = i \/ (j < i /\ i < k) \/ j = i \/ i < j
      BY <2>4, <2>9, <1>1, SMT
    <3> QED BY <3>1, <3>2, <3>3, <3>4, <3>5, <3>6
  <2> QED BY <2>6, <2>9 DEF Ordered, r, P
<1> QED BY <1>7, <1>8

LEMMA EnqueueOrdered ==
    ASSUME NEW q \in Seq(Threads), NEW t \in Threads, sch.prio \in [Threads -> Prios],
           Ordered(q, sch.prio)
    PROVE  Ordered(Enqueue(q, t, "prio"), sch.prio)
<1> DEFINE places == {i \in DOMAIN q : "prio" = "prio" /\ sch.prio[t] < sch.prio[q[i]]}
<1>1. Enqueue(q, t, "prio") = Before(q, places, t)
  BY DEF Enqueue
<1>2. places \subseteq DOMAIN q /\ \A i \in DOMAIN q : i \in places <=> sch.prio[t] < sch.prio[q[i]]
  OBVIOUS
<1>3. sch.prio \in [Threads -> Nat]
  BY PriosNat
<1> HIDE DEF places
<1> QED BY <1>1, <1>2, <1>3, BeforeOrdered

InheritInv == Ordered(mutQ, sch.prio) /\ NoInversion

LEMMA InheritFrame ==
    ASSUME InheritInv, sch'.prio = sch.prio, UNCHANGED <<owner, mutQ>>
    PROVE  InheritInv'
BY DEF InheritInv, NoInversion, Ordered

LEMMA InheritEmpty == ASSUME mutQ' = <<>> PROVE InheritInv'
BY DEF InheritInv, NoInversion, Ordered, ToSet

\* The steps of Next that neither touch the queue or the owner of the mutex nor
\* change a priority.
LEMMA SamePrio ==
    ASSUME IInv,
           \/ UNCHANGED vars \/ IsrRelease
           \/ \E over \in BOOLEAN : Tick(over)
           \/ TimerCheckEnds
           \/ \E t \in Threads :
                 \/ SemTake(t) \/ SemRelease(t) \/ \E d \in SemTimes : SemWait(t, d)
                 \/ MutexAgain(t) \/ MutexTry(t) \/ MutexKeep(t)
                 \/ \E d \in SleepTimes : Sleep(t, d)
                 \/ CallSchedule(t) \/ Return(t)
    PROVE  sch'.prio = sch.prio /\ UNCHANGED <<owner, mutQ>>
<1> USE DEF mutVars
<1>1. Schedule(sch).prio = sch.prio
  BY SchNow, ScheduleKeeps
<1>2. CASE UNCHANGED vars
  BY <1>2 DEF vars
<1>3. ASSUME Give(Insert(sch, Head(semQ))) \/ Give(Schedule(Insert(sch, Head(semQ))))
      PROVE  sch'.prio = sch.prio /\ UNCHANGED <<owner, mutQ>>
  <2>1. semQ \in Seq(Threads) /\ Holds(semQ, WaitsFor("sem")) /\ semQ # <<>>
    BY <1>3 DEF IInv, Placed, TypeOK, Give
  <2>2. PICK h \in Threads : h = Head(semQ) /\ h \in WaitsFor("sem")
    BY <2>1, TailHolds
  <2>3. sch.stat[h] = "suspend"
    BY <2>2 DEF WaitsFor, Suspended
  <2>4. sch' \in {Insert(sch, h), Schedule(Insert(sch, h))} /\ UNCHANGED <<owner, mutQ>>
    BY <1>3, <2>2 DEF Give
  <2>5. sch'.prio = sch.prio
    BY <2>3, <2>4, SchNow, Resumes
  <2> QED BY <2>4, <2>5
<1>4. CASE IsrRelease
  BY <1>3, <1>4 DEF IsrRelease, Keep
<1>5. ASSUME NEW over \in BOOLEAN, Tick(over)
      PROVE  sch'.prio = sch.prio /\ UNCHANGED <<owner, mutQ>>
  <2> DEFINE k == [sch EXCEPT !.yield = @ \cup {sch.current}]
  <2>1. sch' = (IF over THEN Schedule(k) ELSE sch) /\ UNCHANGED <<owner, mutQ>>
    BY <1>5 DEF Tick
  <2>2. /\ k \in Scheduler /\ k.prio = sch.prio /\ k.stat = sch.stat /\ k.ready = sch.ready
        /\ k.current = sch.current
    BY SchNow DEF Scheduler
  <2> HIDE DEF k
  <2>3. Coherent(k)
    BY <2>2, SchNow DEF Coherent
  <2> QED BY <2>1, <2>2, <2>3, ScheduleKeeps
<1>6. CASE TimerCheckEnds
  BY <1>6 DEF TimerCheckEnds
<1>7. ASSUME NEW t \in Threads,
             SemTake(t) \/ SemRelease(t) \/ MutexAgain(t) \/ MutexTry(t) \/ MutexKeep(t)
      PROVE  sch'.prio = sch.prio /\ UNCHANGED <<owner, mutQ>>
  <2>1. CASE SemRelease(t)
    BY <1>3, <2>1 DEF SemRelease, Keep
  <2>2. CASE SemTake(t) \/ MutexAgain(t) \/ MutexTry(t) \/ MutexKeep(t)
    BY <2>2 DEF SemTake, MutexAgain, MutexTry, MutexKeep
  <2> QED BY <1>7, <2>1, <2>2
<1>8. ASSUME NEW t \in Threads,
             \/ \E d \in SemTimes : SemWait(t, d)
             \/ \E d \in SleepTimes : Sleep(t, d)
      PROVE  sch'.prio = sch.prio /\ UNCHANGED <<owner, mutQ>>
  <2>1. sch' = Suspend(sch, t) /\ Runs(t) /\ UNCHANGED <<owner, mutQ>>
    BY <1>8 DEF SemWait, Sleep
  <2> QED BY <2>1, RunsNow, SchNow, SuspendKeeps
<1>9. ASSUME NEW t \in Threads, CallSchedule(t) \/ Return(t)
      PROVE  sch'.prio = sch.prio /\ UNCHANGED <<owner, mutQ>>
  BY <1>1, <1>9 DEF CallSchedule, Return
<1> QED BY <1>2, <1>4, <1>5, <1>6, <1>7, <1>8, <1>9

LEMMA TimerFiresInherits == ASSUME IInv, InheritInv, TimerFires PROVE InheritInv'
<1>1. timers \in Seq(Threads) /\ timers # <<>> /\ Holds(timers, Timed) /\ Timed \subseteq Suspended
  BY DEF IInv, TypeOK, Placed, TimerFires, Due
<1>2. PICK t \in Threads : t = Head(timers) /\ t \in Timed
  BY <1>1, TailHolds
<1>3. sch.stat[t] = "suspend"
  BY <1>1, <1>2 DEF Suspended
<1>4. mutQ' = Without(mutQ, t) /\ sch' = Schedule(Insert(sch, t)) /\ owner' = owner
  BY <1>2 DEF TimerFires
<1>5. sch'.prio = sch.prio
  BY <1>3, <1>4, SchNow, Resumes
<1>6. mutQ \in Seq(Threads) /\ Holds(mutQ, ToSet(mutQ))
  BY DEF IInv, TypeOK, Placed, Holds
<1>7. ToSet(mutQ') \subseteq ToSet(mutQ)
  BY <1>4, <1>6, WithoutHolds DEF Holds
<1>8. Ordered(mutQ', sch.prio)
  BY <1>4, <1>6, SchNow, WithoutOrdered DEF InheritInv
<1> QED BY <1>4, <1>5, <1>7, <1>8 DEF InheritInv, NoInversion, Ordered

LEMMA MutexPassInherits ==
    ASSUME IInv, IInv', InheritInv, NEW t \in Threads, MutexPass(t)
    PROVE  InheritInv'
<1>1. mutQ \in Seq(Threads) /\ Holds(mutQ, WaitsFor("mutex")) /\ mutQ # <<>>
  BY DEF IInv, Placed, TypeOK, MutexPass
<1>2. owner = t /\ owner' = Head(mutQ) /\ mutQ' = Tail(mutQ)
  BY DEF MutexPass
<1>3. Head(mutQ) \in Threads /\ Head(mutQ) \in ToSet(mutQ) /\ ToSet(mutQ') \subseteq ToSet(mutQ)
  BY <1>1, <1>2, TailHolds DEF Holds
<1>4. ToSet(mutQ) \subseteq Threads \ {t}
  BY <1>2, MutexWaiters DEF IInv, MutexExclusive
<1>5. Ordered(mutQ', sch.prio) /\ \A x \in ToSet(mutQ') : sch.prio[owner'] <= sch.prio[x]
  BY <1>1, <1>2, SchNow, TailOrdered DEF InheritInv
<1>6. \A x \in ToSet(mutQ) : sch'.prio[x] = sch.prio[x]
  <2>1. Restore(t).prio = InitPrio
    BY <1>2, RestoreKeeps
  <2>2. sch' = Insert(Restore(t), Head(mutQ))
    BY DEF MutexPass
  <2>3. sch'.prio = InitPrio
    <3>1. PICK h \in Threads : h = Head(mutQ)
      BY <1>3
    <3>2. /\ Restore(t) \in Scheduler /\ Coherent(Restore(t))
          /\ Restore(t).stat[h] = "suspend"
      BY <1>2, <1>3, <3>1, RestoreKeeps, MutexWaiters DEF IInv
    <3> QED BY <2>1, <2>2, <3>1, <3>2, Resumes
  <2> QED BY <2>3, <1>2, <1>4 DEF IInv, Restored
<1>7. \A i \in DOMAIN mutQ' : mutQ'[i] \in ToSet(mutQ)
  BY <1>3 DEF ToSet
<1> QED BY <1>2, <1>3, <1>5, <1>6, <1>7 DEF InheritInv, NoInversion, Ordered

LEMMA MutexWaitInherits ==
    ASSUME IInv, InheritInv, MutexFlag = "prio",
           NEW t \in Threads, NEW d \in Nat, MutexWait(t, d)
    PROVE  InheritInv'
<1>1. /\ Runs(t) /\ owner # t /\ mutVal = 0 /\ owner' = owner
      /\ sch' = Suspend(Inherit(t), t) /\ mutQ' = Enqueue(mutQ, t, "prio")
  BY DEF MutexWait
<1>2. owner \in Threads \ {t} /\ sch.stat[t] = "running" /\ t \notin ToSet(mutQ)
  BY <1>1, RunsNow DEF IInv, TypeOK, MutexExclusive
<1>3. mutQ \in Seq(Threads) /\ Holds(mutQ, ToSet(mutQ)) /\ owner \notin ToSet(mutQ)
  BY DEF IInv, TypeOK, Placed, Holds, MutexExclusive
<1>4. ToSet(mutQ') = ToSet(mutQ) \cup {t}
  BY <1>1, <1>2, <1>3, EnqueueHolds DEF Holds
<1>5. Ordered(mutQ', sch.prio)
  BY <1>1, <1>3, SchNow, EnqueueOrdered DEF InheritInv
<1>6. /\ Inherit(t) \in Scheduler /\ Coherent(Inherit(t)) /\ Inherit(t).stat[t] = "running"
      /\ \A x \in Threads \ {owner} : Inherit(t).prio[x] = sch.prio[x]
  BY <1>2, InheritKeeps
<1>7. sch'.prio = Inherit(t).prio
  BY <1>1, <1>6, SuspendKeeps
<1>8. \A x \in ToSet(mutQ') : x \in Threads /\ sch'.prio[x] = sch.prio[x]
  <2>1. ToSet(mutQ) \subseteq Threads
    BY MutexWaiters DEF IInv
  <2> QED BY <2>1, <1>2, <1>3, <1>4, <1>6, <1>7
<1>9. sch'.prio[owner] <= sch.prio[t] /\ sch'.prio[owner] <= sch.prio[owner]
  <2>1. \A x \in Threads : sch.prio[x] \in Nat
    BY SchNow, PriosNat
  <2>2. CASE sch.prio[t] < sch.prio[owner]
    <3>1. Inherit(t) = ChangePrio(sch, owner, sch.prio[t])
      BY <2>2 DEF Inherit
    <3>2. Inherit(t).prio = [sch.prio EXCEPT ![owner] = sch.prio[t]]
      BY <3>1, <1>2, SchNow, ChangePrioKeeps
    <3>3. sch'.prio[owner] = sch.prio[t]
      BY <3>2, <1>2, <1>7, SchNow
    <3> QED BY <3>3, <2>1, <2>2, <1>2, SMT
  <2>3. CASE ~(sch.prio[t] < sch.prio[owner])
    <3>1. sch'.prio[owner] = sch.prio[owner]
      BY <2>3, <1>7 DEF Inherit
    <3> QED BY <3>1, <2>1, <2>3, <1>2, SMT
  <2> QED BY <2>2, <2>3
<1>10. NoInversion'
  <2> SUFFICES ASSUME NEW x \in ToSet(mutQ') PROVE sch'.prio[owner] <= sch'.prio[x]
    BY <1>1 DEF NoInversion
  <2>1. CASE x = t
    BY <2>1, <1>8, <1>9
  <2>2. CASE x # t
    <3>1. x \in ToSet(mutQ) /\ sch.prio[owner] <= sch.prio[x] /\ x \in Threads
      BY <2>2, <1>4, <1>8 DEF InheritInv, NoInversion
    <3>2. /\ sch.prio[owner] \in Nat /\ sch.prio[x] \in Nat
          /\ sch'.prio[owner] \in Nat /\ sch'.prio[x] = sch.prio[x]
      BY <3>1, <1>2, <1>6, <1>7, <1>8, SchNow, PriosNat, Fields
    <3> QED BY <3>1, <3>2, <1>9, SMT
  <2> QED BY <2>1, <2>2
<1>11. Ordered(mutQ', sch'.prio)
  <2>1. \A i \in DOMAIN mutQ' : sch'.prio[mutQ'[i]] = sch.prio[mutQ'[i]]
    BY <1>8 DEF ToSet
  <2> QED BY <2>1, <1>5 DEF Ordered
<1>12. Ordered(mutQ, sch.prio)'
  BY <1>11 DEF Ordered
<1> QED BY <1>10, <1>12 DEF InheritInv

\* With waiters queued by priority, the owner of the mutex never has a lower
\* priority than a thread that waits for it.
THEOREM NoInversionEver ==
    ASSUME MutexFlag = "prio"
    PROVE  Spec => []NoInversion
<1>1. Init => InheritInv
  BY DEF Init, InheritInv, NoInversion, Ordered, ToSet
<1>2. IInv /\ IInv' /\ InheritInv /\ [Next]_vars => InheritInv'
  <2> SUFFICES ASSUME IInv, IInv', InheritInv, [Next]_vars PROVE InheritInv'
    OBVIOUS
  <2>1. CASE UNCHANGED vars \/ IsrRelease
    BY <2>1, SamePrio, InheritFrame
  <2>2. CASE Clock
    BY <2>2, SamePrio, InheritFrame, TimerFiresInherits DEF Clock
  <2>3. ASSUME NEW t \in Threads, Semaphore(t) PROVE InheritInv'
    BY <2>3, SamePrio, InheritFrame DEF Semaphore
  <2>4. ASSUME NEW t \in Threads, Mutex(t) PROVE InheritInv'
    <3>1. CASE MutexAgain(t) \/ MutexTry(t) \/ MutexKeep(t)
      BY <3>1, SamePrio, InheritFrame
    <3>2. CASE MutexTake(t)
      <4>1. mutQ' = mutQ /\ mutVal = 1
        <5>1. mutVal > 0 /\ mutVal \in 0..1 /\ mutQ' = mutQ
          BY <3>2 DEF MutexTake, IInv, TypeOK
        <5> QED BY <5>1, SMT
      <4> QED BY <4>1, InheritEmpty DEF IInv, MutexExclusive
    <3>3. CASE MutexFree(t)
      BY <3>3, InheritEmpty DEF MutexFree
    <3>4. CASE MutexPass(t)
      BY <3>4, MutexPassInherits
    <3>5. ASSUME NEW d \in MutexTimes, MutexWait(t, d) PROVE InheritInv'
      BY <3>5, Constants, MutexWaitInherits
    <3> QED BY <2>4, <3>1, <3>2, <3>3, <3>4, <3>5 DEF Mutex
  <2>5. CASE Thread
    BY <2>5, <2>3, <2>4, SamePrio, InheritFrame, Constants DEF Thread
  <2> QED BY <2>1, <2>2, <2>5 DEF Next
<1>3. InheritInv => NoInversion
  BY DEF InheritInv
<1> QED BY <1>1, <1>2, <1>3, Invariance, PTL DEF Spec

-----------------------------------------------------------------------------
(* The timer list, in order of the ticks that are left                     *)

Half == TickMax \div 2
Diff(a, b) == (a - b) % (TickMax + 1)

\* The ticks that are left of each timer.
Lefts == [t \in Threads |-> Diff(at[t], tick)]

TimeInv ==
    /\ Ordered(timers, Lefts)
    /\ \A t \in Timed : Lefts[t] < Half /\ (isr = "off" => Lefts[t] > 0)

LEMMA ModIs ==
    ASSUME NEW n \in Nat \ {0}, NEW x \in Int, -n <= x, x < n
    PROVE  x % n = IF 0 <= x THEN x ELSE x + n
BY SMT

LEMMA ModOver ==
    ASSUME NEW n \in Nat \ {0}, NEW x \in Int, n <= x, x < 2 * n
    PROVE  x % n = x - n
BY SMT

LEMMA HalfIs == Half \in Nat /\ 2 * Half <= TickMax
BY Constants, SMT DEF Half

LEMMA Times == \A d \in SemTimes \cup MutexTimes \cup SleepTimes : d \in Nat /\ d < Half
BY KernelAssumption, Zenon DEF KernelAssumption, Half

LEMMA DiffIs ==
    ASSUME NEW a \in Ticks, NEW b \in Ticks
    PROVE  Diff(a, b) = IF b <= a THEN a - b ELSE a - b + TickMax + 1
<1>1. /\ TickMax + 1 \in Nat \ {0} /\ a - b \in Int
      /\ -(TickMax + 1) <= a - b /\ a - b < TickMax + 1
      /\ 0 <= a - b <=> b <= a
  BY Constants, SMT DEF Ticks
<1>2. (a - b) % (TickMax + 1) = IF 0 <= a - b THEN a - b ELSE a - b + (TickMax + 1)
  BY <1>1, ModIs
<1> QED BY <1>1, <1>2, Constants, SMT DEF Diff, Ticks

LEMMA SumIs ==
    ASSUME NEW a \in Ticks, NEW d \in Nat, d <= TickMax
    PROVE  (a + d) % (TickMax + 1) = IF a + d <= TickMax THEN a + d ELSE (a + d) - (TickMax + 1)
<1>1. TickMax + 1 \in Nat \ {0} /\ a + d \in Int /\ 0 <= a + d
  BY Constants, SMT DEF Ticks
<1>2. CASE a + d <= TickMax
  <2>1. -(TickMax + 1) <= a + d /\ a + d < TickMax + 1
    BY <1>1, <1>2, Constants, SMT
  <2>2. (a + d) % (TickMax + 1) = a + d
    BY <1>1, <2>1, ModIs
  <2> QED BY <1>2, <2>2, Zenon
<1>3. CASE ~(a + d <= TickMax)
  <2>1. TickMax + 1 <= a + d /\ a + d < 2 * (TickMax + 1)
    BY <1>3, Constants, SMT DEF Ticks
  <2>2. (a + d) % (TickMax + 1) = (a + d) - (TickMax + 1)
    BY <1>1, <2>1, ModOver, Zenon
  <2> QED BY <1>3, <2>2, Zenon
<1> QED BY <1>2, <1>3

\* The timer that is started has d ticks left, and the ones it is put before
\* are the ones that have more, wherever the tick wraps.
LEMMA EndIs ==
    ASSUME NEW k \in Ticks, NEW d \in Nat, 0 < d, d < Half,
           NEW end, end = (k + d) % (TickMax + 1)
    PROVE  /\ end \in Ticks /\ Diff(end, k) = d
           /\ \A a \in Ticks : Diff(a, k) < Half =>
                 (a # end /\ Reached(end, a) <=> d < Diff(a, k))
<1>1. end = IF k + d <= TickMax THEN k + d ELSE (k + d) - (TickMax + 1)
  <2>1. d <= TickMax
    BY HalfIs, Constants, SMT
  <2> QED BY <2>1, SumIs
<1>2. end \in Ticks
  BY <1>1, HalfIs, Constants, SMT DEF Ticks
<1>3. Diff(end, k) = d
  <2>1. Diff(end, k) = IF k <= end THEN end - k ELSE end - k + TickMax + 1
    BY <1>2, DiffIs
  <2> QED BY <1>1, <2>1, HalfIs, Constants, SMT DEF Ticks
<1>4. ASSUME NEW a \in Ticks, Diff(a, k) < Half
      PROVE  a # end /\ Reached(end, a) <=> d < Diff(a, k)
  <2>1. Reached(end, a) <=> Diff(a, end) < Half
    BY DEF Reached, Diff, Half
  <2>2. Diff(a, end) = IF end <= a THEN a - end ELSE a - end + TickMax + 1
    BY <1>2, DiffIs
  <2>3. Diff(a, k) = IF k <= a THEN a - k ELSE a - k + TickMax + 1
    BY DiffIs
  <2>4. a \in Int /\ 0 <= a /\ a <= TickMax /\ k \in Int /\ 0 <= k /\ k <= TickMax
    BY Constants, SMT DEF Ticks
  <2> HIDE DEF Half
  <2> QED BY <1>1, <1>4, <2>1, <2>2, <2>3, <2>4, HalfIs, Constants, SMT
<1> QED BY <1>2, <1>3, <1>4

LEMMA OrderedSame ==
    ASSUME NEW q, NEW f, NEW g, Ordered(q, f), \A t \in ToSet(q) : g[t] = f[t]
    PROVE  Ordered(q, g)
BY DEF Ordered, ToSet

LEMMA TimersNow ==
    ASSUME IInv
    PROVE  /\ timers \in Seq(Threads) /\ Holds(timers, Timed) /\ Timed \subseteq Threads
           /\ at \in [Threads -> Ticks] /\ tick \in Ticks
<1>1. Timed \subseteq Threads
  BY DEF IInv, Placed, Suspended
<1> QED BY <1>1 DEF IInv, TypeOK, Placed

LEMMA LeftsNat == ASSUME IInv PROVE Lefts \in [Threads -> Nat]
<1>1. ASSUME NEW t \in Threads PROVE Diff(at[t], tick) \in Nat
  <2>1. at[t] \in Ticks /\ tick \in Ticks
    BY TimersNow
  <2>2. Diff(at[t], tick) = IF tick <= at[t] THEN at[t] - tick ELSE at[t] - tick + TickMax + 1
    BY <2>1, DiffIs
  <2> QED BY <2>1, <2>2, Constants, SMT DEF Ticks
<1> QED BY <1>1 DEF Lefts

LEMMA TimeFrame ==
    ASSUME TimeInv, UNCHANGED <<tick, timers, at>>, isr' = "off" => isr = "off"
    PROVE  TimeInv'
BY DEF TimeInv, Lefts, Ordered, Timed

LEMMA StopTime ==
    ASSUME IInv, TimeInv, NEW t \in Threads, StopTimer(t), tick' = tick,
           isr' = "off" => isr = "off"
    PROVE  TimeInv'
<1>1. timers' = Without(timers, t) /\ at' = [at EXCEPT ![t] = 0]
  BY DEF StopTimer
<1>2. Holds(timers', Timed \ {t})
  BY <1>1, TimersNow, WithoutHolds
<1>3. Timed' = Timed \ {t} /\ ToSet(timers') = Timed \ {t}
  BY <1>2 DEF Holds, Timed
<1>4. \A x \in Timed \ {t} : Lefts'[x] = Lefts[x]
  BY <1>1, TimersNow DEF Lefts
<1>5. Ordered(timers', Lefts)
  BY <1>1, TimersNow, WithoutOrdered DEF TimeInv
<1>6. Ordered(timers', Lefts')
  BY <1>3, <1>4, <1>5, OrderedSame
<1> QED BY <1>3, <1>4, <1>6 DEF TimeInv, Ordered

LEMMA StartTime ==
    ASSUME IInv, TimeInv, NEW t \in Threads, t \notin Timed, NEW d \in Nat, d < Half,
           StartTimer(t, d), UNCHANGED clkVars
    PROVE  TimeInv'
<1>0. tick' = tick /\ isr' = isr
  BY DEF clkVars
<1>1. CASE d = 0
  BY <1>0, <1>1, TimeFrame DEF StartTimer, Forever
<1>2. CASE d # 0
  <2> DEFINE end == (tick + d) % (TickMax + 1)
             later == {i \in DOMAIN timers : at[timers[i]] # end /\ Reached(end, at[timers[i]])}
  <2>1. timers' = Before(timers, later, t) /\ at' = [at EXCEPT ![t] = end]
    BY <1>2 DEF StartTimer, Forever
  <2>2. 0 < d
    BY <1>2, SMT
  <2>3. /\ end \in Ticks /\ Diff(end, tick) = d
        /\ \A a \in Ticks : Diff(a, tick) < Half =>
              (a # end /\ Reached(end, a) <=> d < Diff(a, tick))
    BY <2>2, TimersNow, EndIs
  <2>4. \A i \in DOMAIN timers : i \in later <=>
              at[timers[i]] # end /\ Reached(end, at[timers[i]])
    OBVIOUS
  <2>5. later \subseteq DOMAIN timers
    OBVIOUS
  <2> HIDE DEF end, later
  <2>6. Lefts' = [Lefts EXCEPT ![t] = d]
    BY <1>0, <2>1, <2>3, TimersNow DEF Lefts
  <2>7. Holds(timers', Timed \cup {t})
    BY <2>1, <2>5, TimersNow, BeforeHolds
  <2>8. Timed' = Timed \cup {t}
    BY <2>7 DEF Holds, Timed
  <2>9. Lefts' \in [Threads -> Nat]
    BY <2>6, LeftsNat
  <2>10. Ordered(timers, Lefts')
    <3>1. \A x \in Timed : Lefts'[x] = Lefts[x]
      BY <2>6, LeftsNat, TimersNow
    <3> QED BY <3>1, OrderedSame DEF TimeInv, Timed
  <2>11. ASSUME NEW i \in DOMAIN timers
         PROVE  i \in later <=> Lefts'[t] < Lefts'[timers[i]]
    <3>1. timers[i] \in Timed /\ timers[i] \in Threads /\ timers[i] # t
      BY TimersNow DEF Timed, ToSet
    <3>2. Lefts'[t] = d /\ Lefts'[timers[i]] = Lefts[timers[i]]
      BY <2>6, <3>1, LeftsNat
    <3>3. Lefts[timers[i]] = Diff(at[timers[i]], tick) /\ at[timers[i]] \in Ticks
      BY <3>1, TimersNow DEF Lefts
    <3>4. Diff(at[timers[i]], tick) < Half
      BY <3>1, <3>3 DEF TimeInv
    <3> QED BY <2>3, <2>4, <3>2, <3>3, <3>4
  <2>12. Ordered(timers', Lefts')
    BY <2>1, <2>5, <2>9, <2>10, <2>11, TimersNow, BeforeOrdered
  <2>13. ASSUME NEW x \in Timed' PROVE Lefts'[x] < Half /\ (isr' = "off" => Lefts'[x] > 0)
    <3>1. CASE x = t
      <4>1. Lefts'[x] = d
        BY <3>1, <2>6, LeftsNat
      <4> QED BY <4>1, <2>2, SMT
    <3>2. CASE x # t
      <4>1. x \in Timed /\ Lefts'[x] = Lefts[x]
        BY <3>2, <2>6, <2>8, LeftsNat, TimersNow
      <4> QED BY <4>1, <1>0 DEF TimeInv
    <3> QED BY <3>1, <3>2
  <2> QED BY <2>12, <2>13 DEF TimeInv, Ordered
<1> QED BY <1>1, <1>2

\* While the clock interrupt is off no timer is due, so a tick takes one from each.
LEMMA TickTime ==
    ASSUME IInv, TimeInv, NEW over, Tick(over)
    PROVE  TimeInv'
<1>1. /\ isr = "off" /\ isr' = "timer" /\ tick' = (tick + 1) % (TickMax + 1)
      /\ timers' = timers /\ at' = at
  BY DEF Tick, timVars
<1>2. ASSUME NEW t \in Timed PROVE Lefts'[t] = Lefts[t] - 1
  <2>1. t \in Threads /\ at[t] \in Ticks /\ tick \in Ticks
    BY TimersNow
  <2>2. Lefts[t] > 0 /\ Lefts[t] = Diff(at[t], tick) /\ Lefts'[t] = Diff(at[t], tick')
    BY <1>1, <2>1 DEF TimeInv, Lefts
  <2>3. tick' = IF tick + 1 <= TickMax THEN tick + 1 ELSE (tick + 1) - (TickMax + 1)
    <3>1. 1 \in Nat /\ 1 <= TickMax
      BY Constants, SMT
    <3> QED BY <3>1, <1>1, <2>1, SumIs
  <2>4. tick' \in Ticks
    BY <2>1, <2>3, Constants, SMT DEF Ticks
  <2>5. Diff(at[t], tick) = IF tick <= at[t] THEN at[t] - tick ELSE at[t] - tick + TickMax + 1
    BY <2>1, DiffIs
  <2>6. Diff(at[t], tick') = IF tick' <= at[t] THEN at[t] - tick' ELSE at[t] - tick' + TickMax + 1
    BY <2>1, <2>4, DiffIs
  <2> QED BY <2>1, <2>2, <2>3, <2>5, <2>6, Constants, SMT DEF Ticks
<1>3. \A t \in Timed : Lefts[t] \in Nat
  BY LeftsNat, TimersNow
<1>4. ASSUME NEW t \in Timed PROVE Lefts'[t] < Half
  BY <1>2, <1>3, HalfIs, SMT DEF TimeInv
<1>5. Ordered(timers, Lefts')
  <2> SUFFICES ASSUME NEW i \in DOMAIN timers, NEW j \in DOMAIN timers, i < j
               PROVE  Lefts'[timers[i]] <= Lefts'[timers[j]]
    BY DEF Ordered
  <2>1. timers[i] \in Timed /\ timers[j] \in Timed
    BY DEF Timed, ToSet
  <2>2. Lefts[timers[i]] <= Lefts[timers[j]]
    BY DEF TimeInv, Ordered
  <2>3. /\ Lefts'[timers[i]] = Lefts[timers[i]] - 1 /\ Lefts'[timers[j]] = Lefts[timers[j]] - 1
        /\ Lefts[timers[i]] \in Nat /\ Lefts[timers[j]] \in Nat
    BY <1>2, <1>3, <2>1
  <2> QED BY <2>2, <2>3, SMT
<1> QED BY <1>1, <1>4, <1>5 DEF TimeInv, Ordered, Timed

\* The first timer is not due, so it has ticks left, and so has every other.
LEMMA CheckEndsTime ==
    ASSUME IInv, TimeInv, TimerCheckEnds
    PROVE  TimeInv'
<1>1. ~Due /\ UNCHANGED <<tick, timers, at>>
  BY DEF TimerCheckEnds, timVars
<1>2. ASSUME NEW t \in Timed PROVE Lefts[t] > 0
  <2>1. PICK i \in DOMAIN timers : t = timers[i]
    BY DEF Timed, ToSet
  <2>2. timers # <<>> /\ Len(timers) \in Nat /\ DOMAIN timers = 1..Len(timers)
    BY <2>1, TimersNow, LenProperties, EmptySeq
  <2>3. 1 \in DOMAIN timers /\ Head(timers) = timers[1] /\ (i = 1 \/ 1 < i)
    BY <2>1, <2>2, TimersNow, HeadTailProperties, SMT
  <2> DEFINE h == timers[1]
  <2>4. h \in Timed /\ h \in Threads /\ t \in Threads
    BY <2>3, TimersNow DEF Timed, ToSet
  <2>5. Lefts[h] \in Nat /\ Lefts[t] \in Nat /\ Lefts[h] < Half
    BY <2>4, LeftsNat DEF TimeInv
  <2>6. Lefts[h] <= Lefts[t]
    <3>1. 1 < i => Lefts[h] <= Lefts[t]
      BY <2>1, <2>3 DEF TimeInv, Ordered
    <3>2. i = 1 => Lefts[h] = Lefts[t]
      BY <2>1
    <3> QED BY <3>1, <3>2, <2>3, <2>5, SMT
  <2>7. Lefts[h] # 0
    <3>1. ~Reached(at[h], tick)
      BY <1>1, <2>2, <2>3 DEF Due
    <3>2. at[h] \in Ticks /\ tick \in Ticks /\ Lefts[h] = Diff(at[h], tick)
      BY <2>4, TimersNow DEF Lefts
    <3>3. ~(Diff(tick, at[h]) < Half)
      BY <3>1 DEF Reached, Diff, Half
    <3>4. Diff(at[h], tick) = IF tick <= at[h] THEN at[h] - tick ELSE at[h] - tick + TickMax + 1
      BY <3>2, DiffIs
    <3>5. Diff(tick, at[h]) = IF at[h] <= tick THEN tick - at[h] ELSE tick - at[h] + TickMax + 1
      BY <3>2, DiffIs
    <3> HIDE DEF h
    <3> QED BY <2>5, <3>2, <3>3, <3>4, <3>5, HalfIs, Constants, SMT DEF Ticks
  <2> HIDE DEF h
  <2> QED BY <2>5, <2>6, <2>7, SMT
<1>3. Ordered(timers', Lefts') /\ Timed' = Timed /\ Lefts' = Lefts
  BY <1>1 DEF TimeInv, Lefts, Ordered, Timed
<1> QED BY <1>2, <1>3 DEF TimeInv, Ordered

\* A thread that waits starts a timer of its own, which did not run.
LEMMA BlockTime ==
    ASSUME IInv, TimeInv, NEW t \in Threads, Runs(t), NEW c, NEW d \in Nat, d < Half,
           Block(t, c, d), UNCHANGED clkVars
    PROVE  TimeInv'
BY RunsNow, StartTime DEF Block

\* A waiter that is let go stops its timer.
LEMMA GiveTime ==
    ASSUME IInv, TimeInv, NEW n, Give(n)
    PROVE  TimeInv'
<1>1. semQ \in Seq(Threads) /\ semQ # <<>>
  BY DEF IInv, TypeOK, Give
<1>2. PICK h \in Threads : h = Head(semQ)
  BY <1>1, HeadTailProperties
<1> QED BY <1>2, StopTime DEF Give, clkVars

LEMMA MutexPassTime ==
    ASSUME IInv, TimeInv, NEW t \in Threads, MutexPass(t)
    PROVE  TimeInv'
<1>1. mutQ \in Seq(Threads) /\ mutQ # <<>>
  BY DEF IInv, TypeOK, MutexPass
<1>2. PICK h \in Threads : h = Head(mutQ)
  BY <1>1, HeadTailProperties
<1> QED BY <1>2, StopTime DEF MutexPass, clkVars

LEMMA TimerFiresTime == ASSUME IInv, TimeInv, TimerFires PROVE TimeInv'
<1>1. timers \in Seq(Threads) /\ timers # <<>>
  BY TimersNow DEF TimerFires, Due
<1>2. PICK h \in Threads : h = Head(timers)
  BY <1>1, HeadTailProperties
<1> QED BY <1>2, StopTime DEF TimerFires

LEMMA ThreadTime == ASSUME IInv, TimeInv, Thread PROVE TimeInv'
<1> USE DEF clkVars, timVars
<1>1. ASSUME NEW t \in Threads, SemTake(t) \/ Keep \/ MutexAgain(t) \/ MutexTake(t) \/ MutexTry(t)
             \/ MutexKeep(t) \/ MutexFree(t) \/ CallSchedule(t) \/ Return(t)
      PROVE  TimeInv'
  <2>1. UNCHANGED <<clkVars, timVars>>
    BY <1>1 DEF SemTake, Keep, MutexAgain, MutexTake, MutexTry, MutexKeep, MutexFree,
                CallSchedule, Return
  <2> QED BY <2>1, TimeFrame
<1>2. ASSUME NEW t \in Threads, SemRelease(t) PROVE TimeInv'
  BY <1>1, <1>2, GiveTime DEF SemRelease
<1>3. ASSUME NEW t \in Threads, NEW d \in SemTimes, SemWait(t, d) PROVE TimeInv'
  BY <1>3, Times, BlockTime DEF SemWait
<1>4. ASSUME NEW t \in Threads, NEW d \in MutexTimes, MutexWait(t, d) PROVE TimeInv'
  BY <1>4, Times, BlockTime DEF MutexWait
<1>5. ASSUME NEW t \in Threads, NEW d \in SleepTimes, Sleep(t, d) PROVE TimeInv'
  BY <1>5, Times, BlockTime DEF Sleep
<1>6. ASSUME NEW t \in Threads, Semaphore(t) PROVE TimeInv'
  BY <1>6, <1>1, <1>2, <1>3 DEF Semaphore
<1>7. ASSUME NEW t \in Threads, Mutex(t) PROVE TimeInv'
  BY <1>7, <1>1, <1>4, MutexPassTime DEF Mutex
<1> QED BY <1>1, <1>5, <1>6, <1>7, Constants DEF Thread

\* The timer list is sorted by the ticks that are left, wherever the tick wraps,
\* and no timer is overdue while threads run.
THEOREM TimersSorted == Spec => []TimersInOrder
<1>1. Init => TimeInv
  <2> SUFFICES ASSUME Init PROVE TimeInv
    OBVIOUS
  <2>1. timers = <<>> /\ DOMAIN timers = {} /\ Timed = {}
    BY DEF Init, Timed, ToSet
  <2> QED BY <2>1 DEF TimeInv, Ordered
<1>2. IInv /\ TimeInv /\ [Next]_vars => TimeInv'
  <2> SUFFICES ASSUME IInv, TimeInv, [Next]_vars PROVE TimeInv'
    OBVIOUS
  <2>1. CASE UNCHANGED vars
    BY <2>1, TimeFrame DEF vars, clkVars, timVars
  <2>2. CASE Clock
    BY <2>2, TimerFiresTime, CheckEndsTime, TickTime DEF Clock
  <2>3. CASE IsrRelease
    <3>1. CASE Keep
      BY <3>1, TimeFrame DEF Keep, clkVars, timVars
    <3> QED BY <2>3, <3>1, GiveTime DEF IsrRelease
  <2> QED BY <2>1, <2>2, <2>3, ThreadTime DEF Next
<1>3. IInv /\ TimeInv => TimersInOrder
  <2> SUFFICES ASSUME IInv, TimeInv, NEW i \in DOMAIN timers
               PROVE  /\ (at[timers[i]] - tick) % (TickMax + 1) < TickMax \div 2
                      /\ isr = "off" => (at[timers[i]] - tick) % (TickMax + 1) > 0
                      /\ i > 1 => (at[timers[i - 1]] - tick) % (TickMax + 1)
                                  <= (at[timers[i]] - tick) % (TickMax + 1)
    BY DEF TimersInOrder
  <2>1. \A j \in DOMAIN timers :
           /\ timers[j] \in Timed
           /\ Lefts[timers[j]] = (at[timers[j]] - tick) % (TickMax + 1)
    BY TimersNow DEF Timed, ToSet, Lefts, Diff
  <2>2. i > 1 => i - 1 \in DOMAIN timers /\ i - 1 < i
    BY TimersNow, LenProperties, SMT
  <2> QED BY <2>1, <2>2 DEF TimeInv, Ordered, Half
<1> QED BY <1>1, <1>2, <1>3, Invariance, PTL DEF Spec

-----------------------------------------------------------------------------
(* The semaphore implements TimedSemaphore                                 *)

NoSemErrorYet == \A t \in ToSet(semQ) : error[t] = "ok"

SemNow == IInv /\ NoSemErrorYet

Phases == [t \in Threads |-> Phase(t)]

\* A step that concerns thread t only.
Elsewhere(t) ==
    \A x \in Threads \ {t} :
        /\ call'[x] = call[x] /\ error'[x] = error[x]
        /\ x \in ToSet(semQ') <=> x \in ToSet(semQ)
        /\ x \in Timed' <=> x \in Timed

LEMMA PhasesOf ==
    ASSUME NEW t \in Threads, Elsewhere(t)
    PROVE  Phases' = [Phases EXCEPT ![t] = Phase(t)']
<1>1. \A x \in Threads \ {t} : Phase(x)' = Phase(x)
  BY DEF Elsewhere, Phase
<1> QED BY <1>1 DEF Phases

LEMMA SamePhases ==
    ASSUME SemNow, UNCHANGED <<call, semQ, timers>>,
           error' = error \/ \E t \in Threads, v \in {"ok", "timeout"} :
                                call[t] = "none" /\ error' = [error EXCEPT ![t] = v]
    PROVE  Phases' = Phases /\ NoSemErrorYet'
<1>1. ASSUME NEW x \in Threads, call[x] = "sem" PROVE error'[x] = error[x]
  BY <1>1 DEF SemNow, IInv, TypeOK
<1>2. \A x \in Threads : Phase(x)' = Phase(x)
  BY <1>1 DEF Phase, Timed
<1>3. ToSet(semQ) \subseteq {x \in Threads : call[x] = "sem"}
  BY DEF SemNow, IInv, Placed, Holds, WaitsFor, Suspended
<1> QED BY <1>1, <1>2, <1>3 DEF Phases, SemNow, NoSemErrorYet

\* What the phases are for the actions.
LEMMA SemWaiters ==
    ASSUME SemNow
    PROVE  /\ ToSet(semQ) = {t \in Threads : sch.stat[t] = "suspend" /\ call[t] = "sem"}
           /\ Timed \subseteq {t \in Threads : sch.stat[t] = "suspend"}
           /\ Sem!Waiting = ToSet(semQ)
<1>1. /\ ToSet(semQ) = {t \in Threads : sch.stat[t] = "suspend" /\ call[t] = "sem"}
      /\ Timed \subseteq {t \in Threads : sch.stat[t] = "suspend"}
  BY DEF SemNow, IInv, Placed, Holds, WaitsFor, Suspended
<1>2. \A t \in Threads : Phase(t) \in {"timed", "forever"} <=> t \in ToSet(semQ)
  BY <1>1 DEF Phase
<1> QED BY <1>1, <1>2 DEF Sem!Waiting

LEMMA QuietStep ==
    ASSUME SemNow, UNCHANGED <<semVal, isr>>, Phases' = Phases
    PROVE  UNCHANGED Sem!svars
BY DEF Sem!svars, Phases

\* A thread is suspended elsewhere than in the semaphore.
LEMMA BlockElsewhere ==
    ASSUME SemNow, NEW t \in Threads, Runs(t), NEW c \in {"mutex", "sleep"}, NEW d \in Nat,
           Block(t, c, d), UNCHANGED <<semVal, isr, semQ>>,
           error' = error \/ error' = [error EXCEPT ![t] = "ok"]
    PROVE  UNCHANGED Sem!svars /\ NoSemErrorYet'
<1>1. call[t] = "none" /\ t \notin Timed /\ t \notin ToSet(semQ)
  BY RunsNow DEF SemNow
<1>2. call' = [call EXCEPT ![t] = c] /\ StartTimer(t, d)
  BY DEF Block
<1>3. Timed \subseteq Timed' /\ Timed' \subseteq Timed \cup {t}
  BY <1>1, <1>2, StartTimerKeeps DEF SemNow
<1>4. call \in [Threads -> {"none", "sem", "mutex", "sleep"}]
      /\ error \in [Threads -> {"ok", "timeout"}]
  BY DEF SemNow, IInv, TypeOK
<1>5. Elsewhere(t)
  BY <1>2, <1>3, <1>4 DEF Elsewhere
<1>6. Phase(t)' = "idle" /\ Phase(t) = "idle"
  BY <1>1, <1>2, <1>4 DEF Phase
<1>7. Phases' = Phases
  BY <1>5, <1>6, PhasesOf DEF Phases
<1>8. NoSemErrorYet'
  BY <1>1, <1>4, SemWaiters DEF SemNow, NoSemErrorYet
<1> QED BY <1>7, <1>8, QuietStep

LEMMA GiveRefines ==
    ASSUME SemNow, Give(sch'), UNCHANGED isr
    PROVE  Sem!Release /\ NoSemErrorYet'
<1>1. semQ \in Seq(Threads) /\ Holds(semQ, ToSet(semQ)) /\ semQ # <<>>
  BY DEF SemNow, IInv, Placed, TypeOK, Give, Holds
<1>2. PICK h \in Threads : h = Head(semQ) /\ h \in ToSet(semQ)
  BY <1>1, TailHolds
<1>3. /\ semQ' = Tail(semQ) /\ StopTimer(h) /\ UNCHANGED <<error, call, semVal>>
  BY <1>2 DEF Give
<1>4. ToSet(semQ') = ToSet(semQ) \ {h}
  BY <1>1, <1>2, <1>3, TailHolds DEF Holds
<1>5. Timed' = Timed \ {h}
  BY <1>3, StopTimerKeeps DEF SemNow, Timed, Holds
<1>6. Elsewhere(h)
  BY <1>3, <1>4, <1>5 DEF Elsewhere
<1>7. Phase(h)' = "granted"
  <2>1. call[h] = "sem" /\ error[h] = "ok"
    BY <1>2, SemWaiters DEF SemNow, NoSemErrorYet
  <2> QED BY <2>1, <1>3, <1>4 DEF Phase
<1>8. Phases' = [Phases EXCEPT ![h] = "granted"]
  BY <1>6, <1>7, PhasesOf
<1>9. h \in Sem!Waiting
  BY <1>2, SemWaiters
<1>10. Sem!Release
  BY <1>3, <1>8, <1>9 DEF Sem!Release, Phases
<1> QED BY <1>3, <1>4, <1>10 DEF SemNow, NoSemErrorYet

LEMMA KeepRefines ==
    ASSUME SemNow, Keep
    PROVE  Sem!Release /\ NoSemErrorYet'
<1> USE DEF clkVars, timVars
<1>1. /\ semQ = <<>> /\ semVal' = semVal + 1
      /\ UNCHANGED <<tick, isr, timers, sch, error, call, semQ>>
  BY DEF Keep
<1>2. Phases' = Phases /\ NoSemErrorYet'
  BY <1>1, SamePhases
<1>3. Sem!Waiting = {}
  BY <1>1, SemWaiters DEF ToSet
<1> QED BY <1>1, <1>2, <1>3 DEF Sem!Release, Phases

LEMMA SemWaitRefines ==
    ASSUME SemNow, NEW t \in Threads, NEW d \in Nat, SemWait(t, d)
    PROVE  Sem!Wait(t) /\ NoSemErrorYet'
<1> USE DEF clkVars
<1>1. /\ Runs(t) /\ semVal = 0 /\ error' = [error EXCEPT ![t] = "ok"]
      /\ semQ' = Enqueue(semQ, t, SemFlag) /\ call' = [call EXCEPT ![t] = "sem"]
      /\ StartTimer(t, d) /\ UNCHANGED <<tick, isr, semVal>>
  BY DEF SemWait, Block
<1>2. call[t] = "none" /\ t \notin Timed /\ t \notin ToSet(semQ)
  BY <1>1, RunsNow DEF SemNow
<1>3. ToSet(semQ') = ToSet(semQ) \cup {t}
  <2>1. semQ \in Seq(Threads) /\ Holds(semQ, ToSet(semQ))
    BY DEF SemNow, IInv, Placed, TypeOK, Holds
  <2> QED BY <2>1, <1>1, <1>2, EnqueueHolds DEF Holds
<1>4. Timed \subseteq Timed' /\ Timed' \subseteq Timed \cup {t}
  BY <1>1, <1>2, StartTimerKeeps DEF SemNow
<1>5. call \in [Threads -> {"none", "sem", "mutex", "sleep"}]
      /\ error \in [Threads -> {"ok", "timeout"}]
  BY DEF SemNow, IInv, TypeOK
<1>6. Elsewhere(t)
  BY <1>1, <1>3, <1>4, <1>5 DEF Elsewhere
<1>7. Phase(t) = "idle" /\ Phase(t)' \in {"timed", "forever"}
  BY <1>1, <1>2, <1>3, <1>5 DEF Phase
<1>8. Phases' = [Phases EXCEPT ![t] = Phase(t)']
  BY <1>6, PhasesOf
<1>9. Sem!Wait(t)
  BY <1>1, <1>7, <1>8 DEF Sem!Wait, Phases
<1>10. NoSemErrorYet'
  BY <1>1, <1>3, <1>5, SemWaiters DEF SemNow, NoSemErrorYet
<1> QED BY <1>9, <1>10

\* The steps that do not touch what the semaphore's callers see.
LEMMA SameSem ==
    ASSUME SemNow,
           \/ \E t \in Threads : CallSchedule(t) \/ MutexAgain(t) \/ MutexTry(t)
                                 \/ MutexTake(t) \/ MutexKeep(t) \/ MutexFree(t)
           \/ UNCHANGED vars
    PROVE  UNCHANGED Sem!svars /\ NoSemErrorYet'
<1> USE DEF vars, clkVars, timVars, semVars, mutVars
<1>1. UNCHANGED <<isr, timers, call, semVal, semQ>>
  BY DEF CallSchedule, MutexAgain, MutexTry, MutexTake, MutexKeep, MutexFree
<1>2. error' = error \/ \E t \in Threads, v \in {"ok", "timeout"} :
                           call[t] = "none" /\ error' = [error EXCEPT ![t] = v]
  <2>1. ASSUME NEW t \in Threads, Runs(t) PROVE call[t] = "none"
    BY <2>1, RunsNow DEF SemNow
  <2> QED BY <2>1 DEF CallSchedule, MutexAgain, MutexTry, MutexTake, MutexKeep, MutexFree
<1> QED BY <1>1, <1>2, SamePhases, QuietStep

LEMMA SemTakeRefines ==
    ASSUME SemNow, NEW t \in Threads, SemTake(t)
    PROVE  Sem!TakeNow /\ NoSemErrorYet'
<1> USE DEF clkVars, timVars
<1>1. /\ semVal > 0 /\ semVal' = semVal - 1
      /\ UNCHANGED <<isr, timers, error, call, semQ>>
  BY DEF SemTake
<1>2. Phases' = Phases /\ NoSemErrorYet'
  BY <1>1, SamePhases
<1> QED BY <1>1, <1>2 DEF Sem!TakeNow, Phases

LEMMA MutexPassQuiet ==
    ASSUME SemNow, NEW t \in Threads, MutexPass(t)
    PROVE  UNCHANGED Sem!svars /\ NoSemErrorYet'
<1> USE DEF clkVars, semVars
<1>1. mutQ \in Seq(Threads) /\ Holds(mutQ, ToSet(mutQ)) /\ mutQ # <<>>
  BY DEF SemNow, IInv, Placed, TypeOK, Holds, MutexPass
<1>2. PICK h \in Threads : h = Head(mutQ) /\ h \in ToSet(mutQ)
  BY <1>1, TailHolds
<1>3. StopTimer(h) /\ UNCHANGED <<isr, error, call, semVal, semQ>>
  BY <1>2 DEF MutexPass
<1>4. call[h] = "mutex"
  BY <1>2, MutexWaiters DEF SemNow, IInv
<1>5. Timed' = Timed \ {h}
  BY <1>3, StopTimerKeeps DEF SemNow, Timed, Holds
<1>6. Elsewhere(h)
  BY <1>3, <1>5 DEF Elsewhere
<1>7. Phase(h) = "idle" /\ Phase(h)' = "idle"
  BY <1>3, <1>4 DEF Phase
<1>8. Phases' = Phases
  BY <1>6, <1>7, PhasesOf DEF Phases
<1> QED BY <1>3, <1>8, QuietStep DEF SemNow, NoSemErrorYet

LEMMA ReturnRefines ==
    ASSUME SemNow, NEW t \in Threads, Return(t)
    PROVE  (Sem!Return(t) \/ UNCHANGED Sem!svars) /\ NoSemErrorYet'
<1> USE DEF clkVars, timVars, semVars
<1>1. /\ sch.stat[t] = "running" /\ call' = [call EXCEPT ![t] = "none"]
      /\ error' = IF call[t] = "sleep" /\ error[t] = "timeout"
                  THEN [error EXCEPT ![t] = "ok"] ELSE error
      /\ UNCHANGED <<isr, timers, semVal, semQ>>
  BY DEF Return
<1>2. call \in [Threads -> {"none", "sem", "mutex", "sleep"}]
      /\ error \in [Threads -> {"ok", "timeout"}]
  BY DEF SemNow, IInv, TypeOK
<1>3. t \notin ToSet(semQ)
  BY <1>1, SemWaiters
<1>4. Elsewhere(t)
  BY <1>1, <1>2 DEF Elsewhere, Timed
<1>5. Phase(t)' = "idle"
  BY <1>1, <1>2 DEF Phase
<1>6. Phases' = [Phases EXCEPT ![t] = "idle"]
  BY <1>4, <1>5, PhasesOf
<1>7. CASE call[t] = "sem"
  <2>1. Phase(t) \in {"granted", "expired"}
    BY <1>3, <1>7 DEF Phase
  <2>2. Sem!Return(t)
    BY <1>1, <1>6, <2>1 DEF Sem!Return, Phases
  <2> QED BY <2>2, <1>1, <1>2, <1>3 DEF SemNow, NoSemErrorYet
<1>8. CASE call[t] # "sem"
  <2>1. Phases[t] = "idle"
    BY <1>8 DEF Phases, Phase
  <2>2. Phases' = Phases
    BY <1>6, <2>1 DEF Phases
  <2> QED BY <2>2, <1>1, <1>2, <1>3, QuietStep DEF SemNow, NoSemErrorYet
<1> QED BY <1>7, <1>8

LEMMA TimerFiresRefines ==
    ASSUME SemNow, TimerFires
    PROVE  ((\E t \in Threads : Sem!Expire(t)) \/ UNCHANGED Sem!svars) /\ NoSemErrorYet'
<1>1. timers \in Seq(Threads) /\ timers # <<>> /\ Holds(timers, Timed)
  BY DEF SemNow, IInv, TypeOK, Placed, TimerFires, Due
<1>2. PICK t \in Threads : t = Head(timers) /\ t \in Timed
  BY <1>1, TailHolds
<1>3. /\ isr # "off" /\ isr' # "off" /\ StopTimer(t) /\ semQ' = Without(semQ, t)
      /\ error' = [error EXCEPT ![t] = "timeout"] /\ UNCHANGED <<call, semVal>>
  BY <1>2 DEF TimerFires
<1>4. error \in [Threads -> {"ok", "timeout"}]
  BY DEF SemNow, IInv, TypeOK
<1>5. ToSet(semQ') = ToSet(semQ) \ {t}
  <2>1. semQ \in Seq(Threads) /\ Holds(semQ, ToSet(semQ))
    BY DEF SemNow, IInv, Placed, TypeOK, Holds
  <2> QED BY <2>1, <1>3, WithoutHolds DEF Holds
<1>6. Timed' = Timed \ {t}
  BY <1>3, StopTimerKeeps DEF SemNow, Timed, Holds
<1>7. Elsewhere(t)
  BY <1>3, <1>4, <1>5, <1>6 DEF Elsewhere
<1>8. NoSemErrorYet'
  BY <1>3, <1>4, <1>5, SemWaiters DEF SemNow, NoSemErrorYet
<1>9. CASE t \in ToSet(semQ)
  <2>1. Phase(t) = "timed" /\ Phase(t)' = "expired"
    BY <1>2, <1>3, <1>4, <1>5, <1>9, SemWaiters DEF Phase
  <2>2. Phases' = [Phases EXCEPT ![t] = "expired"]
    BY <1>7, <2>1, PhasesOf
  <2>3. Sem!Expire(t)
    BY <1>3, <2>1, <2>2 DEF Sem!Expire, Phases
  <2> QED BY <2>3, <1>8
<1>10. CASE t \notin ToSet(semQ)
  <2>1. call[t] # "sem"
    BY <1>2, <1>10, SemWaiters
  <2>2. Phase(t) = "idle" /\ Phase(t)' = "idle"
    BY <2>1, <1>3 DEF Phase
  <2>3. Phases' = Phases
    BY <1>7, <2>2, PhasesOf DEF Phases
  <2>4. UNCHANGED Sem!svars
    BY <1>3, <2>3 DEF Sem!svars, Phases
  <2> QED BY <2>4, <1>8
<1> QED BY <1>9, <1>10

LEMMA TickRefines ==
    ASSUME SemNow, \/ \E over \in BOOLEAN : Tick(over)
                   \/ TimerCheckEnds
    PROVE  (Sem!TickStarts \/ Sem!TickEnds) /\ NoSemErrorYet'
<1> USE DEF timVars, semVars
<1>1. UNCHANGED <<timers, error, call, semVal, semQ>>
  BY DEF Tick, TimerCheckEnds
<1>2. Phases' = Phases /\ NoSemErrorYet'
  BY <1>1, SamePhases
<1>3. CASE \E over \in BOOLEAN : Tick(over)
  <2>1. isr = "off" /\ isr' = "timer"
    BY <1>3 DEF Tick
  <2> QED BY <2>1, <1>1, <1>2 DEF Sem!TickStarts, Phases
<1>4. CASE TimerCheckEnds
  <2>1. isr # "off" /\ isr' = "off"
    BY <1>4 DEF TimerCheckEnds
  <2> QED BY <2>1, <1>1, <1>2 DEF Sem!TickEnds, Phases
<1> QED BY <1>3, <1>4

LEMMA StepRefines ==
    ASSUME SemNow, [Next]_vars
    PROVE  [Sem!Next]_Sem!svars /\ NoSemErrorYet'
<1> USE DEF Sem!Next
<1>1. CASE UNCHANGED vars
  BY <1>1, SameSem
<1>2. CASE Clock
  BY <1>2, TimerFiresRefines, TickRefines DEF Clock
<1>3. CASE IsrRelease
  <2>1. isr' = isr /\ (Keep \/ Give(sch'))
    BY <1>3 DEF IsrRelease, Keep, Give, clkVars
  <2> QED BY <2>1, KeepRefines, GiveRefines
<1>4. ASSUME NEW t \in Threads, Semaphore(t)
      PROVE  [Sem!Next]_Sem!svars /\ NoSemErrorYet'
  <2>1. CASE SemTake(t)
    BY <2>1, SemTakeRefines
  <2>2. CASE SemRelease(t)
    <3>1. isr' = isr /\ (Keep \/ Give(sch'))
      BY <2>2 DEF SemRelease, Keep, Give, clkVars
    <3> QED BY <3>1, KeepRefines, GiveRefines
  <2>3. ASSUME NEW d \in SemTimes, SemWait(t, d)
        PROVE  [Sem!Next]_Sem!svars /\ NoSemErrorYet'
    BY <2>3, Constants, SemWaitRefines
  <2> QED BY <1>4, <2>1, <2>2, <2>3 DEF Semaphore
<1>5. ASSUME NEW t \in Threads, Mutex(t)
      PROVE  UNCHANGED Sem!svars /\ NoSemErrorYet'
  <2>1. ASSUME NEW d \in MutexTimes, MutexWait(t, d)
        PROVE  UNCHANGED Sem!svars /\ NoSemErrorYet'
    BY <2>1, Constants, BlockElsewhere DEF MutexWait, semVars, clkVars
  <2> QED BY <1>5, <2>1, SameSem, MutexPassQuiet DEF Mutex
<1>6. ASSUME NEW t \in Threads, NEW d \in SleepTimes, Sleep(t, d)
      PROVE  UNCHANGED Sem!svars /\ NoSemErrorYet'
  BY <1>6, Constants, BlockElsewhere DEF Sleep, semVars, clkVars
<1>7. ASSUME NEW t \in Threads, CallSchedule(t) \/ Return(t)
      PROVE  [Sem!Next]_Sem!svars /\ NoSemErrorYet'
  BY <1>7, SameSem, ReturnRefines
<1>8. CASE Thread
  BY <1>8, <1>4, <1>5, <1>6, <1>7, Constants DEF Thread
<1> QED BY <1>1, <1>2, <1>3, <1>8 DEF Next

\* rt_sem_take and rt_sem_release, with the scheduler, the timers and the queue
\* they work on, implement the semaphore with timeout: no wait ends both with a
\* token and with a timeout, or with neither.
THEOREM SemaphoreImplements == Spec => IsTimedSemaphore
<1>1. Init => Sem!Init /\ NoSemErrorYet
  BY DEF Init, Sem!Init, NoSemErrorYet, ToSet, Phase
<1>2. IInv /\ NoSemErrorYet /\ [Next]_vars => [Sem!Next]_Sem!svars /\ NoSemErrorYet'
  BY StepRefines DEF SemNow
<1> QED BY <1>1, <1>2, Invariance, PTL DEF Spec, Sem!Spec, IsTimedSemaphore
=============================================================================
