--------------------------- MODULE MotorControl ---------------------------
(***************************************************************************)
(* The control loop of the robot.  The USART interrupt decodes frames of   *)
(* the remote control into rc (RC_Process); the thread motionTask turns rc *)
(* into wheel speeds and motor commands over and over; the thread can_rx,  *)
(* of higher priority, takes the feedback of a motor and, when the switch  *)
(* sw1 is at 1, sends the commands of the moment in two CAN frames.        *)
(*                                                                         *)
(* The output of a PID controller stands for what it was computed from:    *)
(* the set point and the iteration of the loop.  A channel keeps its       *)
(* number, since wheel speeds are sums of channels in 16 bits.  One motor  *)
(* stands for all: the others have their own record and nothing in common. *)
(***************************************************************************)
EXTENDS Integers, Sequences

CONSTANTS
    Frames,     \* frames of the remote control, channels less 1024
    Counts,     \* encoder counts of a turn of the rotor (8192)
    Iters,      \* bound: iterations of the loop are numbered modulo Iters
    MaxCount    \* bound: the rotor stays between 0 and this many counts

Centre   == 1024             \* what a released stick sends
Channel  == -Centre..Centre-1    \* 11 bits less the centre
StickEnd == 660              \* a stick at its end
Wheels  == 1..4
Half    == Counts \div 2

ASSUME ControlAssumption ==
    /\ Frames \subseteq [ch : [1..4 -> Channel], sw1 : 0..3]
    /\ Counts \in Nat \ {0} /\ Counts = 2 * Half
    /\ Iters \in Nat \ {0}
    /\ MaxCount \in Nat

VARIABLES
    air,        \* the frame the remote control sent last, <<>> before the first
    rcCh, rcSw1,               \* rc.ch1 .. rc.ch4, rc.sw1
    mpc, iter,                 \* where motionTask is, number of its iteration
    rcch,                      \* rcch[0..2]
    spd,                       \* set_spd_macnum
    volt, cur,                 \* voltage_yaw and voltage_pit; current_macnum
    cpc, arg,                  \* where can_rx is, the iterations its arguments
                               \* come from
    late,                      \* history: frames can_rx sent since sw1 left 1
    rotor,                     \* history: true position of the rotor, in counts
    angle, roundCnt, seen      \* of moto_measure_t; a feedback has come

rcVars   == <<air, rcCh, rcSw1>>
loopVars == <<mpc, iter, rcch, spd, volt, cur>>
sendVars == <<cpc, arg, late>>
motoVars == <<rotor, angle, roundCnt, seen>>
vars == <<rcVars, loopVars, sendVars, motoVars>>

Still == [w \in Wheels |-> 0]
Off   == [set |-> 0, it |-> 0]

Init ==
    /\ air = <<>>
    /\ rcCh = Still /\ rcSw1 = 0
    /\ mpc = "ch1" /\ iter = 1 % Iters
    /\ rcch = [i \in 1..3 |-> 0] /\ spd = Still
    /\ volt = [v \in 1..2 |-> 0] /\ cur = [w \in Wheels |-> Off]
    /\ cpc = "wait" /\ arg = <<>> /\ late = 0
    /\ rotor = 0
    /\ angle = 0 /\ roundCnt = 0 /\ seen = FALSE

-----------------------------------------------------------------------------
(* The interrupt of the remote control                                     *)

InRange(f) == \A c \in 1..4 : f.ch[c] \in -StickEnd..StickEnd

\* Mistaken forms of RcProcess: channels not centred, no check, and a check
\* that keeps the old rc.
RcProcessUncentred(f) == rcCh' = [c \in 1..4 |-> f.ch[c] + Centre] /\ rcSw1' = f.sw1
RcProcessUnchecked(f) == rcCh' = f.ch /\ rcSw1' = f.sw1
RcProcessKeeps(f) ==
    IF InRange(f) THEN rcCh' = f.ch /\ rcSw1' = f.sw1 ELSE UNCHANGED <<rcCh, rcSw1>>

\* RC_Process: a channel out of range clears all of rc, the switch too.
RcProcess(f) ==
    IF InRange(f) THEN rcCh' = f.ch /\ rcSw1' = f.sw1
                  ELSE rcCh' = Still /\ rcSw1' = 0

\* dbus_input, in the interrupt: no thread sees rc half written.
DbusInput ==
    \E f \in Frames :
        /\ air' = <<f>>
        /\ RcProcess(f)
        /\ late' = IF rcSw1' = 1 THEN 0 ELSE late
        /\ UNCHANGED <<loopVars, cpc, arg, motoVars>>

-----------------------------------------------------------------------------
(* motionTask_entry.  It shares nothing it writes with a thread above it   *)
(* except the commands; every read of rc is a step of its own.             *)

\* can_rx at the same priority as motionTask: the two take turns.
MotionRunsAlways == TRUE

\* motionTask runs while can_rx waits for a token or for its frame to leave.
MotionRuns == cpc \in {"wait", "busyV", "busyC"}

Clip(x, bound) == IF x > bound THEN bound ELSE IF x < -bound THEN -bound ELSE x

\* Mecanum_calc, CHASSIS_OLD; the limit to each_max_spd is commented out.
Mecanum(v) ==
    LET vx == Clip(v[1], 14000)
        vy == Clip(v[2], 14000)
        om == Clip(v[3], 10000)
    IN  [w \in Wheels |->
           CASE w = 1 -> -vx + vy - om
             [] w = 2 -> -vx - vy - om
             [] w = 3 -> vx - vy - om
             [] w = 4 -> vx + vy - om]

\* rcch[i] = -rc.ch * 9.0
ReadStick(i, here, there) ==
    /\ MotionRuns /\ mpc = here
    /\ rcch' = [rcch EXCEPT ![i] = -rcCh[i] * 9]
    /\ mpc' = there
    /\ UNCHANGED <<rcVars, iter, spd, volt, cur, sendVars, motoVars>>

\* voltage_yaw and voltage_pit, PID of an angle and a channel
SetVoltage(v, here, there) ==
    /\ MotionRuns /\ mpc = here
    /\ volt' = [volt EXCEPT ![v] = iter]
    /\ mpc' = there
    /\ UNCHANGED <<rcVars, iter, rcch, spd, cur, sendVars, motoVars>>

SetSpeeds ==
    /\ MotionRuns /\ mpc = "mecanum"
    /\ spd' = Mecanum(rcch)
    /\ mpc' = "wheel1"
    /\ UNCHANGED <<rcVars, iter, rcch, volt, cur, sendVars, motoVars>>

\* current_macnum[w] = pid_calc(...)
SetCurrent(w, here, there) ==
    /\ MotionRuns /\ mpc = here
    /\ cur' = [cur EXCEPT ![w] = [set |-> spd[w], it |-> iter]]
    /\ mpc' = there
    /\ iter' = IF w = 4 THEN (iter + 1) % Iters ELSE iter
    /\ UNCHANGED <<rcVars, rcch, spd, volt, sendVars, motoVars>>

Motion ==
    \/ ReadStick(1, "ch1", "ch2") \/ ReadStick(2, "ch2", "ch3")
    \/ ReadStick(3, "ch3", "yaw")
    \/ SetVoltage(1, "yaw", "pit") \/ SetVoltage(2, "pit", "mecanum")
    \/ SetSpeeds
    \/ SetCurrent(1, "wheel1", "wheel2") \/ SetCurrent(2, "wheel2", "wheel3")
    \/ SetCurrent(3, "wheel3", "wheel4") \/ SetCurrent(4, "wheel4", "ch1")

-----------------------------------------------------------------------------
(* can_rx_thread                                                           *)

\* A count of turns that misses those in one direction.
UnwrapOneWay(now, before, turns) ==
    IF now - before > Half THEN turns - 1 ELSE turns

\* get_moto_measure, its count of turns
Unwrap(now, before, turns) ==
    IF now - before > Half THEN turns - 1
    ELSE IF now - before < -Half THEN turns + 1 ELSE turns

\* A feedback frame is read: the rotor turned by less than half a turn since
\* the one before.
Feedback ==
    /\ cpc = "wait"
    /\ \E d \in -(Half-1)..Half-1 :
         /\ rotor + d \in 0..MaxCount
         /\ rotor' = rotor + d
         /\ angle' = (rotor + d) % Counts
    /\ roundCnt' = Unwrap(angle', angle, roundCnt)
    /\ seen' = TRUE
    /\ cpc' = "gate"
    /\ UNCHANGED <<rcVars, loopVars, arg, late>>

\* A switch that is not asked.
GateOpen ==
    /\ cpc = "gate"
    /\ cpc' = "yaw"
    /\ UNCHANGED <<rcVars, loopVars, arg, late, motoVars>>

\* switch(rc.sw1)
Gate ==
    /\ cpc = "gate"
    /\ cpc' = IF rcSw1 = 1 THEN "yaw" ELSE "wait"
    /\ UNCHANGED <<rcVars, loopVars, arg, late, motoVars>>

\* The arguments of set_motor_voltage and set_motor_current, read one by one
\* (C leaves their order open; nothing writes them meanwhile).
LoadVoltage(v, here, there) ==
    /\ cpc = here
    /\ arg' = Append(arg, volt[v])
    /\ cpc' = there
    /\ UNCHANGED <<rcVars, loopVars, late, motoVars>>

LoadCurrent(w, here, there) ==
    /\ cpc = here
    /\ arg' = Append(arg, cur[w].it)
    /\ cpc' = there
    /\ UNCHANGED <<rcVars, loopVars, late, motoVars>>

\* rt_device_write: the frame goes to the driver and the thread sleeps.
SendFrame(here, there) ==
    /\ cpc = here
    /\ late' = IF rcSw1 = 1 THEN 0 ELSE late + 1
    /\ arg' = <<>>
    /\ cpc' = there
    /\ UNCHANGED <<rcVars, loopVars, motoVars>>

\* The frame has left, or has failed: the call returns.
FrameGone(here, there) ==
    /\ cpc = here
    /\ cpc' = there
    /\ UNCHANGED <<rcVars, loopVars, arg, late, motoVars>>

CanRx ==
    \/ Gate
    \/ LoadVoltage(1, "yaw", "pit") \/ LoadVoltage(2, "pit", "sendV")
    \/ SendFrame("sendV", "busyV") \/ FrameGone("busyV", "wheel1")
    \/ LoadCurrent(1, "wheel1", "wheel2") \/ LoadCurrent(2, "wheel2", "wheel3")
    \/ LoadCurrent(3, "wheel3", "wheel4") \/ LoadCurrent(4, "wheel4", "sendC")
    \/ SendFrame("sendC", "busyC") \/ FrameGone("busyC", "wait")

Next == DbusInput \/ Motion \/ Feedback \/ CanRx

\* can_rx is scheduled first and its frames leave the bus.  Between any two
\* of them it sleeps for the time of a frame, in which motionTask goes on.
Spec == Init /\ [][Next]_vars /\ WF_vars(CanRx) /\ SF_vars(Motion)

-----------------------------------------------------------------------------
(* Properties                                                              *)

\* Types of the variables.
TypeOK ==
    /\ air = <<>> \/ \E f \in Frames : air = <<f>>
    /\ rcCh \in [1..4 -> Channel] /\ rcSw1 \in 0..3
    /\ mpc \in {"ch1", "ch2", "ch3", "yaw", "pit", "mecanum",
               "wheel1", "wheel2", "wheel3", "wheel4"}
    /\ iter \in 0..Iters-1
    /\ rcch \in [1..3 -> Int] /\ spd \in [Wheels -> Int]
    /\ volt \in [1..2 -> 0..Iters-1]
    /\ cur \in [Wheels -> [set : Int, it : 0..Iters-1]]
    /\ cpc \in {"wait", "gate", "yaw", "pit", "sendV", "busyV", "wheel1", "wheel2",
               "wheel3", "wheel4", "sendC", "busyC"}
    /\ arg \in Seq(0..Iters-1) /\ late \in Nat
    /\ rotor \in 0..MaxCount /\ angle \in 0..Counts-1 /\ roundCnt \in Int /\ seen \in BOOLEAN

\* Whatever frames the remote control sends, and however the loop's reads of
\* rc fall between them, every wheel speed stays within what sticks in range
\* ask for (3 channels of 660, times 9), far inside the 16 bits of
\* set_spd_macnum, and so does what every motor command was computed from.
SpeedBound == 3 * 9 * StickEnd
SpeedsBounded ==
    \A w \in Wheels : /\ spd[w] \in -SpeedBound..SpeedBound
                      /\ cur[w].set \in -SpeedBound..SpeedBound

\* The four currents of a frame come from one iteration of the loop, or the
\* first of them from one iteration and the others from the one before: no
\* frame mixes more, because motionTask cannot run while can_rx loads them.
CommandSkew ==
    cpc = "sendC" =>
        \E j \in 0..4, k \in 0..Iters-1 :
            \A w \in Wheels : arg[w] = IF w <= j THEN (k + 1) % Iters ELSE k

\* Once the switch is off the motors get at most the two frames under way.
StopsWithinAPair == late <= 2

\* If the remote control holds its frame, the commands end up following it:
\* those of its sticks, or standing still when a channel is out of range.
Asked(f) == [i \in 1..3 |-> IF InRange(f) THEN -f.ch[i] * 9 ELSE 0]
FollowsSticks ==
    \A f \in Frames :
        <>[](air = <<f>>) =>
        <>[](\A w \in Wheels : cur[w].set = Mecanum(Asked(f))[w])

\* From the first feedback on, round_cnt * 8192 + angle moves as the rotor.
Total == roundCnt * Counts + angle
AngleTracks == [][Feedback /\ seen => Total' - Total = rotor' - rotor]_vars
=============================================================================
