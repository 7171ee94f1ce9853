------------------------ MODULE MotorControl_proofs ------------------------
(***************************************************************************)
(* For every set of frames of the remote control, every encoder and every  *)
(* interleaving: the wheel speeds stay in bounds, the switch stops the     *)
(* motors within two frames, a frame of currents mixes at most two         *)
(* iterations of the loop, and the count of turns follows the rotor.       *)
(***************************************************************************)
EXTENDS MotorControl, TLAPS

LEMMA Constants ==
    /\ \A f \in Frames : f.ch \in [1..4 -> Channel] /\ f.sw1 \in 0..3
    /\ Counts \in Nat \ {0} /\ Counts = 2 * Half
    /\ Iters \in Nat \ {0} /\ MaxCount \in Nat
BY ControlAssumption DEF ControlAssumption

\* The definition Half, as integers: the encoder has an even number of counts.
LEMMA HalfTurn == Half \in Nat \ {0} /\ Counts = Half + Half
BY Constants, SMT DEF Half

LEMMA Remainder == ASSUME NEW n \in Nat \ {0}, NEW a \in Int PROVE a % n \in 0..n-1
BY SMT

-----------------------------------------------------------------------------
(* Types                                                                   *)

\* A stick in range, and what motionTask makes of it.
Stick == -StickEnd..StickEnd
Speed == -(9 * StickEnd)..9 * StickEnd

LEMMA Ends == StickEnd = 660 /\ Centre = 1024
BY SMT DEF StickEnd, Centre

\* Intervals by their bounds.
LEMMA Bounds ==
    /\ \A x : x \in Stick <=> x \in Int /\ -StickEnd <= x /\ x <= StickEnd
    /\ \A x : x \in Speed <=> x \in Int /\ -(9 * StickEnd) <= x /\ x <= 9 * StickEnd
    /\ \A x : x \in Channel <=> x \in Int /\ -Centre <= x /\ x <= Centre - 1
    /\ \A x : x \in -SpeedBound..SpeedBound
              <=> x \in Int /\ -(27 * StickEnd) <= x /\ x <= 27 * StickEnd
<1>1. StickEnd \in Int /\ Centre \in Int
  BY Ends, SMT
<1> QED BY <1>1, SMT DEF Stick, Speed, Channel, SpeedBound

LEMMA Scaled ==
    ASSUME NEW x \in Int
    PROVE  -x * 9 \in Int /\ (x \in Stick => -x * 9 \in Speed)
BY Bounds, Ends, SMT

LEMMA Updated ==
    ASSUME NEW S, NEW T, NEW g \in [S -> T], NEW a \in S, NEW b \in T
    PROVE  [g EXCEPT ![a] = b] \in [S -> T]
OBVIOUS

LEMMA RcTyped ==
    ASSUME NEW f \in Frames, RcProcess(f)
    PROVE  rcCh' \in [1..4 -> Channel] /\ rcSw1' \in 0..3
<1>1. CASE InRange(f)
  BY <1>1, Constants DEF RcProcess
<1>2. CASE ~InRange(f)
  <2>1. 0 \in Channel /\ 0 \in 0..3 /\ Wheels = 1..4
    BY Bounds, Ends, SMT DEF Wheels
  <2> QED BY <1>2, <2>1, Zenon DEF RcProcess, Still
<1> QED BY <1>1, <1>2

LEMMA MecanumTyped ==
    ASSUME NEW v \in [1..3 -> Int] PROVE Mecanum(v) \in [Wheels -> Int]
BY SMT DEF Mecanum, Clip, Wheels

LEMMA TypeInit == Init => TypeOK
<1> SUFFICES ASSUME Init PROVE TypeOK OBVIOUS
<1>1. 1 % Iters \in 0..Iters-1 /\ 0 \in 0..Iters-1 /\ 0 \in 0..Counts-1 /\ 0 \in 0..MaxCount
  BY Constants, SMT
<1>2. arg \in Seq(0..Iters-1)
  BY SMT DEF Init
<1>3. rcCh \in [1..4 -> Channel]
  <2>1. 0 \in Channel /\ Wheels = 1..4
    BY Bounds, Ends, SMT DEF Wheels
  <2> QED BY <2>1, Zenon DEF Init, Still
<1>4. Still \in [Wheels -> Int]
  BY SMT DEF Still
<1>5. [i \in 1..3 |-> 0] \in [1..3 -> Int]
  BY SMT
<1>6. [v \in 1..2 |-> 0] \in [1..2 -> 0..Iters-1]
  BY <1>1, SMT
<1>7. [w \in Wheels |-> Off] \in [Wheels -> [set : Int, it : 0..Iters-1]]
  BY <1>1, SMT DEF Off
<1>8. 0 \in 0..3 /\ 0 \in Nat /\ 0 \in Int
  OBVIOUS
<1> QED BY <1>1, <1>2, <1>3, <1>4, <1>5, <1>6, <1>7, <1>8, Zenon DEF Init, TypeOK

\* A step of motionTask keeps the types.
LEMMA TypeMotion ==
    ASSUME TypeOK, Motion PROVE TypeOK'
<1> USE DEF TypeOK, rcVars, sendVars, motoVars
<1>1. ASSUME NEW i \in 1..3, NEW here, NEW there \in {"ch2", "ch3", "yaw"},
             ReadStick(i, here, there)
      PROVE  TypeOK'
  <2>1. rcch' \in [1..3 -> Int]
    <3>1. rcCh[i] \in Int
      <4>1. i \in 1..4 /\ Channel \subseteq Int
        BY Bounds, Ends, SMT
      <4>2. rcCh \in [1..4 -> Channel]
        OBVIOUS
      <4> HIDE DEF TypeOK
      <4> QED BY <4>1, <4>2
    <3>2. -rcCh[i] * 9 \in Int
      BY <3>1, Scaled
    <3>3. rcch' = [rcch EXCEPT ![i] = -rcCh[i] * 9]
      BY <1>1 DEF ReadStick
    <3> QED BY <3>2, <3>3, Updated
  <2> QED BY <1>1, <2>1, Zenon DEF ReadStick
<1>2. ASSUME NEW v \in 1..2, NEW here, NEW there \in {"pit", "mecanum"},
             SetVoltage(v, here, there)
      PROVE  TypeOK'
  BY <1>2, Zenon DEF SetVoltage
<1>3. ASSUME SetSpeeds PROVE TypeOK'
  BY <1>3, MecanumTyped, Zenon DEF SetSpeeds
<1>4. ASSUME NEW w \in Wheels, NEW here, NEW there \in {"wheel2", "wheel3", "wheel4", "ch1"},
             SetCurrent(w, here, there)
      PROVE  TypeOK'
  <2>1. cur' \in [Wheels -> [set : Int, it : 0..Iters-1]]
    BY <1>4, SMT DEF SetCurrent
  <2>2. iter' \in 0..Iters-1
    <3>1. iter' = (iter + 1) % Iters \/ iter' = iter
      BY <1>4, Zenon DEF SetCurrent
    <3>2. iter \in 0..Iters-1
      OBVIOUS
    <3> HIDE DEF TypeOK
    <3>3. Iters \in Nat \ {0} /\ iter + 1 \in Int
      BY <3>2, Constants, SMT
    <3> QED BY <3>1, <3>2, <3>3, Remainder, Zenon
  <2> QED BY <1>4, <2>1, <2>2, Zenon DEF SetCurrent
<1>5. {1, 2, 3} \subseteq 1..3 /\ {1, 2} \subseteq 1..2 /\ {1, 2, 3, 4} \subseteq Wheels
  BY SMT DEF Wheels
<1> HIDE DEF TypeOK, rcVars, sendVars, motoVars
<1> QED BY <1>1, <1>2, <1>3, <1>4, <1>5, Zenon DEF Motion

\* So does a step of can_rx.
LEMMA TypeCanRx ==
    ASSUME TypeOK, CanRx PROVE TypeOK'
<1> USE DEF TypeOK, rcVars, loopVars, motoVars
<1> DEFINE Places == {"wait", "gate", "yaw", "pit", "sendV", "busyV", "wheel1",
                      "wheel2", "wheel3", "wheel4", "sendC", "busyC"}
<1>1. CASE Gate
  BY <1>1, Zenon DEF Gate
<1>2. ASSUME NEW v \in 1..2, NEW here, NEW there \in Places, LoadVoltage(v, here, there)
      PROVE  TypeOK'
  <2>1. arg' \in Seq(0..Iters-1)
    BY <1>2, SMT DEF LoadVoltage
  <2> QED BY <1>2, <2>1, Zenon DEF LoadVoltage
<1>3. ASSUME NEW w \in Wheels, NEW here, NEW there \in Places, LoadCurrent(w, here, there)
      PROVE  TypeOK'
  <2>1. arg' \in Seq(0..Iters-1)
    BY <1>3, SMT DEF LoadCurrent
  <2> QED BY <1>3, <2>1, Zenon DEF LoadCurrent
<1>4. ASSUME NEW here, NEW there \in Places, SendFrame(here, there) PROVE TypeOK'
  <2>1. arg' \in Seq(0..Iters-1) /\ late' \in Nat
    BY <1>4, SMT DEF SendFrame
  <2> QED BY <1>4, <2>1, Zenon DEF SendFrame
<1>5. ASSUME NEW here, NEW there \in Places, FrameGone(here, there) PROVE TypeOK'
  BY <1>5, Zenon DEF FrameGone
<1>6. {1, 2} \subseteq 1..2 /\ {1, 2, 3, 4} \subseteq Wheels
  BY SMT DEF Wheels
<1> HIDE DEF TypeOK, rcVars, loopVars, motoVars
<1> QED BY <1>1, <1>2, <1>3, <1>4, <1>5, <1>6, Zenon DEF CanRx

LEMMA TypeNext == ASSUME TypeOK, [Next]_vars PROVE TypeOK'
<1>1. CASE DbusInput
  <2>1. PICK f \in Frames : air' = <<f>> /\ RcProcess(f)
                            /\ late' = (IF rcSw1' = 1 THEN 0 ELSE late)
    BY <1>1 DEF DbusInput
  <2>2. late' \in Nat
    BY <2>1, SMT DEF TypeOK
  <2> QED BY <1>1, <2>1, <2>2, RcTyped, Zenon DEF DbusInput, TypeOK, loopVars, motoVars
<1>2. CASE Motion
  BY <1>2, TypeMotion
<1>3. CASE Feedback
  <2>1. PICK d \in -(Half-1)..Half-1 : /\ rotor + d \in 0..MaxCount
                                       /\ rotor' = rotor + d
                                       /\ angle' = (rotor + d) % Counts
    BY <1>3 DEF Feedback
  <2>2. rotor + d \in Int
    BY <2>1, Constants, SMT
  <2>3. angle' \in 0..Counts-1
    BY <2>1, <2>2, Constants, Remainder
  <2>4. roundCnt' \in Int
    BY <1>3, SMT DEF Feedback, TypeOK, Unwrap
  <2> QED BY <1>3, <2>1, <2>3, <2>4, Zenon DEF Feedback, TypeOK, rcVars, loopVars
<1>4. CASE CanRx
  BY <1>4, TypeCanRx
<1>5. CASE UNCHANGED vars
  BY <1>5, Zenon DEF TypeOK, vars, rcVars, loopVars, sendVars, motoVars
<1> QED BY <1>1, <1>2, <1>3, <1>4, <1>5 DEF Next

\* Every reachable state is well typed, whatever frames come.
THEOREM Typing == Spec => []TypeOK
BY TypeInit, TypeNext, PTL DEF Spec

-----------------------------------------------------------------------------
(* What an action leaves alone                                             *)

LEMMA InputFrame == DbusInput => UNCHANGED <<mpc, iter, rcch, spd, volt, cur, cpc, arg,
                                             rotor, angle, roundCnt, seen>>
BY Zenon DEF DbusInput, loopVars, motoVars

LEMMA MotionFrame == Motion => UNCHANGED <<air, rcCh, rcSw1, cpc, arg, late,
                                           rotor, angle, roundCnt, seen>>
BY Zenon DEF Motion, ReadStick, SetVoltage, SetSpeeds, SetCurrent, rcVars, sendVars, motoVars

LEMMA FeedbackFrame == Feedback => UNCHANGED <<air, rcCh, rcSw1, mpc, iter, rcch, spd,
                                               volt, cur, arg, late>>
BY Zenon DEF Feedback, rcVars, loopVars

LEMMA CanRxFrame == CanRx => UNCHANGED <<air, rcCh, rcSw1, mpc, iter, rcch, spd, volt, cur,
                                         rotor, angle, roundCnt, seen>>
BY Zenon DEF CanRx, Gate, LoadVoltage, LoadCurrent, SendFrame, FrameGone,
             rcVars, loopVars, motoVars

LEMMA StutterFrame == UNCHANGED vars =>
    UNCHANGED <<air, rcCh, rcSw1, mpc, iter, rcch, spd, volt, cur, cpc, arg, late,
                rotor, angle, roundCnt, seen>>
BY Zenon DEF vars, rcVars, loopVars, sendVars, motoVars

-----------------------------------------------------------------------------
(* The wheel speeds                                                        *)

\* What the bound of the speeds rests on: rc holds sticks in range only, so
\* any mixture of them makes rcch, and any mixture of those the speeds.
SticksInRange == \A c \in 1..4 : rcCh[c] \in Stick
RcchInRange   == \A i \in 1..3 : rcch[i] \in Speed
SpeedInv      == SticksInRange /\ RcchInRange /\ SpeedsBounded

\* Any signs of three sticks in range, scaled, add up to at most SpeedBound.
LEMMA ThreeSpeeds ==
    ASSUME NEW a \in Speed, NEW b \in Speed, NEW c \in Speed
    PROVE  /\ -a + b - c \in -SpeedBound..SpeedBound
           /\ -a - b - c \in -SpeedBound..SpeedBound
           /\ a - b - c \in -SpeedBound..SpeedBound
           /\ a + b - c \in -SpeedBound..SpeedBound
<1>1. /\ a \in Int /\ -(9 * StickEnd) <= a /\ a <= 9 * StickEnd
      /\ b \in Int /\ -(9 * StickEnd) <= b /\ b <= 9 * StickEnd
      /\ c \in Int /\ -(9 * StickEnd) <= c /\ c <= 9 * StickEnd
  BY Bounds, Zenon
<1> QED BY <1>1, Bounds, Ends, SMT

\* No speed in range is clipped.
LEMMA NotClipped ==
    ASSUME NEW x \in Speed PROVE Clip(x, 14000) = x /\ Clip(x, 10000) = x
BY Bounds, Ends, SMT DEF Clip

LEMMA MecanumBounded ==
    ASSUME NEW v, \A i \in 1..3 : v[i] \in Speed
    PROVE  \A w \in Wheels : Mecanum(v)[w] \in -SpeedBound..SpeedBound
<1>1. v[1] \in Speed /\ v[2] \in Speed /\ v[3] \in Speed
  BY SMT
<1>2. Clip(v[1], 14000) = v[1] /\ Clip(v[2], 14000) = v[2] /\ Clip(v[3], 10000) = v[3]
  BY <1>1, NotClipped
<1> SUFFICES ASSUME NEW w \in Wheels
             PROVE  Mecanum(v)[w] \in -SpeedBound..SpeedBound
  OBVIOUS
<1>3. w \in {1, 2, 3, 4}
  BY SMT DEF Wheels
<1>4. Mecanum(v)[w] \in {-v[1] + v[2] - v[3], -v[1] - v[2] - v[3],
                         v[1] - v[2] - v[3], v[1] + v[2] - v[3]}
  BY <1>2, <1>3, SMT DEF Mecanum
<1> QED BY <1>1, <1>4, ThreeSpeeds, Zenon

LEMMA RcInRange ==
    ASSUME NEW f \in Frames, RcProcess(f) PROVE SticksInRange'
<1>1. CASE InRange(f)
  BY <1>1, Zenon DEF RcProcess, InRange, SticksInRange, Stick
<1>2. CASE ~InRange(f)
  <2>1. 0 \in Stick /\ Wheels = 1..4
    BY Bounds, Ends, SMT DEF Wheels
  <2> QED BY <1>2, <2>1, Zenon DEF RcProcess, SticksInRange, Still
<1> QED BY <1>1, <1>2

LEMMA SpeedMotion == ASSUME TypeOK, SpeedInv, Motion PROVE RcchInRange' /\ SpeedsBounded'
<1>1. ASSUME NEW i \in 1..3, NEW here, NEW there, ReadStick(i, here, there)
      PROVE  RcchInRange' /\ SpeedsBounded'
  <2>1. i \in 1..4 /\ Stick \subseteq Int
    BY Bounds, Ends, SMT
  <2>2. -rcCh[i] * 9 \in Speed
    BY <2>1, Scaled DEF SpeedInv, SticksInRange
  <2>3. rcch' = [rcch EXCEPT ![i] = -rcCh[i] * 9] /\ rcch \in [1..3 -> Int]
        /\ UNCHANGED <<spd, cur>>
    BY <1>1, Zenon DEF ReadStick, TypeOK
  <2>4. RcchInRange'
    BY <2>2, <2>3, Zenon DEF SpeedInv, RcchInRange
  <2> QED BY <2>3, <2>4, Zenon DEF SpeedInv, SpeedsBounded
<1>2. ASSUME NEW v \in 1..2, NEW here, NEW there, SetVoltage(v, here, there)
      PROVE  RcchInRange' /\ SpeedsBounded'
  BY <1>2, Zenon DEF SetVoltage, SpeedInv, RcchInRange, SpeedsBounded
<1>3. ASSUME SetSpeeds PROVE RcchInRange' /\ SpeedsBounded'
  <2>1. \A w \in Wheels : Mecanum(rcch)[w] \in -SpeedBound..SpeedBound
    BY MecanumBounded DEF SpeedInv, RcchInRange
  <2> QED BY <1>3, <2>1, Zenon DEF SetSpeeds, SpeedInv, RcchInRange, SpeedsBounded
<1>4. ASSUME NEW w \in Wheels, NEW here, NEW there, SetCurrent(w, here, there)
      PROVE  RcchInRange' /\ SpeedsBounded'
  <2>1. cur' = [cur EXCEPT ![w] = [set |-> spd[w], it |-> iter]] /\ UNCHANGED <<spd, rcch>>
    BY <1>4, Zenon DEF SetCurrent
  <2>2. \A x \in Wheels : cur'[x].set = IF x = w THEN spd[w] ELSE cur[x].set
    BY <2>1 DEF TypeOK
  <2> QED BY <2>1, <2>2, Zenon DEF SpeedInv, RcchInRange, SpeedsBounded
<1>5. {1, 2, 3} \subseteq 1..3 /\ {1, 2} \subseteq 1..2 /\ {1, 2, 3, 4} \subseteq Wheels
  BY SMT DEF Wheels
<1> QED BY <1>1, <1>2, <1>3, <1>4, <1>5, Zenon DEF Motion

\* SpeedsBounded holds for every set of frames and every interleaving: no
\* frame, in range or not, drives a wheel speed past three sticks at their end.
THEOREM SpeedsStayBounded == Spec => []SpeedsBounded
<1>1. Init => SpeedInv
  <2>1. 0 \in Stick /\ 0 \in Speed /\ 0 \in -SpeedBound..SpeedBound
    BY Bounds, Ends, SMT
  <2>2. \A w \in Wheels : Still[w] = 0 /\ [x \in Wheels |-> Off][w].set = 0
    BY DEF Still, Off
  <2>3. \A i \in 1..3 : [k \in 1..3 |-> 0][i] = 0
    OBVIOUS
  <2>4. \A c \in 1..4 : c \in Wheels
    BY DEF Wheels
  <2> QED BY <2>1, <2>2, <2>3, <2>4, Zenon DEF Init, SpeedInv, SticksInRange, RcchInRange,
                                               SpeedsBounded
<1>2. ASSUME TypeOK, SpeedInv, [Next]_vars PROVE SpeedInv'
  <2>1. CASE DbusInput
    <3>1. SticksInRange'
      BY <2>1, RcInRange DEF DbusInput
    <3> QED BY <1>2, <2>1, <3>1, InputFrame, Zenon DEF SpeedInv, RcchInRange, SpeedsBounded
  <2>2. CASE Motion
    BY <1>2, <2>2, SpeedMotion, MotionFrame, Zenon DEF SpeedInv, SticksInRange
  <2>3. CASE Feedback
    BY <1>2, <2>3, FeedbackFrame, Zenon DEF SpeedInv, SticksInRange, RcchInRange, SpeedsBounded
  <2>4. CASE CanRx
    BY <1>2, <2>4, CanRxFrame, Zenon DEF SpeedInv, SticksInRange, RcchInRange, SpeedsBounded
  <2>5. CASE UNCHANGED vars
    BY <1>2, <2>5, StutterFrame, Zenon DEF SpeedInv, SticksInRange, RcchInRange, SpeedsBounded
  <2> QED BY <1>2, <2>1, <2>2, <2>3, <2>4, <2>5, Zenon DEF Next
<1>3. SpeedInv => SpeedsBounded
  BY DEF SpeedInv
<1> QED BY <1>1, <1>2, <1>3, Typing, PTL DEF Spec

-----------------------------------------------------------------------------
(* The switch                                                              *)

\* While the switch is on nothing is late; a pass of can_rx that found it on
\* has sent as many late frames as it has sent frames, at most.
LateInv ==
    /\ rcSw1 = 1 => late = 0
    /\ cpc \in {"yaw", "pit", "sendV"} => late = 0
    /\ cpc \in {"busyV", "wheel1", "wheel2", "wheel3", "wheel4", "sendC"} => late <= 1
    /\ StopsWithinAPair

LEMMA LateCanRx == ASSUME late \in Nat, LateInv, CanRx PROVE LateInv'
<1> USE DEF LateInv, StopsWithinAPair
<1>0. rcSw1' = rcSw1
  BY CanRxFrame
<1>1. CASE Gate
  BY <1>0, <1>1, SMT DEF Gate
<1>2. CASE SendFrame("sendV", "busyV")
  BY <1>0, <1>2, SMT DEF SendFrame
<1>3. CASE SendFrame("sendC", "busyC")
  BY <1>0, <1>3, SMT DEF SendFrame
<1>4. ASSUME NEW v, NEW here, NEW there, LoadVoltage(v, here, there),
             <<here, there>> \in {<<"yaw", "pit">>, <<"pit", "sendV">>}
      PROVE  LateInv'
  <2>1. late' = late /\ cpc = here /\ cpc' = there
    BY <1>4, Zenon DEF LoadVoltage
  <2> QED BY <1>0, <1>4, <2>1, SMT
<1>5. ASSUME NEW w, NEW here, NEW there, LoadCurrent(w, here, there),
             <<here, there>> \in {<<"wheel1", "wheel2">>, <<"wheel2", "wheel3">>,
                                  <<"wheel3", "wheel4">>, <<"wheel4", "sendC">>}
      PROVE  LateInv'
  <2>1. late' = late /\ cpc = here /\ cpc' = there
    BY <1>5, Zenon DEF LoadCurrent
  <2> QED BY <1>0, <1>5, <2>1, SMT
<1>6. ASSUME NEW here, NEW there, FrameGone(here, there),
             <<here, there>> \in {<<"busyV", "wheel1">>, <<"busyC", "wait">>}
      PROVE  LateInv'
  <2>1. late' = late /\ cpc = here /\ cpc' = there
    BY <1>6, Zenon DEF FrameGone
  <2> QED BY <1>0, <1>6, <2>1, SMT
<1> HIDE DEF LateInv, StopsWithinAPair
<1> QED BY <1>1, <1>2, <1>3, <1>4, <1>5, <1>6, Zenon DEF CanRx

\* StopsWithinAPair holds whatever the remote control sends, and whenever.
THEOREM SwitchStops == Spec => []StopsWithinAPair
<1>1. Init => LateInv
  BY SMT DEF Init, LateInv, StopsWithinAPair
<1>2. ASSUME TypeOK, LateInv, [Next]_vars PROVE LateInv'
  <2>0. late \in Nat
    BY <1>2 DEF TypeOK
  <2>1. CASE DbusInput
    <3>1. late' = (IF rcSw1' = 1 THEN 0 ELSE late) /\ cpc' = cpc
      BY <2>1, InputFrame DEF DbusInput
    <3> QED BY <1>2, <2>0, <3>1, SMT DEF LateInv, StopsWithinAPair
  <2>2. CASE Motion
    BY <1>2, <2>2, MotionFrame, SMT DEF LateInv, StopsWithinAPair
  <2>3. CASE Feedback
    <3>1. late' = late /\ rcSw1' = rcSw1 /\ cpc' = "gate"
      BY <1>2, <2>3, FeedbackFrame DEF Feedback
    <3> QED BY <1>2, <3>1, SMT DEF LateInv, StopsWithinAPair
  <2>4. CASE CanRx
    BY <1>2, <2>0, <2>4, LateCanRx
  <2>5. CASE UNCHANGED vars
    BY <1>2, <2>5, StutterFrame, SMT DEF LateInv, StopsWithinAPair
  <2> QED BY <1>2, <2>1, <2>2, <2>3, <2>4, <2>5, Zenon DEF Next
<1>3. LateInv => StopsWithinAPair
  BY DEF LateInv
<1> QED BY <1>1, <1>2, <1>3, Typing, PTL DEF Spec

-----------------------------------------------------------------------------
(* The count of turns                                                      *)

\* After a feedback the angle is the position within the turn.
AngleInv == seen => angle = rotor % Counts

\* Quotient and remainder, and a sum of that form taken apart again.
LEMMA Division ==
    ASSUME NEW n \in Nat \ {0}, NEW r \in Nat
    PROVE  r \div n \in Int /\ r = n * (r \div n) + (r % n)
BY Z3

LEMMA RemainderOfSum ==
    ASSUME NEW n \in Nat \ {0}, NEW q \in Int, NEW x \in 0..n-1
    PROVE  (n * q + x) % n = x
BY SMTT(30)

\* The remainders of two positions less than half a turn apart differ by as
\* much, or by a turn more or less.
LEMMA Neighbours ==
    ASSUME NEW r \in Nat, NEW d \in -(Half-1)..Half-1, r + d \in Nat
    PROVE  \/ (r + d) % Counts = (r % Counts) + d
           \/ (r + d) % Counts = (r % Counts) + d - Counts
           \/ (r + d) % Counts = (r % Counts) + d + Counts
<1> DEFINE n == Counts  q == r \div n  a == r % n
<1>0. n \in Nat \ {0} /\ Half \in Nat /\ n = Half + Half
  BY Constants, HalfTurn, SMT
<1> HIDE DEF n
<1>1. q \in Int /\ a \in 0..n-1 /\ r = n * q + a
  <2>1. r \in Int
    BY SMT
  <2> QED BY <1>0, <2>1, Division, Remainder, Zenon
<1> HIDE DEF q, a
<1>2. n * (q - 1) = n * q - n /\ n * (q + 1) = n * q + n /\ n * q \in Int
  BY <1>0, <1>1, SMT
<1>3. CASE a + d \in 0..n-1
  <2>1. r + d = n * q + (a + d)
    BY <1>0, <1>1, <1>2, SMT
  <2>2. (r + d) % n = a + d
    BY <1>0, <1>1, <1>3, <2>1, RemainderOfSum, Zenon
  <2> QED BY <2>2 DEF a, n
<1>4. CASE a + d < 0
  <2>1. r + d = n * (q - 1) + (a + d + n) /\ a + d + n \in 0..n-1 /\ q - 1 \in Int
    BY <1>0, <1>1, <1>2, <1>4, SMT
  <2>2. (r + d) % n = a + d + n
    BY <1>0, <2>1, RemainderOfSum, Zenon
  <2> QED BY <2>2 DEF a, n
<1>5. CASE a + d >= n
  <2>1. r + d = n * (q + 1) + (a + d - n) /\ a + d - n \in 0..n-1 /\ q + 1 \in Int
    BY <1>0, <1>1, <1>2, <1>5, SMT
  <2>2. (r + d) % n = a + d - n
    BY <1>0, <2>1, RemainderOfSum, Zenon
  <2> QED BY <2>2 DEF a, n
<1>6. a + d \in 0..n-1 \/ a + d < 0 \/ a + d >= n
  BY <1>0, <1>1, SMT
<1> QED BY <1>3, <1>4, <1>5, <1>6, Zenon

\* Unwrap corrects the turn.
LEMMA UnwrapExact ==
    ASSUME NEW h \in Nat \ {0}, Half = h, Counts = h + h, NEW d \in -(h-1)..h-1,
           NEW a \in 0..Counts-1, NEW b \in 0..Counts-1, NEW t \in Int,
           b = a + d \/ b = a + d - Counts \/ b = a + d + Counts
    PROVE  (Unwrap(b, a, t) * Counts + b) - (t * Counts + a) = d
<1>1. (t + 1) * Counts = t * Counts + Counts /\ (t - 1) * Counts = t * Counts - Counts
      /\ t * Counts \in Int
  BY SMT
<1>2. CASE b = a + d
  <2>1. Unwrap(b, a, t) = t
    BY <1>2, SMT DEF Unwrap
  <2> QED BY <1>1, <1>2, <2>1, SMT
<1>3. CASE b = a + d - Counts
  <2>1. Unwrap(b, a, t) = t + 1
    BY <1>3, SMT DEF Unwrap
  <2> QED BY <1>1, <1>3, <2>1, SMT
<1>4. CASE b = a + d + Counts
  <2>1. Unwrap(b, a, t) = t - 1
    BY <1>4, SMT DEF Unwrap
  <2> QED BY <1>1, <1>4, <2>1, SMT
<1> QED BY <1>2, <1>3, <1>4

\* AngleTracks holds for every encoder with an even number of counts.
THEOREM TurnsTracked == Spec => AngleTracks
<1>1. Init => AngleInv
  BY DEF Init, AngleInv
<1>2. TypeOK /\ AngleInv /\ [Next]_vars => AngleInv'
  <2> SUFFICES ASSUME AngleInv, [Next]_vars PROVE AngleInv'
    OBVIOUS
  <2>1. CASE Feedback
    BY <2>1, Zenon DEF Feedback, AngleInv
  <2>2. CASE ~Feedback
    <3>1. UNCHANGED <<seen, angle, rotor>>
      BY <2>2, InputFrame, MotionFrame, CanRxFrame, StutterFrame, Zenon DEF Next
    <3> QED BY <3>1 DEF AngleInv
  <2> QED BY <2>1, <2>2
<1>3. TypeOK /\ AngleInv /\ [Next]_vars
        => [Feedback /\ seen => Total' - Total = rotor' - rotor]_vars
  <2> SUFFICES ASSUME TypeOK, AngleInv, Feedback, seen
               PROVE  Total' - Total = rotor' - rotor
    OBVIOUS
  <2>1. PICK d \in -(Half-1)..Half-1 : /\ rotor + d \in 0..MaxCount
                                       /\ rotor' = rotor + d
                                       /\ angle' = (rotor + d) % Counts
    BY DEF Feedback
  <2>2. angle = rotor % Counts
    BY DEF AngleInv
  <2>3. rotor \in Nat /\ angle \in 0..Counts-1 /\ roundCnt \in Int
    <3>1. rotor \in 0..MaxCount /\ angle \in 0..Counts-1 /\ roundCnt \in Int
      BY Zenon DEF TypeOK
    <3> QED BY <3>1, Constants, SMT
  <2>4. d \in Int /\ rotor + d \in Nat
    BY <2>1, <2>3, Constants, HalfTurn, SMT
  <2>5. angle' = angle + d \/ angle' = angle + d - Counts \/ angle' = angle + d + Counts
    BY <2>1, <2>2, <2>3, <2>4, Neighbours, Zenon
  <2>6. angle' \in 0..Counts-1
    <3>1. rotor + d \in Int
      BY <2>4, SMT
    <3> QED BY <2>1, <3>1, Constants, Remainder
  <2>7. (Unwrap(angle', angle, roundCnt) * Counts + angle') - (roundCnt * Counts + angle) = d
    BY <2>1, <2>3, <2>5, <2>6, HalfTurn, UnwrapExact
  <2>8. Total' - Total = d
    BY <2>7, Zenon DEF Feedback, Total
  <2>9. rotor' - rotor = d
    BY <2>1, <2>3, <2>4, SMT
  <2> QED BY <2>8, <2>9
<1> QED BY <1>1, <1>2, <1>3, Typing, PTL DEF Spec, AngleTracks

-----------------------------------------------------------------------------
(* The iterations of a frame                                               *)

\* How many wheels the iteration under way has set, how many can_rx has read.
Set    == CASE mpc = "wheel2" -> 1 [] mpc = "wheel3" -> 2 [] mpc = "wheel4" -> 3
            [] OTHER -> 0
Loaded == CASE cpc = "wheel2" -> 1 [] cpc = "wheel3" -> 2 [] cpc = "wheel4" -> 3
            [] cpc = "sendC" -> 4 [] OTHER -> 0

\* The wheels set so far are of this iteration, the others of the last one.
SetInv ==
    \E k \in 0..Iters-1 :
        /\ iter = (k + 1) % Iters
        /\ \A w \in Wheels : cur[w].it = IF w <= Set THEN iter ELSE k

\* While can_rx loads the currents they do not move.
Loading == cpc \in {"busyV", "wheel1", "wheel2", "wheel3", "wheel4", "sendC"}
LoadInv ==
    Loading => /\ Len(arg) = Loaded
               /\ \A w \in Wheels : w <= Loaded => arg[w] = cur[w].it

\* motionTask sets one wheel more.
LEMMA SetStep ==
    ASSUME TypeOK, SetInv, NEW w \in Wheels, NEW here, NEW there,
           SetCurrent(w, here, there), Set = w - 1,
           Set' = IF w = 4 THEN 0 ELSE w
    PROVE  SetInv'
<1>1. PICK k \in 0..Iters-1 :
        /\ iter = (k + 1) % Iters
        /\ \A x \in Wheels : cur[x].it = IF x <= Set THEN iter ELSE k
  BY DEF SetInv
<1>2. \A x \in Wheels : cur'[x].it = IF x = w THEN iter ELSE cur[x].it
  BY DEF SetCurrent, TypeOK
<1>3. \A x \in Wheels : cur'[x].it = IF x <= w THEN iter ELSE k
  BY <1>1, <1>2, SMT DEF Wheels
<1>4. CASE w = 4
  <2>1. iter' = (iter + 1) % Iters /\ iter \in 0..Iters-1
    BY <1>4 DEF SetCurrent, TypeOK
  <2>2. \A x \in Wheels : cur'[x].it = IF x <= Set' THEN iter' ELSE iter
    BY <1>3, <1>4, SMT DEF Wheels
  <2> QED BY <2>1, <2>2 DEF SetInv
<1>5. CASE w # 4
  <2>1. iter' = iter /\ Set' = w
    BY <1>5 DEF SetCurrent
  <2>2. \A x \in Wheels : cur'[x].it = IF x <= Set' THEN iter' ELSE k
    BY <1>3, <2>1
  <2> QED BY <1>1, <2>1, <2>2 DEF SetInv
<1> QED BY <1>4, <1>5

\* can_rx loads one current more.
LEMMA LoadStep ==
    ASSUME TypeOK, LoadInv, NEW w \in Wheels, NEW here, NEW there,
           LoadCurrent(w, here, there), Loading, Loaded = w - 1, Loaded' = w
    PROVE  LoadInv'
<1>1. arg' = Append(arg, cur[w].it) /\ arg \in Seq(0..Iters-1)
      /\ cur[w].it \in 0..Iters-1 /\ cur' = cur
  BY Zenon DEF LoadCurrent, TypeOK, loopVars
<1>2. Len(arg) = w - 1 /\ \A x \in Wheels : x <= w - 1 => arg[x] = cur[x].it
  BY DEF LoadInv
<1>3. Len(arg') = w /\ arg'[w] = cur[w].it /\ \A x \in 1..Len(arg) : arg'[x] = arg[x]
  BY <1>1, <1>2, SMT DEF Wheels
<1>4. \A x \in Wheels : x <= w => arg'[x] = cur'[x].it
  BY <1>1, <1>2, <1>3, SMT DEF Wheels
<1> QED BY <1>3, <1>4 DEF LoadInv

LEMMA SetMotion == ASSUME TypeOK, SetInv, Motion PROVE SetInv'
<1>1. ASSUME UNCHANGED <<iter, cur>>, Set' = Set PROVE SetInv'
  BY <1>1 DEF SetInv
<1>2. ASSUME NEW i, NEW here, NEW there, ReadStick(i, here, there),
             <<here, there>> \in {<<"ch1", "ch2">>, <<"ch2", "ch3">>, <<"ch3", "yaw">>}
      PROVE  SetInv'
  <2>1. UNCHANGED <<iter, cur>> /\ mpc = here /\ mpc' = there
    BY <1>2, Zenon DEF ReadStick
  <2>2. Set' = Set
    BY <1>2, <2>1, SMT DEF Set
  <2> QED BY <1>1, <2>1, <2>2
<1>3. ASSUME NEW v, NEW here, NEW there, SetVoltage(v, here, there),
             <<here, there>> \in {<<"yaw", "pit">>, <<"pit", "mecanum">>}
      PROVE  SetInv'
  <2>1. UNCHANGED <<iter, cur>> /\ mpc = here /\ mpc' = there
    BY <1>3, Zenon DEF SetVoltage
  <2>2. Set' = Set
    BY <1>3, <2>1, SMT DEF Set
  <2> QED BY <1>1, <2>1, <2>2
<1>4. CASE SetSpeeds
  <2>1. UNCHANGED <<iter, cur>> /\ mpc = "mecanum" /\ mpc' = "wheel1"
    BY <1>4, Zenon DEF SetSpeeds
  <2>2. Set' = Set
    BY <2>1, SMT DEF Set
  <2> QED BY <1>1, <2>1, <2>2
<1>5. ASSUME NEW w, NEW here, NEW there, SetCurrent(w, here, there),
             <<w, here, there>> \in {<<1, "wheel1", "wheel2">>, <<2, "wheel2", "wheel3">>,
                                     <<3, "wheel3", "wheel4">>, <<4, "wheel4", "ch1">>}
      PROVE  SetInv'
  <2>1. mpc = here /\ mpc' = there
    BY <1>5, Zenon DEF SetCurrent
  <2>2. w \in Wheels /\ Set = w - 1 /\ Set' = IF w = 4 THEN 0 ELSE w
    BY <1>5, <2>1, SMT DEF Set, Wheels
  <2> QED BY <1>5, <2>2, SetStep
<1> QED BY <1>2, <1>3, <1>4, <1>5, Zenon DEF Motion

LEMMA LoadCanRx == ASSUME TypeOK, LoadInv, CanRx PROVE LoadInv'
<1>0. cur' = cur
  BY CanRxFrame
<1>1. CASE Gate
  BY <1>1, SMT DEF Gate, LoadInv, Loading
<1>2. ASSUME NEW v, NEW here, NEW there, LoadVoltage(v, here, there),
             <<here, there>> \in {<<"yaw", "pit">>, <<"pit", "sendV">>}
      PROVE  LoadInv'
  <2>1. cpc' = there
    BY <1>2, Zenon DEF LoadVoltage
  <2> QED BY <1>2, <2>1, SMT DEF LoadInv, Loading
<1>3. CASE SendFrame("sendV", "busyV")
  <2>1. cpc' = "busyV" /\ arg' = <<>>
    BY <1>3, Zenon DEF SendFrame
  <2> QED BY <2>1, SMT DEF LoadInv, Loaded, Wheels
<1>4. CASE SendFrame("sendC", "busyC")
  BY <1>4, SMT DEF SendFrame, LoadInv, Loading
<1>5. CASE FrameGone("busyV", "wheel1")
  <2>1. cpc = "busyV" /\ cpc' = "wheel1" /\ arg' = arg
    BY <1>5, Zenon DEF FrameGone
  <2>2. Loading /\ Loaded = 0 /\ Loaded' = 0
    BY <2>1, SMT DEF Loading, Loaded
  <2> QED BY <1>0, <2>1, <2>2, Zenon DEF LoadInv
<1>6. CASE FrameGone("busyC", "wait")
  BY <1>6, SMT DEF FrameGone, LoadInv, Loading
<1>7. ASSUME NEW w, NEW here, NEW there, LoadCurrent(w, here, there),
             <<w, here, there>> \in {<<1, "wheel1", "wheel2">>, <<2, "wheel2", "wheel3">>,
                                     <<3, "wheel3", "wheel4">>, <<4, "wheel4", "sendC">>}
      PROVE  LoadInv'
  <2>1. cpc = here /\ cpc' = there
    BY <1>7, Zenon DEF LoadCurrent
  <2>2. w \in Wheels /\ Loading /\ Loaded = w - 1 /\ Loaded' = w
    BY <1>7, <2>1, SMT DEF Loading, Loaded, Wheels
  <2> QED BY <1>7, <2>2, LoadStep
<1> QED BY <1>1, <1>2, <1>3, <1>4, <1>5, <1>6, <1>7, Zenon DEF CanRx

\* CommandSkew holds: a frame of currents is of one iteration of the loop, or
\* its first wheels of one and the rest of the iteration before.
THEOREM FramesOfOneIteration == Spec => []CommandSkew
<1>1. Init => SetInv /\ LoadInv
  <2> SUFFICES ASSUME Init PROVE SetInv /\ LoadInv
    OBVIOUS
  <2>1. SetInv
    <3>1. 0 \in 0..Iters-1 /\ iter = (0 + 1) % Iters
      BY Constants, SMT DEF Init
    <3>2. Set = 0
      BY SMT DEF Init, Set
    <3>3. \A w \in Wheels : cur[w].it = 0 /\ ~(w <= 0)
      BY SMT DEF Init, Off, Wheels
    <3> QED BY <3>1, <3>2, <3>3 DEF SetInv
  <2>2. ~Loading
    BY DEF Init, Loading
  <2> QED BY <2>1, <2>2 DEF LoadInv
<1>2. ASSUME TypeOK, SetInv, LoadInv, [Next]_vars PROVE SetInv' /\ LoadInv'
  <2>1. CASE DbusInput
    BY <1>2, <2>1, InputFrame, Zenon DEF SetInv, LoadInv, Set, Loaded, Loading
  <2>2. CASE Motion
    <3>1. MotionRuns
      BY <2>2, Zenon DEF Motion, ReadStick, SetVoltage, SetSpeeds, SetCurrent
    <3>2. Loaded' = Loaded /\ Loaded = 0 /\ Loading' = Loading /\ arg' = arg
      BY <2>2, <3>1, MotionFrame, SMT DEF Loaded, Loading, MotionRuns
    <3>3. LoadInv'
      BY <1>2, <3>2, SMT DEF LoadInv, Wheels
    <3> QED BY <1>2, <2>2, <3>3, SetMotion
  <2>3. CASE Feedback
    <3>1. cpc' = "gate"
      BY <2>3 DEF Feedback
    <3>2. LoadInv'
      BY <3>1 DEF LoadInv, Loading
    <3> QED BY <1>2, <2>3, <3>2, FeedbackFrame, Zenon DEF SetInv, Set
  <2>4. CASE CanRx
    <3>1. SetInv'
      BY <1>2, <2>4, CanRxFrame, Zenon DEF SetInv, Set
    <3> QED BY <1>2, <2>4, <3>1, LoadCanRx
  <2>5. CASE UNCHANGED vars
    BY <1>2, <2>5, StutterFrame, Zenon DEF SetInv, LoadInv, Set, Loaded, Loading
  <2> QED BY <1>2, <2>1, <2>2, <2>3, <2>4, <2>5, Zenon DEF Next
<1>3. ASSUME SetInv, LoadInv PROVE CommandSkew
  <2> SUFFICES ASSUME cpc = "sendC"
               PROVE  \E j \in 0..4, k \in 0..Iters-1 :
                        \A w \in Wheels : arg[w] = IF w <= j THEN (k + 1) % Iters ELSE k
    BY DEF CommandSkew
  <2>1. Loading /\ Loaded = 4
    BY SMT DEF Loading, Loaded
  <2>2. \A w \in Wheels : arg[w] = cur[w].it
    BY <1>3, <2>1, SMT DEF LoadInv, Wheels
  <2>3. Set \in 0..4
    BY SMT DEF Set
  <2>4. PICK k \in 0..Iters-1 : \A w \in Wheels : arg[w] = IF w <= Set THEN (k + 1) % Iters
                                                                  ELSE k
    BY <1>3, <2>2 DEF SetInv
  <2> HIDE DEF Set
  <2> QED BY <2>3, <2>4
<1> QED BY <1>1, <1>2, <1>3, Typing, PTL DEF Spec
=============================================================================
