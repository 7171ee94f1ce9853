------------------------------- MODULE CanTx -------------------------------
(***************************************************************************)
(* Transmission of CAN frames: the threads in _can_int_tx, the send boxes  *)
(* with their completions, the mailboxes of the controller, its transmit   *)
(* interrupt and its status-change interrupt.                              *)
(*                                                                         *)
(* Send box b uses mailbox b.  Frames are told apart by their sender.  The *)
(* two handlers have one priority and do not interrupt each other; the     *)
(* transmit handler is one action, the status-change handler is cut where  *)
(* it reads a register the controller may have changed meanwhile.  The     *)
(* controller goes on while handlers and threads run.                      *)
(***************************************************************************)
EXTENDS Integers, Sequences, FiniteSets

CONSTANTS
    Senders,     \* threads that write to the device
    BoxNum,      \* config.sndboxnumber (1; the controller has 3 mailboxes)
    ErrorKinds   \* bus errors that may hit a frame: "ack", "other"

None  == "none"

ASSUME TxAssumption ==
    /\ IsFiniteSet(Senders) /\ None \notin Senders
    /\ BoxNum \in 1..3
    /\ ErrorKinds \subseteq {"ack", "other"}

Boxes == 0..BoxNum-1

VARIABLES
    mail,      \* sender whose frame the mailbox holds, None when TMEx is set
    failing,   \* boxes whose frame was hit by an error and is being given up
    rqcp,      \* boxes with RQCPx set
    txok,      \* boxes with TXOKx set
    lec,       \* last error code, with its interrupt flag ERRI
    fate,      \* what became of the last frame of a box
    state,     \* hcan->State
    isr,       \* the status-change handler: "off", "hal" or "switch"
    errtype,   \* its copy of the last error code
    freelist,  \* tx_fifo->freelist
    result,    \* buffer[no].result
    done,      \* boxes whose completion flag is RT_COMPLETED
    sem, semQ, \* tx_fifo->sem: its value, its suspended threads
    pc, box, res   \* of each sender

hwVars  == <<mail, failing, rqcp, txok, lec, fate>>
isrVars == <<isr, errtype>>
boxVars == <<freelist, result, done>>
semVars == <<sem, semQ>>
thrVars == <<pc, box, res>>
vars == <<hwVars, state, isrVars, boxVars, semVars, thrVars>>

Init ==
    /\ mail = [b \in Boxes |-> None]
    /\ failing = {} /\ rqcp = {} /\ txok = {} /\ lec = None
    /\ fate = [b \in Boxes |-> None]
    /\ state = "ready"
    /\ isr = "off" /\ errtype = None
    /\ freelist = [i \in 1..BoxNum |-> i - 1]
    /\ result = [b \in Boxes |-> "ok"]
    /\ done = {}
    /\ sem = BoxNum /\ semQ = <<>>
    /\ pc = [s \in Senders |-> "idle"]
    /\ box = [s \in Senders |-> 0]
    /\ res = [s \in Senders |-> None]

-----------------------------------------------------------------------------
(* The controller; it does not retransmit (AutoRetransmission = DISABLE)   *)

\* The request of mailbox b is complete: RQCPx, and TXOKx for a frame sent.
Complete(b, outcome) ==
    /\ mail' = [mail EXCEPT ![b] = None]
    /\ failing' = failing \ {b}
    /\ rqcp' = rqcp \cup {b}
    /\ txok' = IF outcome = "ok" THEN txok \cup {b} ELSE txok \ {b}
    /\ fate' = [fate EXCEPT ![b] = outcome]

BusFree == failing = {}

\* The frame is sent, or it lost the arbitration.
BusEnd(b) ==
    /\ mail[b] # None /\ BusFree
    /\ \E outcome \in {"ok", "lost"} : Complete(b, outcome)
    /\ UNCHANGED <<lec, state, isrVars, boxVars, semVars, thrVars>>

\* An error hits the frame; the error code and the completed request may
\* become visible together or one after the other.
BusError(b) ==
    /\ mail[b] # None /\ BusFree
    /\ \E k \in ErrorKinds : lec' = k
    /\ \/ Complete(b, "lost")
       \/ failing' = {b} /\ UNCHANGED <<mail, rqcp, txok, fate>>
    /\ UNCHANGED <<state, isrVars, boxVars, semVars, thrVars>>

ErrorEnd(b) ==
    /\ b \in failing
    /\ Complete(b, "lost")
    /\ UNCHANGED <<lec, state, isrVars, boxVars, semVars, thrVars>>

-----------------------------------------------------------------------------
(* The interrupts                                                          *)

\* A completion that resumes its waiter without leaving the flag set.
CompletionDoneUnset(b) ==
    /\ done' = done
    /\ pc' = [s \in Senders |->
                IF pc[s] = "asleep" /\ box[s] = b THEN "woken" ELSE pc[s]]

\* rt_completion_done: nothing if the flag is set already.
CompletionDone(b) ==
    IF b \in done THEN UNCHANGED <<done, pc>>
    ELSE /\ done' = done \cup {b}
         /\ pc' = [s \in Senders |->
                     IF pc[s] = "asleep" /\ box[s] = b THEN "woken" ELSE pc[s]]

\* A handler that tells a failure as a success.
HwCanIsrAlwaysOk(b, outcome) ==
    /\ result' = [result EXCEPT ![b] = "ok"]
    /\ CompletionDone(b)

\* rt_hw_can_isr for RT_CAN_EVENT_TX_DONE and RT_CAN_EVENT_TX_FAIL
HwCanIsr(b, outcome) ==
    /\ result' = [result EXCEPT ![b] = outcome]
    /\ CompletionDone(b)

\* CAN1_TX_IRQHandler: the first mailbox with RQCPx set.  SET_BIT reads the
\* register and writes back every request bit it found set, and a request
\* bit is cleared, with its TXOKx, by writing one.
TxIsr ==
    /\ isr = "off" /\ rqcp # {}
    /\ LET b == CHOOSE x \in rqcp : \A y \in rqcp : x <= y
       IN  HwCanIsr(b, IF b \in txok THEN "ok" ELSE "err")
    /\ rqcp' = {} /\ txok' = {}
    /\ UNCHANGED <<mail, failing, lec, fate, state, isrVars, freelist, semVars,
                   box, res>>

\* CAN1_SCE_IRQHandler reads the error status.  A transmit interrupt that is
\* pending as well goes first: its number is lower.
SceEnter ==
    /\ isr = "off" /\ lec # None /\ rqcp = {}
    /\ errtype' = lec
    /\ isr' = "hal"
    /\ UNCHANGED <<hwVars, state, boxVars, semVars, thrVars>>

\* HAL_CAN_IRQHandler, which also clears the requests it finds complete.
SceHal ==
    /\ isr = "hal"
    /\ rqcp' = {} /\ txok' = {}
    /\ lec' = None
    /\ isr' = "switch"
    /\ UNCHANGED <<mail, failing, fate, state, errtype, boxVars, semVars, thrVars>>

\* The branch of the error.  An ACK error is told to box 0 unless a masked
\* status register is not zero, and the mask, a flag number, covers RQCP0 and
\* RQCP1; the tests for boxes 1 and 2 repeat the same condition.
SceSwitch ==
    /\ isr = "switch"
    /\ IF errtype = "ack" /\ rqcp \cap {0, 1} = {}
          THEN HwCanIsr(0, "err")
          ELSE UNCHANGED <<result, done, pc>>
    /\ isr' = "off" /\ errtype' = None
    /\ UNCHANGED <<hwVars, state, freelist, semVars, box, res>>

-----------------------------------------------------------------------------
(* The senders: _can_int_tx for one frame                                  *)

\* A thread runs when no handler runs or is due.
Runs == isr = "off" /\ lec = None /\ rqcp = {}

Goto(s, to) == pc' = [pc EXCEPT ![s] = to]

\* rt_sem_take, FIFO order
SemTake(s) ==
    /\ Runs /\ pc[s] \in {"idle", "take"}
    /\ IF sem > 0
          THEN sem' = sem - 1 /\ semQ' = semQ /\ Goto(s, "box")
          ELSE sem' = sem /\ semQ' = Append(semQ, s) /\ Goto(s, "blocked")
    /\ UNCHANGED <<hwVars, state, isrVars, boxVars, box, res>>

TakeBox(s) ==
    /\ Runs /\ pc[s] = "box"
    /\ box' = [box EXCEPT ![s] = Head(freelist)]
    /\ freelist' = Tail(freelist)
    /\ Goto(s, "mark")
    /\ UNCHANGED <<hwVars, state, isrVars, result, done, semVars, res>>

MarkWait(s) ==
    /\ Runs /\ pc[s] = "mark"
    /\ result' = [result EXCEPT ![box[s]] = "wait"]
    /\ Goto(s, "load")
    /\ UNCHANGED <<hwVars, state, isrVars, freelist, done, semVars, box, res>>

\* A driver that does not look whether the mailbox is empty.
SendMsgUnchecked(s) ==
    /\ Runs /\ pc[s] = "load"
    /\ state' = state
    /\ mail' = [mail EXCEPT ![box[s]] = s]
    /\ fate' = [fate EXCEPT ![box[s]] = "pending"]
    /\ Goto(s, "wait")
    /\ UNCHANGED <<failing, rqcp, txok, lec, isrVars, boxVars, semVars, box, res>>

\* _can_sendmsg: a mailbox that is not empty puts the driver into the state
\* HAL_CAN_STATE_ERROR, in which it refuses every frame.
SendMsg(s) ==
    /\ Runs /\ pc[s] = "load"
    /\ LET b == box[s]
       IN IF state = "ready" /\ mail[b] = None
             THEN /\ mail' = [mail EXCEPT ![b] = s]
                  /\ fate' = [fate EXCEPT ![b] = "pending"]
                  /\ state' = state
                  /\ Goto(s, "wait")
             ELSE /\ state' = "error"
                  /\ Goto(s, "undo")
                  /\ UNCHANGED <<mail, fate>>
    /\ UNCHANGED <<failing, rqcp, txok, lec, isrVars, boxVars, semVars, box, res>>

\* A refusal that releases the semaphore on two occasions.
UndoBoxReleases(s) ==
    /\ Runs /\ pc[s] = "undo"
    /\ freelist' = <<box[s]>> \o freelist
    /\ sem' = sem + 1
    /\ Goto(s, "retry")
    /\ UNCHANGED <<hwVars, state, isrVars, result, done, semQ, box, res>>

\* The frame was refused: the box goes back, the semaphore too, and the loop
\* tries again.
UndoBox(s) ==
    /\ Runs /\ pc[s] = "undo"
    /\ freelist' = <<box[s]>> \o freelist
    /\ Goto(s, "retry")
    /\ UNCHANGED <<hwVars, state, isrVars, result, done, semVars, box, res>>

\* A wait that suspends before it looks at the flag.
WaitUnchecked(s) ==
    /\ Runs /\ pc[s] = "wait"
    /\ Goto(s, "asleep") /\ done' = done
    /\ UNCHANGED <<hwVars, state, isrVars, freelist, result, semVars, box, res>>

\* rt_completion_wait, its first critical section
Wait(s) ==
    /\ Runs /\ pc[s] = "wait"
    /\ IF box[s] \in done
          THEN done' = done \ {box[s]} /\ Goto(s, "collect")
          ELSE done' = done /\ Goto(s, "asleep")
    /\ UNCHANGED <<hwVars, state, isrVars, freelist, result, semVars, box, res>>

\* ... and its second, once it is resumed
Woken(s) ==
    /\ Runs /\ pc[s] = "woken"
    /\ done' = done \ {box[s]}
    /\ Goto(s, "collect")
    /\ UNCHANGED <<hwVars, state, isrVars, freelist, result, semVars, box, res>>

Collect(s) ==
    /\ Runs /\ pc[s] = "collect"
    /\ res' = [res EXCEPT ![s] = result[box[s]]]
    /\ freelist' = Append(freelist, box[s])
    /\ Goto(s, "release")
    /\ UNCHANGED <<hwVars, state, isrVars, result, done, semVars, box>>

AfterRelease(s) == IF pc[s] = "release" THEN "idle" ELSE "take"

\* A release that counts the token although it wakes a thread.
ReleaseTwice(s) ==
    /\ Runs /\ pc[s] \in {"release", "retry"}
    /\ sem' = sem + 1
    /\ LET after == [pc EXCEPT ![s] = AfterRelease(s)]
       IN IF semQ = <<>> THEN semQ' = semQ /\ pc' = after
          ELSE semQ' = Tail(semQ) /\ pc' = [after EXCEPT ![Head(semQ)] = "box"]
    /\ UNCHANGED <<hwVars, state, isrVars, boxVars, box, res>>

\* rt_sem_release; the call returns after a frame, the loop goes on after a
\* refusal.
Release(s) ==
    /\ Runs /\ pc[s] \in {"release", "retry"}
    /\ LET after == [pc EXCEPT ![s] = AfterRelease(s)]
       IN IF semQ = <<>> THEN sem' = sem + 1 /\ semQ' = semQ /\ pc' = after
          ELSE /\ sem' = sem /\ semQ' = Tail(semQ)
               /\ pc' = [after EXCEPT ![Head(semQ)] = "box"]
    /\ UNCHANGED <<hwVars, state, isrVars, boxVars, box, res>>

Sender(s) ==
    \/ SemTake(s) \/ TakeBox(s) \/ MarkWait(s) \/ SendMsg(s) \/ UndoBox(s)
    \/ Wait(s) \/ Woken(s) \/ Collect(s) \/ Release(s)
Isr == TxIsr \/ SceEnter \/ SceHal \/ SceSwitch
Bus == \E b \in Boxes : BusEnd(b) \/ BusError(b) \/ ErrorEnd(b)

Next == Bus \/ Isr \/ \E s \in Senders : Sender(s)

\* The controller ends every request, pending interrupts are served and the
\* scheduler lets every ready thread run.
Spec ==
    /\ Init /\ [][Next]_vars
    /\ WF_vars(Isr)
    /\ \A b \in Boxes : SF_vars(BusEnd(b) \/ BusError(b)) /\ WF_vars(ErrorEnd(b))
    /\ \A s \in Senders : SF_vars(Sender(s))

-----------------------------------------------------------------------------
(* Properties                                                              *)

Holding == {s \in Senders : pc[s] \in
              {"mark", "load", "undo", "wait", "asleep", "woken", "collect"}}

\* Types of the variables.
TypeOK ==
    /\ mail \in [Boxes -> Senders \cup {None}]
    /\ failing \subseteq Boxes /\ rqcp \subseteq Boxes /\ txok \subseteq rqcp
    /\ lec \in ErrorKinds \cup {None} /\ errtype \in ErrorKinds \cup {None}
    /\ fate \in [Boxes -> {None, "pending", "ok", "lost"}]
    /\ state \in {"ready", "error"} /\ isr \in {"off", "hal", "switch"}
    /\ freelist \in Seq(Boxes) /\ done \subseteq Boxes
    /\ result \in [Boxes -> {"ok", "err", "wait"}]
    /\ sem \in 0..BoxNum /\ semQ \in Seq(Senders)
    /\ pc \in [Senders -> {"idle", "take", "blocked", "box", "mark", "load", "undo",
                          "retry", "wait", "asleep", "woken", "collect", "release"}]
    /\ box \in [Senders -> Boxes]
    /\ res \in [Senders -> {None, "ok", "err", "wait"}]

\* A send box is free or in the hands of one sender, and every sender that got
\* past the semaphore finds a box: tokens and boxes never get out of step, on
\* the way of a refused frame either.
BoxesAccounted ==
    /\ \A i, j \in 1..Len(freelist) : i # j => freelist[i] # freelist[j]
    /\ \A s, t \in Holding : s # t => box[s] # box[t]
    /\ \A s \in Holding, i \in 1..Len(freelist) : box[s] # freelist[i]
    /\ Len(freelist) + Cardinality(Holding) = BoxNum
    /\ sem + Cardinality({s \in Senders : pc[s] \in {"box", "retry", "release"}})
          = Len(freelist)
    /\ sem > 0 => semQ = <<>>

\* A mailbox that holds a frame is not written: the frame on the bus is the
\* frame of one sender, whatever errors have been reported.
NeverOverwritten ==
    [][\A b \in Boxes : mail[b] # None => mail'[b] \in {mail[b], None}]_vars

\* A suspended sender has something to wait for: its frame is still in the
\* mailbox, or the completed request has not been served yet.
WaiterNotForgotten ==
    \A s \in Senders : pc[s] = "asleep" => mail[box[s]] # None \/ box[s] \in rqcp

\* A sender reads its result only after the mailbox is done with its frame
\* (can.h: RT_CAN_EVENT_TX_DONE "Tx complete", RT_CAN_EVENT_TX_FAIL "Tx fail").
ResultAfterFrame ==
    \A s \in Senders : pc[s] = "collect" => fate[box[s]] # "pending"

\* Every call of rt_device_write returns.
EverySendReturns ==
    \A s \in Senders : pc[s] # "idle" ~> pc[s] = "idle"

\* Without bus errors, _can_int_tx and its interrupts are the service.
Phase(s) ==
    IF pc[s] \in {"idle", "release"} THEN "idle"
    ELSE IF pc[s] \in {"wait", "asleep", "woken", "collect"}
         THEN IF fate[box[s]] = "pending" THEN "bus" ELSE fate[box[s]]
         ELSE "called"
Service == INSTANCE TxService WITH
    Cap <- BoxNum,
    phase <- [s \in Senders |-> Phase(s)],
    answer <- [s \in Senders |-> IF res[s] = "err" THEN "lost" ELSE res[s]]
IsTxService == Service!Spec
=============================================================================
