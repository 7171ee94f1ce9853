------------------------------- MODULE CanRx -------------------------------
(***************************************************************************)
(* Reception of CAN frames: the receive FIFO of the controller, the        *)
(* receive interrupt, the software FIFO of message boxes in can.c and the  *)
(* thread can_rx, which reads one frame per token of its semaphore.        *)
(*                                                                         *)
(* Frames are numbered in the order in which they come off the bus.  No    *)
(* handler that touches this state can interrupt the receive handler and   *)
(* the thread cannot run before it ends, so each of its receptions is one  *)
(* action; the thread can be interrupted between any two of its critical   *)
(* sections.                                                               *)
(***************************************************************************)
EXTENDS Integers, Sequences

CONSTANTS
    BoxNum,       \* config.msgboxsz, the number of message boxes (16)
    HwDepth,      \* depth of the controller's receive FIFO (3)
    SemMod,       \* values of a semaphore (rt_uint16_t: 65536)
    MaxMsgs,      \* bound: frames the bus carries
    EarlyTraffic  \* frames may come before the callback is registered

ASSUME RxAssumption ==
    /\ BoxNum \in Nat \ {0}
    /\ HwDepth \in Nat \ {0, 1}
    /\ SemMod \in Nat \ {0}
    /\ MaxMsgs \in Nat
    /\ EarlyTraffic \in BOOLEAN

Boxes == 1..BoxNum
NoBox == 0
Msgs  == 1..MaxMsgs
NoMsg == 0

VARIABLES
    sent,        \* frames the bus has carried
    hwFifo,      \* the controller's receive FIFO
    overrun,     \* its overrun flag FOV0
    rxOpen,      \* can_rx fifo made, receive interrupts enabled
    indicate,    \* parent.rx_indicate is can_rx_call
    isr,         \* the receive handler: "off", or "check" before FOV0 is read
    freelist, uselist, freenumbers,  \* the software FIFO
    data,        \* contents of the boxes
    rcvpkg, dropedrcvpkg,            \* status counters
    sem,         \* rx_sem.value
    pc,          \* where can_rx_thread is
    listmsg,     \* the box the thread took
    rxmsg,       \* the frame in the buffer rxmsg
    rxHdr        \* rxmsg.hdr

hwVars   == <<sent, hwFifo, overrun>>
fifoVars == <<freelist, uselist, freenumbers, data>>
statVars == <<rcvpkg, dropedrcvpkg>>
thrVars  == <<listmsg, rxmsg, rxHdr>>
vars == <<hwVars, rxOpen, indicate, isr, fifoVars, statVars, sem, pc, thrVars>>

Init ==
    /\ sent = 0 /\ hwFifo = <<>> /\ overrun = FALSE
    /\ rxOpen = FALSE /\ indicate = FALSE /\ isr = "off"
    /\ freelist = [i \in 1..BoxNum |-> i] /\ uselist = <<>>
    /\ freenumbers = BoxNum
    /\ data = [b \in Boxes |-> NoMsg]
    /\ rcvpkg = 0 /\ dropedrcvpkg = 0
    /\ sem = 0
    /\ pc = "start"
    /\ listmsg = NoBox /\ rxmsg = NoMsg /\ rxHdr = 0

-----------------------------------------------------------------------------
(* The controller                                                          *)

\* A frame comes off the bus.  The FIFO is not locked: a full one overwrites
\* its last frame and raises the overrun flag.
BusFrame ==
    /\ sent < MaxMsgs
    /\ EarlyTraffic \/ indicate
    /\ sent' = sent + 1
    /\ IF Len(hwFifo) < HwDepth
          THEN hwFifo' = Append(hwFifo, sent + 1) /\ overrun' = overrun
          ELSE hwFifo' = [hwFifo EXCEPT ![HwDepth] = sent + 1] /\ overrun' = TRUE
    /\ UNCHANGED <<rxOpen, indicate, isr, fifoVars, statVars, sem, pc, thrVars>>

-----------------------------------------------------------------------------
(* The receive interrupt: _can_rx_isr and rt_hw_can_isr                    *)

\* Mistaken forms of the next two: a semaphore that holds one token, and a
\* callback only for the first frame of a burst.
SemReleaseBinary ==
    IF pc = "wait" THEN pc' = "read" /\ sem' = sem
                   ELSE pc' = pc /\ sem' = 1 % SemMod
NotifyFirst(queued) ==
    IF indicate /\ Len(queued) = 1 THEN SemReleaseBinary ELSE UNCHANGED <<pc, sem>>

\* rt_sem_release in the callback: wake the reader or count the token.
SemRelease ==
    IF pc = "wait" THEN pc' = "read" /\ sem' = sem
                   ELSE pc' = pc /\ sem' = (sem + 1) % SemMod

\* The callback runs when the used list is not empty.
Notify(queued) ==
    IF indicate /\ queued # <<>> THEN SemRelease ELSE UNCHANGED <<pc, sem>>

\* Mistaken forms of the next two: the box is linked in first, and an
\* overflow keeps the frames it has.
InsertFirst(b, rest) ==
    /\ uselist' = <<b>> \o rest
    /\ data' = [data EXCEPT ![b] = Head(hwFifo)]
KeepOldest(drops) ==
    /\ freelist = <<>> /\ uselist # <<>>
    /\ dropedrcvpkg' = drops + 1
    /\ UNCHANGED fifoVars

\* Store the frame in box b and link the box in as the last of the used ones.
InsertBefore(b, rest) ==
    /\ uselist' = Append(rest, b)
    /\ data' = [data EXCEPT ![b] = Head(hwFifo)]

\* A free box takes the frame ...
StoreFree(drops) ==
    /\ freelist # <<>>
    /\ freelist' = Tail(freelist)
    /\ freenumbers' = freenumbers - 1
    /\ InsertBefore(Head(freelist), uselist)
    /\ dropedrcvpkg' = drops

\* ... or, when there is none, the box of the oldest unread frame ...
RecycleOldest(drops) ==
    /\ freelist = <<>> /\ uselist # <<>>
    /\ InsertBefore(Head(uselist), Tail(uselist))
    /\ dropedrcvpkg' = drops + 1
    /\ UNCHANGED <<freelist, freenumbers>>

\* ... or, when the readers hold them all, the frame is gone, uncounted.
NoBoxLeft(drops) ==
    /\ freelist = <<>> /\ uselist = <<>>
    /\ dropedrcvpkg' = drops
    /\ UNCHANGED fifoVars

\* RT_CAN_EVENT_RX_IND: take a frame from the controller and store it.
Receive(drops) ==
    /\ hwFifo # <<>>
    /\ hwFifo' = Tail(hwFifo)
    /\ rcvpkg' = rcvpkg + 1
    /\ StoreFree(drops) \/ RecycleOldest(drops) \/ NoBoxLeft(drops)
    /\ Notify(uselist')

RxIsr ==
    /\ rxOpen /\ isr = "off"
    /\ Receive(dropedrcvpkg)
    /\ isr' = "check"
    /\ UNCHANGED <<sent, overrun, rxOpen, indicate, thrVars>>

\* RT_CAN_EVENT_RXOF_IND counts a lost frame and falls through to a second
\* reception.  The FIFO was full when it overran and one frame was taken
\* since, so there is a second one.
RxOverrun ==
    /\ isr = "check" /\ overrun
    /\ overrun' = FALSE
    /\ isr' = "off"
    /\ Receive(dropedrcvpkg + 1)
    /\ UNCHANGED <<sent, rxOpen, indicate, thrVars>>

IsrReturn ==
    /\ isr = "check" /\ ~overrun
    /\ isr' = "off"
    /\ UNCHANGED <<hwVars, rxOpen, indicate, fifoVars, statVars, sem, pc, thrVars>>

-----------------------------------------------------------------------------
(* The threads: main opens the device, can_rx reads                        *)

\* rt_can_open: the lists are made and the receive interrupts enabled.
OpenDevice ==
    /\ ~rxOpen
    /\ rxOpen' = TRUE
    /\ UNCHANGED <<hwVars, indicate, isr, fifoVars, statVars, sem, pc, thrVars>>

\* can_rx_thread registers its callback as the first thing it does.
SetRxIndicate ==
    /\ rxOpen /\ isr = "off" /\ pc = "start"
    /\ indicate' = TRUE
    /\ pc' = "take"
    /\ UNCHANGED <<hwVars, rxOpen, isr, fifoVars, statVars, sem, thrVars>>

\* rxmsg.hdr = -1, then rt_sem_take
SemTake ==
    /\ isr = "off" /\ pc = "take"
    /\ rxHdr' = -1
    /\ IF sem > 0 THEN sem' = sem - 1 /\ pc' = "read"
                  ELSE sem' = sem /\ pc' = "wait"
    /\ UNCHANGED <<hwVars, rxOpen, indicate, isr, fifoVars, statVars, listmsg, rxmsg>>

\* A reader that gives the box back before it has copied it.
ReadTakeFreesFirst ==
    /\ isr = "off" /\ pc = "read"
    /\ rxHdr = -1 /\ uselist # <<>>
    /\ listmsg' = Head(uselist)
    /\ uselist' = Tail(uselist)
    /\ freelist' = Append(freelist, Head(uselist))
    /\ pc' = "copy"
    /\ UNCHANGED <<hwVars, rxOpen, indicate, isr, freenumbers, data,
                   statVars, sem, rxmsg, rxHdr>>

\* _can_int_rx, first critical section.  With hdr -1 it takes the oldest
\* used box; any other hdr finds the list of a filter no one connected.
ReadTake ==
    /\ isr = "off" /\ pc = "read"
    /\ rxHdr = -1 /\ uselist # <<>>
    /\ listmsg' = Head(uselist)
    /\ uselist' = Tail(uselist)
    /\ pc' = "copy"
    /\ UNCHANGED <<hwVars, rxOpen, indicate, isr, freelist, freenumbers, data,
                   statVars, sem, rxmsg, rxHdr>>

\* Nothing to read: rt_device_read returns 0, which the thread does not check,
\* and the frame still in rxmsg is processed again.
ReadNothing ==
    /\ isr = "off" /\ pc = "read"
    /\ rxHdr # -1 \/ uselist = <<>>
    /\ pc' = "process"
    /\ UNCHANGED <<hwVars, rxOpen, indicate, isr, fifoVars, statVars, sem, thrVars>>

\* The copy is made with interrupts enabled; it brings the frame's hdr along.
ReadCopy ==
    /\ isr = "off" /\ pc = "copy"
    /\ rxmsg' = data[listmsg]
    /\ rxHdr' = 0
    /\ pc' = "putback"
    /\ UNCHANGED <<hwVars, rxOpen, indicate, isr, fifoVars, statVars, sem, listmsg>>

\* The box goes back, but freenumbers is not told.
ReadPutBackUncounted ==
    /\ isr = "off" /\ pc = "putback"
    /\ freelist' = Append(freelist, listmsg)
    /\ listmsg' = NoBox
    /\ pc' = "process"
    /\ UNCHANGED <<hwVars, rxOpen, indicate, isr, uselist, freenumbers, data,
                   statVars, sem, rxmsg, rxHdr>>

\* _can_int_rx, second critical section: the box is free again.
ReadPutBack ==
    /\ isr = "off" /\ pc = "putback"
    /\ freelist' = Append(freelist, listmsg)
    /\ freenumbers' = freenumbers + 1
    /\ listmsg' = NoBox
    /\ pc' = "process"
    /\ UNCHANGED <<hwVars, rxOpen, indicate, isr, uselist, data, statVars, sem,
                   rxmsg, rxHdr>>

\* get_moto_measure and, if the switch says so, the motor commands: the
\* reader comes back for the next token whenever it is done.
Process ==
    /\ isr = "off" /\ pc = "process"
    /\ pc' = "take"
    /\ UNCHANGED <<hwVars, rxOpen, indicate, isr, fifoVars, statVars, sem, thrVars>>

Thread ==
    \/ SetRxIndicate \/ SemTake \/ ReadTake \/ ReadNothing
    \/ ReadCopy \/ ReadPutBack \/ Process
Isr == RxIsr \/ RxOverrun \/ IsrReturn

Next == BusFrame \/ OpenDevice \/ Isr \/ Thread

\* Pending interrupts are served.  Interrupts and the bus do not starve the
\* thread, which has the highest priority of all threads.
Spec == Init /\ [][Next]_vars /\ WF_vars(Isr) /\ WF_vars(Thread)

-----------------------------------------------------------------------------
(* Properties                                                              *)

Distinct(s) == \A i, j \in 1..Len(s) : i # j => s[i] # s[j]

\* Types, and a semaphore that stays within its width.
TypeOK ==
    /\ sent \in 0..MaxMsgs /\ hwFifo \in Seq(Msgs) /\ Len(hwFifo) <= HwDepth
    /\ overrun \in BOOLEAN /\ rxOpen \in BOOLEAN /\ indicate \in BOOLEAN
    /\ isr \in {"off", "check"}
    /\ freelist \in Seq(Boxes) /\ uselist \in Seq(Boxes) /\ freenumbers \in Nat
    /\ data \in [Boxes -> 0..MaxMsgs]
    /\ rcvpkg \in Nat /\ dropedrcvpkg \in Nat
    /\ sem \in 0..SemMod-1
    /\ pc \in {"start", "take", "wait", "read", "copy", "putback", "process"}
    /\ listmsg \in Boxes \cup {NoBox}
    /\ rxmsg \in 0..MaxMsgs /\ rxHdr \in {-1, 0}

\* Every message box is in exactly one place: the free list, the used list or
\* the reader's hand, and freenumbers counts the free ones (the assertions of
\* can.c on freenumbers follow).
BoxesConserved ==
    /\ Distinct(freelist) /\ Distinct(uselist)
    /\ \A i \in 1..Len(freelist), j \in 1..Len(uselist) : freelist[i] # uselist[j]
    /\ \A i \in 1..Len(freelist) : freelist[i] # listmsg
    /\ \A j \in 1..Len(uselist) : uselist[j] # listmsg
    /\ (listmsg # NoBox) = (pc \in {"copy", "putback"})
    /\ freenumbers = Len(freelist)
    /\ Len(freelist) + Len(uselist) + (IF listmsg = NoBox THEN 0 ELSE 1) = BoxNum

\* The frames still to be read, oldest first.
Unread == [i \in 1..Len(uselist) |-> data[uselist[i]]]

\* A reader that sleeps has read everything: no frame waits for a token that
\* is not there (can_rw.c: every received frame releases the semaphore).
NoFrameStranded == pc = "wait" => uselist = <<>>

\* Every token the reader takes gets it a frame (can_rw.c: read one frame).
ReadGetsFrame == pc = "read" => uselist # <<>>

\* With two boxes or more, a frame the handler takes from the controller is
\* always stored, whatever the reader is holding.
NoSilentLoss ==
    [][(RxIsr \/ RxOverrun) /\ rcvpkg' # rcvpkg
          => uselist' # <<>> /\ data'[uselist'[Len(uselist')]] = Head(hwFifo)]_vars

\* No frame stays in the used list for ever.
EveryFrameLeaves ==
    \A m \in Msgs :
        (\E i \in 1..Len(uselist) : data[uselist[i]] = m)
        ~> ~(\E i \in 1..Len(uselist) : data[uselist[i]] = m)

\* The receive path is a queue of BoxNum frames that drops its oldest.
Queue == INSTANCE FrameQueue WITH
    Cap <- BoxNum, Frame <- Msgs, queue <- Unread,
    taken <- IF listmsg = NoBox THEN 0 ELSE data[listmsg],
    got <- rxmsg
IsFrameQueue == Queue!Spec
=============================================================================
