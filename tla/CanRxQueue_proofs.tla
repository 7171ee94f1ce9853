-------------------------- MODULE CanRxQueue_proofs --------------------------
(***************************************************************************)
(* CanRx implements FrameQueue, for every number of boxes: whatever the    *)
(* interleaving of bus, interrupt and reader, and also with frames before  *)
(* the callback is registered, the frames come out in the order in which   *)
(* they came in, each at most once, and the oldest is the one given up.    *)
(* With two boxes or more no reception loses the frame it took.            *)
(***************************************************************************)
EXTENDS CanRx_proofs

\* Frames only get newer on their way: what is in the controller is newer
\* than what any box or the reader's buffer holds.
OrderInv ==
    /\ \A k \in 1..Len(hwFifo) : hwFifo[k] <= sent
    /\ \A k, l \in 1..Len(hwFifo) : k < l => hwFifo[k] < hwFifo[l]
    /\ \A k \in 1..Len(hwFifo) : rxmsg < hwFifo[k]
    /\ \A k \in 1..Len(hwFifo) : \A b \in Boxes : data[b] < hwFifo[k]
    /\ rxmsg <= sent /\ \A b \in Boxes : data[b] <= sent

\* A box in use holds a frame, and the reader gives it back after its copy.
HeldInv ==
    /\ \A b \in Elems(uselist) : data[b] # 0
    /\ listmsg # NoBox => data[listmsg] # 0
    /\ pc = "putback" => rxmsg = data[listmsg]

-----------------------------------------------------------------------------
(* The order is kept                                                       *)

LEMMA OrderBus == ASSUME IInv, OrderInv, BusFrame PROVE OrderInv'
<1>1. /\ sent \in 0..MaxMsgs /\ hwFifo \in Seq(Msgs) /\ rxmsg \in 0..MaxMsgs
      /\ data \in [Boxes -> 0..MaxMsgs] /\ Len(hwFifo) \in Nat /\ TypeOK
  BY LenFacts DEF IInv, TypeOK
<1>2. sent' = sent + 1 /\ UNCHANGED <<rxmsg, data>>
  BY Zenon DEF BusFrame, fifoVars, thrVars
<1>3. /\ \A k \in 1..Len(hwFifo) : hwFifo[k] \in Int
      /\ \A b \in Boxes : data[b] \in Int
      /\ rxmsg \in Int /\ sent \in Int /\ sent + 1 \in Int /\ Msgs \subseteq Int
  BY <1>1, ElementOfSeq, Constants, SMT DEF Msgs
<1>4. hwFifo \in Seq(Int)
  BY <1>1, <1>3, SeqMonotonic
<1>5. ASSUME NEW n \in Nat, Len(hwFifo') = n + 1, n <= Len(hwFifo),
             \A k \in 1..n : hwFifo'[k] = hwFifo[k], hwFifo'[n+1] = sent + 1
      PROVE  OrderInv'
  <2>1. \A k \in 1..n+1 : k \in 1..n \/ k = n + 1
    BY SMT
  <2>2. \A k \in 1..n : k \in 1..Len(hwFifo) /\ k \in Int /\ k < n + 1
    BY <1>1, <1>5, SMT
  <2>3. \A k \in 1..n : hwFifo[k] < sent + 1
    BY <1>3, <2>2, SMT DEF OrderInv
  <2>4. rxmsg < sent + 1 /\ \A b \in Boxes : data[b] < sent + 1
    BY <1>3, SMT DEF OrderInv
  <2>5. \A k \in 1..Len(hwFifo') : hwFifo'[k] <= sent'
    BY <1>2, <1>3, <1>5, <2>1, <2>2, <2>3, SMT
  <2>6. \A k, l \in 1..Len(hwFifo') : k < l => hwFifo'[k] < hwFifo'[l]
    <3> SUFFICES ASSUME NEW k \in 1..n+1, NEW l \in 1..n+1, k < l
                 PROVE  hwFifo'[k] < hwFifo'[l]
      BY <1>5
    <3>1. k \in 1..n
      BY SMT
    <3>2. CASE l \in 1..n
      BY <1>5, <2>2, <3>1, <3>2 DEF OrderInv
    <3>3. CASE l = n + 1
      BY <1>5, <2>3, <3>1, <3>3
    <3> QED BY <2>1, <3>2, <3>3
  <2>7. \A k \in 1..Len(hwFifo') : rxmsg' < hwFifo'[k]
    BY <1>2, <1>5, <2>1, <2>2, <2>4 DEF OrderInv
  <2>8. \A k \in 1..Len(hwFifo') : \A b \in Boxes : data'[b] < hwFifo'[k]
    BY <1>2, <1>5, <2>1, <2>2, <2>4 DEF OrderInv
  <2>9. rxmsg' <= sent' /\ \A b \in Boxes : data'[b] <= sent'
    BY <1>2, <1>3, SMT DEF OrderInv
  <2> QED BY <2>5, <2>6, <2>7, <2>8, <2>9 DEF OrderInv
<1>6. CASE hwFifo' = Append(hwFifo, sent + 1)
  <2>1. Len(hwFifo') = Len(hwFifo) + 1 /\ hwFifo'[Len(hwFifo) + 1] = sent + 1
        /\ \A k \in 1..Len(hwFifo) : hwFifo'[k] = hwFifo[k]
    BY <1>3, <1>4, <1>6, AppendFacts
  <2>2. Len(hwFifo) <= Len(hwFifo)
    BY <1>1
  <2> QED BY <1>1, <1>5, <2>1, <2>2
<1>7. CASE Len(hwFifo) >= HwDepth /\ hwFifo' = [hwFifo EXCEPT ![HwDepth] = sent + 1]
  <2>1. Len(hwFifo) = HwDepth /\ HwDepth \in 1..Len(hwFifo)
    BY <1>1, <1>7, Constants, SMT DEF TypeOK
  <2>2. Len(hwFifo') = Len(hwFifo)
        /\ \A k \in 1..Len(hwFifo) : hwFifo'[k] = IF k = HwDepth THEN sent + 1 ELSE hwFifo[k]
    BY <1>3, <1>4, <1>7, <2>1, ExceptSeq
  <2> DEFINE n == HwDepth - 1
  <2>3. n \in Nat /\ n + 1 = HwDepth /\ n <= Len(hwFifo)
        /\ \A k \in 1..n : k \in 1..Len(hwFifo) /\ k # HwDepth
    BY <2>1, Constants, SMT
  <2>4. Len(hwFifo') = n + 1 /\ hwFifo'[n+1] = sent + 1
        /\ \A k \in 1..n : hwFifo'[k] = hwFifo[k]
    BY <2>1, <2>2, <2>3
  <2> HIDE DEF n
  <2> QED BY <1>5, <2>3, <2>4
<1> QED BY <1>1, <1>6, <1>7, BusFifo

LEMMA OrderReceive ==
    ASSUME IInv, OrderInv, hwFifo # <<>>, hwFifo' = Tail(hwFifo), UNCHANGED <<rxmsg, sent>>,
           \A b \in Boxes : data'[b] \in {data[b], Head(hwFifo)}
    PROVE  OrderInv'
<1>1. /\ sent \in 0..MaxMsgs /\ hwFifo \in Seq(Msgs) /\ rxmsg \in 0..MaxMsgs
      /\ data \in [Boxes -> 0..MaxMsgs]
  BY DEF IInv, TypeOK
<1>2. /\ Len(hwFifo) \in Nat \ {0} /\ Len(hwFifo') = Len(hwFifo) - 1
      /\ Head(hwFifo) = hwFifo[1]
      /\ \A k \in 1..Len(hwFifo)-1 : hwFifo'[k] = hwFifo[k+1]
  BY <1>1, TailFacts
<1>3. 1 \in 1..Len(hwFifo) /\ \A k \in 1..Len(hwFifo') :
        k \in 1..Len(hwFifo)-1 /\ k + 1 \in 1..Len(hwFifo) /\ 1 < k + 1
  BY <1>2, SMT
<1>4. \A k \in 1..Len(hwFifo') : hwFifo'[k] = hwFifo[k+1] /\ hwFifo[1] < hwFifo[k+1]
  BY <1>2, <1>3 DEF OrderInv
<1>5. \A k \in 1..Len(hwFifo') : hwFifo'[k] <= sent'
  BY <1>3, <1>4 DEF OrderInv
<1>6. \A k, l \in 1..Len(hwFifo') : k < l => hwFifo'[k] < hwFifo'[l]
  <2> SUFFICES ASSUME NEW k \in 1..Len(hwFifo'), NEW l \in 1..Len(hwFifo'), k < l
               PROVE  hwFifo'[k] < hwFifo'[l]
    OBVIOUS
  <2>1. k + 1 < l + 1
    BY <1>2, SMT
  <2> QED BY <1>3, <1>4, <2>1 DEF OrderInv
<1>7. \A k \in 1..Len(hwFifo') : rxmsg' < hwFifo'[k]
  BY <1>3, <1>4 DEF OrderInv
<1>8. \A k \in 1..Len(hwFifo') : \A b \in Boxes : data'[b] < hwFifo'[k]
  BY <1>2, <1>3, <1>4 DEF OrderInv
<1>9. rxmsg' <= sent' /\ \A b \in Boxes : data'[b] <= sent'
  BY <1>2, <1>3 DEF OrderInv
<1> QED BY <1>5, <1>6, <1>7, <1>8, <1>9 DEF OrderInv

-----------------------------------------------------------------------------
(* What a reception does to the list and to the boxes                      *)

\* The frame m goes into box b, which becomes the last of the list.
Stored(b, rest, m) ==
    /\ b \in Boxes /\ b # listmsg
    /\ rest \in Seq(Boxes) /\ b \notin Elems(rest) /\ Elems(rest) \subseteq Elems(uselist)
    /\ uselist' = Append(rest, b)
    /\ data' = [data EXCEPT ![b] = m]

LEMMA ReceiveCases ==
    ASSUME IInv, NEW drops, Receive(drops)
    PROVE  \/ \E b : freelist # <<>> /\ Stored(b, uselist, Head(hwFifo))
           \/ \E b : /\ freelist = <<>> /\ uselist # <<>>
                     /\ Stored(b, Tail(uselist), Head(hwFifo))
           \/ freelist = <<>> /\ uselist = <<>> /\ UNCHANGED <<uselist, data>>
<1>1. /\ freelist \in Seq(Boxes) /\ uselist \in Seq(Boxes) /\ Places
  BY DEF IInv, TypeOK
<1>2. CASE StoreFree(drops)
  <2> DEFINE b == Head(freelist)
  <2>1. freelist # <<>> /\ b \in Boxes /\ b \in Elems(freelist)
    BY <1>1, <1>2, TailFacts, TailElems DEF StoreFree, Places
  <2>2. b # listmsg /\ b \notin Elems(uselist)
    BY <1>1, <2>1 DEF Places
  <2>3. uselist' = Append(uselist, b) /\ data' = [data EXCEPT ![b] = Head(hwFifo)]
    BY <1>2 DEF StoreFree, InsertBefore
  <2> HIDE DEF b
  <2> QED BY <1>1, <2>1, <2>2, <2>3 DEF Stored
<1>3. CASE RecycleOldest(drops)
  <2> DEFINE b == Head(uselist)  rest == Tail(uselist)
  <2>1. /\ freelist = <<>> /\ uselist # <<>> /\ b \in Boxes /\ b \in Elems(uselist)
        /\ rest \in Seq(Boxes) /\ Elems(rest) = Elems(uselist) \ {b}
    BY <1>1, <1>3, TailFacts, TailElems DEF RecycleOldest, Places
  <2>2. b # listmsg
    BY <1>1, <2>1 DEF Places
  <2>3. uselist' = Append(rest, b) /\ data' = [data EXCEPT ![b] = Head(hwFifo)]
    BY <1>3 DEF RecycleOldest, InsertBefore
  <2>4. Stored(b, rest, Head(hwFifo))
    <3> HIDE DEF b, rest
    <3> QED BY <2>1, <2>2, <2>3 DEF Stored
  <2> QED BY <2>1, <2>4
<1>4. CASE NoBoxLeft(drops)
  BY <1>4, Zenon DEF NoBoxLeft, fifoVars
<1> QED BY <1>2, <1>3, <1>4 DEF Receive

\* The frame at the head of the controller's FIFO.
LEMMA HeadIsMsg ==
    ASSUME TypeOK, hwFifo # <<>>
    PROVE  /\ Head(hwFifo) \in Msgs /\ Head(hwFifo) \in 0..MaxMsgs /\ Head(hwFifo) # 0
           /\ 1 \in 1..Len(hwFifo) /\ Head(hwFifo) = hwFifo[1]
<1>1. hwFifo \in Seq(Msgs)
  BY DEF TypeOK
<1>2. Head(hwFifo) \in Msgs /\ Len(hwFifo) \in Nat \ {0} /\ Head(hwFifo) = hwFifo[1]
  BY <1>1, TailFacts
<1> QED BY <1>2, Constants, SMT DEF Msgs

LEMMA StoredData ==
    ASSUME IInv, NEW b, NEW rest, NEW m \in 0..MaxMsgs, Stored(b, rest, m)
    PROVE  /\ data'[b] = m
           /\ \A c \in Boxes : c # b => data'[c] = data[c]
           /\ Elems(uselist') = Elems(rest) \cup {b}
<1>1. data \in [Boxes -> 0..MaxMsgs]
  BY DEF IInv, TypeOK
<1>2. data'[b] = m /\ \A c \in Boxes : c # b => data'[c] = data[c]
  BY <1>1 DEF Stored
<1>3. Elems(uselist') = Elems(rest) \cup {b}
  BY AppendElems DEF Stored
<1> QED BY <1>2, <1>3

LEMMA HeldReceive ==
    ASSUME IInv, HeldInv, NEW drops, Receive(drops), UNCHANGED <<listmsg, rxmsg>>
    PROVE  HeldInv'
<1> DEFINE m == Head(hwFifo)
<1>1. TypeOK /\ m \in 0..MaxMsgs /\ m # 0 /\ Elems(uselist) \subseteq Boxes
      /\ (listmsg # NoBox => listmsg \in Boxes)
  BY HeadIsMsg, ElemsTyped DEF IInv, Receive, TypeOK
<1>2. pc' = "putback" => pc = "putback"
  BY DEF Receive, Notify, SemRelease
<1>3. pc = "putback" => listmsg # NoBox
  BY DEF IInv, InHand
<1> HIDE DEF m
<1>4. ASSUME NEW b, NEW rest, Stored(b, rest, m) PROVE HeldInv'
  <2>1. /\ data'[b] = m /\ Elems(uselist') = Elems(rest) \cup {b}
        /\ \A c \in Boxes : c # b => data'[c] = data[c]
    BY <1>1, <1>4, StoredData
  <2>2. \A c \in Elems(uselist') : data'[c] # 0
    BY <1>1, <1>4, <2>1 DEF HeldInv, Stored
  <2>3. listmsg # NoBox => data'[listmsg] = data[listmsg]
    BY <1>1, <1>4, <2>1 DEF Stored
  <2> QED BY <1>2, <1>3, <2>2, <2>3 DEF HeldInv
<1>5. CASE UNCHANGED <<uselist, data>>
  BY <1>2, <1>5 DEF HeldInv
<1> QED BY <1>4, <1>5, ReceiveCases DEF m

LEMMA ReceiveOrder ==
    ASSUME IInv, OrderInv, NEW drops, Receive(drops), UNCHANGED <<rxmsg, sent>>
    PROVE  OrderInv'
<1> DEFINE m == Head(hwFifo)
<1>1. hwFifo # <<>> /\ hwFifo' = Tail(hwFifo) /\ m \in 0..MaxMsgs
  BY HeadIsMsg DEF IInv, Receive
<1>2. \A c \in Boxes : data'[c] \in {data[c], m}
  <2> HIDE DEF m
  <2>1. ASSUME NEW b, NEW rest, Stored(b, rest, m), NEW c \in Boxes
        PROVE  data'[c] \in {data[c], m}
    BY <1>1, <2>1, StoredData
  <2> QED BY <2>1, ReceiveCases DEF m
<1> QED BY <1>1, <1>2, OrderReceive

-----------------------------------------------------------------------------
(* The other steps                                                         *)

LEMMA QueueInvStep ==
    ASSUME IInv, OrderInv, HeldInv, [Next]_vars
    PROVE  OrderInv' /\ HeldInv'
<1>1. CASE BusFrame
  <2>1. UNCHANGED <<uselist, data, listmsg, pc, rxmsg>>
    BY <1>1, Zenon DEF BusFrame, fifoVars, thrVars
  <2> QED BY <1>1, <2>1, OrderBus, Zenon DEF HeldInv
<1>2. CASE RxIsr
  <2>1. Receive(dropedrcvpkg) /\ UNCHANGED <<sent, listmsg, rxmsg>>
    BY <1>2, Zenon DEF RxIsr, thrVars
  <2> QED BY <2>1, ReceiveOrder, HeldReceive
<1>3. CASE RxOverrun
  <2>1. Receive(dropedrcvpkg + 1) /\ UNCHANGED <<sent, listmsg, rxmsg>>
    BY <1>3, Zenon DEF RxOverrun, thrVars
  <2> QED BY <2>1, ReceiveOrder, HeldReceive
<1>4. CASE ReadTake
  <2>1. /\ UNCHANGED <<sent, hwFifo, data, rxmsg>> /\ pc' = "copy"
        /\ listmsg' = Head(uselist) /\ uselist' = Tail(uselist) /\ uselist # <<>>
    BY <1>4, Zenon DEF ReadTake, hwVars
  <2>2. uselist \in Seq(Boxes) /\ Distinct(uselist)
    BY DEF IInv, TypeOK, Places
  <2>3. listmsg' \in Elems(uselist) /\ Elems(uselist') \subseteq Elems(uselist)
    BY <2>1, <2>2, TailElems
  <2>4. HeldInv'
    BY <2>1, <2>3 DEF HeldInv
  <2> QED BY <2>1, <2>4, Zenon DEF OrderInv
<1>5. CASE ReadCopy
  <2>1. /\ UNCHANGED <<sent, hwFifo, data, uselist, listmsg>>
        /\ rxmsg' = data[listmsg] /\ pc' = "putback" /\ pc = "copy"
    BY <1>5, Zenon DEF ReadCopy, hwVars, fifoVars
  <2>2. listmsg \in Boxes
    BY <2>1 DEF IInv, InHand, TypeOK
  <2> QED BY <2>1, <2>2 DEF OrderInv, HeldInv
<1>6. CASE ReadPutBack
  <2>1. UNCHANGED <<sent, hwFifo, data, uselist, rxmsg>> /\ pc' = "process" /\ listmsg' = NoBox
    BY <1>6, Zenon DEF ReadPutBack, hwVars
  <2> QED BY <2>1 DEF OrderInv, HeldInv
<1>7. CASE SetRxIndicate \/ SemTake \/ ReadNothing \/ Process
  <2>1. UNCHANGED <<sent, hwFifo, data, uselist, listmsg, rxmsg>> /\ pc' # "putback"
    BY <1>7, Zenon DEF SetRxIndicate, SemTake, ReadNothing, Process, hwVars, fifoVars, thrVars
  <2> QED BY <2>1, Zenon DEF OrderInv, HeldInv
<1>8. CASE OpenDevice \/ IsrReturn \/ UNCHANGED vars
  <2>1. UNCHANGED <<sent, hwFifo, data, uselist, listmsg, rxmsg, pc>>
    BY <1>8, Zenon DEF OpenDevice, IsrReturn, vars, hwVars, fifoVars, thrVars
  <2> QED BY <2>1, Zenon DEF OrderInv, HeldInv
<1> QED BY <1>1, <1>2, <1>3, <1>4, <1>5, <1>6, <1>7, <1>8, Zenon DEF Next, Isr, Thread

-----------------------------------------------------------------------------
(* Every step is a step of the queue                                       *)

\* The frames in the boxes of a list.
Frames(u, d) == [i \in 1..Len(u) |-> d[u[i]]]
Taken == IF listmsg = NoBox THEN 0 ELSE data[listmsg]

LEMMA FramesFacts ==
    ASSUME NEW u \in Seq(Boxes), NEW d \in [Boxes -> 0..MaxMsgs]
    PROVE  /\ Frames(u, d) \in Seq(0..MaxMsgs) /\ Len(Frames(u, d)) = Len(u)
           /\ Len(u) \in Nat
           /\ \A i \in 1..Len(u) : Frames(u, d)[i] = d[u[i]]
<1>1. Len(u) \in Nat /\ \A i \in 1..Len(u) : d[u[i]] \in 0..MaxMsgs
  BY SMT
<1> QED BY <1>1, SMT DEF Frames

LEMMA FramesTail ==
    ASSUME NEW u \in Seq(Boxes), NEW d \in [Boxes -> 0..MaxMsgs], u # <<>>
    PROVE  /\ Frames(u, d) # <<>> /\ Head(Frames(u, d)) = d[Head(u)]
           /\ Tail(Frames(u, d)) = Frames(Tail(u), d)
<1> DEFINE f == Frames(u, d)  t == Tail(u)
<1>1. f \in Seq(0..MaxMsgs) /\ Len(f) = Len(u) /\ \A i \in 1..Len(u) : f[i] = d[u[i]]
  BY FramesFacts
<1>2. /\ Len(u) \in Nat \ {0} /\ t \in Seq(Boxes) /\ Len(t) = Len(u) - 1
      /\ Head(u) = u[1] /\ \A i \in 1..Len(u)-1 : t[i] = u[i+1]
  BY TailFacts
<1>3. Frames(t, d) \in Seq(0..MaxMsgs) /\ Len(Frames(t, d)) = Len(t)
      /\ \A i \in 1..Len(t) : Frames(t, d)[i] = d[t[i]]
  BY <1>2, FramesFacts
<1> HIDE DEF f, t
<1>4. f # <<>>
  BY <1>1, <1>2, LenFacts
<1>5. /\ Head(f) = f[1] /\ Tail(f) \in Seq(0..MaxMsgs) /\ Len(Tail(f)) = Len(f) - 1
      /\ \A i \in 1..Len(f)-1 : Tail(f)[i] = f[i+1]
  BY <1>1, <1>4, TailFacts
<1>6. 1 \in 1..Len(u) /\ \A i \in 1..Len(u)-1 : i + 1 \in 1..Len(u)
  BY <1>2, SMT
<1>7. \A i \in 1..Len(Tail(f)) : Tail(f)[i] = Frames(t, d)[i]
  BY <1>1, <1>2, <1>3, <1>5, <1>6
<1>8. Tail(f) = Frames(t, d)
  BY <1>1, <1>2, <1>3, <1>5, <1>7, SeqEqual
<1> QED BY <1>1, <1>2, <1>4, <1>5, <1>6, <1>8 DEF f, t

LEMMA FramesAppend ==
    ASSUME NEW u \in Seq(Boxes), NEW b \in Boxes, NEW m \in 0..MaxMsgs, b \notin Elems(u),
           NEW d \in [Boxes -> 0..MaxMsgs]
    PROVE  Frames(Append(u, b), [d EXCEPT ![b] = m]) = Append(Frames(u, d), m)
<1> DEFINE v == Append(u, b)  e == [d EXCEPT ![b] = m]
           f == Frames(v, e)  g == Append(Frames(u, d), m)
<1>1. /\ v \in Seq(Boxes) /\ Len(v) = Len(u) + 1 /\ Len(u) \in Nat
      /\ \A i \in 1..Len(u) : v[i] = u[i]
      /\ v[Len(u) + 1] = b
  BY AppendFacts, LenFacts
<1>2. e \in [Boxes -> 0..MaxMsgs] /\ e[b] = m /\ \A c \in Boxes : c # b => e[c] = d[c]
  OBVIOUS
<1>3. \A i \in 1..Len(u) : u[i] \in Boxes /\ u[i] # b
  BY ElementOfSeq DEF Elems
<1>4. /\ Frames(u, d) \in Seq(0..MaxMsgs) /\ Len(Frames(u, d)) = Len(u)
      /\ \A i \in 1..Len(u) : Frames(u, d)[i] = d[u[i]]
  BY FramesFacts
<1>5. /\ g \in Seq(0..MaxMsgs) /\ Len(g) = Len(u) + 1
      /\ \A i \in 1..Len(u) : g[i] = d[u[i]]
      /\ g[Len(u) + 1] = m
  BY <1>4, AppendFacts
<1> HIDE DEF v, e, g
<1>6. f \in Seq(0..MaxMsgs) /\ Len(f) = Len(v) /\ \A i \in 1..Len(v) : f[i] = e[v[i]]
  BY <1>1, <1>2, FramesFacts
<1> HIDE DEF f
<1>7. 1..Len(v) = 1..Len(u) \cup {Len(u) + 1}
  BY <1>1, SMT
<1>8. \A i \in 1..Len(f) : f[i] = g[i]
  <2>1. \A i \in 1..Len(u) : e[v[i]] = d[u[i]]
    BY <1>1, <1>2, <1>3
  <2>2. e[v[Len(u) + 1]] = m
    BY <1>1, <1>2
  <2>3. \A i \in 1..Len(f) : i \in 1..Len(v) /\ (i \in 1..Len(u) \/ i = Len(u) + 1)
    BY <1>6, <1>7
  <2> QED BY <1>5, <1>6, <2>1, <2>2, <2>3
<1>9. f = g
  BY <1>1, <1>5, <1>6, <1>8, SeqEqual
<1> QED BY <1>9 DEF f, g, v, e

\* What the state says of the queue it stands for.
LEMMA QueueFacts ==
    ASSUME IInv, HeldInv
    PROVE  /\ Unread = Frames(uselist, data) /\ Unread \in Seq(0..MaxMsgs)
           /\ Len(Unread) = Len(uselist) /\ Len(uselist) \in Nat
           /\ (Unread = <<>>) = (uselist = <<>>)
           /\ (Taken = 0) = (listmsg = NoBox)
           /\ \A i \in 1..Len(uselist) : uselist[i] \in Boxes /\ Unread[i] = data[uselist[i]]
<1>1. uselist \in Seq(Boxes) /\ data \in [Boxes -> 0..MaxMsgs]
  BY DEF IInv, TypeOK
<1>2. Unread = Frames(uselist, data)
  BY DEF Unread, Frames
<1>3. Unread \in Seq(0..MaxMsgs) /\ Len(Unread) = Len(uselist) /\ Len(uselist) \in Nat
      /\ \A i \in 1..Len(uselist) : Unread[i] = data[uselist[i]]
  BY <1>1, <1>2, FramesFacts
<1>4. (Unread = <<>>) = (uselist = <<>>)
  BY <1>1, <1>3, LenFacts
<1>5. (Taken = 0) = (listmsg = NoBox)
  BY DEF Taken, HeldInv
<1>6. \A i \in 1..Len(uselist) : uselist[i] \in Boxes
  BY <1>1, ElementOfSeq
<1> QED BY <1>1, <1>2, <1>3, <1>4, <1>5, <1>6

\* The frame that arrives is later than every frame the queue has seen.
LEMMA Later ==
    ASSUME IInv, OrderInv, HeldInv, hwFifo # <<>>
    PROVE  /\ Head(hwFifo) \in Msgs
           /\ Head(hwFifo) > (IF Unread # <<>> THEN Unread[Len(Unread)]
                              ELSE IF Taken # 0 THEN Taken ELSE rxmsg)
<1> DEFINE m == Head(hwFifo)
<1>1. m \in Msgs /\ m \in Int /\ 1 \in 1..Len(hwFifo) /\ m = hwFifo[1]
  BY HeadIsMsg, SMT DEF IInv
<1>2. rxmsg < m /\ \A b \in Boxes : data[b] < m
  BY <1>1 DEF OrderInv
<1>3. rxmsg \in Int /\ \A b \in Boxes : data[b] \in Int
  BY SMT DEF IInv, TypeOK
<1> HIDE DEF m
<1>4. m > rxmsg /\ \A b \in Boxes : m > data[b]
  BY <1>1, <1>2, <1>3, SMT
<1>5. CASE Unread # <<>>
  <2>1. Len(Unread) \in 1..Len(uselist)
    BY <1>5, QueueFacts, LenFacts, SMT
  <2>2. m > Unread[Len(Unread)]
    BY <1>4, <2>1, QueueFacts
  <2> QED BY <1>1, <1>5, <2>2 DEF m
<1>6. CASE Unread = <<>> /\ Taken # 0
  <2>1. Taken = data[listmsg] /\ listmsg \in Boxes
    BY <1>6 DEF Taken, IInv, TypeOK
  <2> QED BY <1>1, <1>4, <1>6, <2>1 DEF m
<1>7. CASE Unread = <<>> /\ Taken = 0
  BY <1>1, <1>4, <1>7 DEF m
<1> QED BY <1>5, <1>6, <1>7

\* The boxes are all in use exactly when none is free.
LEMMA Limit ==
    ASSUME IInv, HeldInv
    PROVE  (Len(Unread) + (IF Taken = 0 THEN 0 ELSE 1) < BoxNum) = (freelist # <<>>)
<1>1. freelist \in Seq(Boxes) /\ Places
  BY DEF IInv, TypeOK
<1>2. Len(freelist) \in Nat /\ (freelist = <<>>) = (Len(freelist) = 0)
  BY <1>1, LenFacts
<1>3. Len(Unread) = Len(uselist) /\ Len(uselist) \in Nat /\ (Taken = 0) = (listmsg = NoBox)
  BY QueueFacts
<1>4. Len(freelist) + Len(uselist) + (IF listmsg = NoBox THEN 0 ELSE 1) = BoxNum
  BY <1>1 DEF Places
<1> QED BY <1>2, <1>3, <1>4, Constants, SMT

LEMMA ArriveStep ==
    ASSUME IInv, OrderInv, HeldInv, NEW drops, Receive(drops), UNCHANGED <<listmsg, rxmsg>>
    PROVE  [Queue!Next]_(Queue!qvars)
<1> DEFINE m == Head(hwFifo)
<1>1. /\ hwFifo # <<>> /\ TypeOK /\ m \in 0..MaxMsgs
      /\ uselist \in Seq(Boxes) /\ data \in [Boxes -> 0..MaxMsgs]
      /\ (listmsg # NoBox => listmsg \in Boxes)
  BY HeadIsMsg DEF IInv, Receive, TypeOK
<1>2. m \in Msgs /\ m > (IF Unread # <<>> THEN Unread[Len(Unread)]
                         ELSE IF Taken # 0 THEN Taken ELSE rxmsg)
  BY <1>1, Later
<1> HIDE DEF m
<1>3. ASSUME NEW b, NEW rest, Stored(b, rest, m)
      PROVE  Unread' = Append(Frames(rest, data), m) /\ Taken' = Taken
  <2>1. Unread' = Frames(uselist', data')
    BY DEF Unread, Frames
  <2>2. Unread' = Append(Frames(rest, data), m)
    BY <1>1, <1>3, <2>1, FramesAppend DEF Stored
  <2>3. Taken' = Taken
    BY <1>1, <1>3, StoredData DEF Taken, Stored
  <2> QED BY <2>2, <2>3
<1>4. ASSUME Taken' = Taken,
             IF Len(Unread) + (IF Taken = 0 THEN 0 ELSE 1) < BoxNum
             THEN Unread' = Append(Unread, m)
             ELSE Unread # <<>> /\ Unread' = Append(Tail(Unread), m)
      PROVE  Queue!Arrive
  BY <1>2, <1>4, Zenon DEF Queue!Arrive, Queue!Held, Queue!Newest, Taken
<1>5. ASSUME NEW b, freelist # <<>>, Stored(b, uselist, m) PROVE Queue!Arrive
  BY <1>3, <1>4, <1>5, QueueFacts, Limit
<1>6. ASSUME NEW b, freelist = <<>>, uselist # <<>>, Stored(b, Tail(uselist), m)
      PROVE  Queue!Arrive
  <2>1. Unread # <<>> /\ Tail(Unread) = Frames(Tail(uselist), data)
    BY <1>1, <1>6, QueueFacts, FramesTail
  <2> QED BY <1>3, <1>4, <1>6, <2>1, Limit
<1>7. CASE UNCHANGED <<uselist, data>>
  BY <1>7, Zenon DEF Queue!qvars, Unread
<1>8. \/ \E b : freelist # <<>> /\ Stored(b, uselist, m)
      \/ \E b : freelist = <<>> /\ uselist # <<>> /\ Stored(b, Tail(uselist), m)
      \/ UNCHANGED <<uselist, data>>
  BY ReceiveCases DEF m
<1> QED BY <1>5, <1>6, <1>7, <1>8 DEF Queue!Next

LEMMA QueueStep ==
    ASSUME IInv, OrderInv, HeldInv, [Next]_vars
    PROVE  [Queue!Next]_(Queue!qvars)
<1>1. CASE RxIsr
  <2>1. Receive(dropedrcvpkg) /\ UNCHANGED <<listmsg, rxmsg>>
    BY <1>1, Zenon DEF RxIsr, thrVars
  <2> QED BY <2>1, ArriveStep
<1>2. CASE RxOverrun
  <2>1. Receive(dropedrcvpkg + 1) /\ UNCHANGED <<listmsg, rxmsg>>
    BY <1>2, Zenon DEF RxOverrun, thrVars
  <2> QED BY <2>1, ArriveStep
<1>3. CASE ReadTake
  <2>1. /\ UNCHANGED <<data, rxmsg>> /\ pc = "read" /\ uselist # <<>>
        /\ listmsg' = Head(uselist) /\ uselist' = Tail(uselist)
    BY <1>3, Zenon DEF ReadTake
  <2>2. /\ uselist \in Seq(Boxes) /\ data \in [Boxes -> 0..MaxMsgs] /\ listmsg = NoBox
    BY <2>1 DEF IInv, TypeOK, InHand
  <2>3. Head(uselist) \in Boxes /\ Head(uselist) # NoBox
    BY <2>1, <2>2, TailFacts, NoBoxIsNone
  <2>4. /\ Unread # <<>> /\ Head(Unread) = data[Head(uselist)]
        /\ Tail(Unread) = Frames(Tail(uselist), data)
    BY <2>1, <2>2, QueueFacts, FramesTail
  <2>5. Unread' = Tail(Unread)
    BY <2>1, <2>4 DEF Unread, Frames
  <2>6. Taken = 0 /\ Taken' = Head(Unread)
    BY <2>1, <2>2, <2>3, <2>4 DEF Taken
  <2>7. Queue!Take
    BY <2>1, <2>4, <2>5, <2>6, Zenon DEF Queue!Take, Taken
  <2> QED BY <2>7 DEF Queue!Next
<1>4. CASE ReadCopy
  <2>1. /\ UNCHANGED <<uselist, data, listmsg>> /\ pc = "copy" /\ rxmsg' = data[listmsg]
    BY <1>4, Zenon DEF ReadCopy, fifoVars
  <2>2. listmsg # NoBox
    BY <2>1 DEF IInv, InHand
  <2>3. Taken # 0 /\ rxmsg' = Taken /\ Taken' = Taken /\ Unread' = Unread
    BY <2>1, <2>2, QueueFacts DEF Taken, Unread
  <2>4. Queue!Copy
    BY <2>3, Zenon DEF Queue!Copy, Taken
  <2> QED BY <2>4 DEF Queue!Next
<1>5. CASE ReadPutBack
  <2>1. UNCHANGED <<uselist, data, rxmsg>> /\ pc = "putback" /\ listmsg' = NoBox
    BY <1>5, Zenon DEF ReadPutBack
  <2>2. listmsg # NoBox /\ rxmsg = data[listmsg]
    BY <2>1 DEF IInv, InHand, HeldInv
  <2>3. Taken # 0 /\ rxmsg = Taken /\ Taken' = 0 /\ Unread' = Unread
    BY <2>1, <2>2, QueueFacts DEF Taken, Unread
  <2>4. Queue!Release
    BY <2>1, <2>3, Zenon DEF Queue!Release, Taken
  <2> QED BY <2>4 DEF Queue!Next
<1>6. CASE \/ BusFrame \/ OpenDevice \/ IsrReturn \/ SetRxIndicate \/ SemTake
           \/ ReadNothing \/ Process \/ UNCHANGED vars
  <2>1. UNCHANGED <<uselist, data, listmsg, rxmsg>>
    BY <1>6, Zenon DEF BusFrame, OpenDevice, IsrReturn, SetRxIndicate, SemTake,
                       ReadNothing, Process, vars, fifoVars, thrVars
  <2> QED BY <2>1, Zenon DEF Queue!qvars, Unread
<1> QED BY <1>1, <1>2, <1>3, <1>4, <1>5, <1>6, Zenon DEF Next, Isr, Thread

-----------------------------------------------------------------------------

\* IsFrameQueue: the receive path is a queue of BoxNum frames that drops its
\* oldest, for every BoxNum, every depth of the controller's FIFO and whether
\* or not frames come before the callback.
THEOREM ImplementsQueue == Spec => IsFrameQueue
<1>1. Init => OrderInv /\ HeldInv
  <2> SUFFICES ASSUME Init PROVE OrderInv /\ HeldInv
    OBVIOUS
  <2>1. /\ Len(hwFifo) = 0 /\ Len(uselist) = 0 /\ sent = 0 /\ rxmsg = 0
        /\ listmsg = NoBox /\ pc = "start" /\ \A b \in Boxes : data[b] = 0
    BY EmptySeq DEF Init, NoMsg
  <2>2. Elems(uselist) = {}
    BY <2>1, SMT DEF Elems
  <2>3. \A k : k \notin 1..Len(hwFifo)
    BY <2>1, SMT
  <2>4. rxmsg <= sent /\ \A b \in Boxes : data[b] <= sent
    BY <2>1, SMT
  <2> QED BY <2>1, <2>2, <2>3, <2>4 DEF OrderInv, HeldInv
<1>2. Init => Queue!Init
  <2> SUFFICES ASSUME Init PROVE Queue!Init
    OBVIOUS
  <2>1. Len(uselist) = 0 /\ rxmsg = 0 /\ listmsg = NoBox
    BY EmptySeq DEF Init, NoMsg
  <2>2. Unread = <<>>
    BY <2>1, SMT DEF Unread
  <2> QED BY <2>1, <2>2 DEF Queue!Init
<1>3. IInv /\ OrderInv /\ HeldInv /\ [Next]_vars => OrderInv' /\ HeldInv'
  BY QueueInvStep
<1>4. IInv /\ OrderInv /\ HeldInv /\ [Next]_vars => [Queue!Next]_(Queue!qvars)
  BY QueueStep
<1> QED BY <1>1, <1>2, <1>3, <1>4, Inductive, PTL DEF Spec, IsFrameQueue, Queue!Spec

-----------------------------------------------------------------------------

LEMMA StoredIsLast ==
    ASSUME IInv, NEW b, NEW rest, NEW m \in 0..MaxMsgs, Stored(b, rest, m)
    PROVE  uselist' # <<>> /\ data'[uselist'[Len(uselist')]] = m
<1>1. /\ Append(rest, b) # <<>> /\ Len(Append(rest, b)) = Len(rest) + 1
      /\ Append(rest, b)[Len(rest) + 1] = b
  BY AppendFacts DEF Stored
<1>2. uselist' = Append(rest, b)
  BY DEF Stored
<1>3. data'[b] = m
  BY StoredData
<1> QED BY <1>1, <1>2, <1>3

\* With two boxes the reader cannot hold them all.
LEMMA ReceptionStores ==
    ASSUME IInv, BoxNum >= 2, NEW drops, Receive(drops)
    PROVE  uselist' # <<>> /\ data'[uselist'[Len(uselist')]] = Head(hwFifo)
<1>1. Head(hwFifo) \in 0..MaxMsgs
  BY HeadIsMsg DEF IInv, Receive
<1>2. ~(freelist = <<>> /\ uselist = <<>>)
  <2>1. /\ Len(freelist) + Len(uselist) + (IF listmsg = NoBox THEN 0 ELSE 1) = BoxNum
        /\ freelist \in Seq(Boxes) /\ uselist \in Seq(Boxes)
    BY DEF IInv, Places, TypeOK
  <2>2. freelist = <<>> /\ uselist = <<>> => Len(freelist) = 0 /\ Len(uselist) = 0
    BY <2>1, LenFacts
  <2> QED BY <2>1, <2>2, Constants, SMT
<1>3. \E b, rest : Stored(b, rest, Head(hwFifo))
  BY <1>2, ReceiveCases
<1> QED BY <1>1, <1>3, StoredIsLast

\* NoSilentLoss: with two boxes or more no reception loses the frame it took
\* from the controller, wherever the reader is.  With one box it may, which
\* dropedrcvpkg does not tell.
THEOREM ReceptionsAreStored == ASSUME BoxNum >= 2 PROVE Spec => NoSilentLoss
<1>1. IInv /\ [Next]_vars =>
        [(RxIsr \/ RxOverrun) /\ rcvpkg' # rcvpkg
            => uselist' # <<>> /\ data'[uselist'[Len(uselist')]] = Head(hwFifo)]_vars
  <2> SUFFICES ASSUME IInv, RxIsr \/ RxOverrun
               PROVE  uselist' # <<>> /\ data'[uselist'[Len(uselist')]] = Head(hwFifo)
    OBVIOUS
  <2>1. \E drops : Receive(drops)
    BY Zenon DEF RxIsr, RxOverrun
  <2> QED BY <2>1, ReceptionStores
<1> QED BY <1>1, Inductive, PTL DEF Spec, NoSilentLoss
=============================================================================
