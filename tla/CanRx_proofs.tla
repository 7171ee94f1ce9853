---------------------------- MODULE CanRx_proofs ----------------------------
(***************************************************************************)
(* For every number of message boxes, depth of the controller's FIFO and   *)
(* amount of traffic: the boxes are conserved, and a reader that sleeps    *)
(* has read everything, unless frames came before its callback or the      *)
(* semaphore wrapped.                                                      *)
(***************************************************************************)
EXTENDS CanRx, SequenceTheorems, TLAPS

LEMMA Constants ==
    /\ BoxNum \in Nat \ {0} /\ HwDepth \in Nat /\ HwDepth >= 2
    /\ SemMod \in Nat \ {0} /\ MaxMsgs \in Nat
BY RxAssumption, SMT DEF RxAssumption

-----------------------------------------------------------------------------
(* Lists of boxes                                                          *)

Elems(s) == {s[i] : i \in 1..Len(s)}

LEMMA AppendFacts ==
    ASSUME NEW S, NEW s \in Seq(S), NEW x \in S
    PROVE  /\ Append(s, x) \in Seq(S) /\ Append(s, x) # <<>>
           /\ Len(Append(s, x)) = Len(s) + 1
           /\ \A i \in 1..Len(s) : Append(s, x)[i] = s[i]
           /\ Append(s, x)[Len(s) + 1] = x
BY SMT

LEMMA TailFacts ==
    ASSUME NEW S, NEW s \in Seq(S), s # <<>>
    PROVE  /\ Head(s) \in S /\ Tail(s) \in Seq(S)
           /\ Len(s) \in Nat \ {0} /\ Len(Tail(s)) = Len(s) - 1
           /\ Head(s) = s[1]
           /\ \A i \in 1..Len(s)-1 : Tail(s)[i] = s[i+1]
BY SMT

LEMMA LenFacts ==
    ASSUME NEW S, NEW s \in Seq(S)
    PROVE  Len(s) \in Nat /\ (s = <<>>) = (Len(s) = 0)
BY SMT

\* A box put at the end of a list it is not in.
LEMMA AppendElems ==
    ASSUME NEW S, NEW s \in Seq(S), NEW x \in S
    PROVE  /\ Elems(Append(s, x)) = Elems(s) \cup {x}
           /\ Distinct(s) /\ x \notin Elems(s) => Distinct(Append(s, x))
<1> DEFINE t == Append(s, x)
<1>1. /\ Len(t) = Len(s) + 1 /\ Len(s) \in Nat
      /\ \A i \in 1..Len(s) : t[i] = s[i]
      /\ t[Len(s) + 1] = x
  BY AppendFacts, LenFacts
<1> HIDE DEF t
<1>2. 1..Len(t) = 1..Len(s) \cup {Len(s) + 1}
  BY <1>1, SMT
<1>3. Elems(t) = Elems(s) \cup {x}
  BY <1>1, <1>2 DEF Elems
<1>4. ASSUME Distinct(s), x \notin Elems(s) PROVE Distinct(t)
  BY <1>1, <1>2, <1>4 DEF Distinct, Elems
<1> QED BY <1>3, <1>4 DEF t

\* A box taken from the head of a list.
LEMMA TailElems ==
    ASSUME NEW S, NEW s \in Seq(S), s # <<>>, Distinct(s)
    PROVE  /\ Distinct(Tail(s)) /\ Head(s) \in Elems(s)
           /\ Elems(Tail(s)) = Elems(s) \ {Head(s)}
<1> DEFINE t == Tail(s)
<1>1. /\ Len(s) \in Nat \ {0} /\ Len(t) = Len(s) - 1 /\ Head(s) = s[1]
      /\ \A i \in 1..Len(s)-1 : t[i] = s[i+1]
  BY TailFacts
<1> HIDE DEF t
<1>2. \A i \in 1..Len(t) : i + 1 \in 1..Len(s) /\ i + 1 # 1 /\ i \in 1..Len(s)-1
  BY <1>1, SMT
<1>3. \A i \in 1..Len(t) : t[i] = s[i+1] /\ t[i] # Head(s)
  BY <1>1, <1>2 DEF Distinct
<1>4. Distinct(t)
  BY <1>1, <1>2, <1>3, SMT DEF Distinct
<1>5. Head(s) \in Elems(s)
  BY <1>1, SMT DEF Elems
<1>6. Elems(t) \subseteq Elems(s) \ {Head(s)}
  BY <1>2, <1>3 DEF Elems
<1>7. ASSUME NEW b \in Elems(s) \ {Head(s)} PROVE b \in Elems(t)
  <2>1. PICK i \in 1..Len(s) : b = s[i]
    BY <1>7 DEF Elems
  <2>2. i # 1
    BY <1>1, <1>7, <2>1
  <2>3. i - 1 \in 1..Len(t) /\ i - 1 \in 1..Len(s)-1 /\ (i - 1) + 1 = i
    BY <1>1, <2>2, SMT
  <2> QED BY <1>1, <2>1, <2>3 DEF Elems
<1> QED BY <1>4, <1>5, <1>6, <1>7 DEF t

-----------------------------------------------------------------------------
(* The message boxes                                                       *)

\* BoxesConserved, said of the sets of boxes the lists hold.
Places ==
    /\ Distinct(freelist) /\ Distinct(uselist)
    /\ Elems(freelist) \cap Elems(uselist) = {}
    /\ listmsg \notin Elems(freelist) /\ listmsg \notin Elems(uselist)
    /\ freenumbers = Len(freelist)
    /\ Len(freelist) + Len(uselist) + (IF listmsg = NoBox THEN 0 ELSE 1) = BoxNum
InHand == (listmsg # NoBox) = (pc \in {"copy", "putback"})

Lists ==
    /\ freelist \in Seq(Boxes) /\ uselist \in Seq(Boxes) /\ freenumbers \in Nat
    /\ data \in [Boxes -> 0..MaxMsgs]
    /\ listmsg \in Boxes \cup {NoBox}

\* The inductive invariant.
IInv == TypeOK /\ Places /\ InHand

LEMMA BoxesAreElems == ASSUME TypeOK, Places, InHand PROVE BoxesConserved
<1>1. \A k \in 1..Len(freelist) : freelist[k] \in Elems(freelist)
  BY DEF Elems
<1>2. \A k \in 1..Len(uselist) : uselist[k] \in Elems(uselist)
  BY DEF Elems
<1> QED BY <1>1, <1>2, Zenon DEF Places, InHand, BoxesConserved

LEMMA NoBoxIsNone == NoBox \notin Boxes
BY Constants, SMT DEF NoBox, Boxes

LEMMA ElemsTyped ==
    ASSUME NEW S, NEW q \in Seq(S) PROVE Elems(q) \subseteq S
BY SMT DEF Elems

\* A frame taken from the controller is a frame.
LEMMA HeadFrame ==
    ASSUME TypeOK, hwFifo # <<>>
    PROVE  /\ Head(hwFifo) \in 0..MaxMsgs /\ Tail(hwFifo) \in Seq(Msgs)
           /\ Len(Tail(hwFifo)) <= HwDepth
<1>1. hwFifo \in Seq(Msgs) /\ Len(hwFifo) <= HwDepth
  BY DEF TypeOK
<1>2. Head(hwFifo) \in Msgs /\ Tail(hwFifo) \in Seq(Msgs)
      /\ Len(hwFifo) \in Nat \ {0} /\ Len(Tail(hwFifo)) = Len(hwFifo) - 1
  BY <1>1, TailFacts
<1> QED BY <1>1, <1>2, Constants, SMT DEF Msgs

\* A reception moves boxes between the lists and loses none.
LEMMA ReceiveKeepsBoxes ==
    ASSUME TypeOK, Places, NEW drops \in Nat, Receive(drops), listmsg' = listmsg
    PROVE  Lists' /\ Places' /\ dropedrcvpkg' \in Nat
<1>1. /\ freelist \in Seq(Boxes) /\ uselist \in Seq(Boxes) /\ freenumbers \in Nat
      /\ data \in [Boxes -> 0..MaxMsgs] /\ listmsg \in Boxes \cup {NoBox}
  BY DEF TypeOK
<1>2. Head(hwFifo) \in 0..MaxMsgs
  BY HeadFrame DEF Receive
<1>3. CASE StoreFree(drops)
  <2> DEFINE b == Head(freelist)
  <2>1. /\ b \in Boxes /\ Tail(freelist) \in Seq(Boxes)
        /\ Len(Tail(freelist)) = Len(freelist) - 1 /\ Len(freelist) \in Nat \ {0}
    BY <1>1, <1>3, TailFacts DEF StoreFree
  <2>2. /\ Distinct(Tail(freelist)) /\ b \in Elems(freelist)
        /\ Elems(Tail(freelist)) = Elems(freelist) \ {b}
    BY <1>1, <1>3, TailElems DEF StoreFree, Places
  <2>3. b \notin Elems(uselist) /\ b # listmsg
    BY <2>2 DEF Places
  <2>4. /\ Append(uselist, b) \in Seq(Boxes) /\ Len(Append(uselist, b)) = Len(uselist) + 1
        /\ Elems(Append(uselist, b)) = Elems(uselist) \cup {b}
        /\ Distinct(Append(uselist, b)) /\ Len(uselist) \in Nat
    BY <1>1, <2>1, <2>3, AppendFacts, AppendElems, LenFacts DEF Places
  <2>5. /\ freelist' = Tail(freelist) /\ uselist' = Append(uselist, b)
        /\ freenumbers' = freenumbers - 1 /\ dropedrcvpkg' = drops
        /\ data' = [data EXCEPT ![b] = Head(hwFifo)]
    BY <1>3 DEF StoreFree, InsertBefore
  <2> HIDE DEF b
  <2>6. data' \in [Boxes -> 0..MaxMsgs]
    BY <1>1, <1>2, <2>1, <2>5
  <2>7. freenumbers' = Len(freelist') /\ freenumbers' \in Nat
    BY <2>1, <2>5, SMT DEF Places
  <2>8. Len(freelist') + Len(uselist') = Len(freelist) + Len(uselist)
    BY <2>1, <2>4, <2>5, SMT
  <2>9. Lists'
    BY <1>1, <2>1, <2>4, <2>5, <2>6, <2>7 DEF Lists
  <2>10. Places'
    BY <2>2, <2>3, <2>4, <2>5, <2>7, <2>8, Zenon DEF Places
  <2> QED BY <2>5, <2>9, <2>10
<1>4. CASE RecycleOldest(drops)
  <2> DEFINE b == Head(uselist)  rest == Tail(uselist)
  <2>1. /\ b \in Boxes /\ rest \in Seq(Boxes)
        /\ Len(rest) = Len(uselist) - 1 /\ Len(uselist) \in Nat \ {0}
    BY <1>1, <1>4, TailFacts DEF RecycleOldest
  <2>2. /\ Distinct(rest) /\ b \in Elems(uselist)
        /\ Elems(rest) = Elems(uselist) \ {b}
    BY <1>1, <1>4, TailElems DEF RecycleOldest, Places
  <2>3. /\ uselist' = Append(rest, b) /\ dropedrcvpkg' = drops + 1
        /\ data' = [data EXCEPT ![b] = Head(hwFifo)]
        /\ UNCHANGED <<freelist, freenumbers>>
    BY <1>4 DEF RecycleOldest, InsertBefore
  <2> HIDE DEF b, rest
  <2>4. /\ Append(rest, b) \in Seq(Boxes) /\ Len(Append(rest, b)) = Len(rest) + 1
        /\ Elems(Append(rest, b)) = Elems(rest) \cup {b}
        /\ Distinct(Append(rest, b))
    BY <2>1, <2>2, AppendFacts, AppendElems
  <2>5. Elems(uselist') = Elems(uselist)
    BY <2>2, <2>3, <2>4
  <2>6. Len(uselist') = Len(uselist)
    BY <2>1, <2>3, <2>4, SMT
  <2>7. data' \in [Boxes -> 0..MaxMsgs]
    BY <1>1, <1>2, <2>1, <2>3
  <2>8. Lists' /\ dropedrcvpkg' \in Nat
    BY <1>1, <2>3, <2>4, <2>7 DEF Lists
  <2>9. Places'
    BY <2>3, <2>4, <2>5, <2>6, Zenon DEF Places
  <2> QED BY <2>8, <2>9
<1>5. CASE NoBoxLeft(drops)
  <2>1. UNCHANGED <<freelist, uselist, freenumbers, data, listmsg>> /\ dropedrcvpkg' = drops
    BY <1>5, Zenon DEF NoBoxLeft, fifoVars
  <2> QED BY <1>1, <2>1, Zenon DEF Lists, Places
<1> QED BY <1>3, <1>4, <1>5 DEF Receive

\* The token of a reception wakes the reader or is counted.
LEMMA NotifyFacts ==
    ASSUME TypeOK, InHand, NEW q, Notify(q), listmsg' = listmsg
    PROVE  /\ InHand' /\ sem' \in 0..SemMod-1
           /\ pc' \in {"start", "take", "wait", "read", "copy", "putback", "process"}
<1>1. (sem + 1) % SemMod \in 0..SemMod-1
  BY Constants, SMT DEF TypeOK
<1>2. CASE SemRelease
  BY <1>1, <1>2 DEF SemRelease, TypeOK, InHand
<1>3. CASE UNCHANGED <<pc, sem>>
  BY <1>3 DEF TypeOK, InHand
<1> QED BY <1>2, <1>3 DEF Notify

LEMMA ReceiveInv ==
    ASSUME IInv, NEW drops \in Nat, Receive(drops),
           UNCHANGED <<sent, rxOpen, indicate, listmsg, rxmsg, rxHdr>>,
           isr' \in {"off", "check"}, overrun' \in BOOLEAN
    PROVE  IInv'
<1>1. TypeOK /\ Places /\ InHand
  BY DEF IInv
<1>2. Lists' /\ Places' /\ dropedrcvpkg' \in Nat
  BY <1>1, ReceiveKeepsBoxes
<1>3. InHand' /\ sem' \in 0..SemMod-1
      /\ pc' \in {"start", "take", "wait", "read", "copy", "putback", "process"}
  BY <1>1, NotifyFacts DEF Receive
<1>4. hwFifo' \in Seq(Msgs) /\ Len(hwFifo') <= HwDepth
  BY <1>1, HeadFrame DEF Receive
<1>5. rcvpkg' \in Nat
  BY <1>1 DEF Receive, TypeOK
<1> QED BY <1>1, <1>2, <1>3, <1>4, <1>5, Zenon DEF IInv, TypeOK, Lists

\* The reader gives its box back.
LEMMA PutBackInv == ASSUME IInv, ReadPutBack PROVE IInv'
<1>1. TypeOK /\ Places /\ InHand
  BY DEF IInv
<1>2. listmsg \in Boxes /\ listmsg # NoBox /\ freelist \in Seq(Boxes)
      /\ listmsg \notin Elems(freelist) /\ listmsg \notin Elems(uselist)
  BY <1>1, NoBoxIsNone DEF ReadPutBack, TypeOK, InHand, Places
<1>3. /\ freelist' \in Seq(Boxes) /\ Len(freelist') = Len(freelist) + 1
      /\ Elems(freelist') = Elems(freelist) \cup {listmsg} /\ Distinct(freelist')
  BY <1>1, <1>2, AppendFacts, AppendElems DEF ReadPutBack, Places
<1>4. freenumbers' = Len(freelist') /\ freenumbers' \in Nat
  BY <1>1, <1>3, SMT DEF ReadPutBack, Places, TypeOK
<1>5. listmsg' = NoBox /\ pc' = "process" /\ uselist' = uselist
  BY DEF ReadPutBack
<1>6. NoBox \notin Elems(freelist') /\ NoBox \notin Elems(uselist')
  BY <1>1, <1>3, <1>5, ElemsTyped, NoBoxIsNone DEF TypeOK
<1>7. Len(freelist') + Len(uselist') = BoxNum
  <2>1. Len(freelist) + Len(uselist) + 1 = BoxNum
    BY <1>1, <1>2 DEF Places
  <2>2. Len(freelist) \in Nat /\ Len(uselist) \in Nat
    BY <1>1, LenFacts DEF TypeOK
  <2> QED BY <2>1, <2>2, <1>3, <1>5, SMT
<1>8. Places'
  <2>1. Len(freelist') + Len(uselist') + 0 = BoxNum
    BY <1>7, Constants, SMT
  <2> QED BY <1>1, <1>2, <1>3, <1>4, <1>5, <1>6, <2>1, Zenon DEF Places
<1>9. InHand'
  BY <1>5, SMT DEF InHand
<1>10. TypeOK'
  BY <1>1, <1>3, <1>4, <1>5, Zenon DEF ReadPutBack, TypeOK, hwVars, statVars
<1> QED BY <1>8, <1>9, <1>10 DEF IInv

\* The reader takes the oldest used box.
LEMMA TakeInv == ASSUME IInv, ReadTake PROVE IInv'
<1>1. TypeOK /\ Places /\ InHand
  BY DEF IInv
<1>2. listmsg = NoBox /\ uselist \in Seq(Boxes) /\ uselist # <<>> /\ Distinct(uselist)
  BY <1>1 DEF ReadTake, InHand, TypeOK, Places
<1>3. /\ listmsg' \in Boxes /\ uselist' \in Seq(Boxes) /\ Len(uselist') = Len(uselist) - 1
      /\ Len(uselist) \in Nat \ {0} /\ listmsg' = Head(uselist)
  BY <1>2, TailFacts DEF ReadTake
<1>4. /\ Distinct(uselist') /\ listmsg' \in Elems(uselist)
      /\ Elems(uselist') = Elems(uselist) \ {listmsg'}
  BY <1>2, <1>3, TailElems DEF ReadTake
<1>5. pc' = "copy" /\ freelist' = freelist /\ freenumbers' = freenumbers /\ listmsg' # NoBox
  BY <1>3, NoBoxIsNone DEF ReadTake
<1>6. Len(freelist') + Len(uselist') + 1 = BoxNum
  <2>1. Len(freelist) + Len(uselist) + 0 = BoxNum
    BY <1>1, <1>2 DEF Places
  <2>2. Len(freelist) \in Nat
    BY <1>1, LenFacts DEF TypeOK
  <2> QED BY <2>1, <2>2, <1>3, <1>5, SMT
<1>7. Places'
  BY <1>1, <1>4, <1>5, <1>6, Zenon DEF Places
<1>8. InHand'
  BY <1>5, SMT DEF InHand
<1>9. TypeOK'
  BY <1>1, <1>3, <1>5, Zenon DEF ReadTake, TypeOK, hwVars, statVars
<1> QED BY <1>7, <1>8, <1>9 DEF IInv

\* The other steps of the threads and of the bus move no box.
LEMMA ElsewhereInv ==
    ASSUME IInv, UNCHANGED <<freelist, uselist, freenumbers, data, listmsg>>, TypeOK',
           (pc' \in {"copy", "putback"}) = (pc \in {"copy", "putback"})
    PROVE  IInv'
BY Zenon DEF IInv, Places, InHand

LEMMA BusInv == ASSUME IInv, BusFrame PROVE IInv'
<1>1. TypeOK
  BY DEF IInv
<1>2. sent + 1 \in Msgs /\ sent' \in 0..MaxMsgs
  BY <1>1, Constants, SMT DEF BusFrame, TypeOK, Msgs
<1>3. hwFifo \in Seq(Msgs) /\ Len(hwFifo) \in Nat /\ Len(hwFifo) <= HwDepth
  BY <1>1, LenFacts DEF TypeOK
<1>4. hwFifo' \in Seq(Msgs) /\ Len(hwFifo') <= HwDepth /\ overrun' \in BOOLEAN
  <2>1. CASE Len(hwFifo) < HwDepth
    <3>1. hwFifo' = Append(hwFifo, sent + 1) /\ overrun' = overrun
      BY <2>1 DEF BusFrame
    <3>2. hwFifo' \in Seq(Msgs) /\ Len(hwFifo') = Len(hwFifo) + 1
      BY <1>2, <1>3, <3>1, AppendFacts
    <3> QED BY <1>1, <1>3, <2>1, <3>1, <3>2, Constants, SMT DEF TypeOK
  <2>2. CASE ~(Len(hwFifo) < HwDepth)
    <3>1. hwFifo' = [hwFifo EXCEPT ![HwDepth] = sent + 1] /\ overrun' = TRUE
      BY <2>2 DEF BusFrame
    <3>2. HwDepth \in 1..Len(hwFifo)
      BY <1>3, <2>2, Constants, SMT
    <3> QED BY <1>2, <1>3, <3>1, <3>2, ExceptSeq
  <2> QED BY <2>1, <2>2
<1>5. TypeOK'
  BY <1>1, <1>2, <1>4, Zenon DEF BusFrame, TypeOK, fifoVars, statVars, thrVars
<1>6. UNCHANGED <<freelist, uselist, freenumbers, data, listmsg, pc>>
  BY Zenon DEF BusFrame, fifoVars, thrVars
<1> QED BY <1>5, <1>6, ElsewhereInv

\* A step of a thread that moves no box.
LEMMA ThreadInv ==
    ASSUME IInv, OpenDevice \/ SetRxIndicate \/ SemTake \/ ReadNothing \/ ReadCopy \/ Process
    PROVE  IInv'
<1>1. TypeOK
  BY DEF IInv
<1>2. UNCHANGED <<freelist, uselist, freenumbers, data, listmsg>>
  BY Zenon DEF OpenDevice, SetRxIndicate, SemTake, ReadNothing, ReadCopy, Process,
               fifoVars, thrVars
<1>3. (pc' \in {"copy", "putback"}) = (pc \in {"copy", "putback"})
  BY DEF OpenDevice, SetRxIndicate, SemTake, ReadNothing, ReadCopy, Process
<1>4. TypeOK'
  <2>1. CASE OpenDevice
    BY <1>1, <2>1, Zenon DEF OpenDevice, TypeOK, hwVars, fifoVars, statVars, thrVars
  <2>2. CASE SetRxIndicate
    BY <1>1, <2>2, Zenon DEF SetRxIndicate, TypeOK, hwVars, fifoVars, statVars, thrVars
  <2>3. CASE SemTake
    <3>1. sem' \in 0..SemMod-1 /\ pc' \in {"read", "wait"}
      <4>1. sem \in 0..SemMod-1
        BY <1>1 DEF TypeOK
      <4>2. sem > 0 => sem - 1 \in 0..SemMod-1
        BY <4>1, Constants, SMT
      <4> QED BY <2>3, <4>1, <4>2 DEF SemTake
    <3> QED BY <1>1, <2>3, <3>1, Zenon DEF SemTake, TypeOK, hwVars, fifoVars, statVars
  <2>4. CASE ReadNothing
    BY <1>1, <2>4, Zenon DEF ReadNothing, TypeOK, hwVars, fifoVars, statVars, thrVars
  <2>5. CASE ReadCopy
    <3>1. listmsg \in Boxes
      BY <2>5 DEF IInv, TypeOK, InHand, ReadCopy
    <3>2. data[listmsg] \in 0..MaxMsgs
      BY <1>1, <3>1 DEF TypeOK
    <3> QED BY <1>1, <2>5, <3>2, Zenon DEF ReadCopy, TypeOK, hwVars, fifoVars, statVars
  <2>6. CASE Process
    BY <1>1, <2>6, Zenon DEF Process, TypeOK, hwVars, fifoVars, statVars, thrVars
  <2> QED BY <2>1, <2>2, <2>3, <2>4, <2>5, <2>6
<1> QED BY <1>2, <1>3, <1>4, ElsewhereInv

LEMMA InitIInv == Init => IInv
<1> SUFFICES ASSUME Init PROVE IInv
  OBVIOUS
<1>1. freelist = [k \in 1..BoxNum |-> k] /\ uselist = <<>> /\ listmsg = NoBox
      /\ freenumbers = BoxNum /\ pc = "start"
  BY DEF Init
<1>2. freelist \in Seq(Boxes) /\ Len(freelist) = BoxNum /\ uselist \in Seq(Boxes)
      /\ Len(uselist) = 0
  <2>1. [k \in 1..BoxNum |-> k] \in [1..BoxNum -> Boxes] /\ BoxNum \in Nat
    BY Constants DEF Boxes
  <2>2. DOMAIN freelist = 1..BoxNum /\ freelist \in Seq(Boxes)
    BY <1>1, <2>1, SMT
  <2>3. Len(freelist) = BoxNum
    BY <2>1, <2>2, SMT
  <2> QED BY <1>1, <2>2, <2>3, EmptySeq
<1>3. Elems(freelist) = Boxes /\ Elems(uselist) = {} /\ Distinct(freelist) /\ Distinct(uselist)
  <2>1. \A k \in 1..Len(freelist) : freelist[k] = k
    BY <1>1, <1>2
  <2>2. 1..Len(uselist) = {}
    BY <1>2, SMT
  <2>3. Elems(freelist) = Boxes
    BY <1>2, <2>1 DEF Elems, Boxes
  <2> QED BY <2>1, <2>2, <2>3 DEF Elems, Distinct
<1>4. Places
  <2>1. listmsg \notin Elems(freelist) /\ listmsg \notin Elems(uselist)
        /\ Elems(freelist) \cap Elems(uselist) = {}
    BY <1>1, <1>3, NoBoxIsNone
  <2>2. Len(freelist) + Len(uselist) + (IF listmsg = NoBox THEN 0 ELSE 1) = BoxNum
    BY <1>1, <1>2, Constants, SMT
  <2> QED BY <1>1, <1>2, <1>3, <2>1, <2>2 DEF Places
<1>5. InHand
  BY <1>1, SMT DEF InHand
<1>6. /\ sent \in 0..MaxMsgs /\ sem \in 0..SemMod-1 /\ rxmsg \in 0..MaxMsgs
      /\ rcvpkg \in Nat /\ dropedrcvpkg \in Nat /\ rxHdr \in {-1, 0}
      /\ freenumbers \in Nat /\ data \in [Boxes -> 0..MaxMsgs]
  BY Constants, SMT DEF Init, NoMsg
<1>7. hwFifo \in Seq(Msgs) /\ Len(hwFifo) <= HwDepth
  BY Constants, SMT DEF Init
<1>8. TypeOK
  BY <1>2, <1>6, <1>7, Zenon DEF Init, TypeOK
<1> QED BY <1>4, <1>5, <1>8 DEF IInv

LEMMA StepIInv == IInv /\ [Next]_vars => IInv'
<1> SUFFICES ASSUME IInv, [Next]_vars PROVE IInv'
  OBVIOUS
<1>1. CASE BusFrame
  BY <1>1, BusInv
<1>2. CASE RxIsr
  <2>1. dropedrcvpkg \in Nat /\ overrun \in BOOLEAN
    BY DEF IInv, TypeOK
  <2>2. Receive(dropedrcvpkg) /\ isr' = "check" /\ overrun' = overrun
        /\ UNCHANGED <<sent, rxOpen, indicate, listmsg, rxmsg, rxHdr>>
    BY <1>2, Zenon DEF RxIsr, thrVars
  <2> QED BY <2>1, <2>2, ReceiveInv
<1>3. CASE RxOverrun
  <2>1. dropedrcvpkg + 1 \in Nat
    BY DEF IInv, TypeOK
  <2>2. Receive(dropedrcvpkg + 1) /\ isr' = "off" /\ overrun' = FALSE
        /\ UNCHANGED <<sent, rxOpen, indicate, listmsg, rxmsg, rxHdr>>
    BY <1>3, Zenon DEF RxOverrun, thrVars
  <2> QED BY <2>1, <2>2, ReceiveInv
<1>4. CASE IsrReturn
  <2>1. TypeOK'
    BY <1>4, Zenon DEF IsrReturn, IInv, TypeOK, hwVars, fifoVars, statVars, thrVars
  <2>2. UNCHANGED <<freelist, uselist, freenumbers, data, listmsg, pc>>
    BY <1>4, Zenon DEF IsrReturn, fifoVars, thrVars
  <2> QED BY <2>1, <2>2, ElsewhereInv
<1>5. CASE ReadTake
  BY <1>5, TakeInv
<1>6. CASE ReadPutBack
  BY <1>6, PutBackInv
<1>7. CASE OpenDevice \/ SetRxIndicate \/ SemTake \/ ReadNothing \/ ReadCopy \/ Process
  BY <1>7, ThreadInv
<1>8. CASE UNCHANGED vars
  <2>1. TypeOK'
    BY <1>8, Zenon DEF vars, IInv, TypeOK, hwVars, fifoVars, statVars, thrVars
  <2>2. UNCHANGED <<freelist, uselist, freenumbers, data, listmsg, pc>>
    BY <1>8, Zenon DEF vars, fifoVars, thrVars
  <2> QED BY <2>1, <2>2, ElsewhereInv
<1> QED BY <1>1, <1>2, <1>3, <1>4, <1>5, <1>6, <1>7, <1>8 DEF Next, Isr, Thread

THEOREM Inductive == Spec => []IInv
BY InitIInv, StepIInv, PTL DEF Spec

\* Type correctness, the semaphore's width included.
THEOREM Typing == Spec => []TypeOK
<1>1. IInv => TypeOK
  BY DEF IInv
<1> QED BY <1>1, Inductive, PTL

\* BoxesConserved: no interleaving of receptions with the reader loses a box,
\* has one in two places or miscounts the free ones, for every BoxNum.
THEOREM NoBoxLost == Spec => []BoxesConserved
<1>1. IInv => BoxesConserved
  BY BoxesAreElems DEF IInv
<1> QED BY <1>1, Inductive, PTL

-----------------------------------------------------------------------------
(* Tokens and frames                                                       *)

\* What the reader's sleep rests on: a token for every unread frame, the one
\* in the hand of a reader about to read included, and no more receptions
\* than the bus carried frames, so that the semaphore does not wrap.
Waiting == IF pc = "read" THEN 1 ELSE 0
TokenInv ==
    /\ ~indicate => sent = 0 /\ hwFifo = <<>> /\ uselist = <<>> /\ rcvpkg = 0
                    /\ pc = "start" /\ sem = 0
    /\ rcvpkg + Len(hwFifo) <= sent
    /\ sem <= rcvpkg
    /\ Len(uselist) <= sem + Waiting
    /\ pc = "wait" => sem = 0
    /\ pc \in {"read", "wait"} => rxHdr = -1

\* The list is longer by at most the frame received.
LEMMA ReceiveLength ==
    ASSUME TypeOK, NEW drops, Receive(drops)
    PROVE  /\ Len(uselist') <= Len(uselist) + 1 /\ Len(uselist') \in Nat
           /\ Len(hwFifo') + 1 = Len(hwFifo) /\ Len(hwFifo') \in Nat
           /\ rcvpkg' = rcvpkg + 1 /\ hwFifo # <<>>
<1>1. uselist \in Seq(Boxes) /\ freelist \in Seq(Boxes) /\ hwFifo \in Seq(Msgs)
  BY DEF TypeOK
<1>2. Len(hwFifo') + 1 = Len(hwFifo) /\ Len(hwFifo') \in Nat
  <2>1. hwFifo # <<>> /\ hwFifo' = Tail(hwFifo)
    BY DEF Receive
  <2>2. Len(hwFifo) \in Nat \ {0} /\ Len(hwFifo') = Len(hwFifo) - 1
    BY <1>1, <2>1, TailFacts
  <2> QED BY <2>2, SMT
<1>3. Len(uselist') <= Len(uselist) + 1 /\ Len(uselist') \in Nat
  <2>1. CASE StoreFree(drops)
    <3>1. Head(freelist) \in Boxes /\ uselist' = Append(uselist, Head(freelist))
      BY <1>1, <2>1, TailFacts DEF StoreFree, InsertBefore
    <3>2. Len(uselist') = Len(uselist) + 1 /\ Len(uselist) \in Nat
      BY <1>1, <3>1, AppendFacts, LenFacts
    <3> QED BY <3>2, SMT
  <2>2. CASE RecycleOldest(drops)
    <3>1. /\ Head(uselist) \in Boxes /\ Tail(uselist) \in Seq(Boxes)
          /\ Len(Tail(uselist)) = Len(uselist) - 1 /\ Len(uselist) \in Nat \ {0}
          /\ uselist' = Append(Tail(uselist), Head(uselist))
      BY <1>1, <2>2, TailFacts DEF RecycleOldest, InsertBefore
    <3>2. Len(uselist') = Len(Tail(uselist)) + 1
      BY <3>1, AppendFacts
    <3> QED BY <3>1, <3>2, SMT
  <2>3. CASE NoBoxLeft(drops)
    <3>1. uselist' = uselist
      BY <2>3, Zenon DEF NoBoxLeft, fifoVars
    <3>2. Len(uselist) \in Nat
      BY <1>1, LenFacts
    <3> QED BY <3>1, <3>2, SMT
  <2> QED BY <2>1, <2>2, <2>3 DEF Receive
<1> QED BY <1>2, <1>3 DEF Receive

\* A reception leaves a token, or a woken reader, for its frame.
LEMMA ReceiveToken ==
    ASSUME TypeOK, TypeOK', TokenInv, MaxMsgs < SemMod, NEW drops, Receive(drops),
           UNCHANGED <<sent, indicate, rxHdr>>
    PROVE  TokenInv'
<1>1. /\ Len(uselist') <= Len(uselist) + 1 /\ Len(uselist') \in Nat
      /\ Len(hwFifo') + 1 = Len(hwFifo) /\ Len(hwFifo') \in Nat
      /\ rcvpkg' = rcvpkg + 1 /\ hwFifo # <<>>
  BY ReceiveLength
<1>2. indicate /\ indicate'
  BY <1>1 DEF TokenInv
<1>3. /\ sent \in 0..MaxMsgs /\ rcvpkg \in Nat /\ sem \in 0..SemMod-1
      /\ Len(uselist) \in Nat /\ rxHdr' = rxHdr /\ sent' = sent
      /\ uselist' \in Seq(Boxes)
  BY LenFacts DEF TypeOK
<1>4. (uselist' = <<>>) = (Len(uselist') = 0)
  BY <1>3, LenFacts
<1>5. rcvpkg + 1 + Len(hwFifo') <= sent /\ sem + 1 < SemMod
  BY <1>1, <1>3, Constants, SMT DEF TokenInv, Waiting
<1>6. (sem + 1) % SemMod = sem + 1
  BY <1>3, <1>5, Constants, SMT
<1>7. CASE uselist' = <<>>
  <2>1. pc' = pc /\ sem' = sem
    BY <1>7 DEF Receive, Notify
  <2> QED BY <1>1, <1>2, <1>3, <1>4, <1>5, <1>7, <2>1, SMT DEF TokenInv, Waiting
<1>8. CASE uselist' # <<>> /\ pc = "wait"
  <2>1. pc' = "read" /\ sem' = sem
    BY <1>2, <1>8 DEF Receive, Notify, SemRelease
  <2> QED BY <1>1, <1>2, <1>3, <1>5, <1>8, <2>1, SMT DEF TokenInv, Waiting
<1>9. CASE uselist' # <<>> /\ pc # "wait"
  <2>1. pc' = pc /\ sem' = sem + 1
    BY <1>2, <1>6, <1>9 DEF Receive, Notify, SemRelease
  <2> QED BY <1>1, <1>2, <1>3, <1>5, <1>9, <2>1, SMT DEF TokenInv, Waiting
<1> QED BY <1>7, <1>8, <1>9

\* A frame comes in behind the others, or over the last of them.
LEMMA BusFifo ==
    ASSUME TypeOK, BusFrame
    PROVE  \/ hwFifo' = Append(hwFifo, sent + 1)
           \/ Len(hwFifo) >= HwDepth /\ hwFifo' = [hwFifo EXCEPT ![HwDepth] = sent + 1]
<1>1. CASE Len(hwFifo) < HwDepth
  BY <1>1, Zenon DEF BusFrame
<1>2. CASE ~(Len(hwFifo) < HwDepth)
  <2>1. Len(hwFifo) >= HwDepth
    BY <1>2, LenFacts, Constants, SMT DEF TypeOK
  <2> QED BY <1>2, <2>1, Zenon DEF BusFrame
<1> QED BY <1>1, <1>2

LEMMA TokenStep ==
    ASSUME TypeOK, TypeOK', TokenInv, ~EarlyTraffic, MaxMsgs < SemMod, [Next]_vars
    PROVE  TokenInv'
<1>0. /\ sent \in 0..MaxMsgs /\ rcvpkg \in Nat /\ sem \in 0..SemMod-1
      /\ Len(uselist) \in Nat /\ Len(hwFifo) \in Nat /\ uselist \in Seq(Boxes)
      /\ hwFifo \in Seq(Msgs)
  BY LenFacts DEF TypeOK
<1>1. CASE BusFrame
  <2>1. indicate /\ sent' = sent + 1
        /\ UNCHANGED <<indicate, uselist, rcvpkg, pc, sem, rxHdr>>
    BY <1>1, Zenon DEF BusFrame, fifoVars, statVars, thrVars
  <2>2. Len(hwFifo') <= Len(hwFifo) + 1 /\ Len(hwFifo') \in Nat
    <3>1. CASE hwFifo' = Append(hwFifo, sent + 1)
      <4>1. sent + 1 \in Int /\ Msgs \subseteq Int
        BY <1>0, SMT DEF Msgs
      <4>2. hwFifo \in Seq(Int)
        BY <1>0, <4>1, SeqMonotonic
      <4>3. Len(hwFifo') = Len(hwFifo) + 1
        BY <3>1, <4>1, <4>2, AppendFacts
      <4> QED BY <1>0, <4>3, SMT
    <3>2. CASE Len(hwFifo) >= HwDepth /\ hwFifo' = [hwFifo EXCEPT ![HwDepth] = sent + 1]
      <4>1. HwDepth \in 1..Len(hwFifo) /\ sent + 1 \in Int /\ Msgs \subseteq Int
        BY <1>0, <3>2, Constants, SMT DEF Msgs
      <4>2. hwFifo \in Seq(Int)
        BY <1>0, <4>1, SeqMonotonic
      <4>3. Len(hwFifo') = Len(hwFifo)
        BY <3>2, <4>1, <4>2, ExceptSeq
      <4> QED BY <1>0, <4>3, SMT
    <3>3. \/ hwFifo' = Append(hwFifo, sent + 1)
          \/ Len(hwFifo) >= HwDepth /\ hwFifo' = [hwFifo EXCEPT ![HwDepth] = sent + 1]
      BY <1>1, BusFifo
    <3> QED BY <3>1, <3>2, <3>3
  <2> QED BY <1>0, <2>1, <2>2, SMT DEF TokenInv, Waiting
<1>2. CASE RxIsr
  <2>1. Receive(dropedrcvpkg) /\ UNCHANGED <<sent, indicate, rxHdr>>
    BY <1>2, Zenon DEF RxIsr, thrVars
  <2> QED BY <2>1, ReceiveToken
<1>3. CASE RxOverrun
  <2>1. Receive(dropedrcvpkg + 1) /\ UNCHANGED <<sent, indicate, rxHdr>>
    BY <1>3, Zenon DEF RxOverrun, thrVars
  <2> QED BY <2>1, ReceiveToken
<1>4. CASE SetRxIndicate
  <2>1. indicate' /\ pc = "start" /\ pc' = "take"
        /\ UNCHANGED <<sent, hwFifo, uselist, rcvpkg, sem, rxHdr>>
    BY <1>4, Zenon DEF SetRxIndicate, hwVars, fifoVars, statVars, thrVars
  <2> QED BY <1>0, <2>1, SMT DEF TokenInv, Waiting
<1>5. CASE SemTake
  <2>1. /\ rxHdr' = -1 /\ pc = "take"
        /\ (sem > 0 /\ sem' = sem - 1 /\ pc' = "read") \/ (~(sem > 0) /\ sem' = sem /\ pc' = "wait")
        /\ UNCHANGED <<sent, hwFifo, uselist, rcvpkg, indicate>>
    BY <1>5, Zenon DEF SemTake, hwVars, fifoVars, statVars
  <2> QED BY <1>0, <2>1, SMT DEF TokenInv, Waiting
<1>6. CASE ReadTake
  <2>1. Len(uselist') = Len(uselist) - 1
    BY <1>0, <1>6, TailFacts DEF ReadTake
  <2>2. pc = "read" /\ pc' = "copy" /\ UNCHANGED <<sent, hwFifo, rcvpkg, sem, indicate, rxHdr>>
    BY <1>6, Zenon DEF ReadTake, hwVars, statVars
  <2> QED BY <1>0, <2>1, <2>2, SMT DEF TokenInv, Waiting
<1>7. CASE ReadNothing
  <2>1. pc = "read" /\ pc' = "process" /\ (rxHdr # -1 \/ uselist = <<>>)
        /\ UNCHANGED <<sent, hwFifo, uselist, rcvpkg, sem, indicate, rxHdr>>
    BY <1>7, Zenon DEF ReadNothing, hwVars, fifoVars, statVars, thrVars
  <2>2. Len(uselist) = 0
    BY <1>0, <2>1, LenFacts DEF TokenInv
  <2> QED BY <1>0, <2>1, <2>2, SMT DEF TokenInv, Waiting
<1>8. CASE ReadCopy \/ ReadPutBack \/ Process
  <2>1. pc \notin {"read", "wait", "start"} /\ pc' \notin {"read", "wait"}
        /\ UNCHANGED <<sent, hwFifo, uselist, rcvpkg, sem, indicate>>
    BY <1>8, Zenon DEF ReadCopy, ReadPutBack, Process, hwVars, fifoVars, statVars, thrVars
  <2> QED BY <1>0, <2>1, SMT DEF TokenInv, Waiting
<1>9. CASE OpenDevice \/ IsrReturn \/ UNCHANGED vars
  <2>1. UNCHANGED <<sent, hwFifo, uselist, rcvpkg, sem, indicate, pc, rxHdr>>
    BY <1>9, Zenon DEF OpenDevice, IsrReturn, vars, hwVars, fifoVars, statVars, thrVars
  <2> QED BY <2>1, Zenon DEF TokenInv, Waiting
<1> QED
  BY <1>1, <1>2, <1>3, <1>4, <1>5, <1>6, <1>7, <1>8, <1>9, Zenon DEF Next, Isr, Thread

\* NoFrameStranded: when the callback is registered before the first frame and
\* the semaphore is wide enough for the frames of the run, a sleeping reader
\* has read everything.  Both assumptions are needed: the run canrx_early
\* violates the first, and a wrapped semaphore forgets its tokens.
THEOREM ReaderNeverStranded ==
    ASSUME ~EarlyTraffic, MaxMsgs < SemMod
    PROVE  Spec => []NoFrameStranded
<1>1. Init => TokenInv
  <2> SUFFICES ASSUME Init PROVE TokenInv
    OBVIOUS
  <2>1. Len(hwFifo) = 0 /\ Len(uselist) = 0 /\ hwFifo = <<>> /\ uselist = <<>>
    BY EmptySeq DEF Init
  <2> QED BY <2>1, SMT DEF Init, TokenInv, Waiting
<1>2. TypeOK /\ TypeOK' /\ TokenInv /\ [Next]_vars => TokenInv'
  BY TokenStep
<1>3. TypeOK /\ TokenInv => NoFrameStranded
  <2> SUFFICES ASSUME TypeOK, TokenInv, pc = "wait" PROVE uselist = <<>>
    BY DEF NoFrameStranded
  <2>1. Len(uselist) <= 0 /\ uselist \in Seq(Boxes)
    BY SMT DEF TokenInv, Waiting, TypeOK
  <2>2. Len(uselist) \in Nat
    BY <2>1, LenFacts
  <2>3. Len(uselist) = 0
    BY <2>1, <2>2, SMT
  <2> QED BY <2>1, <2>3, LenFacts
<1> QED BY <1>1, <1>2, <1>3, Typing, PTL DEF Spec
=============================================================================
