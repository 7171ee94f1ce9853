--------------------------- MODULE DbusDma_proofs ---------------------------
(***************************************************************************)
(* For every ring size, frame size and timing of the handler: the indices  *)
(* of the serial fifo stay consistent with the DMA, the fifo is never full *)
(* and the callback never copies more than N - 1 bytes.  With a handler    *)
(* that ends before the next frame starts, what has the length of a frame  *)
(* is one, and only the first decode can be of something else.             *)
(***************************************************************************)
EXTENDS DbusDma, TLAPS

\* Until the callback is registered nothing reads the fifo, and until the
\* device is open nothing moves.
BeforeReady ==
    /\ stage # "ready" => get = 0
    /\ stage = "closed" => put = 0 /\ pc = "off"

\* The callback is told exactly what the fifo holds.
ToldWhatIsThere ==
    pc = "callback" => stage = "ready" /\ length = RecvedLen(put, get, FALSE)

\* The inductive invariant: the checked invariants and what carries them from
\* the opening of the device to the first callback.
IInv ==
    /\ TypeOK
    /\ PutFollowsDma
    /\ ReaderDrained
    /\ NeverFull
    /\ BeforeReady
    /\ ToldWhatIsThere

-----------------------------------------------------------------------------

LEMMA Constants == N \in Nat /\ 0 < N /\ N < 65536 /\ F \in Nat \ {0} /\ Frames \in Nat \ {0}
                      /\ MaxShort \in Nat
BY ConstantsAssumption DEF ConstantsAssumption

\* Remainders: a small number is its own, a wrapped one loses the ring once.
LEMMA ModSmall == ASSUME NEW n \in Nat, NEW a \in Nat, a < n PROVE a % n = a
BY SMT

LEMMA ModWrap == ASSUME NEW n \in Nat, NEW a \in Nat, a < n PROVE (a + n) % n = a
BY SMT

LEMMA ModRange == ASSUME NEW n \in Nat \ {0}, NEW a \in Int PROVE a % n \in 0..n-1
BY SMT

\* What is unread is less than the ring, and reading it brings the get index
\* to the put index (rt_dma_calc_recved_len, rt_dma_recv_update_get_index).
LEMMA UnreadFits ==
    ASSUME NEW p \in 0..N-1, NEW g \in 0..N-1
    PROVE  /\ RecvedLen(p, g, FALSE) \in 0..N-1
           /\ (g + RecvedLen(p, g, FALSE)) % N = p
<1>1. N \in Nat /\ N >= 1 /\ p \in Nat /\ g \in Nat /\ p < N /\ g < N
  BY Constants, SMT
<1>2. CASE p < g
  <2>1. RecvedLen(p, g, FALSE) = N - (g - p)
    BY <1>2, <1>1, SMT DEF RecvedLen
  <2>2. N - (g - p) \in 0..N-1 /\ g + (N - (g - p)) = p + N
    BY <1>1, <1>2, SMT
  <2>3. (p + N) % N = p
    BY  ModWrap, <1>1
  <2> QED
    BY  <2>1, <2>2, <2>3, Zenon
<1>3. CASE ~ (p < g)
  <2>1. RecvedLen(p, g, FALSE) = p - g
    BY <1>3, <1>1, SMT DEF RecvedLen
  <2>2. p - g \in 0..N-1 /\ g + (p - g) = p
    BY <1>1, <1>3, SMT
  <2>3. p % N = p
    BY  ModSmall, <1>1
  <2> QED
    BY  <2>1, <2>2, <2>3, Zenon
<1> QED
  BY <1>2, <1>3

\* A byte of a frame is a Byte.
LEMMA FrameByte ==
    ASSUME NEW f \in 0..Frames-1, NEW i \in 0..F
    PROVE  <<f, i>> \in Byte
BY DEF Byte

LEMMA ZeroByte == Zero \in Byte
BY Constants, SMT DEF Zero, Byte

\* The moved index of rt_dma_recv_update_put_index is the sampled position.
LEMMA MovedIsLast ==
    ASSUME IInv, pc = "put"
    PROVE  Moved = last /\ Moved % N = last /\ ~Overtakes
<1>1. put + recvLen = last /\ get <= put
  <2>1. /\ put + recvLen = last /\ get \in {0, put}
        /\ put \in 0..N-1 /\ get \in 0..N-1
    BY Zenon DEF IInv, PutFollowsDma, ReaderDrained, TypeOK
  <2> QED BY <2>1, Constants, SMT
<1>2. last \in Nat /\ N \in Nat /\ last < N /\ last < 65536 /\ ~(last >= N)
  <2>1. last \in 0..N-1
    BY Zenon DEF IInv, TypeOK
  <2> QED BY <2>1, Constants, SMT
<1>3. last % 65536 = last
  BY <1>2, SMT
<1>4. last % N = last
  BY <1>2, ModSmall
<1>5. Moved = last
  BY <1>1, <1>3, SMT DEF Moved
<1>6. ~Overtakes
  BY <1>1, <1>2, <1>5, SMT DEF Overtakes
<1> QED
  BY <1>4, <1>5, <1>6

\* dbus_input is given the number of unread bytes and reads them all.
LEMMA CallbackReadsAll ==
    ASSUME IInv, pc = "callback"
    PROVE  ReadLen = RecvedLen(put, get, FALSE)
<1>1. full = FALSE /\ length = RecvedLen(put, get, FALSE)
  BY Zenon DEF IInv, TypeOK, NeverFull, ToldWhatIsThere
<1> QED
  BY <1>1, Zenon DEF ReadLen


LEMMA InitInv == Init => IInv
<1> SUFFICES ASSUME Init PROVE IInv
  OBVIOUS
<1>0. /\ 0 \in 0..F /\ 0 \in 0..Frames-1 /\ 0 \in 0..MaxShort /\ 0 \in 0..N-1
      /\ 0 \in -(N-1)..N-1 /\ 0 \in 0..N /\ 0 + 0 = 0
  BY Constants, SMT
<1>1. ring \in [0..N-1 -> Byte]
  BY <1>0, ZeroByte, Zenon DEF Init
<1>2. rxBuf \in [1..F -> Byte]
  BY <1>0, ZeroByte, Zenon DEF Init
<1>3. lineIdx \in 0..F /\ frame \in 0..Frames-1 /\ shorts \in 0..MaxShort
  BY <1>0, Zenon DEF Init
<1>4. /\ pos \in 0..N-1 /\ last \in 0..N-1 /\ put \in 0..N-1 /\ get \in 0..N-1
      /\ recvLen \in -(N-1)..N-1 /\ length \in 0..N
  BY <1>0, Zenon DEF Init
<1>5. /\ idleFlag \in BOOLEAN /\ full \in BOOLEAN
      /\ stage \in {"closed", "open", "ready"}
      /\ pc \in {"off", "put", "callback", "clear"}
  BY Zenon DEF Init
<1> QED
  BY <1>1, <1>2, <1>3, <1>4, <1>5, Zenon
  DEF Init, IInv, TypeOK, PutFollowsDma, ReaderDrained, NeverFull,
      BeforeReady, ToldWhatIsThere

\* The part of the inductive invariant that is not about types.
FifoInv == PutFollowsDma /\ ReaderDrained /\ NeverFull /\ BeforeReady /\ ToldWhatIsThere

LEMMA StepInv == IInv /\ [Next]_vars => IInv'
<1> SUFFICES ASSUME IInv, [Next]_vars PROVE TypeOK' /\ FifoInv'
  BY DEF IInv, FifoInv
<1>1. CASE SendByte
  <2>1. lineIdx' \in 0..F /\ <<frame, lineIdx + 1>> \in Byte
    <3>1. lineIdx < F /\ lineIdx' = lineIdx + 1
      BY <1>1, Zenon DEF SendByte
    <3>2. lineIdx \in 0..F /\ frame \in 0..Frames-1
      BY Zenon DEF IInv, TypeOK
    <3>3. lineIdx + 1 \in 0..F
      BY <3>1, <3>2, Constants, SMT
    <3> QED BY <3>1, <3>2, <3>3, FrameByte, Zenon
  <2>2. N \in Nat \ {0} /\ pos + 1 \in Int
    <3>1. pos \in 0..N-1
      BY Zenon DEF IInv, TypeOK
    <3> QED BY <3>1, Constants, SMT
  <2>3. (pos + 1) % N \in 0..N-1
    BY <2>2, ModRange
  <2>4. ring' \in [0..N-1 -> Byte] /\ pos' \in 0..N-1
    BY <1>1, <2>1, <2>3, Zenon DEF SendByte, IInv, TypeOK, dmaVars
  <2>5. TypeOK'
    BY <1>1, <2>1, <2>4, Zenon DEF SendByte, IInv, TypeOK, fifoVars, isrVars
  <2>6. FifoInv'
    BY <1>1, Zenon DEF SendByte, IInv, FifoInv, PutFollowsDma, ReaderDrained, NeverFull,
                BeforeReady, ToldWhatIsThere, RecvedLen, fifoVars, isrVars
  <2> QED
    BY <2>5, <2>6
<1>2. CASE LineIdle
  <2>0. frame \in 0..Frames-1 /\ shorts \in 0..MaxShort /\ lineIdx \in 0..F
    BY Zenon DEF IInv, TypeOK
  <2>1. Frames \in Nat \ {0} /\ frame + 1 \in Int
    BY <2>0, Constants, SMT
  <2>2. (frame + 1) % Frames \in 0..Frames-1
    BY <2>1, ModRange
  <2>3. lineIdx' \in 0..F /\ shorts' \in 0..MaxShort /\ idleFlag' \in BOOLEAN
    <3>1. /\ lineIdx' = 0 /\ shorts' = IF lineIdx = F THEN shorts ELSE shorts + 1
          /\ lineIdx = F \/ shorts < MaxShort
      BY <1>2, Zenon DEF LineIdle
    <3>2. lineIdx' \in 0..F /\ shorts' \in 0..MaxShort
      BY <2>0, <3>1, Constants, SMT
    <3>3. idleFlag' \in BOOLEAN
      BY <1>2, Zenon DEF LineIdle
    <3> QED BY <3>2, <3>3
  <2>4. TypeOK'
    BY <1>2, <2>2, <2>3, Zenon DEF LineIdle, IInv, TypeOK, dmaVars, fifoVars, isrVars
  <2>5. FifoInv'
    BY <1>2, Zenon DEF LineIdle, IInv, FifoInv, PutFollowsDma, ReaderDrained, NeverFull,
                BeforeReady, ToldWhatIsThere, RecvedLen, fifoVars, isrVars
  <2> QED
    BY <2>4, <2>5
<1>3. CASE DbusInit
  <2>1. ring' \in [0..N-1 -> Byte]
    BY <1>3, ZeroByte, Zenon DEF DbusInit
  <2>2. last = 0 /\ pc = "off"
    BY <1>3, Zenon DEF DbusInit, IInv, PutFollowsDma, BeforeReady
  <2>3. 0 \in 0..N-1
    BY Constants, SMT
  <2>4. TypeOK'
    BY <1>3, <2>1, <2>3, Zenon DEF DbusInit, IInv, TypeOK, lineVars, isrVars
  <2>5. FifoInv'
    BY <1>3, <2>2, Zenon DEF DbusInit, IInv, FifoInv, PutFollowsDma, ReaderDrained,
                      NeverFull, BeforeReady, ToldWhatIsThere, isrVars
  <2> QED
    BY <2>4, <2>5
<1>4. CASE SetRxIndicate
  <2>1. TypeOK'
    BY <1>4, Zenon DEF SetRxIndicate, IInv, TypeOK, lineVars, dmaVars, fifoVars, isrVars
  <2>2. FifoInv'
    BY <1>4, Zenon DEF SetRxIndicate, IInv, FifoInv, PutFollowsDma, ReaderDrained,
                NeverFull, BeforeReady, ToldWhatIsThere, fifoVars, isrVars
  <2> QED
    BY <2>1, <2>2
<1>5. CASE Sample
  <2>1. pos - last \in -(N-1)..N-1 /\ put + (pos - last) = pos
    <3>1. put = last /\ pos \in 0..N-1 /\ last \in 0..N-1
      BY <1>5, Zenon DEF Sample, IInv, TypeOK, PutFollowsDma
    <3> QED
      BY <3>1, Constants, SMT
  <2>2. (pos - last = 0) => put = pos
    <3>1. put \in 0..N-1 /\ pos \in 0..N-1
      BY Zenon DEF IInv, TypeOK
    <3> QED BY <2>1, <3>1, Constants, SMT
  <2>3. pc' \in {"put", "clear"} /\ (pc' = "clear" => pos - last = 0)
    BY <1>5, Zenon DEF Sample
  <2>4. TypeOK'
    BY <1>5, <2>1, <2>3, Zenon
    DEF Sample, IInv, TypeOK, lineVars, dmaVars, fifoVars
  <2>5. FifoInv'
    BY <1>5, <2>1, <2>2, <2>3, Zenon
    DEF Sample, IInv, FifoInv, PutFollowsDma, ReaderDrained, NeverFull,
        BeforeReady, ToldWhatIsThere, fifoVars
  <2> QED
    BY <2>4, <2>5
<1>6. CASE RxDmaDone
  <2>1. put' = last /\ full' = FALSE /\ get' = get
    BY <1>6, MovedIsLast, Zenon DEF RxDmaDone, IInv, NeverFull
  <2>2. last \in 0..N-1 /\ get \in 0..N-1 /\ length' = RecvedLen(last, get, FALSE)
    BY <1>6, <2>1, Zenon DEF RxDmaDone, IInv, TypeOK
  <2>3. length' \in 0..N
    <3>1. length' \in 0..N-1
      BY <2>2, UnreadFits
    <3> QED
      BY <3>1, Constants, SMT
  <2>4. pc' = IF stage = "ready" THEN "callback" ELSE "clear"
    BY <1>6 DEF RxDmaDone
  <2>5. TypeOK'
    BY <1>6, <2>1, <2>2, <2>3, <2>4, Zenon
    DEF RxDmaDone, IInv, TypeOK, lineVars, dmaVars
  <2>6. FifoInv'
    BY <1>6, <2>1, <2>2, <2>4, Zenon
    DEF RxDmaDone, IInv, FifoInv, PutFollowsDma, ReaderDrained, NeverFull,
        BeforeReady, ToldWhatIsThere
  <2> QED
    BY <2>5, <2>6
<1>7. CASE DbusInput
  <2>1. put \in 0..N-1 /\ get \in 0..N-1 /\ N \in Nat \ {0}
    <3>1. put \in 0..N-1 /\ get \in 0..N-1
      BY Zenon DEF IInv, TypeOK
    <3> QED BY <3>1, Constants, SMT
  <2>2. ReadLen = RecvedLen(put, get, FALSE)
    BY <1>7, CallbackReadsAll DEF DbusInput
  <2>3. get' = put
    BY <1>7, <2>1, <2>2, UnreadFits, Zenon DEF DbusInput
  <2>4. full' = FALSE
    BY <1>7, Zenon DEF DbusInput, IInv, NeverFull
  <2>5. rxBuf' \in [1..F -> Byte]
    <3>1. \A i \in 1..F : get + i - 1 \in Int
      BY <2>1, SMT
    <3>2. \A i \in 1..F : (get + i - 1) % N \in 0..N-1
      BY <2>1, <3>1, ModRange, Zenon
    <3> QED
      BY <1>7, <3>2, Zenon DEF DbusInput, IInv, TypeOK
  <2>6. TypeOK'
    BY <1>7, <2>1, <2>3, <2>4, <2>5, Zenon
    DEF DbusInput, IInv, TypeOK, lineVars, dmaVars
  <2>7. FifoInv'
    BY <1>7, <2>3, <2>4, Zenon
    DEF DbusInput, IInv, FifoInv, PutFollowsDma, ReaderDrained, NeverFull,
        BeforeReady, ToldWhatIsThere
  <2> QED
    BY <2>6, <2>7
<1>8. CASE ClearIdle
  <2>1. TypeOK'
    BY <1>8, Zenon DEF ClearIdle, IInv, TypeOK, lineVars, dmaVars, fifoVars
  <2>2. FifoInv'
    BY <1>8, Zenon DEF ClearIdle, IInv, FifoInv, PutFollowsDma, ReaderDrained, NeverFull,
                BeforeReady, ToldWhatIsThere, fifoVars
  <2> QED
    BY <2>1, <2>2
<1>9. CASE UNCHANGED vars
  <2>1. TypeOK'
    BY <1>9, Zenon DEF vars, IInv, TypeOK, lineVars, dmaVars, fifoVars, isrVars
  <2>2. FifoInv'
    BY <1>9, Zenon DEF vars, IInv, FifoInv, PutFollowsDma, ReaderDrained, NeverFull,
                BeforeReady, ToldWhatIsThere, RecvedLen, fifoVars, isrVars
  <2> QED
    BY <2>1, <2>2
<1> QED
  BY <1>1, <1>2, <1>3, <1>4, <1>5, <1>6, <1>7, <1>8, <1>9 DEF Next, Isr

\* The inductive invariant holds in every behaviour.
THEOREM Inductive == Spec => []IInv
<1>1. Init => IInv
  BY InitInv
<1>2. IInv /\ [Next]_vars => IInv'
  BY StepInv
<1> QED
  BY <1>1, <1>2, PTL DEF Spec

\* Type correctness: whatever the interrupts compute, put_index and get_index
\* index the ring.
THEOREM Typing == Spec => []TypeOK
<1>1. IInv => TypeOK
  BY DEF IInv
<1> QED
  BY <1>1, Inductive, PTL

\* The put index is the DMA position at the last IDLE interrupt.
THEOREM PutTracksDma == Spec => []PutFollowsDma
<1>1. IInv => PutFollowsDma
  BY DEF IInv
<1> QED
  BY <1>1, Inductive, PTL

\* ReaderDrained: outside the callback the reader has read everything, or
\* nothing since the device opened, for every ring size and every delay.
THEOREM ReaderKeepsUp == Spec => []ReaderDrained
<1>1. IInv => ReaderDrained
  BY DEF IInv
<1> QED
  BY <1>1, Inductive, PTL

\* The "force overwrite get index" branches of the serial driver are never
\* taken: is_full stays false for every ring size and every delay.
THEOREM FifoNeverFull == Spec => []NeverFull
<1>1. IInv => NeverFull
  BY DEF IInv
<1> QED
  BY <1>1, Inductive, PTL

\* With a ring of at most F + 1 bytes (19 for frames of 18) the callback never
\* copies past the end of dbus_rx_buffer, late interrupts and cut frames
\* included.
THEOREM BufferNeverOverrun ==
    ASSUME N <= F + 1
    PROVE  Spec => []FitsBuffer
<1>1. IInv => FitsBuffer
  <2> SUFFICES ASSUME IInv, pc = "callback" PROVE ReadLen <= F
    BY DEF FitsBuffer
  <2>1. put \in 0..N-1 /\ get \in 0..N-1
    BY Zenon DEF IInv, TypeOK
  <2>2. ReadLen \in 0..N-1
    BY <2>1, CallbackReadsAll, UnreadFits
  <2> QED
    BY <2>2, Constants, SMT
<1> QED
  BY <1>1, Inductive, PTL

-----------------------------------------------------------------------------
(* A ring of one frame                                                     *)

\* Between two frames such a ring is where it was before the first.
OneFrameInv ==
    /\ lineIdx \in 0..N
    /\ stage # "closed" => pos = IF lineIdx = N THEN 0 ELSE lineIdx
    /\ last = 0
    /\ pc \in {"off", "clear"}
    /\ idleFlag \/ pc = "clear" => lineIdx = 0 /\ stage # "closed"

LEMMA OneFrameStep ==
    ASSUME N = F, MaxShort = 0, Prompt, ~OpenMidFrame, TypeOK, OneFrameInv, [Next]_vars
    PROVE  OneFrameInv'
<1> USE DEF OneFrameInv
<1>0. N \in Nat /\ N >= 1
  BY Constants, SMT
<1>1. CASE SendByte
  <2>1. lineIdx < N /\ lineIdx' = lineIdx + 1 /\ ~idleFlag /\ pc = "off"
    <3>1. (lineIdx = 0) => ~idleFlag /\ pc = "off"
      BY <1>1, Zenon DEF SendByte
    <3> QED BY <1>1, <3>1, SMT DEF SendByte
  <2>2. UNCHANGED <<stage, last, pc, idleFlag>>
    BY <1>1, Zenon DEF SendByte, isrVars
  <2>3. CASE stage = "closed"
    BY <1>0, <2>1, <2>2, <2>3, SMT
  <2>4. CASE stage # "closed"
    <3>1. pos' = (lineIdx + 1) % N
      BY <1>1, <1>0, <2>1, <2>4, SMT DEF SendByte
    <3>2. (lineIdx + 1) % N = IF lineIdx + 1 = N THEN 0 ELSE lineIdx + 1
      BY <1>0, <2>1, SMT
    <3> QED BY <1>0, <2>1, <2>2, <3>1, <3>2, SMT
  <2> QED BY <2>3, <2>4
<1>2. CASE LineIdle
  <2>1. lineIdx = N
    BY <1>2, SMT DEF LineIdle, TypeOK
  <2>2. lineIdx' = 0 /\ pc = "off" /\ ~idleFlag
    BY <1>2, <2>1, <1>0, SMT DEF LineIdle
  <2>3. UNCHANGED <<stage, pos, last, pc>> /\ (idleFlag' => stage # "closed")
    BY <1>2, <2>2, Zenon DEF LineIdle, dmaVars, isrVars
  <2> QED BY <1>0, <2>1, <2>2, <2>3, SMT
<1>3. CASE DbusInit
  <2>1. lineIdx = 0 /\ pos' = 0 /\ pc = "off" /\ stage = "closed" /\ ~idleFlag
        /\ UNCHANGED <<lineIdx, last, pc, idleFlag>>
    BY <1>3, Zenon DEF DbusInit, lineVars, isrVars
  <2> QED BY <1>0, <2>1, SMT
<1>4. CASE SetRxIndicate
  <2>1. stage = "open" /\ stage' = "ready" /\ UNCHANGED <<lineIdx, pos, last, pc, idleFlag>>
    BY <1>4, Zenon DEF SetRxIndicate, lineVars, dmaVars, isrVars
  <2> QED BY <2>1, SMT
<1>5. CASE Sample
  <2>1. lineIdx = 0 /\ pos = 0 /\ stage # "closed"
    BY <1>5, <1>0, SMT DEF Sample
  <2>2. last' = 0 /\ recvLen' = 0 /\ pc' = "clear"
    BY <1>5, <2>1, SMT DEF Sample
  <2>3. UNCHANGED <<lineIdx, stage, pos>>
    BY <1>5, Zenon DEF Sample, lineVars, dmaVars
  <2> QED BY <1>0, <2>1, <2>2, <2>3, SMT
<1>6. CASE RxDmaDone \/ DbusInput
  BY <1>6 DEF RxDmaDone, DbusInput
<1>7. CASE ClearIdle
  <2>1. pc' = "off" /\ idleFlag' = FALSE /\ UNCHANGED <<lineIdx, stage, pos, last>>
    BY <1>7, Zenon DEF ClearIdle, lineVars, dmaVars
  <2> QED BY <2>1, SMT
<1>8. CASE UNCHANGED vars
  <2>1. UNCHANGED <<lineIdx, stage, pos, last, pc, idleFlag>>
    BY <1>8, Zenon DEF vars, lineVars, dmaVars, isrVars
  <2> QED BY <2>1, SMT
<1> QED
  BY <1>1, <1>2, <1>3, <1>4, <1>5, <1>6, <1>7, <1>8 DEF Next, Isr

\* Why bufsz 18 does not work (rc.c, dbus_init): with a ring of exactly one
\* frame, whole frames and prompt interrupts, dbus_input is never called.
THEOREM OneFrameRing ==
    ASSUME N = F, MaxShort = 0, Prompt, ~OpenMidFrame
    PROVE  Spec => []NeverDecodes
<1>1. Init => OneFrameInv
  <2>1. 0 \in 0..N
    BY Constants, SMT
  <2> QED BY <2>1, Zenon DEF Init, OneFrameInv
<1>2. TypeOK /\ OneFrameInv /\ [Next]_vars => OneFrameInv'
  BY OneFrameStep
<1>3. OneFrameInv => NeverDecodes
  BY DEF OneFrameInv, NeverDecodes
<1> QED
  BY <1>1, <1>2, <1>3, Typing, PTL DEF Spec

-----------------------------------------------------------------------------
(* What a decode sees, when the handler ends before the next frame starts  *)

\* Where in the ring the j-th byte after p lies.
Place(p, j) == (p + (j - 1)) % N

Decoded == rxBuf # [i \in 1..F |-> Zero]
Busy == idleFlag \/ pc # "off"

\* The position of the DMA when the burst began that is on the line or in the hands
\* of the handler.
From == IF pc \in {"put", "callback"} THEN last - recvLen ELSE last

\* The burst is the c bytes of frame f that follow its first m ones.
Burst(f, m, c) ==
    /\ m + c <= F
    /\ pos = Place(From, c + 1)
    /\ \A j \in 1..c : ring[Place(From, j)] = <<f, m + j>>
    /\ ~Busy => f = frame /\ m + c = lineIdx
    /\ Busy /\ pc # "clear" /\ shorts = 0 => m + c = F
    /\ Decoded => m = 0

BurstInv ==
    /\ stage = "closed" => ~idleFlag
    /\ stage # "ready" => ~Decoded
    /\ Busy => lineIdx = 0
    /\ pc # "off" => pos = last
    /\ From \in 0..N-1
    /\ Decoded => get = IF pc = "callback" THEN From ELSE put
    /\ stage # "closed" => \E f \in 0..Frames-1, m \in 0..F, c \in 0..F : Burst(f, m, c)

LEMMA PlaceIs ==
    ASSUME NEW p \in 0..N-1, NEW j \in 1..N
    PROVE  /\ Place(p, j) = IF p + (j - 1) < N THEN p + (j - 1) ELSE p + (j - 1) - N
           /\ Place(p, j) \in 0..N-1
<1>1. /\ N \in Nat \ {0} /\ p \in Nat /\ j \in Nat /\ p < N /\ 1 <= j /\ j <= N
  BY Constants, SMT
<1> DEFINE s == p + (j - 1)
<1>2. s \in Nat /\ s < N + N
  BY <1>1, SMT
<1> HIDE DEF s
<1>3. CASE s < N
  <2>1. s % N = s /\ s \in 0..N-1
    BY <1>1, <1>2, <1>3, ModSmall, SMT
  <2> QED BY <2>1, <1>3, Zenon DEF Place, s
<1>4. CASE ~(s < N)
  <2>1. s - N \in Nat /\ s - N < N /\ (s - N) + N = s /\ s - N \in 0..N-1
    BY <1>1, <1>2, <1>4, SMT
  <2>2. ((s - N) + N) % N = s - N
    BY <1>1, <2>1, ModWrap
  <2>3. s % N = s - N
    BY <2>1, <2>2, Zenon
  <2>4. p + (j - 1) - N = s - N
    BY <1>1, SMT DEF s
  <2> QED BY <2>1, <2>3, <2>4, <1>4, Zenon DEF Place, s
<1> QED BY <1>3, <1>4

LEMMA ModZero ==
    ASSUME NEW n \in Nat \ {0}, NEW x \in Int, -(n + n) < x, x < n, x % n = 0
    PROVE  x = 0 \/ x = -n
<1>1. CASE x < -n
  <2>1. x + (n + n) \in Nat /\ x + (n + n) < n /\ x + (n + n) > 0
    BY <1>1, SMT
  <2>2. x % n = x + (n + n)
    BY <1>1, <2>1, SMT
  <2> QED BY <2>1, <2>2, SMT
<1>2. CASE ~(x < -n)
  <2>1. x % n = IF 0 <= x THEN x ELSE x + n
    BY <1>2, SMT
  <2> QED BY <2>1, <1>2, SMT
<1> QED BY <1>1, <1>2

LEMMA PlaceApart ==
    ASSUME NEW p \in 0..N-1, NEW j \in 1..N, NEW k \in 1..N, j < k
    PROVE  Place(p, j) # Place(p, k)
<1>1. /\ Place(p, j) = IF p + (j - 1) < N THEN p + (j - 1) ELSE p + (j - 1) - N
      /\ Place(p, k) = IF p + (k - 1) < N THEN p + (k - 1) ELSE p + (k - 1) - N
  BY PlaceIs
<1> QED BY <1>1, Constants, SMT

LEMMA PlaceNext ==
    ASSUME NEW p \in 0..N-1, NEW j \in 1..N-1
    PROVE  (Place(p, j) + 1) % N = Place(p, j + 1)
<1>1. /\ N \in Nat \ {0} /\ j \in 1..N /\ j + 1 \in 1..N /\ p \in Nat
  BY Constants, SMT
<1>2. /\ Place(p, j) = IF p + (j - 1) < N THEN p + (j - 1) ELSE p + (j - 1) - N
      /\ Place(p, j) \in 0..N-1
      /\ Place(p, j + 1) = IF p + ((j + 1) - 1) < N THEN p + ((j + 1) - 1) ELSE p + ((j + 1) - 1) - N
      /\ Place(p, j + 1) \in 0..N-1
  BY <1>1, PlaceIs
<1> DEFINE a == Place(p, j)
           b == Place(p, j + 1)
<1>3. b = IF a + 1 < N THEN a + 1 ELSE (a + 1) - N
  BY <1>1, <1>2, SMT
<1>4. a \in 0..N-1 /\ 2 \in 1..N
  BY <1>1, <1>2, SMT
<1> HIDE DEF a, b
<1>5. Place(a, 2) = IF a + (2 - 1) < N THEN a + (2 - 1) ELSE a + (2 - 1) - N
  BY <1>4, PlaceIs
<1>6. a + (2 - 1) = a + 1
  BY <1>4, SMT
<1>7. (a + 1) % N = Place(a, 2)
  BY <1>6, Zenon DEF Place
<1>8. a + (2 - 1) - N = (a + 1) - N
  BY <1>1, <1>4, SMT
<1> QED BY <1>3, <1>5, <1>6, <1>7, <1>8, Zenon DEF a, b

LEMMA PlaceFirst == ASSUME NEW p \in 0..N-1 PROVE Place(p, 1) = p
<1>1. 1 \in 1..N /\ p \in Nat /\ p < N /\ p + (1 - 1) = p
  BY Constants, SMT
<1> QED BY <1>1, PlaceIs, Zenon

LEMMA TypesNow ==
    ASSUME IInv
    PROVE  /\ lineIdx \in 0..F /\ frame \in 0..Frames-1 /\ shorts \in 0..MaxShort
           /\ ring \in [0..N-1 -> Byte] /\ pos \in 0..N-1 /\ last \in 0..N-1
           /\ put \in 0..N-1 /\ get \in 0..N-1 /\ ~full
           /\ rxBuf \in [1..F -> Byte]
           /\ pc # "put" => put = last
           /\ pc = "put" => put + recvLen = last
           /\ stage = "closed" => put = 0 /\ pc = "off" /\ last = 0
BY Zenon DEF IInv, TypeOK, NeverFull, PutFollowsDma, BeforeReady

\* The frame on the line, from its byte m + 1 on.
LEMMA BurstOf ==
    ASSUME IInv, BurstInv, stage # "closed"
    PROVE  \E f \in 0..Frames-1, m \in 0..F, c \in 0..F : Burst(f, m, c)
BY DEF BurstInv

LEMMA SendByteBurst ==
    ASSUME Prompt, N > F, IInv, BurstInv, SendByte
    PROVE  BurstInv'
<1>1. lineIdx < F /\ lineIdx' = lineIdx + 1
  BY Zenon DEF SendByte
<1>2. UNCHANGED <<frame, shorts, stage, idleFlag, last, put, get, full, pc, recvLen, length, rxBuf>>
  BY Zenon DEF SendByte, fifoVars, isrVars
<1>3. ~Busy
  <2>1. lineIdx = 0 => ~Busy
    BY Zenon DEF SendByte, Busy
  <2> QED BY <2>1, Zenon DEF BurstInv
<1>4. ~Busy' /\ Decoded' = Decoded /\ From' = From /\ From = last /\ pc = "off" /\ pc' = "off"
  BY <1>2, <1>3, Zenon DEF Busy, Decoded, From
<1>5. CASE stage = "closed"
  BY <1>2, <1>4, <1>5, Zenon DEF BurstInv
<1>6. CASE stage # "closed"
  <2>1. PICK f \in 0..Frames-1, m \in 0..F, c \in 0..F : Burst(f, m, c)
    BY <1>6, BurstOf
  <2>2. ring' = [ring EXCEPT ![pos] = <<frame, lineIdx + 1>>] /\ pos' = (pos + 1) % N
    BY <1>6, Zenon DEF SendByte
  <2>3. /\ f = frame /\ m + c = lineIdx /\ pos = Place(last, c + 1)
        /\ \A j \in 1..c : ring[Place(last, j)] = <<f, m + j>>
        /\ Decoded => m = 0
    BY <2>1, <1>3, <1>4, Zenon DEF Burst
  <2>4. /\ c + 1 \in 0..F /\ c + 1 \in 1..N-1 /\ c + 1 \in 1..N /\ m + (c + 1) <= F
        /\ m + (c + 1) = lineIdx + 1
        /\ last \in 0..N-1 /\ 1..c \subseteq 1..N
        /\ \A j \in 1..c + 1 : j \in 1..c \/ j = c + 1
        /\ \A j \in 1..c : j < c + 1
    BY <1>1, <2>3, TypesNow, Constants, SMT
  <2>5. pos' = Place(last, (c + 1) + 1)
    BY <2>2, <2>3, <2>4, PlaceNext
  <2>6. ASSUME NEW j \in 1..c + 1 PROVE ring'[Place(last, j)] = <<f, m + j>>
    <3>1. CASE j = c + 1
      BY <3>1, <2>2, <2>3, <2>4, TypesNow, Zenon
    <3>2. CASE j \in 1..c
      <4>1. Place(last, j) # pos /\ Place(last, j) \in 0..N-1
        BY <3>2, <2>3, <2>4, PlaceApart, PlaceIs
      <4>2. ring'[Place(last, j)] = ring[Place(last, j)]
        BY <4>1, <2>2, TypesNow, Zenon
      <4> QED BY <4>2, <3>2, <2>3
    <3> QED BY <3>1, <3>2, <2>4
  <2>7. Burst(f, m, c + 1)'
    BY <1>1, <1>2, <1>4, <2>3, <2>4, <2>5, <2>6, Zenon DEF Burst
  <2>8. f \in 0..(Frames-1) /\ m \in 0..F /\ c + 1 \in 0..F
    BY <2>4
  <2> QED BY <1>2, <1>4, <2>7, <2>8, Zenon DEF BurstInv
<1> QED BY <1>5, <1>6

LEMMA SameBurst ==
    ASSUME NEW f, NEW m, NEW c, Burst(f, m, c), pos' = pos, ring' = ring, frame' = frame,
           lineIdx' = lineIdx, shorts' = shorts, From' = From, Busy' = Busy,
           Decoded' = Decoded, pc' = pc
    PROVE  Burst(f, m, c)'
<1>1. /\ m + c <= F
      /\ pos' = Place(From', c + 1)
      /\ \A j \in 1..c : ring'[Place(From', j)] = <<f, m + j>>
  BY DEF Burst
<1>2. /\ ~Busy' => f = frame' /\ m + c = lineIdx'
      /\ Busy' /\ pc' # "clear" /\ shorts' = 0 => m + c = F
      /\ Decoded' => m = 0
  BY DEF Burst
<1> QED BY <1>1, <1>2, Zenon DEF Burst

LEMMA LineIdleBurst == ASSUME IInv, BurstInv, LineIdle PROVE BurstInv'
<1>1. /\ lineIdx > 0 /\ lineIdx' = 0 /\ shorts' = IF lineIdx = F THEN shorts ELSE shorts + 1
      /\ idleFlag' = (idleFlag \/ stage # "closed")
      /\ UNCHANGED <<stage, ring, pos, last, put, get, full, pc, recvLen, length, rxBuf>>
  BY Zenon DEF LineIdle, dmaVars, fifoVars, isrVars
<1>2. ~Busy
  <2>1. lineIdx # 0
    BY <1>1, TypesNow, SMT
  <2> QED BY <2>1 DEF BurstInv
<1>3. /\ ~idleFlag /\ pc = "off" /\ pc' = "off" /\ (idleFlag' <=> stage # "closed")
      /\ (Busy' <=> stage # "closed") /\ Decoded' = Decoded /\ From' = From
  BY <1>1, <1>2, Zenon DEF Busy, Decoded, From
<1>4. ASSUME NEW f \in 0..Frames-1, NEW m \in 0..F, NEW c \in 0..F, Burst(f, m, c),
             stage # "closed"
      PROVE  Burst(f, m, c)'
  <2>1. m + c = lineIdx
    BY <1>2, <1>4 DEF Burst
  <2>2. shorts' = 0 => lineIdx = F
    BY <1>1, TypesNow, Constants, SMT
  <2> QED BY <1>1, <1>3, <1>4, <2>1, <2>2, Zenon DEF Burst
<1> QED BY <1>1, <1>3, <1>4, Zenon DEF BurstInv

\* Between two bursts nothing is on the line.
LEMMA EmptyBurst ==
    ASSUME IInv', lineIdx' = 0, pos' = From', NEW f \in 0..Frames-1,
           ~Busy' => f = frame', Busy' => pc' = "clear"
    PROVE  Burst(f, 0, 0)'
<1>1. pos' \in 0..N-1 /\ 0 + 0 <= F /\ 0 + 0 = 0 /\ 1..0 = {} /\ 0 + 1 = 1
  <2>1. pos' \in 0..N-1
    BY DEF IInv, TypeOK
  <2> QED BY <2>1, Constants, SMT
<1>2. pos' = Place(From', 0 + 1)
  BY <1>1, PlaceFirst
<1> QED BY <1>1, <1>2, Zenon DEF Burst

LEMMA DbusInitBurst == ASSUME IInv, IInv', BurstInv, DbusInit PROVE BurstInv'
<1>1. /\ stage = "closed" /\ stage' = "open" /\ pc = "off" /\ pos' = 0 /\ put' = 0 /\ get' = 0
      /\ UNCHANGED <<lineIdx, frame, shorts, idleFlag, last, pc, recvLen, length, rxBuf>>
  BY Zenon DEF DbusInit, lineVars, isrVars
<1>2. ~Busy /\ ~Busy' /\ ~Decoded /\ ~Decoded' /\ From' = 0 /\ From' \in 0..N-1
  BY <1>1, TypesNow, Zenon DEF BurstInv, Busy, Decoded, From
<1>3. /\ lineIdx + 0 <= F /\ lineIdx + 0 = lineIdx /\ 0 \in 0..F /\ 1..0 = {} /\ 0 + 1 = 1
  BY TypesNow, Constants, SMT
<1>4. pos' = Place(From', 0 + 1)
  BY <1>1, <1>2, <1>3, PlaceFirst
<1>5. Burst(frame, lineIdx, 0)'
  BY <1>1, <1>2, <1>3, <1>4, Zenon DEF Burst
<1>6. frame' \in 0..(Frames-1) /\ lineIdx' \in 0..F
  BY <1>1, TypesNow
<1> QED BY <1>1, <1>2, <1>3, <1>5, <1>6, Zenon DEF BurstInv

LEMMA SetRxIndicateBurst == ASSUME IInv, BurstInv, SetRxIndicate PROVE BurstInv'
<1>1. /\ stage = "open" /\ stage' = "ready"
      /\ UNCHANGED <<lineIdx, frame, shorts, ring, pos, idleFlag, last, put, get, pc, recvLen,
                     rxBuf>>
  BY Zenon DEF SetRxIndicate, lineVars, dmaVars, fifoVars, isrVars
<1>2. Busy' = Busy /\ Decoded' = Decoded /\ From' = From
  BY <1>1, Zenon DEF Busy, Decoded, From
<1>3. \A f, m, c : Burst(f, m, c) => Burst(f, m, c)'
  BY <1>1, <1>2, SameBurst
<1>4. stage' # "closed" => \E f \in 0..Frames-1, m \in 0..F, c \in 0..F : Burst(f, m, c)'
  BY <1>1, <1>3, BurstOf
<1>5. /\ stage' = "closed" => ~idleFlag'
      /\ stage' # "ready" => ~Decoded'
      /\ Busy' => lineIdx' = 0
      /\ pc' # "off" => pos' = last'
      /\ From' \in 0..N-1
      /\ Decoded' => get' = IF pc' = "callback" THEN From' ELSE put'
  BY <1>1, <1>2, Zenon DEF BurstInv
<1> QED BY <1>4, <1>5, Zenon DEF BurstInv

LEMMA SampleBurst == ASSUME IInv, BurstInv, Sample PROVE BurstInv'
<1>1. /\ pc = "off" /\ stage # "closed" /\ idleFlag /\ recvLen' = pos - last /\ last' = pos
      /\ pc' = IF recvLen' # 0 THEN "put" ELSE "clear"
      /\ UNCHANGED <<lineIdx, frame, shorts, stage, ring, pos, idleFlag, put, get, rxBuf>>
  BY Zenon DEF Sample, lineVars, dmaVars, fifoVars
<1>2. Busy /\ Busy' /\ Decoded' = Decoded /\ From = last
  BY <1>1, Zenon DEF Busy, Decoded, From
<1>3. From' = last
  <2>1. pos - (pos - last) = last /\ (pos - last = 0 => pos = last)
    BY TypesNow, Constants, SMT
  <2> QED BY <2>1, <1>1, Zenon DEF From
<1>4. \A f, m, c : Burst(f, m, c) => Burst(f, m, c)'
  BY <1>1, <1>2, <1>3, Zenon DEF Burst
<1> QED BY <1>1, <1>2, <1>3, <1>4, Zenon DEF BurstInv

LEMMA RxDmaDoneBurst == ASSUME IInv, IInv', BurstInv, RxDmaDone PROVE BurstInv'
<1>1. /\ pc = "put" /\ pc' = IF stage = "ready" THEN "callback" ELSE "clear"
      /\ put' = last /\ get' = get
      /\ UNCHANGED <<lineIdx, frame, shorts, stage, ring, pos, idleFlag, last, recvLen, rxBuf>>
  BY MovedIsLast, Zenon DEF RxDmaDone, lineVars, dmaVars, IInv, NeverFull
<1>2. Busy /\ Busy' /\ Decoded' = Decoded /\ From = last - recvLen /\ pos = last
  BY <1>1, Zenon DEF Busy, Decoded, From, BurstInv
<1>3. stage # "closed"
  BY <1>1, TypesNow
<1>4. CASE stage = "ready"
  <2>1. From' = From /\ pc' = "callback"
    BY <1>1, <1>2, <1>4, Zenon DEF From
  <2>2. \A f, m, c : Burst(f, m, c) => Burst(f, m, c)'
    BY <1>1, <1>2, <2>1, Zenon DEF Burst
  <2>3. Decoded => get = From
    <3>1. put = last - recvLen
      <4>1. put + recvLen = last /\ put \in 0..N-1 /\ recvLen \in -(N-1)..N-1
        BY <1>1, TypesNow, Zenon DEF IInv, TypeOK
      <4> QED BY <4>1, Constants, SMT
    <3> QED BY <3>1, <1>1, <1>2, Zenon DEF BurstInv
  <2> QED BY <1>1, <1>2, <1>4, <2>1, <2>2, <2>3, Zenon DEF BurstInv
<1>5. CASE stage # "ready"
  <2>1. pc' = "clear" /\ From' = last /\ pos' = From' /\ From' \in 0..N-1
    BY <1>1, <1>2, <1>5, TypesNow, Zenon DEF From
  <2>2. 0 \in 0..(Frames-1) /\ 0 \in 0..F
    BY Constants, SMT
  <2>3. lineIdx' = 0
    BY <1>1, <1>2, Zenon DEF BurstInv
  <2>4. Burst(0, 0, 0)'
    BY <1>2, <2>1, <2>2, <2>3, EmptyBurst
  <2> QED BY <1>1, <1>2, <1>5, <2>1, <2>2, <2>3, <2>4, Zenon DEF BurstInv
<1> QED BY <1>4, <1>5

LEMMA DbusInputBurst == ASSUME IInv, IInv', BurstInv, DbusInput PROVE BurstInv'
<1>1. /\ pc = "callback" /\ pc' = "clear" /\ get' = put
      /\ UNCHANGED <<lineIdx, frame, stage, pos, idleFlag, last, put>>
  <2>1. ReadLen = RecvedLen(put, get, FALSE)
    BY CallbackReadsAll DEF DbusInput
  <2>2. (get + RecvedLen(put, get, FALSE)) % N = put
    BY TypesNow, UnreadFits
  <2> QED BY <2>1, <2>2, Zenon DEF DbusInput, lineVars, dmaVars
<1>2. Busy /\ Busy' /\ From' = last /\ pos' = From' /\ From' \in 0..N-1 /\ lineIdx' = 0
  BY <1>1, TypesNow, Zenon DEF Busy, From, BurstInv
<1>3. stage = "ready"
  BY <1>1 DEF IInv, ToldWhatIsThere
<1>4. 0 \in 0..(Frames-1) /\ 0 \in 0..F
  BY Constants, SMT
<1>5. Burst(0, 0, 0)'
  BY <1>1, <1>2, <1>4, EmptyBurst
<1> QED BY <1>1, <1>2, <1>3, <1>4, <1>5, Zenon DEF BurstInv

LEMMA ClearIdleBurst == ASSUME IInv, IInv', BurstInv, ClearIdle PROVE BurstInv'
<1>1. /\ pc = "clear" /\ pc' = "off" /\ idleFlag' = FALSE
      /\ UNCHANGED <<lineIdx, frame, stage, pos, last, put, get, rxBuf>>
  BY Zenon DEF ClearIdle, lineVars, dmaVars, fifoVars
<1>2. /\ Busy /\ ~Busy' /\ From' = last /\ pos' = From' /\ From' \in 0..N-1 /\ lineIdx' = 0
      /\ Decoded' = Decoded
  BY <1>1, TypesNow, Zenon DEF Busy, From, BurstInv, Decoded
<1>3. frame' \in 0..(Frames-1) /\ 0 \in 0..F
  BY <1>1, TypesNow, Constants, SMT
<1>4. Burst(frame, 0, 0)'
  BY <1>1, <1>2, <1>3, EmptyBurst
<1> QED BY <1>1, <1>2, <1>3, <1>4, Zenon DEF BurstInv

LEMMA BurstStep == Prompt /\ N > F /\ IInv /\ IInv' /\ BurstInv /\ [Next]_vars => BurstInv'
<1> SUFFICES ASSUME Prompt, N > F, IInv, IInv', BurstInv, [Next]_vars PROVE BurstInv'
  OBVIOUS
<1>1. CASE UNCHANGED vars
  <2>1. UNCHANGED <<lineIdx, frame, shorts, stage, ring, pos, idleFlag, last, put, get, pc,
                    recvLen, rxBuf>>
    BY <1>1, Zenon DEF vars, lineVars, dmaVars, fifoVars, isrVars
  <2>2. Busy' = Busy /\ Decoded' = Decoded /\ From' = From
    BY <2>1, Zenon DEF Busy, Decoded, From
  <2>3. \A f, m, c : Burst(f, m, c) => Burst(f, m, c)'
    BY <2>1, <2>2, SameBurst
  <2>4. stage' # "closed" => \E f \in 0..Frames-1, m \in 0..F, c \in 0..F : Burst(f, m, c)'
    BY <2>1, <2>3, BurstOf
  <2>5. /\ stage' = "closed" => ~idleFlag'
        /\ stage' # "ready" => ~Decoded'
        /\ Busy' => lineIdx' = 0
        /\ pc' # "off" => pos' = last'
        /\ From' \in 0..N-1
        /\ Decoded' => get' = IF pc' = "callback" THEN From' ELSE put'
    BY <2>1, <2>2, Zenon DEF BurstInv
  <2> QED BY <2>4, <2>5, Zenon DEF BurstInv
<1> QED BY <1>1, SendByteBurst, LineIdleBurst, DbusInitBurst, SetRxIndicateBurst, SampleBurst,
           RxDmaDoneBurst, DbusInputBurst, ClearIdleBurst DEF Next, Isr

LEMMA BurstInit == Init => BurstInv
<1> SUFFICES ASSUME Init PROVE BurstInv
  OBVIOUS
<1>1. 0 \in 0..N-1
  BY Constants, SMT
<1> QED BY <1>1, Zenon DEF Init, BurstInv, Busy, Decoded, From

\* In the callback get is where the burst began, or the length tells that it is
\* if the burst is as long as a frame; then the frame is copied.
LEMMA CopiesBurst ==
    ASSUME N > F, IInv, BurstInv, DbusInput, get = From, NEW f \in 0..Frames-1, NEW c \in 0..F,
           c = F, Burst(f, 0, c)
    PROVE  rxBuf' = Whole(f)
<1>1. /\ pc = "callback" /\ put = last /\ pos = last
      /\ rxBuf' = [i \in 1..F |-> IF i <= ReadLen THEN ring[(get + i - 1) % N] ELSE rxBuf[i]]
  BY TypesNow, Zenon DEF DbusInput, BurstInv
<1>2. put = Place(get, F + 1) /\ \A j \in 1..F : ring[Place(get, j)] = <<f, 0 + j>>
  BY <1>1, Zenon DEF Burst
<1>3. ReadLen = F
  <2>1. F + 1 \in 1..N
    BY Constants, SMT
  <2>2. Place(get, F + 1)
          = IF get + ((F + 1) - 1) < N THEN get + ((F + 1) - 1) ELSE get + ((F + 1) - 1) - N
    BY <2>1, TypesNow, PlaceIs
  <2>3. ReadLen = RecvedLen(put, get, FALSE)
    BY <1>1, CallbackReadsAll
  <2>4. put \in 0..N-1 /\ get \in 0..N-1
    BY TypesNow
  <2> QED BY <1>2, <2>2, <2>3, <2>4, Constants, SMT DEF RecvedLen
<1>4. ASSUME NEW i \in 1..F PROVE rxBuf'[i] = <<f, i>>
  <2>1. i <= F /\ 0 + i = i /\ get + i - 1 = get + (i - 1)
    BY TypesNow, Constants, SMT
  <2> QED BY <2>1, <1>1, <1>2, <1>3, Zenon DEF Place
<1> QED BY <1>1, <1>4, Zenon DEF Whole

\* Once something was decoded, a frame of F bytes is what every callback gets.
LEMMA LaterDecodesWhole ==
    ASSUME N > F, IInv, BurstInv, DbusInput, shorts = 0, Decoded
    PROVE  \E f \in 0..Frames-1 : rxBuf' = Whole(f)
<1>1. pc = "callback" /\ Busy /\ get = From /\ stage # "closed"
  BY TypesNow, Zenon DEF DbusInput, Busy, BurstInv
<1>2. PICK f \in 0..Frames-1, m \in 0..F, c \in 0..F : Burst(f, m, c)
  BY <1>1, BurstOf
<1>3. m = 0 /\ m + c = F
  BY <1>1, <1>2, Zenon DEF Burst
<1>4. c = F
  BY <1>3, SMT
<1> QED BY <1>1, <1>2, <1>3, <1>4, CopiesBurst

\* A burst that moved the DMA by F bytes is a frame, and if it is all that was
\* unread the callback copies just that.
LEMMA FullBurstWhole ==
    ASSUME N > F, IInv, BurstInv, DbusInput, length = F, (recvLen - F) % N = 0
    PROVE  \E f \in 0..Frames-1 : rxBuf' = Whole(f)
<1>1. /\ pc = "callback" /\ put = last /\ pos = last /\ From = last - recvLen
      /\ stage # "closed" /\ length = RecvedLen(put, get, FALSE)
  BY TypesNow, Zenon DEF DbusInput, BurstInv, From, IInv, ToldWhatIsThere
<1>2. PICK f \in 0..Frames-1, m \in 0..F, c \in 0..F : Burst(f, m, c)
  BY <1>1, BurstOf
<1>3. m + c <= F /\ last = Place(From, c + 1)
  BY <1>1, <1>2, Zenon DEF Burst
<1>4. /\ last \in 0..N-1 /\ get \in 0..N-1 /\ From \in 0..N-1
      /\ recvLen \in -(N-1)..N-1
  BY TypesNow, Zenon DEF BurstInv, IInv, TypeOK
<1>5. recvLen = F \/ recvLen = F - N
  <2>1. recvLen - F \in Int /\ -(N + N) < recvLen - F /\ recvLen - F < N /\ N \in Nat \ {0}
    BY <1>4, Constants, SMT
  <2>2. recvLen - F = 0 \/ recvLen - F = -N
    BY <2>1, ModZero
  <2> QED BY <2>2, <1>4, Constants, SMT
<1>6. c = F /\ m = 0
  <2>1. c + 1 \in 1..N
    BY Constants, SMT
  <2>2. last = IF From + ((c + 1) - 1) < N THEN From + ((c + 1) - 1) ELSE From + ((c + 1) - 1) - N
    BY <1>3, <1>4, <2>1, PlaceIs
  <2>3. /\ N \in Int /\ F \in Int /\ 0 < F /\ F < N /\ c \in Int /\ 0 <= c /\ c <= F
        /\ last \in Int /\ From \in Int /\ recvLen \in Int
    BY <1>4, Constants, SMT
  <2>4. last = From + c \/ last = From + c - N
    BY <2>2, <2>3, SMT
  <2>5. recvLen = c \/ recvLen = c - N
    BY <1>1, <2>3, <2>4, SMT
  <2>6. c = F
    BY <1>5, <2>3, <2>5, SMT
  <2> QED BY <2>6, <1>3, SMT
<1>7. get = From
  <2>1. F = IF last = get THEN 0 ELSE IF last > get THEN last - get ELSE N - (get - last)
    BY <1>1, Zenon DEF RecvedLen
  <2> QED BY <2>1, <1>1, <1>4, <1>5, Constants, SMT
<1> QED BY <1>2, <1>6, <1>7, CopiesBurst

\* When the handler ends before the next frame starts: if one interrupt brings
\* exactly F bytes and the callback gets exactly F, they are one frame in order.
THEOREM FullLengthIsFrame ==
    ASSUME Prompt, N > F
    PROVE  Spec => WholeFrame
<1>1. IInv /\ BurstInv /\ [Next]_vars =>
        [(DbusInput /\ length = F /\ (recvLen - F) % N = 0)
            => \E f \in 0..Frames-1 : rxBuf' = Whole(f)]_vars
  BY FullBurstWhole
<1> QED BY <1>1, BurstInit, BurstStep, Inductive, PTL DEF Spec, WholeFrame

\* When the handler ends before the next frame starts: while no frame is cut short,
\* every decode after the first one sees a whole frame.
THEOREM OnlyFirstDecodePartial ==
    ASSUME Prompt, N > F
    PROVE  Spec => HealsAfterFirst
<1>1. IInv /\ BurstInv /\ [Next]_vars =>
        [(DbusInput /\ shorts = 0 /\ rxBuf # [i \in 1..F |-> Zero])
            => \E f \in 0..Frames-1 : rxBuf' = Whole(f)]_vars
  BY LaterDecodesWhole DEF Decoded
<1> QED BY <1>1, BurstInit, BurstStep, Inductive, PTL DEF Spec, HealsAfterFirst
=============================================================================
