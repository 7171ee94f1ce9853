------------------------------ MODULE DbusDma ------------------------------
(***************************************************************************)
(* The remote control link: the DBUS receiver sends frames of F bytes to   *)
(* USART1, a circular DMA stores them in the ring of the serial device     *)
(* (config.bufsz = N), the IDLE interrupt hands what arrived to the        *)
(* callback dbus_input, and the callback decodes dbus_rx_buffer.           *)
(*                                                                         *)
(* A byte is the pair of the frame it belongs to and its place in the      *)
(* frame: the properties tell bytes apart by nothing else.  The DMA        *)
(* controller and the line go on while the interrupt handler runs; the     *)
(* thread that opens the device does not.                                  *)
(***************************************************************************)
EXTENDS Integers

CONSTANTS
    N,             \* serial->config.bufsz, the size of the DMA ring
    F,             \* bytes of a DBUS frame = sizeof(dbus_rx_buffer)
    Frames,        \* bound: frame numbers repeat modulo Frames
    MaxShort,      \* bound on the frames cut short (receiver unplugged, noise)
    Prompt,        \* the handler ends before the next frame starts
    OpenMidFrame   \* the device may be opened in the middle of a frame

ASSUME ConstantsAssumption ==
    /\ N \in Nat /\ 0 < N /\ N < 65536
    /\ F \in Nat \ {0}
    /\ Frames \in Nat \ {0}
    /\ MaxShort \in Nat
    /\ Prompt \in BOOLEAN
    /\ OpenMidFrame \in BOOLEAN

VARIABLES
    lineIdx,   \* bytes of the current frame already on the line, 0 when idle
    frame,     \* number of the current frame
    shorts,    \* frames cut short so far
    stage,     \* progress of dbus_open: "closed", "open", "ready"
    ring,      \* rx_fifo->buffer
    pos,       \* DMA write position, bufsz - NDTR
    idleFlag,  \* USART IDLE flag
    last,      \* uart->dma_rx.last_index
    put, get,  \* rx_fifo->put_index, get_index
    full,      \* rx_fifo->is_full
    pc,        \* where the USART1 handler is
    recvLen,   \* recv_len of uart_isr
    length,    \* the length passed to rx_indicate
    rxBuf      \* dbus_rx_buffer

lineVars   == <<lineIdx, frame, shorts>>
dmaVars    == <<ring, pos>>
fifoVars   == <<put, get, full>>
isrVars    == <<pc, recvLen, length>>
vars == <<lineVars, stage, dmaVars, idleFlag, last, fifoVars, isrVars, rxBuf>>

Byte  == (0..Frames-1) \X (0..F)
Zero  == <<0, 0>>
Whole(f) == [i \in 1..F |-> <<f, i>>]

Init ==
    /\ lineIdx = 0 /\ frame = 0 /\ shorts = 0
    /\ stage = "closed"
    /\ ring = [i \in 0..N-1 |-> Zero] /\ pos = 0
    /\ idleFlag = FALSE
    /\ last = 0
    /\ put = 0 /\ get = 0 /\ full = FALSE
    /\ pc = "off" /\ recvLen = 0 /\ length = 0
    /\ rxBuf = [i \in 1..F |-> Zero]

-----------------------------------------------------------------------------
(* The line and the DMA controller                                         *)

\* A byte arrives; once the device is open the DMA stores it and reloads its
\* counter at the end of the ring.
SendByte ==
    /\ lineIdx < F
    /\ (Prompt /\ lineIdx = 0) => (~idleFlag /\ pc = "off")
    /\ lineIdx' = lineIdx + 1
    /\ IF stage = "closed"
          THEN UNCHANGED dmaVars
          ELSE /\ ring' = [ring EXCEPT ![pos] = <<frame, lineIdx + 1>>]
               /\ pos' = (pos + 1) % N
    /\ UNCHANGED <<frame, shorts, stage, idleFlag, last, fifoVars, isrVars, rxBuf>>

\* The line falls idle after a frame, or after a part of one.
LineIdle ==
    /\ lineIdx > 0
    /\ lineIdx = F \/ shorts < MaxShort
    /\ shorts' = IF lineIdx = F THEN shorts ELSE shorts + 1
    /\ lineIdx' = 0
    /\ frame' = (frame + 1) % Frames
    /\ idleFlag' = (idleFlag \/ stage # "closed")
    /\ UNCHANGED <<stage, dmaVars, last, fifoVars, isrVars, rxBuf>>

-----------------------------------------------------------------------------
(* The main thread: dbus_open                                              *)

\* dbus_init: the device gets its ring, its fifo and its running DMA ...
DbusInit ==
    /\ stage = "closed" /\ pc = "off"
    /\ OpenMidFrame \/ lineIdx = 0
    /\ stage' = "open"
    /\ ring' = [i \in 0..N-1 |-> Zero] /\ pos' = 0
    /\ put' = 0 /\ get' = 0 /\ full' = FALSE
    /\ UNCHANGED <<lineVars, idleFlag, last, isrVars, rxBuf>>

\* ... and only afterwards the callback.
SetRxIndicate ==
    /\ stage = "open" /\ pc = "off"
    /\ stage' = "ready"
    /\ UNCHANGED <<lineVars, dmaVars, idleFlag, last, fifoVars, isrVars, rxBuf>>

-----------------------------------------------------------------------------
(* The USART1 interrupt handler                                            *)

\* dma_isr's way to compute the length, which uart_isr does not use.
SampleAtReload ==
    /\ pc = "off" /\ stage # "closed" /\ idleFlag
    /\ recvLen' = IF pos = 0 THEN N - last ELSE pos - last
    /\ last' = pos
    /\ pc' = IF recvLen' # 0 THEN "put" ELSE "clear"
    /\ UNCHANGED <<lineVars, stage, dmaVars, idleFlag, fifoVars, length, rxBuf>>

\* A handler that takes the wrapped difference for nothing received.
SamplePositive ==
    /\ pc = "off" /\ stage # "closed" /\ idleFlag
    /\ recvLen' = pos - last
    /\ last' = pos
    /\ pc' = IF recvLen' > 0 THEN "put" ELSE "clear"
    /\ UNCHANGED <<lineVars, stage, dmaVars, idleFlag, fifoVars, length, rxBuf>>

\* A handler that forgets to remember where it stopped.
SampleForgets ==
    /\ pc = "off" /\ stage # "closed" /\ idleFlag
    /\ recvLen' = pos - last
    /\ pc' = IF recvLen' # 0 THEN "put" ELSE "clear"
    /\ UNCHANGED <<lineVars, stage, dmaVars, idleFlag, last, fifoVars, length, rxBuf>>

\* uart_isr, interrupts off: how far the DMA is and how far it came.  The
\* unsigned difference passes through an int event (len << 8) and its
\* arithmetic shift, so a wrapped position arrives as a negative length.
Sample ==
    /\ pc = "off" /\ stage # "closed" /\ idleFlag
    /\ recvLen' = pos - last
    /\ last' = pos
    /\ pc' = IF recvLen' # 0 THEN "put" ELSE "clear"
    /\ UNCHANGED <<lineVars, stage, dmaVars, idleFlag, fifoVars, length, rxBuf>>

\* rt_dma_calc_recved_len
RecvedLen(p, g, isFull) ==
    IF p = g THEN IF isFull THEN N ELSE 0
             ELSE IF p > g THEN p - g ELSE N - (g - p)

\* rt_dma_recv_update_put_index: the 16 bit index moves by a length that may
\* be negative; over is its test for data that overtook the reader.
Moved == (put + recvLen) % 65536
OvertakesStrict ==
    IF get < put THEN Moved >= N /\ Moved % N >= get ELSE Moved >= get
Overtakes ==
    IF get <= put THEN Moved >= N /\ Moved % N >= get ELSE Moved >= get

\* A handler that asks for the length before it moves the index.
RxDmaDoneSwapped ==
    /\ pc = "put"
    /\ put' = Moved % N
    /\ full' = (full \/ Overtakes)
    /\ get' = IF full' THEN put' ELSE get
    /\ length' = RecvedLen(put, get, full)
    /\ pc' = IF stage = "ready" THEN "callback" ELSE "clear"
    /\ UNCHANGED <<lineVars, stage, dmaVars, idleFlag, last, recvLen, rxBuf>>

\* rt_hw_serial_isr, RX_DMADONE
RxDmaDone ==
    /\ pc = "put"
    /\ put' = Moved % N
    /\ full' = (full \/ Overtakes)
    /\ get' = IF full' THEN put' ELSE get
    /\ length' = RecvedLen(put', get', full')
    /\ pc' = IF stage = "ready" THEN "callback" ELSE "clear"
    /\ UNCHANGED <<lineVars, stage, dmaVars, idleFlag, last, recvLen, rxBuf>>

\* _serial_dma_rx: how many bytes rt_device_read copies.
ReadLen == LET avail == RecvedLen(put, get, full)
           IN  IF length < avail THEN length ELSE avail

\* A mistaken read that goes on one byte too far after the end of the ring.
DbusInputWrapsLate ==
    /\ pc = "callback"
    /\ rxBuf' = [i \in 1..F |->
                   IF i > ReadLen THEN rxBuf[i]
                   ELSE ring[(IF get + i <= N THEN get + i - 1 ELSE get + i) % N]]
    /\ get' = (get + ReadLen) % N
    /\ full' = (full /\ ReadLen = 0)
    /\ pc' = "clear"
    /\ UNCHANGED <<lineVars, stage, dmaVars, idleFlag, last, put, recvLen, length>>

\* dbus_input: read into dbus_rx_buffer, then RC_Process decodes all of it.
DbusInput ==
    /\ pc = "callback"
    /\ rxBuf' = [i \in 1..F |-> IF i <= ReadLen THEN ring[(get + i - 1) % N] ELSE rxBuf[i]]
    /\ get' = (get + ReadLen) % N
    /\ full' = (full /\ ReadLen = 0)
    /\ pc' = "clear"
    /\ UNCHANGED <<lineVars, stage, dmaVars, idleFlag, last, put, recvLen, length>>

\* The handler clears the flag last, whatever the line did meanwhile.
ClearIdle ==
    /\ pc = "clear"
    /\ idleFlag' = FALSE
    /\ pc' = "off"
    /\ UNCHANGED <<lineVars, stage, dmaVars, last, fifoVars, recvLen, length, rxBuf>>

Isr == Sample \/ RxDmaDone \/ DbusInput \/ ClearIdle

Next == SendByte \/ LineIdle \/ DbusInit \/ SetRxIndicate \/ Isr

\* A line that stops sending falls idle, and a pending interrupt is served.
Spec == Init /\ [][Next]_vars /\ WF_vars(LineIdle) /\ WF_vars(Isr)

-----------------------------------------------------------------------------
(* Properties                                                              *)

\* Every variable keeps its type; in particular the fifo indices stay below
\* the size of the ring whatever length the interrupt computed.
TypeOK ==
    /\ lineIdx \in 0..F /\ frame \in 0..Frames-1 /\ shorts \in 0..MaxShort
    /\ stage \in {"closed", "open", "ready"}
    /\ ring \in [0..N-1 -> Byte] /\ pos \in 0..N-1
    /\ idleFlag \in BOOLEAN
    /\ last \in 0..N-1
    /\ put \in 0..N-1 /\ get \in 0..N-1 /\ full \in BOOLEAN
    /\ pc \in {"off", "put", "callback", "clear"}
    /\ recvLen \in -(N-1)..N-1 /\ length \in 0..N
    /\ rxBuf \in [1..F -> Byte]

\* The put index follows the sampled DMA position: outside the step that is
\* about to move it they are equal, and that step makes up the difference.
PutFollowsDma ==
    IF pc = "put" THEN put + recvLen = last ELSE put = last

\* The reader is never behind by an unknown amount: apart from the moment of
\* the callback it has read everything, or nothing since the device opened.
ReaderDrained == pc # "callback" => get \in {0, put}

\* rt_dma_recv_update_put_index never finds the fifo full, so is_full, which
\* would make the callback copy N bytes, is never set.
NeverFull == ~full

\* What the callback copies fits in dbus_rx_buffer when the ring has at most
\* one byte more than a frame (dbus_config.bufsz is 19, the buffer 18).
FitsBuffer == pc = "callback" => ReadLen <= F

\* When one interrupt brings exactly F bytes and the callback gets exactly F,
\* they are one whole frame in order: no short frame or wrap of the ring
\* before it can shift it.
WholeFrame ==
    [][(DbusInput /\ length = F /\ (recvLen - F) % N = 0)
          => \E f \in 0..Frames-1 : rxBuf' = Whole(f)]_vars

\* Only the first decode after the device opens can see a part of a frame or
\* a shifted one, whenever dbus_open found the line and however many frames
\* came before the callback was registered; while no frame is cut short
\* every later decode sees a whole frame.
HealsAfterFirst ==
    [][(DbusInput /\ shorts = 0 /\ rxBuf # [i \in 1..F |-> Zero])
          => \E f \in 0..Frames-1 : rxBuf' = Whole(f)]_vars

\* A frame that arrives on a drained fifo reaches dbus_rx_buffer as it is.
Delivered ==
    \A f \in 0..Frames-1 :
        (/\ stage = "ready" /\ lineIdx = F /\ frame = f
         /\ get = put /\ pos = (last + F) % N /\ ~idleFlag)
        ~> (rxBuf = Whole(f))

\* With a ring of exactly one frame, opened between two frames, the callback
\* never runs: every IDLE interrupt finds the DMA where it was (rc.c says that
\* bufsz 18 does not work and that the reason is not known).
NeverDecodes == pc # "callback"
=============================================================================
