----------------------------- MODULE ConsoleRx -----------------------------
(***************************************************************************)
(* Input of the console: UART8 in interrupt mode.  The interrupt puts the  *)
(* bytes it finds into the ring of the serial device and releases the      *)
(* semaphore of the shell; the thread tshell reads the ring one byte at a  *)
(* time and takes the semaphore when it found nothing.                     *)
(*                                                                         *)
(* Bytes are numbered in the order of the line.  The thread does not run   *)
(* while the handler does; the line goes on meanwhile.                     *)
(***************************************************************************)
EXTENDS Integers, Sequences

CONSTANTS
    N,          \* serial->config.bufsz (64)
    SemMod,     \* values of a semaphore (rt_uint16_t: 65536)
    MaxBytes    \* bound: bytes the line carries

ASSUME ConsoleAssumption ==
    /\ N \in Nat \ {0}
    /\ SemMod \in Nat \ {0}
    /\ MaxBytes \in Nat

Bytes == 1..MaxBytes
None  == 0

VARIABLES
    sent,             \* bytes the line has carried
    dr,               \* the byte in the data register, None when RXNE is clear
    stage,            \* finsh_set_device: "closed", "open", "ready"
    isr,              \* the handler: "off", or "in" while it looks for bytes
    buffer,           \* rx_fifo->buffer
    put, get, full,   \* rx_fifo->put_index, get_index, is_full
    sem,              \* shell->rx_sem.value
    pc,               \* where tshell is
    ch                \* the byte finsh_getchar returned last

lineVars == <<sent, dr>>
ringVars == <<buffer, put, get, full>>
vars == <<lineVars, stage, isr, ringVars, sem, pc, ch>>

Init ==
    /\ sent = 0 /\ dr = None
    /\ stage = "closed" /\ isr = "off"
    /\ buffer = [i \in 0..N-1 |-> None]
    /\ put = 0 /\ get = 0 /\ full = FALSE
    /\ sem = 0 /\ pc = "start" /\ ch = None

-----------------------------------------------------------------------------
(* The line                                                                *)

\* A byte comes.  It is lost when the one before it is still in the register;
\* it may also be lost to noise, or to the handler, which clears RXNE when it
\* was called for something else.
Receive ==
    /\ sent < MaxBytes
    /\ sent' = sent + 1
    /\ dr' \in IF dr = None THEN {sent + 1, None} ELSE {dr}
    /\ UNCHANGED <<stage, isr, ringVars, sem, pc, ch>>

-----------------------------------------------------------------------------
(* The interrupt: RT_SERIAL_EVENT_RX_IND                                   *)

Wrap(i) == IF i >= N THEN 0 ELSE i

\* Mistaken forms of IsrChar: an index that is not wrapped, a ring that does
\* not make room.
IsrCharUnwrapped ==
    /\ stage # "closed" /\ dr # None
    /\ isr' = "in" /\ dr' = None
    /\ buffer' = [buffer EXCEPT ![put] = dr]
    /\ put' = put + 1
    /\ get' = IF put' = get THEN Wrap(get + 1) ELSE get
    /\ full' = (full \/ put' = get)
    /\ UNCHANGED <<sent, stage, sem, pc, ch>>
IsrCharKeepsGet ==
    /\ stage # "closed" /\ dr # None
    /\ isr' = "in" /\ dr' = None
    /\ buffer' = [buffer EXCEPT ![put] = dr]
    /\ put' = Wrap(put + 1)
    /\ UNCHANGED <<sent, stage, get, full, sem, pc, ch>>

\* A byte is stored; a put index that reaches the get index pushes it on.
IsrChar ==
    /\ stage # "closed" /\ dr # None
    /\ isr' = "in" /\ dr' = None
    /\ buffer' = [buffer EXCEPT ![put] = dr]
    /\ put' = Wrap(put + 1)
    /\ get' = IF put' = get THEN Wrap(get + 1) ELSE get
    /\ full' = (full \/ put' = get)
    /\ UNCHANGED <<sent, stage, sem, pc, ch>>

\* rx_length
RxLength == IF put >= get THEN put - get ELSE N - (get - put)

\* rt_sem_release: wake the shell or count the token.
SemRelease ==
    IF pc = "asleep" THEN pc' = "read" /\ sem' = sem
                     ELSE pc' = pc /\ sem' = (sem + 1) % SemMod

\* A mistaken form of IsrNotify, which tells only of a byte on an empty ring.
IsrNotifyFirst ==
    /\ isr = "in" /\ dr = None
    /\ isr' = "off"
    /\ IF stage = "ready" /\ RxLength = 1 THEN SemRelease ELSE UNCHANGED <<pc, sem>>
    /\ UNCHANGED <<lineVars, stage, ringVars, ch>>

\* No more bytes: finsh_rx_ind, once it is registered.
IsrNotify ==
    /\ isr = "in" /\ dr = None
    /\ isr' = "off"
    /\ IF stage = "ready" /\ RxLength # 0 THEN SemRelease ELSE UNCHANGED <<pc, sem>>
    /\ UNCHANGED <<lineVars, stage, ringVars, ch>>

Isr == IsrChar \/ IsrNotify

-----------------------------------------------------------------------------
(* tshell: finsh_set_device, finsh_getchar                                 *)

\* rt_device_open: the ring is made and the interrupt enabled.
OpenDevice ==
    /\ pc = "start"
    /\ stage' = "open" /\ pc' = "register"
    /\ UNCHANGED <<lineVars, isr, ringVars, sem, ch>>

SetRxIndicate ==
    /\ isr = "off" /\ pc = "register"
    /\ stage' = "ready" /\ pc' = "read"
    /\ UNCHANGED <<lineVars, isr, ringVars, sem, ch>>

\* A mistaken form of Read: a full ring stays full.
ReadKeepsFull ==
    /\ isr = "off" /\ pc = "read"
    /\ IF get = put /\ ~full
          THEN pc' = "take" /\ UNCHANGED <<get, full, ch>>
          ELSE /\ ch' = buffer[get]
               /\ get' = Wrap(get + 1)
               /\ full' = full
               /\ pc' = "process"
    /\ UNCHANGED <<lineVars, stage, isr, buffer, put, sem>>

\* _serial_int_rx for one byte
Read ==
    /\ isr = "off" /\ pc = "read"
    /\ IF get = put /\ ~full
          THEN pc' = "take" /\ UNCHANGED <<get, full, ch>>
          ELSE /\ ch' = buffer[get]
               /\ get' = Wrap(get + 1)
               /\ full' = FALSE
               /\ pc' = "process"
    /\ UNCHANGED <<lineVars, stage, isr, buffer, put, sem>>

\* rt_sem_take: with a token the shell reads again.
SemTake ==
    /\ isr = "off" /\ pc = "take"
    /\ IF sem > 0 THEN sem' = sem - 1 /\ pc' = "read"
                  ELSE sem' = sem /\ pc' = "asleep"
    /\ UNCHANGED <<lineVars, stage, isr, ringVars, ch>>

\* The line editor takes the byte and asks for the next.
Process ==
    /\ isr = "off" /\ pc = "process"
    /\ pc' = "read"
    /\ UNCHANGED <<lineVars, stage, isr, ringVars, sem, ch>>

Shell == OpenDevice \/ SetRxIndicate \/ Read \/ SemTake \/ Process

Next == Receive \/ Isr \/ Shell

\* Interrupts are served; tshell shares its priority with motionTask in turns
\* and the threads above it sleep.
Spec == Init /\ [][Next]_vars /\ WF_vars(Isr) /\ WF_vars(Shell)

-----------------------------------------------------------------------------
(* Properties                                                              *)

\* Types of the variables; the indices stay within the ring.
TypeOK ==
    /\ sent \in 0..MaxBytes /\ dr \in 0..MaxBytes
    /\ stage \in {"closed", "open", "ready"} /\ isr \in {"off", "in"}
    /\ buffer \in [0..N-1 -> 0..MaxBytes]
    /\ put \in 0..N-1 /\ get \in 0..N-1 /\ full \in BOOLEAN
    /\ sem \in 0..SemMod-1
    /\ pc \in {"start", "register", "read", "take", "asleep", "process"}
    /\ ch \in 0..MaxBytes

Unread == [i \in 1..RxLength |-> buffer[(get + i - 1) % N]]

\* The ring is a queue of N-1 bytes that drops its oldest.
Queue == INSTANCE LossyQueue WITH Cap <- N - 1, queue <- Unread, got <- ch
IsLossyQueue == Queue!Spec

\* A shell that sleeps has read everything: a byte that comes between its
\* last look at the ring and its sleep leaves it a token, and bytes that came
\* before the callback are found without one.
SleeperHasReadAll == pc = "asleep" /\ isr = "off" => put = get /\ ~full

\* When the line falls silent the shell comes to rest with nothing to read:
\* tokens without a byte, left over by bytes it read on the way, do not keep
\* it busy, and is_full does not make an empty ring look full.
ComesToRest ==
    (<>[][FALSE]_sent) => <>[](pc = "asleep" /\ put = get /\ sem = 0 /\ dr = None)
=============================================================================
