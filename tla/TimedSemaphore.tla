--------------------------- MODULE TimedSemaphore ---------------------------
(***************************************************************************)
(* What rt_sem_take with a timeout promises: a release makes one token, a  *)
(* token is kept or given to exactly one waiting thread, and a wait ends   *)
(* with a token or because its time is over, never with both; a thread     *)
(* that waits for ever only ends with a token.                             *)
(***************************************************************************)
EXTENDS Naturals

CONSTANTS Threads

VARIABLES
    tokens,  \* tokens nobody has taken
    phase,   \* of each thread: "idle", "timed", "forever", "granted", "expired"
    tick     \* the clock is handling a tick

svars == <<tokens, phase, tick>>

Waiting == {t \in Threads : phase[t] \in {"timed", "forever"}}

Init ==
    /\ tokens \in Nat
    /\ phase = [t \in Threads |-> "idle"]
    /\ tick = FALSE

TakeNow ==
    /\ tokens > 0 /\ tokens' = tokens - 1
    /\ UNCHANGED <<phase, tick>>

Wait(t) ==
    /\ phase[t] = "idle" /\ tokens = 0
    /\ \E w \in {"timed", "forever"} : phase' = [phase EXCEPT ![t] = w]
    /\ UNCHANGED <<tokens, tick>>

Release ==
    /\ IF Waiting = {} THEN tokens' = tokens + 1 /\ phase' = phase
       ELSE /\ tokens' = tokens
            /\ \E t \in Waiting : phase' = [phase EXCEPT ![t] = "granted"]
    /\ UNCHANGED tick

Return(t) ==
    /\ phase[t] \in {"granted", "expired"}
    /\ phase' = [phase EXCEPT ![t] = "idle"]
    /\ UNCHANGED <<tokens, tick>>

TickStarts ==
    /\ ~tick /\ tick'
    /\ UNCHANGED <<tokens, phase>>

Expire(t) ==
    /\ tick /\ phase[t] = "timed"
    /\ phase' = [phase EXCEPT ![t] = "expired"]
    /\ UNCHANGED <<tokens, tick>>

TickEnds ==
    /\ tick /\ ~tick'
    /\ UNCHANGED <<tokens, phase>>

Next ==
    \/ TakeNow \/ Release \/ TickStarts \/ TickEnds
    \/ \E t \in Threads : Wait(t) \/ Expire(t) \/ Return(t)

Spec == Init /\ [][Next]_svars
=============================================================================
