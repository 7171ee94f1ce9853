---------------------------- MODULE TxService -----------------------------
(***************************************************************************)
(* What rt_device_write promises a thread that sends one CAN frame: the    *)
(* call hands the frame to a mailbox, the bus carries it or loses it, and  *)
(* only then does the call return, with what became of this frame.  No     *)
(* more than Cap frames are in the mailboxes.                              *)
(***************************************************************************)
EXTENDS FiniteSets, Integers

CONSTANTS Senders, Cap

VARIABLES
    phase,   \* where the frame of a sender is
    answer   \* what the last call of a sender returned

svars == <<phase, answer>>

Outcomes == {"ok", "lost"}

Init ==
    /\ phase = [s \in Senders |-> "idle"]
    /\ answer = [s \in Senders |-> "none"]

InMailbox == {s \in Senders : phase[s] = "bus"}

Call(s) ==
    /\ phase[s] = "idle"
    /\ phase' = [phase EXCEPT ![s] = "called"]
    /\ UNCHANGED answer

Place(s) ==
    /\ phase[s] = "called"
    /\ Cardinality(InMailbox) < Cap
    /\ phase' = [phase EXCEPT ![s] = "bus"]
    /\ UNCHANGED answer

Outcome(s) ==
    /\ phase[s] = "bus"
    /\ \E o \in Outcomes : phase' = [phase EXCEPT ![s] = o]
    /\ UNCHANGED answer

Return(s) ==
    /\ phase[s] \in Outcomes
    /\ answer' = [answer EXCEPT ![s] = phase[s]]
    /\ phase' = [phase EXCEPT ![s] = "idle"]

Next == \E s \in Senders : Call(s) \/ Place(s) \/ Outcome(s) \/ Return(s)

Spec == Init /\ [][Next]_svars
=============================================================================
