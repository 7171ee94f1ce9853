---------------------------- MODULE LossyQueue ----------------------------
(***************************************************************************)
(* What a serial device in interrupt mode promises its reader: at most Cap *)
(* bytes in the order in which they came, each read at most once; a byte   *)
(* that finds Cap of them takes the place of the oldest.                   *)
(***************************************************************************)
EXTENDS Integers, Sequences

CONSTANTS Cap, Bytes

VARIABLES
    queue,   \* bytes to be read, oldest first
    got      \* the last byte read, 0 at first

qvars == <<queue, got>>

Init == queue = <<>> /\ got = 0

Newest == IF queue = <<>> THEN got ELSE queue[Len(queue)]

\* A later byte; those in between were lost on the line.
Put ==
    /\ \E m \in Bytes :
          /\ m > Newest
          /\ queue' = IF Len(queue) < Cap THEN Append(queue, m) ELSE Append(Tail(queue), m)
    /\ got' = got

Get ==
    /\ queue # <<>>
    /\ got' = Head(queue)
    /\ queue' = Tail(queue)

Next == Put \/ Get

Spec == Init /\ [][Next]_qvars
=============================================================================
