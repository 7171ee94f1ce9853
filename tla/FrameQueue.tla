---------------------------- MODULE FrameQueue ----------------------------
(***************************************************************************)
(* What the receive path of a CAN device promises its reader: a queue of   *)
(* at most Cap frames, the one being read included, that hands the frames  *)
(* over in the order of their arrival, each at most once, and that gives   *)
(* up its oldest frame, never a newer one, when a frame finds it at its    *)
(* limit.  It says nothing of boxes, lists or interrupts.                  *)
(***************************************************************************)
EXTENDS Integers, Sequences

CONSTANTS Cap, Frame

VARIABLES
    queue,   \* frames not yet taken, oldest first
    taken,   \* the frame the reader is copying, 0 for none
    got      \* the last frame copied, 0 at first

qvars == <<queue, taken, got>>

Init ==
    /\ queue = <<>> /\ taken = 0 /\ got = 0

Held == Len(queue) + (IF taken = 0 THEN 0 ELSE 1)

\* The latest frame the queue has seen and not dropped.
Newest == IF queue # <<>> THEN queue[Len(queue)]
          ELSE IF taken # 0 THEN taken ELSE got

\* A later frame arrives; frames may be lost before they get here.
Arrive ==
    \E m \in Frame :
        /\ m > Newest
        /\ IF Held < Cap THEN queue' = Append(queue, m)
           ELSE IF queue # <<>> THEN queue' = Append(Tail(queue), m)
           ELSE queue' = queue
        /\ UNCHANGED <<taken, got>>

Take ==
    /\ taken = 0 /\ queue # <<>>
    /\ taken' = Head(queue)
    /\ queue' = Tail(queue)
    /\ UNCHANGED got

Copy ==
    /\ taken # 0
    /\ got' = taken
    /\ UNCHANGED <<queue, taken>>

Release ==
    /\ taken # 0 /\ got = taken
    /\ taken' = 0
    /\ UNCHANGED <<queue, got>>

Next == Arrive \/ Take \/ Copy \/ Release

Spec == Init /\ [][Next]_qvars
=============================================================================
