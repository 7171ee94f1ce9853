-------------------------- MODULE MCMotorControl --------------------------
(* MotorControl with three frames of the remote control: sticks released   *)
(* and the switch on, sticks at their end and the switch off, a frame with *)
(* channels out of range.                                                  *)
EXTENDS MotorControl

MCFrames ==
    {[ch |-> <<0, 0, 0, 0>>, sw1 |-> 1],
     [ch |-> <<660, 0, 660, 0>>, sw1 |-> 3],
     [ch |-> <<1023, 0, 1023, 0>>, sw1 |-> 1]}
=============================================================================
