------------------------------ MODULE MCCanRx ------------------------------
(* CanRx with a few message boxes in place of 16.                          *)
EXTENDS CanRx
=============================================================================
