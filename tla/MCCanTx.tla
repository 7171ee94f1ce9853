------------------------------ MODULE MCCanTx ------------------------------
(* CanTx with a few senders.                                               *)
EXTENDS CanTx
=============================================================================
