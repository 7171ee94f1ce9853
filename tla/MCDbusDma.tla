----------------------------- MODULE MCDbusDma -----------------------------
(* DbusDma with the sizes of the firmware: frames of 18 bytes.             *)
EXTENDS DbusDma
=============================================================================
