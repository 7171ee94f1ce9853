---------------------------- MODULE MCConsoleRx ----------------------------
(* ConsoleRx with a ring of a few bytes in place of 64.                    *)
EXTENDS ConsoleRx
=============================================================================
