------------------------------ MODULE MCKernel ------------------------------
(* Kernel with threads of three priorities above the idle thread.          *)
EXTENDS Kernel

CONSTANTS high, mid, low, idle

MCThreads == {high, mid, low, idle}
MCPrio == [t \in MCThreads |->
             IF t = high THEN 0 ELSE IF t = mid THEN 1 ELSE IF t = low THEN 2 ELSE 3]
=============================================================================
