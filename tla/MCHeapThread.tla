---------------------------- MODULE MCHeapThread ----------------------------
(* Constants for model checking HeapThread. *)
EXTENDS HeapThread

CONSTANTS t1, t2, j1, none

TwoTimers == {t1, t2}
OneCall == {1}
OneJoiner == {j1}
=============================================================================
