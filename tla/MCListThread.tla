---------------------------- MODULE MCListThread ----------------------------
(* Constants for model checking ListThread. *)
EXTENDS ListThread

CONSTANTS t1, t2, j1

TwoTimers == {t1, t2}
OneCall == {1}
OneJoiner == {j1}
=============================================================================
