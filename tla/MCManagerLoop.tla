--------------------------- MODULE MCManagerLoop ----------------------------
(* Constants for model checking ManagerLoop. *)
EXTENDS ManagerLoop

CONSTANTS t1, t2

TwoTimers == {t1, t2}
TwoCalls == {1, 2}
=============================================================================
