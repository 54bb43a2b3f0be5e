--------------------------- MODULE MCWheelManager ---------------------------
(* Constants for model checking WheelManager. *)
EXTENDS WheelManager

CONSTANTS t1, t2

OneTimer == {t1}
TwoTimers == {t1, t2}

Symmetry2 == Permutations(TwoTimers)
=============================================================================
