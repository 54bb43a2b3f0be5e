--------------------------- MODULE MCListManager ----------------------------
(* Constants for model checking ListManager. *)
EXTENDS ListManager

CONSTANTS t1, t2

TwoTimers == {t1, t2}
TwoCalls == {1, 2}

Symmetry2 == Permutations(TwoTimers)
=============================================================================
