--------------------------- MODULE MCHeapManager ----------------------------
(* Constants for model checking HeapManager. *)
EXTENDS HeapManager

CONSTANTS t1, t2, t3, none

TwoTimers == {t1, t2}
ThreeTimers == {t1, t2, t3}
OneCall == {1}
TwoCalls == {1, 2}

Symmetry2 == Permutations(TwoTimers)
Symmetry3 == Permutations(ThreeTimers)
=============================================================================
