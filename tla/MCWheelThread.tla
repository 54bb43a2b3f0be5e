--------------------------- MODULE MCWheelThread ----------------------------
(* Constants for model checking WheelThread. *)
EXTENDS WheelThread

CONSTANTS t1, j1, j2

OneTimer == {t1}
OneJoiner == {j1}
TwoJoiners == {j1, j2}

\* The behaviours in which time passes only while the body sleeps without a time-out:
\* what goes wrong in one of them is due to that sleep, and not to a clock that has
\* gone on before start(), nor to a thread that is late.
OnlySleepTakesTime == now' # now => body = "wait"

SleepySpec == Init /\ [][Next /\ OnlySleepTakesTime]_vars
=============================================================================
