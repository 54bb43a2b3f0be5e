SPECIFICATION FairSpec
CONSTANTS
  t1 = t1
  j1 = j1
  j2 = j2
  Timers <- OneTimer
  Joiners <- TwoJoiners
  WheelSize = 2
  Granularity = 1
  Pauses = {1, 2}
  Periods = {0, 1}
  ThreadSafe = TRUE
  MaxTime = 3
  SizeMax = 2
  Remembered = "none"
INVARIANTS IInv NoLostWakeup QuantitiesExact
PROPERTIES DueTimerServed JoinCompletes
