SPECIFICATION FairSpec
CONSTANTS
  t1 = t1
  t2 = t2
  j1 = j1
  none = none
  NoTimer = none
  Timers <- TwoTimers
  Procs <- OneCall
  Joiners <- OneJoiner
  Pauses = {0, 1}
  Periods = {0, 1}
  ThreadSafe = TRUE
  MaxTime = 2
  SizeMax = 2
INVARIANTS IInv NoLostWakeup
PROPERTIES DueTimerServed JoinCompletes
