SPECIFICATION ManagerSpec
CONSTANTS
  t1 = t1
  t2 = t2
  t3 = t3
  none = none
  NoTimer = none
  Timers <- ThreeTimers
  Procs <- OneCall
  Pauses = {0, 1}
  Periods = {0, 1}
  MaxTime = 2
  SizeMax = 3
  ThreadSafe = FALSE
  ResetWhileProcessing = TRUE
  ActivateWhileProcessing = FALSE
SYMMETRY Symmetry3
INVARIANT EngineInv
PROPERTIES Promise NoneLeftBehind EarliestFirst CountsKept
