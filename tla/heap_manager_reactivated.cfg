SPECIFICATION ManagerSpec
CONSTANTS
  t1 = t1
  t2 = t2
  t3 = t3
  none = none
  NoTimer = none
  Timers <- TwoTimers
  Procs <- OneCall
  Pauses = {0, 1}
  Periods = {0, 1}
  MaxTime = 2
  SizeMax = 4
  ThreadSafe = TRUE
  ResetWhileProcessing = FALSE
  ActivateWhileProcessing = TRUE
SYMMETRY Symmetry2
INVARIANT InProcessingIsOut
