SPECIFICATION ManagerSpec
CONSTANTS
  t1 = t1
  t2 = t2
  t3 = t3
  none = none
  NoTimer = none
  Timers <- TwoTimers
  Procs <- TwoCalls
  Pauses = {0, 1}
  Periods = {0, 1}
  MaxTime = 2
  SizeMax = 4
  ThreadSafe = FALSE
  ResetWhileProcessing = FALSE
  ActivateWhileProcessing = FALSE
SYMMETRY Symmetry2
INVARIANT InProcessingIsTaken
