SPECIFICATION FairLoopSpec
CONSTANTS
  t1 = t1
  t2 = t2
  Timers <- TwoTimers
  Procs <- TwoCalls
  Pauses = {0, 2}
  Periods = {0, 1}
  MaxTime = 1
  SizeMax = 3
  ThreadSafe = FALSE
  ResetWhileProcessing = TRUE
  DefaultTimeout = 1
INVARIANTS EngineInv NeverOversleeps
PROPERTIES NoneLeftBehind DeactivatedNeverRuns DueTimerServed
CHECK_DEADLOCK FALSE
