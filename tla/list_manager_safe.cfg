SPECIFICATION ManagerSpec
CONSTANTS
  t1 = t1
  t2 = t2
  Timers <- TwoTimers
  Procs <- TwoCalls
  Pauses = {0, 1}
  Periods = {0, 1}
  MaxTime = 2
  SizeMax = 3
  ThreadSafe = TRUE
  ResetWhileProcessing = FALSE
SYMMETRY Symmetry2
INVARIANTS ExecHoldsWaiting RefsExact QuantitiesExact RunsOnce
PROPERTIES WaitingLeavesOnlyByUtilize Promise
