SPECIFICATION ManagerSpec
CONSTANTS
  t1 = t1
  t2 = t2
  Timers <- TwoTimers
  WheelSize = 2
  Granularity = 2
  Pauses = {1, 5}
  Periods = {1}
  MaxTime = 7
  SizeMax = 2
  ThreadSafe = TRUE
  ResetWhileProcessing = TRUE
  Remembered = "in_time"
SYMMETRY Symmetry2
INVARIANT EngineInv
PROPERTIES Promise TakenOnItsTick NeverBeforePause NoneLeftBehind CountsKept
