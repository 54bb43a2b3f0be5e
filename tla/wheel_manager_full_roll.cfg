SPECIFICATION ManagerSpec
CONSTANTS
  t1 = t1
  t2 = t2
  Timers <- OneTimer
  WheelSize = 2
  Granularity = 1
  Pauses = {1}
  Periods = {2}
  MaxTime = 6
  SizeMax = 3
  ThreadSafe = FALSE
  ResetWhileProcessing = FALSE
  Remembered = "in_time"
PROPERTY TakenOnItsTick
