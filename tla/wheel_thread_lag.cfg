SPECIFICATION SleepySpec
CONSTANTS
  t1 = t1
  j1 = j1
  j2 = j2
  Timers <- OneTimer
  Joiners <- OneJoiner
  WheelSize = 4
  Granularity = 1
  Pauses = {3}
  Periods = {0}
  ThreadSafe = TRUE
  MaxTime = 6
  SizeMax = 2
  Remembered = "all"
PROPERTY NotBeforePause
