CONSTANTS
  Threads = {t1, t2}
  Keys = {k1}
  NoKey = NoKey
  Capacity = 1
  Period = 1
  Threshold = 2
  SecToMillis = 2
  ClockSteps = {"tick"}
  MaxTime = 3
  MaxCalls = 4
SPECIFICATION Spec
INVARIANTS LimitPerWindow
CHECK_DEADLOCK FALSE
