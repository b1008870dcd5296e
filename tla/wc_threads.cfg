CONSTANTS
  Threads = {t1, t2}
  Keys = {k1, k2, k3}
  NoKey = NoKey
  Capacity = 2
  Period = 1
  Threshold = 2
  SecToMillis = 2
  ClockSteps = {"tick", "back"}
  MaxTime = 6
  MaxCalls = 4
SPECIFICATION Spec
SYMMETRY Symmetric
INVARIANTS TypeOK CacheConsistent CacheHoldsMostRecent NoFalseReject LimitUnlessDisturbed
CHECK_DEADLOCK FALSE
