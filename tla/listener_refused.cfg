CONSTANTS
  Threads = {t1, t2}
  Listeners = {l1, l2}
  Bases = {b1, b2, b3, b4}
  Stubs = {s1, s2, s3, s4}
  Refuses = {"remove"}
  MaxDeaths = 2
  MaxCalls = 6
  NoThread = NoThread
  NoListener = NoListener
  NoBase = NoBase
  NoStub = NoStub
  Absent = Absent
SPECIFICATION Spec
SYMMETRY Symmetric
INVARIANTS RemovedMeansSilent
CHECK_DEADLOCK FALSE
