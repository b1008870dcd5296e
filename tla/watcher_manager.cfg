CONSTANTS
  Threads = {t1, t2}
  Listeners = {w1, w2}
  Bases = {b1, b2, b3, b4}
  Stubs = {s1, s2, s3, s4}
  Refuses = {"add"}
  ReAdds = FALSE
  MaxDeaths = 1
  MaxCalls = 5
  NoThread = NoThread
  NoListener = NoListener
  NoBase = NoBase
  NoStub = NoStub
SPECIFICATION Spec
SYMMETRY Symmetric
INVARIANTS TypeOK NoOrphanWatcher AddedMeansListening RemovedMeansSilent
CHECK_DEADLOCK FALSE
