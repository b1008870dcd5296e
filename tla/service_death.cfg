CONSTANTS
  Threads = {t1}
  Listeners = {l1}
  Bases = {b1, b2}
  Stubs = {s1, s2}
  Refuses = {"add"}
  MaxDeaths = 1
  MaxCalls = 2
  NoThread = NoThread
  NoListener = NoListener
  NoBase = NoBase
  NoStub = NoStub
  Absent = Absent
SPECIFICATION DeathSpec
PROPERTIES DeathIsReported
CHECK_DEADLOCK FALSE
