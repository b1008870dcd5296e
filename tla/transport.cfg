CONSTANTS
  Threads = {t1, t2}
  Events = {e1, e2, e3, e4, large}
  LargeEvent = large
  Length <- MCLength
  MAX_DATA_SIZE = 1
  RETRY_QUEUE_SIZE = 2
  RETRY_TIMES = 2
  NoEvent = NoEvent
  NoThread = NoThread
SPECIFICATION FairSpec
INVARIANTS TypeOK OneFate SentOnce RetriedInOrder
PROPERTIES ImplementsOutbox EveryCallReturns
CHECK_DEADLOCK FALSE
