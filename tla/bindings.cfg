SPECIFICATION AllSpec
CONSTANTS
  Width = 5
  IntWidth = 4
  MaxCString = 2
  DoubleExact = 8
  JS_STR_PARM_LEN_LIMIT = 2
  BUF_SIZE = 5
  BadKeys = {"bad"}
  NUL = 0
  MAX_LENGTH_OF_EVENT_NAME = 3
  MAX_LENGTH_OF_EVENT_DOMAIN = 4
  MAX_LENGTH_OF_EVENT_TAG = 3
  MAX_LENGTH_OF_PARAM_NAME = 3
  MAX_EVENT_LIST_LEN = 7
  MAX_NUMBER_OF_EVENT_LIST = 2
  BAR = 9
  JsonValues <- MCJsonValues
  JsonScalars <- MCJsonScalars
  JsValuesIn <- MCJsValuesIn
  JsPairs <- MCJsPairs
  Batches <- MCBatches
  EasyCalls <- MCEasyCalls
  RustNames <- MCRustNames
  Fills <- MCFills
  Adders = {t1, t2}
  Loop = loop
  Callbacks = {c1, c2, final}
  Finals = {final}
  Failures = TRUE
  NoCallback = NoCallback
  JsThreads = {j1, j2}
  JsObjects = {a, b}
  MaxCalls = 2
  AniThreads = {i1, i2}
  AniScript = s
  AniDeliveries = 3
  MaxAdds = 2
  MaxOptions = 3
  MaxBatches = 1
INVARIANTS
  RecordReadsTrue
  CRecordsComplete
  JsParamsKept
  JsonReachesJs
  EasyEventIntact
  RustNamesArrive
  TypeOK
  RanInOrder
  NothingAfterFinal
  JsMapsSound
  AniRanInOrder
  RustMemorySafe
  RustReclaimed
PROPERTIES
  JsQueryCompletes
  ToolEnds
  EveryCallbackRuns
  QueueAdvances
CHECK_DEADLOCK FALSE
