SPECIFICATION Spec
CONSTANTS
  Calls <- MCCalls
  Params <- MCParams
  Masked <- MCMasked
  MaxGiven = 3
  Failures = TRUE
  MAX_DOMAIN_LENGTH = 2
  MAX_EVENT_NAME_LENGTH = 2
  MAX_PARAM_NAME_LENGTH = 2
  MAX_ARRAY_SIZE = 2
  MAX_PARAM_NUMBER = 2
  MAX_STRING_LENGTH = 3
  MAX_DATA_SIZE = 34
  EXPAND_BUF_SIZE = 5
  TAG_BYTE_OFFSET = 1
  NON_TAG_BYTE_OFFSET = 2
  Width = 4
INVARIANTS
  TypeOK
  ResultIsTrue
  ReadsBack
  WithinLimits
