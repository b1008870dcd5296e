CONSTANTS
  Letters = {"A", "B"}
  Bar = "|"
  MaxName = 2
  MaxMasks = 2
SPECIFICATION Spec
INVARIANT MaskedExactly
CHECK_DEADLOCK FALSE
