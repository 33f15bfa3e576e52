SPECIFICATION Spec
CONSTANTS
  chNum = 2
  MaxCalls = 3
INVARIANT OwnResult
CHECK_DEADLOCK FALSE
