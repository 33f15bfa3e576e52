SPECIFICATION FairSpec
CONSTANTS
  Caller = {c1, c2}
  InLen = 2
  MaxDevices = 2
  OutLen = 2
  MaxCalls = 3
INVARIANTS TypeOK StartedOnce Exclusion
PROPERTIES ReadyWhenInit CallEnds
CHECK_DEADLOCK FALSE
