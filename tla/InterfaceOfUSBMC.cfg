SPECIFICATION FairSpec
CONSTANTS
  InLen = 2
  OutLen = 2
  MidLen = 2
  MaxNodes = 10
INVARIANTS TypeOK SemaphoresCount FailuresAreLosses TakenInOrder FramesWhole
PROPERTIES WaitsEnd InterfaceDrains
CHECK_DEADLOCK FALSE
