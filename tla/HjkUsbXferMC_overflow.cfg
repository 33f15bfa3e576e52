SPECIFICATION FairSpec
CONSTANTS
  Caller = {c1, c2}
  InLen = 2
  OutLen = 1
  chNum = 4
  FrameWords = 4
  MaxSamples = 4
INVARIANTS TypeOK ReportsAreReal OnlySubmittedData
PROPERTIES CallReturns InputDrains OutputDrains
CHECK_DEADLOCK FALSE
