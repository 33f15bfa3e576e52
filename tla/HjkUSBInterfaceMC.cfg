SPECIFICATION FairSpec
CONSTANTS
  InElems = 2
  OutElems = 2
  FrameNodes = 1
  MaxNodes = 3
PROPERTY OutWaitEnds
CHECK_DEADLOCK FALSE
