SPECIFICATION FairSpec
CONSTANTS
  InLen = 2
  OutLen = 2
  FrameNodes = 2
  MaxNodes <- MCMaxNodes
  MaxRequests = 2
INVARIANTS TypeOK PrintedStream SentAsPrinted
PROPERTIES OverrunNeedsFullRing RingsDrain
CHECK_DEADLOCK FALSE
