SPECIFICATION Spec
CONSTANTS
  Caller = {c1, c2}
  InLen = 2
  OutLen = 2
  chNum = 2
  FrameWords = 4
  MaxSamples = 5
INVARIANT SentInOrder
CHECK_DEADLOCK FALSE
