SPECIFICATION FairSpec
CONSTANTS
  Caller = {c1, c2}
  InLen = 2
  OutLen = 2
  chNum = 2
  FrameWords = 4
  MaxSamples = 3
PROPERTY FullFrameQueued
CHECK_DEADLOCK FALSE
