SPECIFICATION Spec
CONSTANTS
  Caller = {c1, c2}
  InLen = 3
  OutLen = 2
  chNum = 2
  FrameWords = 4
  MaxSamples = 6
SYMMETRY CallerSymmetry
INVARIANTS SlotsOwnBuffers HeadPointersCurrent StreamIntact NothingLost
PROPERTY OverrunNeedsFullRing
CHECK_DEADLOCK FALSE
