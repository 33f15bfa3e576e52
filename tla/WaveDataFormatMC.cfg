SPECIFICATION Spec
CONSTANTS
  Bits = 2
  CounterMod = 8
  PktWords = 2
  MaxFrameWords = 15
  Inputs <- MCInputs
  MaxCalls = 3
INVARIANTS TypeOK FormattedInPlace InBounds FrameHoldsNodes NeverDropped
PROPERTIES Returns
CHECK_DEADLOCK FALSE
