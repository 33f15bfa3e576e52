SPECIFICATION Spec
CONSTANTS
  InLen = 2
  OutLen = 2
  MidLen = 2
  MaxNodes = 10
INVARIANT HeadFrameSent
CHECK_DEADLOCK FALSE
