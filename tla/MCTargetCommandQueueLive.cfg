CONSTANTS
  Commands = {c1, c2, c3}
  MaxPending = 2
  NoCommand = NoCommand
SPECIFICATION FairSpec
PROPERTIES
  WaitIsBounded
CHECK_DEADLOCK FALSE
