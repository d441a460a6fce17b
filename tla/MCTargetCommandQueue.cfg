SPECIFICATION Spec
CONSTANTS
  Commands = {c1, c2, c3, c4}
  MaxPending = 2
  NoCommand = NoCommand
SYMMETRY CommandSymmetry
INVARIANTS
  TypeOK
  NotStartedIsTrue
  SerialExecution
  NoStrandedCommand
PROPERTIES
  FirstInFirstOut
  CommandLifeSpec
  TombstoneHolds
CHECK_DEADLOCK FALSE
