SPECIFICATION Spec
CONSTANTS
  Ops = {o1, o2, o3}
  Conns = {1, 2}
  MaxAttempts = 2
  MaxRetries = 2
  None = None
SYMMETRY OpSymmetry
INVARIANTS
  TypeOK
  OneConnection
  Watched
  NothingLeftBehind
  InCharge
CHECK_DEADLOCK FALSE
