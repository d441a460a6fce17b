SPECIFICATION Spec
CONSTANTS
  Workers = {w1, w2}
  Data = {d1}
  d1 = d1
  Reports <- SomeReports
  MaxStale = 1
  MaxRequests = 2
  MaxRestarts = 1
  None = None
SYMMETRY Symmetry
INVARIANTS
  Consistent
  ForcedOnce
  FallbackKept
  NeverStranded
CHECK_DEADLOCK FALSE
