SPECIFICATION FairSpec
CONSTANTS
  Tasks = {t1}
  Servers = {s1, s2}
  Pids = {p1, p2}
  Calls = {c1, c2}
  MaxStarts = 3
  MaxCounted = 2
  None = None
  Dead = Dead
INVARIANTS
  TypeOK
  CallsCounted
  CancelHonoured
  SweepIsExact
PROPERTIES
  LifeSpec
  TaskEnds
CHECK_DEADLOCK FALSE
