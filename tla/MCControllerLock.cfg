CONSTANTS
  Procs = {p1, p2}
  Nobody = Nobody
  Remote = {}
  TakeoverEnabled = "on"
  MaxTakeovers = 1
  MaxIterations = 1
SPECIFICATION FairSpec
INVARIANTS TypeOK NeverResurrected
PROPERTIES Decides StuckOwnerReplaced
CHECK_DEADLOCK FALSE
