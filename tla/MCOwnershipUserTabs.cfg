SPECIFICATION Spec
CONSTANTS
  a = a
  d1 = d1
  none = none
  s1 = s1
  s2 = s2
  u = u
  Sessions = {s1, s2}
  Default = s2
  ToolTabs = {a}
  Popups = {}
  UserTabs = {u}
  Recoverers = {}
  Batchers = {}
  Deleters = {d1}
  MaxTargets = 2
  MaxLives = 1
  None = none
INVARIANTS
  UserTabKept
PROPERTIES
  SweepSparesDefault
CHECK_DEADLOCK FALSE
