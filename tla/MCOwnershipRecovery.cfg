SPECIFICATION Spec
CONSTANTS
  a = a
  b = b
  none = none
  s1 = s1
  s2 = s2
  s3 = s3
  Sessions = {s1, s2, s3}
  Default = s1
  ToolTabs = {a, b}
  Popups = {}
  UserTabs = {}
  Recoverers = {s1, s2}
  Batchers = {s1}
  Deleters = {}
  MaxTargets = 1
  MaxLives = 1
  None = none
SYMMETRY TabSymmetry
PROPERTIES
  TabLifeSpec
CHECK_DEADLOCK FALSE
