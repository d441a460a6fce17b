SPECIFICATION Spec
CONSTANTS
  a = a
  d1 = d1
  default = default
  none = none
  p = p
  s1 = s1
  Sessions = {s1}
  Default = default
  ToolTabs = {a}
  Popups = {p}
  UserTabs = {}
  Recoverers = {}
  Batchers = {}
  Deleters = {d1}
  MaxTargets = 2
  MaxLives = 2
  None = none
INVARIANTS
  ReservationsBalance
  CapacityRespected
  RegistriesAgree
  DeadPopupForgotten
PROPERTIES
  OrphansComeLate
CHECK_DEADLOCK FALSE
