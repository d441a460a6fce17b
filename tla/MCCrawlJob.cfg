SPECIFICATION FairSpec
CONSTANTS
  home = home
  a = a
  b = b
  Urls = {home, a, b}
  Start = home
  Links <- Site
  MaxDepth = 2
  MaxPages = 5
  DelayMs = 1
  MaxAdvance = 3
  Calls = {c1, c2}
  Local = {c1}
  MaxCrashes = 1
  None = None
INVARIANTS
  PagesWithinLimit
  FetchedOnce
  LinksFollowed
PROPERTIES
  EndedIsFinal
  Returns
CHECK_DEADLOCK FALSE
