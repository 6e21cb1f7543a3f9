SPECIFICATION Spec
CONSTANTS
  Tids = {t1, t2, t3}
  NoTid = NoTid
  Positions = {p1, p2}
  NoPosition = NoPosition
  Conditions <- MCConditions
  MaxDepth = 3
  MaxNodes = 3
  MaxPonderHits = 1
  GuiLingers = FALSE
  ThreadsRunOut = FALSE
PROPERTIES
  StopWaits
CHECK_DEADLOCK FALSE
