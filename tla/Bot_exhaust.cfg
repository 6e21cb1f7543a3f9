SPECIFICATION FairSpec
CONSTANTS
  Tids = {t1, t2, t3}
  NoTid = NoTid
  Positions = {p1}
  NoPosition = NoPosition
  Conditions <- MCConditions
  MaxDepth = 2
  MaxNodes = 2
  MaxPonderHits = 1
  GuiLingers = TRUE
  ThreadsRunOut = TRUE
INVARIANTS
  NoUseAfterFree
PROPERTIES
  StopWaits
  UciReturns
CHECK_DEADLOCK FALSE
