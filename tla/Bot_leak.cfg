SPECIFICATION FairSpec
CONSTANTS
  Tids = {t1, t2, t3}
  NoTid = NoTid
  Positions = {p1, p2}
  NoPosition = NoPosition
  Conditions <- MCTimeOnly
  MaxDepth = 3
  MaxNodes = 3
  MaxPonderHits = 1
  GuiLingers = TRUE
  ThreadsRunOut = TRUE
PROPERTIES
  LimitedGoAnswered
CHECK_DEADLOCK FALSE
