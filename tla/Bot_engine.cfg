SPECIFICATION FairSpec
CONSTANTS
  Tids = {t1, t2}
  NoTid = NoTid
  Positions = {p1, p2}
  NoPosition = NoPosition
  Conditions <- MCConditions
  MaxDepth = 3
  MaxNodes = 3
  MaxPonderHits = 1
  GuiLingers = FALSE
  ThreadsRunOut = FALSE
INVARIANTS
  WorkerExclusive
  DepthLimitRespected
  NoBadJoin
  AnswerOwed
PROPERTIES
  EngineSpec
  LimitedGoAnswered
  StopAnswered
  UciReturns
CHECK_DEADLOCK FALSE
