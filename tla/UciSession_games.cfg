SPECIFICATION FairSpec
CONSTANTS
  p0 = p0
  p1 = p1
  p2 = p2
  p3 = p3
  p4 = p4
  Programs <- MCPrograms
  Positions <- MCPositions
  NoPosition = NoPosition
  Start = p0
  Succ <- MCSucc
  Matches = 4
  Threads = 5
  MaxCrashes = 2
INVARIANTS
  NoStrayAnswer
  WaitsForALine
PROPERTIES
  LegalPlay
  BotsWellUsed
  MatchEnds
  BotsExit
CHECK_DEADLOCK FALSE
