SPECIFICATION Spec
CONSTANTS
  R = R
  A = A
  B = B
  C = C
  D = D
  F = F
  G = G
  H = H
  Z = Z
  Nodes <- MCNodes
  NoNode = NoNode
  Roots <- MCRoots
  Succ <- MCSucc
  Tactical <- MCTactical
  InCheck <- MCInCheck
  Drawn <- MCDrawn
  DrawnQuiet <- MCDrawnQuiet
  Static <- MCStatic
  Slots <- MCSlots
  Index <- MCIndex
  NoEntry = NoEntry
  Byte = 256
  Mate <- MCMate
  MaxScore = 20
  RootScores <- MCRootScores
  MaxIter = 3
  MaxPly = 4
  MaxCalls = 2
  Lo <- MCLo
  Hi <- MCHi
INVARIANTS
  TypeOK
  Balanced
  WindowsOpen
  ReturnSound
  TableSound
CHECK_DEADLOCK FALSE
