SPECIFICATION Spec
CONSTANTS
  Exchanges <- MCExchanges
  SquareTable <- MCSquareTable
  Leaves <- MCLeaves
  Keys <- MCKeys
  Turn <- MCTurn
  Progress <- MCProgress
  MaxPly = 9
INVARIANTS
  AttackersExact
  ExchangesBounded
  ScoresSymmetric
  RepetitionsExact
  IncrementsExact
  HashMovesExact
CHECK_DEADLOCK FALSE
