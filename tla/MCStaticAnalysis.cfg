CONSTANTS
  Programs <- BoundPrograms
  Cases <- MCCases
  MaxDepth = 4
  Workers = {1, 2}
SPECIFICATION RouteSpec
INVARIANTS
  PlainSafeMeansNoRace
  SequentialRanAlone
  DefiniteLocksHeld
  OrderCoversExecution
  BucketsLoseNoPair
  OrderingIsCollected
CHECK_DEADLOCK FALSE
