CONSTANTS
  Programs <- BoundPrograms
  Cases <- RepeatedHelper
  MaxDepth = 1
  Workers = {1, 2}
SPECIFICATION RouteSpec
INVARIANT SafeMeansNoRace
CHECK_DEADLOCK FALSE
