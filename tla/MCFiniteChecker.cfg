CONSTANTS
  Initial = Initial
  NoExecution = NoExecution
  Slices <- CheckedSlices
  MaxEvents = 8
  MaxThreads = 4
  MaxExecutions = 6
SPECIFICATION Spec
INVARIANTS
  PlainIsForbidden
  CounterexampleIsPossible
  RoutesAgree
  ExhaustedMeansContained
  RiskIsReal
