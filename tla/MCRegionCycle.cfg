CONSTANTS
  Initial = Initial
  NoExecution = NoExecution
  Slices <- RegionSlices
  MaxEvents = 8
  MaxThreads = 4
  MaxExecutions = 12
SPECIFICATION Spec
INVARIANT CounterexampleIsForbidden
