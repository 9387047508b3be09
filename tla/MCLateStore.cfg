SPECIFICATION SweepSpec
CONSTANTS
  Initial = Initial
  NoExecution = NoExecution
  Traces <- LateStoreTraces
  Windows <- LateStoreWindows
  MaxExecutions = 1
  MaxMemory = 12
  MaxGroup = 6
  MaxWindowEvents = 64
INVARIANTS
  SafeMeansInclusion
