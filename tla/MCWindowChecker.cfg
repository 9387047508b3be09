SPECIFICATION SweepSpec
CONSTANTS
  Initial = Initial
  NoExecution = NoExecution
  Traces <- SweptTraces
  Windows <- SweptWindows
  MaxExecutions = 4
  MaxMemory = 4
  MaxGroup = 2
  MaxWindowEvents = 6
INVARIANTS
  SafeLeavesNothing
  SafeMeansInclusion
  CounterexampleIsForbidden
  CounterexampleIsPossible
  SafeWindowsSafeTrace
PROPERTIES
  SweepEnds
