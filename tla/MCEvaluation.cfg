SPECIFICATION EvaluationSpec
CONSTANTS
  x264 = x264
  dedup = dedup
  Ids = {x264, dedup}
  Suites <- MCSuites
  Levels = 2
  MaxCommands = 2
INVARIANTS
  CompleteIsWritten
  EveryBenchmarkHasItsRow
PROPERTY
  CommandEnds
