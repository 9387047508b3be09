\* Kept beside the runs: SafeMeansNoRace is violated in each of the cases
\* LateCreation, CallByPointer, CreationBack, LostCall, FixedAndIndexed,
\* FixedAndBlind and UnknownWidth of MCStaticPrograms.
CONSTANTS
  Programs <- BoundPrograms
  Cases <- LateCreation
  MaxDepth = 1
  Workers = {1, 2}
SPECIFICATION RouteSpec
INVARIANT SafeMeansNoRace
CHECK_DEADLOCK FALSE
