SPECIFICATION ReviewSpec
CONSTANTS
  Initial = Initial
  NoExecution = NoExecution
  Windows <- ReviewWindows
INVARIANTS
  NearestIsEnough
  EnginesAgree
  TargetIsWeaker
  SourceAcceptedIsTso
  TargetAllowsRvwmo
  RunIsAccepted
