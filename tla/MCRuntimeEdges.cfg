SPECIFICATION Spec
CONSTANTS
  m = m
  w1 = w1
  w2 = w2
  Main = m
  Workers = {w1, w2}
  NoThread = NoThread
  NoObject = NoObject
  Setups <- MCSetups
  PageSize = 4
  MaxEdges = 2
  MaxActive = 3
  Scopes = {"full", "application"}
INVARIANT
  LimitsAreRefusals
