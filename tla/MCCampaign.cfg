SPECIFICATION Spec
CONSTANTS
  e1 = e1
  e2 = e2
  e3 = e3
  e4 = e4
  Traces <- MCTraces
  Scopes = {"full", "application"}
  Databases = {"temporary"}
  Plans = {0, 1, 2}
  MaxObjectEvents = 4
  MaxEdges = 3
  MaxActive = 2
  MaxWindow = 2
PROPERTY
  KeepsPromise
