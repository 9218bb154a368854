CONSTANTS
  Clients = {c1}
  Branches = {"main", "HEAD-fix"}
  Files = {"f", "g"}
  Contents = {"x", "y"}
  Remotes = {"u1", "u2"}
  Values = {"n", "e", "store", "alice"}
  Default = "main"
  MaxHistory = 3
  Headlike = {"HEAD-fix"}
  MaxCalls = 2
  Starts <- MCStarts
  Asks <- MCAsks
  Drift <- MCDrift
SPECIFICATION GitSpec
INVARIANTS
  CleanMeansClean
CHECK_DEADLOCK FALSE
