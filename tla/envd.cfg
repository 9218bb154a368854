CONSTANTS
  Callers = {c1, c2}
  Paths <- MCPaths
  Data = {"x", "y"}
  Vols = {1, 2}
  Pids = {1, 2}
  MaxIn = 2
  Names = {"n1"}
  Builds = {"b1", "b2"}
  Tags = {"v1", "v2"}
  MaxCalls <- MCMaxCalls
  Starts <- MCStarts
  Given <- MCGiven
  Asks <- MCAsks
  Refuses <- MCRefuses
  Serve <- MCServe
  Result <- MCResult
  Learns <- MCLearns
  Refusable <- MCRefusable
  Promises <- MCPromises
  Drift <- MCDrift
  Watched <- MCWatched
  Kinds = {"create", "write", "remove", "odd"}
  Room = 1
  MaxLog = 2
  MaxQuiet = 1
SPECIFICATION Spec
INVARIANTS
  EventsInOrder
  NoneComesLast
PROPERTIES
  CallsAreAtomic
  WatchEnds
  ChangesAreSeen
  StopEndsTask
CHECK_DEADLOCK FALSE
