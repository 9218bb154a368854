CONSTANTS
  Chunks <- MCChunks
  Statuses <- MCStatuses
  Capacity = 2
  MaxOutput = 3
  MaxQueue = 2
SPECIFICATION FairSpec
INVARIANTS
  ResultIsGenuine
  WaitIsComplete
  IInv
PROPERTIES
  ImplementsSession
  WaitReturnsAtEnd
  DropEndsDriver
CHECK_DEADLOCK FALSE
