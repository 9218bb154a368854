CONSTANTS
  Capacity = 1
  Batch = 2
  MaxLog = 4
SPECIFICATION FairSpec
INVARIANTS
  IInv
  VerdictIsFinal
PROPERTIES
  WaitReturnsAtEnd
  DropEndsTask
CHECK_DEADLOCK FALSE
