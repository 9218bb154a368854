SPECIFICATION Spec
CONSTANTS
  Ids <- MCIds
  Targets <- MCTargets
  Callers <- MCCallers
  Limit = 1
  MaxCalls = 2
  MaxBeside = 1
INVARIANTS
  AnswersAreTrue
  OnlyOneWins
  IInv
  ListingIsExact
PROPERTY ListingEnds
CHECK_DEADLOCK FALSE
