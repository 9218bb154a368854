SPECIFICATION Spec
CONSTANTS
  Builds <- MCBuilds
  Texts <- MCTexts
  Sources <- MCSources
  Items <- MCItems
  Dockerfiles <- MCDockerfiles
  MaxVersion = 2
  MaxEdits = 1
  Effort = 3
INVARIANTS
  Inv
  CacheIsHonest
  ForcedAreUploaded
  BodyFollowsChain
PROPERTY SetupEnds
CHECK_DEADLOCK FALSE
