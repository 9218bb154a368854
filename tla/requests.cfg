CONSTANTS
  c1 = c1
  c2 = c2
  c3 = c3
  c4 = c4
  Callers <- MCCallers
  Caps = {0, 1, 2}
SPECIFICATION FairSpec
INVARIANTS
  PermitsAreConserved
  CapHolds
  NobodyWaitsInVain
PROPERTIES
  FirstComeFirstServed
  EveryCallIsServed
