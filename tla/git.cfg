CONSTANTS
  alice = alice
  bob = bob
  carol = carol
  Plain = plain
  Absent = absent
  Callers = {alice, bob, carol}
  Kind <- ClonePushPull
  Initially = absent
  Faults = {"nonzero", "lost", "closed", "cancel"}
SPECIFICATION FairSpec
INVARIANTS
  IInv
PROPERTIES
  OpUsesItsCredentials
  RestoreFollows
CHECK_DEADLOCK FALSE
