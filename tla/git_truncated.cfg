CONSTANTS
  alice = alice
  bob = bob
  carol = carol
  Plain = plain
  Absent = absent
  Callers = {alice}
  Kind <- OnePush
  Initially = plain
  Faults = {"nonzero", "closed"}
SPECIFICATION Spec
INVARIANT CredentialsAreTransient
CHECK_DEADLOCK FALSE
