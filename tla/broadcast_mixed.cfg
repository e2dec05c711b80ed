CONSTANTS
  a = a
  b = b
  c = c
  Actors = {a, b, c}
  Kinds = {"control", "health"}
  MaxSends <- Listener
  MaxDups = 1
SPECIFICATION Spec
INVARIANTS
  TypeOK
  AtMostOnce
  NoCausalInversion
  GapsOnlyBehindBeacons
  NothingLost
  CausalUpToBeacons
CHECK_DEADLOCK FALSE
