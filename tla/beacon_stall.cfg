CONSTANTS
  a = a
  b = b
  c = c
  Actors = {a, b}
  Kinds = {"control", "health"}
  MaxSends <- Burst
  MaxDups = 0
SPECIFICATION Spec
INVARIANT DrainComplete
CHECK_DEADLOCK FALSE
