CONSTANTS
  a = a
  b = b
  c = c
  Actors = {a, b, c}
  Kinds = {"control"}
  MaxSends <- Listener
  MaxDups = 1
SPECIFICATION FairSpec
INVARIANTS
  CausalDelivery
  DrainComplete
  CaughtUp
PROPERTIES
  CausalOrderSpec
  EventuallyDelivered
CHECK_DEADLOCK FALSE
