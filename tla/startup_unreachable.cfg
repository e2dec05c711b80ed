CONSTANTS
  r1 = r1
  r2 = r2
  Servers = {r1}
  N = 2
  MaxFaults = 1
  MaxSignals = 0
SPECIFICATION Spec
INVARIANT ReadyMeansReachable
CHECK_DEADLOCK FALSE
