CONSTANTS
  r1 = r1
  r2 = r2
  Servers = {r1, r2}
  N = 2
  MaxFaults = 2
  MaxSignals = 1
SPECIFICATION FairSpec
INVARIANTS
  TypeOK
  ReadyProvisioned
  GracefulExit
PROPERTIES
  TuningKept
  EventuallyReady
CHECK_DEADLOCK FALSE
