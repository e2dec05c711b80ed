CONSTANTS
  t1 = t1
  t2 = t2
  n = n
  r = r
  tok = tok
  c = c
  good = good
  other = other
  None = None
  Garbled = Garbled
  Tasks = {t1}
  Ids = {"m1"}
  Nodes = {n}
  Refs = {r}
  Tokens = {tok}
  Checkpoints = {c}
  Payloads = {good, other}
  Cursors = {0}
  Catalogue <- OnlyBase
  Limit = 2
  MaxTries <- Once
  MaxChurn = 1
  MaxEvents = 2
SPECIFICATION Spec
INVARIANT FailuresTyped
CHECK_DEADLOCK FALSE
