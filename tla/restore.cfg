CONSTANTS
  t1 = t1
  t2 = t2
  n = n
  r = r
  tok = tok
  c = c
  good = good
  other = other
  None = None
  Garbled = Garbled
  Tasks = {t1, t2}
  Ids = {"m1"}
  Nodes = {n}
  Refs = {r}
  Tokens = {tok}
  Checkpoints = {c}
  Payloads = {good, other}
  Cursors = {0}
  Catalogue <- Races
  Limit = 2
  MaxTries <- Retry
  MaxChurn = 1
  MaxEvents = 1
SPECIFICATION FairSpec
INVARIANTS
  TypeOK
  PromotionJustified
  OneClaimPerToken
  RestoredStateMatches
  TypedFailureHasNoEffect
PROPERTIES
  TokenLifecycle
  RestoreTerminates
CHECK_DEADLOCK FALSE
