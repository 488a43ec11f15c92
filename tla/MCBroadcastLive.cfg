CONSTANTS
  t1 = t1
  c1 = c1
  c2 = c2
  Txs = {t1}
  Calls = {c1, c2}
  MaxAttempts = 2
  MaxRebroadcasts = 1
  ReadCommitted = TRUE
  Duty <- ClientAndMonitor
  Serialized = FALSE
  MayStop = TRUE
SPECIFICATION FairSpec
PROPERTY
  EveryActionSettles
CHECK_DEADLOCK FALSE
