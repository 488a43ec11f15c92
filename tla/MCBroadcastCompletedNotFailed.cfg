CONSTANTS
  t1 = t1
  c1 = c1
  c2 = c2
  Txs = {t1}
  Calls = {c1, c2}
  MaxAttempts = 2
  MaxRebroadcasts = 1
  ReadCommitted = FALSE
  Duty <- AllDuties
  Serialized = TRUE
  MayStop = TRUE
SYMMETRY Symmetry
SPECIFICATION Spec
INVARIANT CompletedNotFailed
CHECK_DEADLOCK FALSE
