CONSTANTS
  t1 = t1
  t2 = t2
  Txs = {g1, t1, t2}
  Received = {g1}
  Custom = {}
  MaxAttempts = 1
  MaxRebroadcasts = 0
  ReadCommitted = FALSE
  MaxFundingAttempts = 2
  MaxNamed = 0
  Features = {"events", "timeouts", "internalize"}
SYMMETRY Symmetry
SPECIFICATION Spec
PROPERTY RefinesLedger
PROPERTY SpentUntilAborted
CHECK_DEADLOCK FALSE
