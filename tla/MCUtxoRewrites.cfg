CONSTANTS
  t1 = t1
  t2 = t2
  Txs = {g1, t1}
  Received = {g1}
  Custom = {}
  MaxAttempts = 1
  MaxRebroadcasts = 0
  ReadCommitted = TRUE
  MaxFundingAttempts = 2
  MaxNamed = 1
  Features = {"merge", "named", "relinquish", "unfail"}
SYMMETRY Symmetry
SPECIFICATION Spec
INVARIANT ReservationsHaveOwners
CHECK_DEADLOCK FALSE
