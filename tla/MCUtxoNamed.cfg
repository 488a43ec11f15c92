CONSTANTS
  t1 = t1
  t2 = t2
  Txs = {g1, k1, t1, t2}
  Received = {g1, k1}
  Custom = {k1}
  MaxAttempts = 1
  MaxRebroadcasts = 0
  ReadCommitted = FALSE
  MaxFundingAttempts = 2
  MaxNamed = 1
  Features = {"named"}
SYMMETRY Symmetry
SPECIFICATION Spec
INVARIANT TypeOK
INVARIANT NoStaleRows
INVARIANT UnspentChangeIsIndexed
INVARIANT NoDoubleSpend
CHECK_DEADLOCK FALSE
