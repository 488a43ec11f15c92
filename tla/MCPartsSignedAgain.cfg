CONSTANTS
  Parts = {"wallet"}
  Owners = {o1, o2}
  MaxQueues = 2
  MaxEvents = 2
  Instances = {i1, i2}
  Nobody = Nobody
  TTL = 4
  Skew = 1
  MaxHold = 2
  MaxCrashes = 1
  MaxStatuses = 4
  WithoutId = {2}
  Malformed = {3}
  QueueSize = 2
  BatchMax = 1
  MaxStops = 2
  Clients = {c1, c2}
  Primary = "primary"
  Failovers <- TwoFailovers
  FailureThreshold = 2
  ProbeInterval = 2
  MaxOutages = 1
  MaxBroadcasts = 4
  Refs = {r1, r2}
  Apps = {a1, a2}
  NoRef = NoRef
  MaxCalls = 4
  MaxWalletRestarts = 1
  Runners = {"run", "once"}
  Loop = "run"
  Targets = {4, 6}
  LowWaterPercent = 50
  HighWaterPercent = 100
  FanoutOutputsPerTx = 2
  FanoutMaxTxsPerRound = 3
  StreamLeafCap = 1
  Deposit = 5
  MaxSpends = 3
  MaxLost = 1
  Coins = {1, 2, 3, 4}
  Inventories <- FourRows
  Requests <- ManyRequests
  SatsPerKB = 1
  KB = 2
  RoundedUp = {8, 14}
  InputSize = 4
  OutputSize = 1
  MinSpendSize = 6
  BatchSize = 2
  PageSize = 1
  MaxChurn = 1
SPECIFICATION PartsSpec
PROPERTY HandedOverStays
CHECK_DEADLOCK FALSE
