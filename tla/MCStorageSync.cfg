SPECIFICATION ReplicationSpec
CONSTANTS
  Rows <- MCRows
  Kind <- MCKind
  Refs <- MCRefs
  Spender <- MCSpender
  Worlds <- MCWorlds
  MaxItems = 2
  Sides = {"sync", "manager"}
  store1 = store1
  store2 = store2
  store3 = store3
  Stores = {store1, store2, store3}
  NoStore = NoStore
  SignedUp <- TwoStores
  MaxTime = 4
  MaxFaults = 1
INVARIANTS
  ReplicationTypeOK
  DoneMeansReplicated
  QuietSyncNeverRefused
  SwitchedEverywhere
  OwnRowsFollow
PROPERTIES
  NeverBackToOlder
  SyncReturns
CHECK_DEADLOCK FALSE
