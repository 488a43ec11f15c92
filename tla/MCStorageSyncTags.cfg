SPECIFICATION ReplicationSpec
CONSTANTS
  Rows <- MCRows
  Kind <- MCKind
  Refs <- MCRefs
  Spender <- MCSpender
  Worlds <- TagWorld
  MaxItems = 5
  Sides = {"sync"}
  store1 = store1
  store2 = store2
  store3 = store3
  Stores = {store1, store2, store3}
  NoStore = NoStore
  SignedUp <- TwoStores
  MaxTime = 3
  MaxFaults = 0
INVARIANT ReturnedMeansReplicated
CHECK_DEADLOCK FALSE
