\* A rescan that ends on another branch.
CONSTANTS
  Block <- SplitBlock
  Genesis = "0"
  Parent <- SplitParent
  Height <- SplitHeight
  Anc <- SplitAnc
  Checkpoint = {"2"}
  StartCheckpoint = "2"
  Interval = 2
  ReferenceHeight = 2
  BadTarget = {}
  Early = {"0", "1", "2", "3", "4"}
  Aged = {"0", "1", "2", "3"}
  Tx = {"t1", "t2"}
  TxOf <- SplitTxOf
  p1 = p1
  p2 = p2
  Peer = {p1, p2}
  LastblockClaims = {0, 1, 2, 3, 4, 5, 6}
  None = None
  MaxRescans = 1
  InitialTip <- SplitTip
  Reachable <- SplitReachable
  Eve = {"4"}
  LagTolerance = 1
  LocatorDense = 2
  MaxInv = 2
  MaxHeaders = 2
  MaxDrops = 0
SPECIFICATION SyncSpec
INVARIANTS
  ConfirmedBelowTip
CHECK_DEADLOCK FALSE
