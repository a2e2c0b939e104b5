\* Two honest peers on different branches, of which one overtakes the other.
CONSTANTS
  Block <- SplitBlock
  Genesis = "0"
  Parent <- SplitParent
  Height <- SplitHeight
  Anc <- SplitAnc
  Checkpoint = {"2"}
  StartCheckpoint = "2"
  Interval = 2
  ReferenceHeight = 2
  BadTarget = {}
  Early = {"0", "1", "2", "3", "4"}
  Aged = {"0", "1", "2", "3"}
  Tx = {"t1", "t2"}
  TxOf <- SplitTxOf
  p1 = p1
  p2 = p2
  Peer = {p1, p2}
  LastblockClaims = {0, 1, 2, 3, 4, 5, 6}
  None = None
  MaxRescans = 0
  InitialTip <- SplitTip
  Reachable <- SplitReachable
  Eve = {"4"}
  LagTolerance = 1
  LocatorDense = 2
  MaxInv = 2
  MaxHeaders = 2
  MaxDrops = 1
SPECIFICATION FairSyncSpec
INVARIANTS
  SyncTypeOK
  HonestNotBlamed
  MainChainConfirmed
PROPERTIES
  CatchesUpOrStops
CHECK_DEADLOCK FALSE
