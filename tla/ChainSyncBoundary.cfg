\* A download interrupted after the last header.
CONSTANTS
  Block <- ShortBlock
  Genesis = "0"
  Parent <- ShortParent
  Height <- ShortHeight
  Anc <- ShortAnc
  Checkpoint = {"2"}
  StartCheckpoint = "2"
  Interval = 2
  ReferenceHeight = 2
  BadTarget = {}
  Early = {"0", "1", "2", "3"}
  Aged = {"0", "1", "2", "3"}
  Tx = {"t1"}
  TxOf <- ShortTxOf
  p1 = p1
  p2 = p2
  Peer = {p1, p2}
  LastblockClaims = {0, 1, 2, 3, 4, 5, 6}
  None = None
  MaxRescans = 0
  InitialTip <- ShortTip
  Reachable <- ShortReachable
  Eve = {}
  LagTolerance = 1
  LocatorDense = 2
  MaxInv = 2
  MaxHeaders = 2
  MaxDrops = 0
SPECIFICATION FairSyncSpec
PROPERTIES
  CatchesUp
CHECK_DEADLOCK FALSE
