\* The app also saves when it resigns active, and when a peer relays addresses; the
\* user rescans.
CONSTANTS
  Block <- RootBlock
  Genesis = "0"
  Parent <- RootParent
  Height <- RootHeight
  Anc <- RootAnc
  Checkpoint = {}
  StartCheckpoint = "0"
  Interval = 2
  ReferenceHeight = 0
  BadTarget = {"4x"}
  Early = {"0"}
  Aged <- RootBlock
  Tx = {"t1"}
  TxOf <- RootTxOf
  Peer = {p1}
  LastblockClaims = {3}
  None = None
  MaxRescans = 1
  MaxSaves = 1
  MaxRestarts = 1
  MaxJobs = 3
SPECIFICATION StoreSpec
INVARIANTS
  StoredChainUsable
CHECK_DEADLOCK FALSE
