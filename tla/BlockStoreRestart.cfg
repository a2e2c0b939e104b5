\* Forks and a transition between saves; the app is killed at any time.
CONSTANTS
  Block <- SplitBlock
  Genesis = "0"
  Parent <- SplitParent
  Height <- SplitHeight
  Anc <- SplitAnc
  Checkpoint = {"2"}
  StartCheckpoint = "2"
  Interval = 2
  ReferenceHeight = 2
  BadTarget = {}
  Early = {"0", "1", "2"}
  Aged = {"0", "1", "2"}
  Tx = {"t1", "t2"}
  TxOf <- SplitTxOf
  Peer = {p1}
  LastblockClaims = {5, 6}
  None = None
  MaxRescans = 0
  MaxSaves = 0
  MaxRestarts = 1
  MaxJobs = 3
SPECIFICATION StoreSpec
INVARIANTS
  StoreTypeOK
  StoredChainUsable
  StoredChainConfirmed
  MainChainConfirmed
CHECK_DEADLOCK FALSE
