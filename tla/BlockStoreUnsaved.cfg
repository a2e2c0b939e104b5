\* The context has no changes yet when the download ends.
CONSTANTS
  Block <- ShortBlock
  Genesis = "0"
  Parent <- ShortParent
  Height <- ShortHeight
  Anc <- ShortAnc
  Checkpoint = {"2"}
  StartCheckpoint = "2"
  Interval = 2
  ReferenceHeight = 2
  BadTarget = {}
  Early = {"0", "1", "2"}
  Aged = {"0", "1", "2"}
  Tx = {"t1"}
  TxOf <- ShortTxOf
  Peer = {p1}
  LastblockClaims = {5}
  None = None
  MaxRescans = 0
  MaxSaves = 0
  MaxRestarts = 0
  MaxJobs = 3
SPECIFICATION StoreSpec
INVARIANTS
  WritesAreSaved
CHECK_DEADLOCK FALSE
