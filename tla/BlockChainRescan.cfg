\* Two checkpoints, the header phase of the download, and a rescan.
CONSTANTS
  Block <- LineBlock
  Genesis = "0"
  Parent <- LineParent
  Height <- LineHeight
  Anc <- LineAnc
  Checkpoint = {"2", "4"}
  StartCheckpoint = "2"
  Interval = 2
  ReferenceHeight = 2
  BadTarget = {}
  Early = {"0", "1", "2", "3", "4x"}
  Aged = {"0", "1", "2", "3", "4", "5", "4x", "5x"}
  Tx = {"t1"}
  TxOf <- LineTxOf
  Peer = {p1}
  LastblockClaims = {3, 6}
  None = None
  MaxRescans = 1
SPECIFICATION Spec
INVARIANTS
  CheckpointsRespected
CHECK_DEADLOCK FALSE
