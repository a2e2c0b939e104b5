\* Forks, reorganisations and orphans, from peers that relay blocks in any order.
CONSTANTS
  Block <- ForkBlock
  Genesis = "0"
  Parent <- ForkParent
  Height <- ForkHeight
  Anc <- ForkAnc
  Checkpoint = {"2"}
  StartCheckpoint = "2"
  Interval = 2
  ReferenceHeight = 2
  BadTarget = {"6x"}
  Early = {"0", "1", "2"}
  Aged <- ForkAged
  Tx = {"t1", "t2", "t3"}
  TxOf <- ForkTxOf
  Peer = {p1}
  LastblockClaims = {6, 7}
  None = None
  MaxRescans = 0
SPECIFICATION Spec
INVARIANTS
  TypeOK
  ConfirmedOnMainChain
  AllConfirmed
  LastBlockKept
  DifficultyCheckable
  NoConnectableOrphan
CHECK_DEADLOCK FALSE
