CONSTANTS
  received = received
  next = next
  spender = spender
  stranger = stranger
  Length = 3
  FirstHeight = 3
  Tx <- Transactions
  TxIn <- FirstBlock
  Pays <- UsingAddresses
  Spends <- Spending
  FalsePositives <- Strangers
  Gap = 1
  MaxInv = 2
  MaxHashes = 10
  FilterBlocks = 3
  None = None
  MaxDrops = 0
SPECIFICATION Spec
INVARIANTS
  EveryBlockRequestedAgain
CHECK_DEADLOCK FALSE
