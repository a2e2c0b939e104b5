CONSTANTS
  received = received
  next = next
  spender = spender
  stranger = stranger
  Length = 5
  FirstHeight = 3
  Tx <- Transactions
  TxIn <- LaterBlocks
  Pays <- UsingAddresses
  Spends <- Spending
  FalsePositives <- Strangers
  Gap = 1
  MaxInv = 1
  MaxHashes = 4
  FilterBlocks = 3
  None = None
  MaxDrops = 1
SPECIFICATION FairSpec
INVARIANTS
  MessagesTypeOK
  NothingMissed
  TransactionsBeforeBlock
  InOrder
  HonestWithinConnection
PROPERTIES
  Downloaded
CHECK_DEADLOCK FALSE
