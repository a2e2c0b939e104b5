CONSTANTS
  sent = sent
  p1 = p1
  p2 = p2
  Tx <- OneTx
  Posted = {}
  Peer <- Peers
  None = None
  MaxQueue = 2
SPECIFICATION Spec
INVARIANTS
  CanceledIsNotSent
CHECK_DEADLOCK FALSE
