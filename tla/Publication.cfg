CONSTANTS
  sent = sent
  p1 = p1
  p2 = p2
  Tx <- OneTx
  Posted <- OneTx
  Peer <- Peers
  None = None
  MaxQueue = 2
SPECIFICATION FairSpec
INVARIANTS
  PublicationTypeOK
  CompletionHasTimer
  OnlyPeersThatAreThere
PROPERTIES
  KeptWhileHeld
  PromiseKept
  PromiseAnswered
CHECK_DEADLOCK FALSE
