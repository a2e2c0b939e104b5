CONSTANTS
  p1 = p1
  p2 = p2
  p3 = p3
  Peer <- Peers
  LastBlocks <- Heights
  MaxConnections = 2
  MaxFailures = 2
  MaxBreaks = 1
  None = None
SPECIFICATION Spec
INVARIANTS
  ConnectionsTypeOK
  DownloadPeerWatched
  StopsOnlyWhenNotified
SYMMETRY Symmetry
CHECK_DEADLOCK FALSE
