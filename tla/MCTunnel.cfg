CONSTANTS
  a = a
  b = b
  Node <- MCNode
  Nobody = Nobody
  PeerCerts <- MCPeerCerts
  maxPendingPackets = 2
  maxHandshakeAttempts = 2
  WindowSize = 2
  Duplicates = TRUE
  MaxIndex = 2
  MaxPackets = 3
  MaxRestarts = 1
SPECIFICATION Spec
SYMMETRY MCSymmetry
INVARIANTS
  TypeOK
  NonceUnique
  SentAtMostOnce
  WrittenAtMostOnce
  MapsAgree
  QueueInOrder
  InitiatorAnswered
CHECK_DEADLOCK FALSE
