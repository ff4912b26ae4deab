CONSTANTS
  a = a
  b = b
  Node <- MCNode
  Nobody = Nobody
  PeerCerts <- MCPeerCerts
  maxPendingPackets = 1
  maxHandshakeAttempts = 2
  WindowSize = 2
  Duplicates = FALSE
  MaxIndex = 2
  MaxPackets = 2
  MaxRestarts = 0
SPECIFICATION Spec
SYMMETRY MCSymmetry
INVARIANTS
  BothWays
CHECK_DEADLOCK FALSE
