CONSTANTS
  a = a
  b = b
  Node <- TwoPeers
  Nobody = Nobody
  MaxIndex = 2
  maxPendingPackets = 2
  maxHandshakeAttempts = 3
  retryBase = 1
  retryMax = 5
  Lifetime = 10
  MaxQueued = 3
  MaxStarts = 3
SPECIFICATION Spec
INVARIANTS
  IndexMapSound
  QueueIsNewest
  LifetimeBounded
PROPERTIES
  GivesUpAfterAllAttempts
  HandshakeEnds
CHECK_DEADLOCK FALSE
