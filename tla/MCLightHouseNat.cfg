CONSTANTS
  lh = lh
  a = a
  b = b
  c = c
  Node <- MCNode
  Addr <- MCAddr
  Owner <- MCOwner
  Private <- MCPrivate
  Source <- MCSource
  Local <- MCLocal
  Static <- StaticBothWays
  Lighthouses <- MCLighthouses
  Hosts <- MCHosts
  PeersDir <- MCPeersDir
  Admitted <- MCAdmitted
  MaxRestarts = 1
SPECIFICATION Spec
INVARIANT StaysIdentified
