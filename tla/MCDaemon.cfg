CONSTANTS
  Nodes = {"node"}
  Me = "node"
  VpnIPs <- MCVpnIPs
  Durations = {0}
  MaxKeys = 3
  MaxTime = 1
  AddrBits = 2
  MaxPort = 65535
  Configs <- MCConfigs
  Second = 7
  DurationBits = 10
  MinMTU = 68
  MaxMTU = 65535
  MaxFaults = 1
SPECIFICATION Spec
INVARIANTS
  PKIConsistent
  NothingLeaks
  DeviceConfigured
  RulesSayTheirText
CHECK_DEADLOCK FALSE
PROPERTIES
  ComesUp
  Stops
