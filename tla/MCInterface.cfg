CONSTANTS
  VpnIP = {1, 2}
  Up = {1}
  Index = {1, 2}
  Certs = {1, 2}
  Nil = Nil
  MaxSessions = 2
  Flows <- MCFlows
  GroupsOf <- MCGroupsOf
  Memberships <- MCMemberships
  AddrBits = 2
  MaxPort = 65535
  Inbound <- MCInbound
  Outbound <- MCOutbound
  Timeout <- MCTimeout
  Interval = 2
SPECIFICATION FairSpec
INVARIANTS
  CurrentIsNewest
  AllowedByRecentRule
  RefusedOnlyWhenStale
  CacheFollowsSessions
  
PROPERTIES
  RemovedFromBoth
  Reconnects
