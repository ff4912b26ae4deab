CONSTANTS
  Flows <- MCFlows
  Memberships <- MCMemberships
  AddrBits = 2
  MaxPort = 65535
  Inbound <- MCInbound
  Outbound <- MCOutbound
  Timeout <- MCTimeout
  Interval = 3
SPECIFICATION Spec
PROPERTY ActiveFlowKept
