----------------------------- MODULE MCInterface -----------------------------
(***************************************************************************)
(* A peer that is up, whose first certificate has the group "servers" and  *)
(* whose second has none, and one that is down, whose certificate may be   *)
(* in peers_dir and whose address packets from the first peer may carry.   *)
(* Outbound UDP to port 53 needs the group, ICMP needs none; inbound UDP   *)
(* needs it too.  The timeouts are shorter than the code's and keep their  *)
(* order: the UDP one is longer than the other.                            *)
(***************************************************************************)
EXTENDS Interface

MCFlows ==
  {[remote |-> 2, localPort |-> 53, remotePort |-> 53, proto |-> "udp"],
   [remote |-> 1, localPort |-> 0, remotePort |-> 0, proto |-> "icmp"]}

Rule(proto, port, group) ==
  ParseRule([Proto |-> Word(proto), Port |-> port, Group |-> Word(group), CIDR |-> Word("any")])

MCOutbound == {Rule("udp", Number(53), "servers"), Rule("icmp", Word("any"), "any")}
MCInbound == {Rule("udp", Word("any"), "servers")}
MCTimeout == [p \in {"udp", "icmp"} |-> IF p = "udp" THEN 3 ELSE 1]
MCGroupsOf == <<{Word("servers")}, {}>>
MCMemberships == {{Word("servers")}, {}}

=============================================================================
