------------------------------ MODULE MCDaemon ------------------------------
(***************************************************************************)
(* One node, addresses of 2 bits, durations of 10 bits with a              *)
(* second of 7 units: 60 seconds fit, 74 overflow to a negative number.    *)
(***************************************************************************)
EXTENDS Daemon

IP(addr, bits, is4) == [addr |-> addr, bits |-> bits, is4 |-> is4]

MCVpnIPs == [node |-> {IP(1, 0, TRUE), IP(2, 1, TRUE), IP(1, 2, TRUE), IP(3, 2, FALSE)}]

Any == Word("any")
Rule(proto, port, group, cidr) == [Proto |-> proto, Port |-> port, Group |-> group, CIDR |-> cidr]

Plain ==
  [paths |-> TRUE, port |-> 4242, mtu |-> 0, interval |-> 0, hosts |-> TRUE, peers |-> TRUE,
   rules |-> [in |-> {Rule(Word("udp"), Number(53), Word("ops"), Prefix(3, 1))},
              out |-> {Rule(Any, Any, Any, Any)}]]

MCConfigs ==
  {Plain,
   [Plain EXCEPT !.port = 65536],
   [Plain EXCEPT !.interval = 74, !.mtu = 68, !.peers = FALSE,
                 !.rules["in"] = {Rule(Word("tcp"), Number(65535), Word(""), Any)},
                 !.rules["out"] = {Rule(Any, [Any EXCEPT !.upper = TRUE, !.pad = TRUE],
                                        [Any EXCEPT !.upper = TRUE], Prefix(2, 2))}],
   [Plain EXCEPT !.rules["out"] = {Rule(Any, Number(65536), Any, Any)}],
   [Plain EXCEPT !.interval = -1, !.mtu = -1],
   [Plain EXCEPT !.hosts = FALSE, !.rules["in"] = {}]}

=============================================================================
