----------------------------- MODULE MCFirewall -----------------------------
(***************************************************************************)
(* One remote in the group "servers"; a UDP flow whose two ports differ,   *)
(* an ICMP flow, whose port is 0 both ways.  Outbound UDP is admitted to   *)
(* port 53 of "servers", ICMP without a group; inbound UDP is admitted     *)
(* from "ops", a group the remote is not in.  The timeouts are the code's. *)
(***************************************************************************)
EXTENDS Firewall

MCFlows ==
  {[remote |-> 1, localPort |-> 40000, remotePort |-> 53, proto |-> "udp"],
   [remote |-> 1, localPort |-> 0, remotePort |-> 0, proto |-> "icmp"]}

Rule(proto, port, group) ==
  ParseRule([Proto |-> Word(proto), Port |-> port, Group |-> Word(group), CIDR |-> Word("any")])

MCMemberships == {{Word("servers")}}
MCOutbound == {Rule("udp", Number(53), "servers"), Rule("icmp", Word("any"), "any")}
MCInbound == {Rule("udp", Word("any"), "ops")}
MCTimeout == [p \in {"udp", "icmp"} |-> IF p = "udp" THEN 3 ELSE 1]

MaxAge == 7    \* bound: no entry lives for longer

-----------------------------------------------------------------------------
VARIABLE
  passed     \* history: units since a packet of each key was last let through

Spec ==
  /\ FirewallInit /\ passed = [k \in Keys |-> Never]
  /\ [][\/ /\ FirewallTick
            /\ passed' = [k \in Keys |-> IF passed[k] \in {Never, MaxAge} THEN passed[k] ELSE passed[k] + 1]
         \/ /\ FirewallNext /\ ~ FirewallTick
            /\ passed' = IF verdict'.allowed THEN [passed EXCEPT ![VerdictKey'] = 0] ELSE passed
        ]_<<fwVars, passed>>

\* "Expire removes entries that have not been seen within their protocol
\* timeout" (src/firewall/conntrack.go:61-62): one whose packets keep passing
\* stays.
ActiveFlowKept ==
  [][\A k \in Keys : seen[k] # Untracked /\ seen'[k] = Untracked
       => passed[k] + 1 >= Timeout[k.Proto]]_<<fwVars, passed>>

=============================================================================
