------------------------------ MODULE Firewall ------------------------------
(***************************************************************************)
(* The packet filter and its connection table (src/firewall/) as           *)
(* src/interface.go calls it: AllowOutbound for packets read from TUN,     *)
(* AllowInbound for packets decrypted from UDP, Expire from RunExpiry.     *)
(*                                                                         *)
(* Time is counted in units of 10 seconds and the time of an entry is kept *)
(* as its age.  IsEstablished and the Track that may follow are two        *)
(* critical sections, but what the other goroutines can do in between,     *)
(* tracking the same key or expiring others, leaves the same table, so a   *)
(* call is one step.                                                       *)
(***************************************************************************)
EXTENDS Rules

CONSTANTS
  Flows,        \* flows: [remote, localPort, remotePort, proto]
  Memberships,  \* the sets of groups that certificates have
  Inbound,      \* inbound rules, as ParseRule returns them
  Outbound,     \* outbound rules
  Timeout,      \* units until an entry of a protocol is stale: tcp 30, udp 3, other 1
  Interval      \* units between two runs of Expire: 3

Remotes == {f.remote : f \in Flows}
Ports == {f.localPort : f \in Flows} \cup {f.remotePort : f \in Flows}
Protos == {f.proto : f \in Flows}

\* connKey: the firewall only fills in the remote, the packet's destination
\* port and the protocol, for both directions.
Keys == [DstIP : Remotes, DstPort : Ports, Proto : Protos]

ASSUME TimeoutAssumption == Timeout \in [Protos -> Nat \ {0}] /\ Interval \in Nat \ {0}

Untracked == -1
Never == -1

VARIABLES
  seen,      \* conntrack.seen: the age of each entry, Untracked without one
  phase,     \* units since Expire last ran
  verdict,   \* the last packet: its direction, its flow and the answer
  made       \* history: units since Track was last called for this key, or Never

fwVars == <<seen, phase, verdict, made>>

NoVerdict == [dir |-> "none", allowed |-> FALSE]

FirewallInit ==
  /\ seen = [k \in Keys |-> Untracked]
  /\ phase = 0
  /\ verdict = NoVerdict
  /\ made = [k \in Keys |-> Never]

\* The reverse of a key has the zero address as DstIP; nothing tracks one.
IsEstablished(k) == seen[k] # Untracked

Track(k) == [seen EXCEPT ![k] = 0]

\* connKey of a packet of flow f: its destination port is ours on the way in.
Key(dir, f) ==
  [DstIP |-> f.remote, DstPort |-> IF dir = "in" THEN f.localPort ELSE f.remotePort,
   Proto |-> f.proto]

ByRule(dir, f, groups) ==
  \E r \in IF dir = "in" THEN Inbound ELSE Outbound :
    matches(r, f.remote, groups, Key(dir, f).DstPort, f.proto)

Allowed(dir, f, groups) == IsEstablished(Key(dir, f)) \/ ByRule(dir, f, groups)

\* AllowInbound and AllowOutbound, which differ in the rules and in whose port
\* the packet is addressed to.  groups come from the session's certificate;
\* there are none for an outbound packet without a session.
Allow(dir, f, groups) ==
  LET k == Key(dir, f)
      track == ~ IsEstablished(k) /\ ByRule(dir, f, groups)
  IN  /\ seen' = IF track THEN Track(k) ELSE seen
      /\ verdict' = [dir |-> dir, flow |-> f, allowed |-> Allowed(dir, f, groups)]
      /\ made' = IF track THEN [made EXCEPT ![k] = 0] ELSE made
      /\ UNCHANGED phase

\* Mutation: the switch on the protocol always picks the longest timeout.
StaleByLongest(k, age) == \A p \in Protos : age >= Timeout[p]

\* Mutation: the switch on the protocol always picks the shortest timeout.
StaleByShortest(k, age) == \E p \in Protos : age >= Timeout[p]

Stale(k, age) == age >= Timeout[k.Proto]

Older(age) == IF age = Untracked THEN Untracked ELSE age + 1

\* One unit passes; every Interval units Expire removes the stale entries.
\* The history stops counting where no property looks at it any more.
FirewallTick ==
  LET run == phase + 1 = Interval
      cap(k) == Timeout[k.Proto] + Interval
      later(k) == IF made[k] = Never \/ made[k] >= cap(k) THEN made[k] ELSE made[k] + 1
  IN  /\ phase' = IF run THEN 0 ELSE phase + 1
      /\ seen' = [k \in Keys |->
                    IF run /\ seen[k] # Untracked /\ Stale(k, seen[k] + 1) THEN Untracked
                    ELSE Older(seen[k])]
      /\ made' = [k \in Keys |-> later(k)]
      /\ verdict' = NoVerdict

\* No packet is put to the firewall.
NoPacket == verdict' = NoVerdict /\ UNCHANGED <<seen, phase, made>>

FirewallNext ==
  \/ \E f \in Flows, dir \in {"in", "out"}, groups \in Memberships \cup {{}} : Allow(dir, f, groups)
  \/ FirewallTick
  \/ NoPacket

FirewallSpec == FirewallInit /\ [][FirewallNext]_fwVars

-----------------------------------------------------------------------------
VerdictKey == Key(verdict.dir, verdict.flow)

\* Nothing is let through unless a rule admitted the same remote, port and
\* protocol less than its timeout plus one expiry interval ago: IsEstablished
\* does not look at the age of an entry, so this rests on Expire alone.
AllowedByRecentRule ==
  verdict.allowed =>
    made[VerdictKey] # Never /\ made[VerdictKey] < Timeout[verdict.flow.proto] + Interval

\* A packet is refused only if no rule admitted its remote, port and protocol,
\* in either direction, within the last timeout: no run of Expire, for whatever
\* other entries, takes an entry away early.
RefusedOnlyWhenStale ==
  verdict.dir # "none" /\ ~ verdict.allowed =>
    made[VerdictKey] = Never \/ made[VerdictKey] >= Timeout[verdict.flow.proto]

\* "Once a flow is allowed, return traffic is automatically permitted"
\* (src/README.md:233-234): no packet of a flow is refused on its way back
\* while the entry its outbound packets made is there.
ReturnTrafficPermitted ==
  verdict.dir = "in" /\ ~ verdict.allowed =>
    seen[Key("out", verdict.flow)] = Untracked

=============================================================================
