----------------------------- MODULE LightHouse -----------------------------
(***************************************************************************)
(* Peer discovery (src/lighthouse.go) between nodes, with the sender       *)
(* lookup of handleLightHouse (src/interface.go).  A LightHouse packet     *)
(* carries index 0, so its sender is known only by the address it came     *)
(* from; a session whose index happens to be 0 is left out.                *)
(*                                                                         *)
(* The UDP reader is the only goroutine that writes addrStore, so a        *)
(* handler is one step.  No code in src sends WhoAmI or a punch            *)
(* notification, so no node ever gets one or a WhoAmIReply: their          *)
(* handlers are left out, and myAddrs stays what localUDPAddrs found.      *)
(*                                                                         *)
(* Tunnel and Interface model handshakes and the firewall; here a session  *)
(* may appear at any time.  CloseTunnel is sent nowhere in src, so that a  *)
(* session lasts until the daemon restarts.  While there is none, the only *)
(* certificates in the cache are those of peers_dir, and no packet of the  *)
(* peer can have been tracked as a connection.                             *)
(***************************************************************************)
EXTENDS Integers, Sequences, Functions

CONSTANTS
  Node,          \* the nodes, named by their VPN IPs
  Addr,          \* UDP addresses
  Owner,         \* external: the node that has an address
  Private,       \* external: the addresses behind a NAT, which others cannot reach
  Source,        \* external: the address others see on a node's datagrams
  Local,         \* localUDPAddrs of each node
  Static,        \* static_host_map of each node
  Lighthouses,   \* the nodes with am_lighthouse
  Hosts,         \* lighthouse.hosts of each node
  PeersDir,      \* the peers whose certificates each node reads from peers_dir
  Admitted,      \* <<n, p>>: outbound rules of n admit some packets to p without a group
  MaxRestarts    \* bound: restarts of all nodes

AddrLists == Seq(Addr)

ASSUME AddressAssumption ==
  /\ Owner \in [Addr -> Node] /\ Private \subseteq Addr
  /\ Source \in [Node -> Addr] /\ Local \in [Node -> AddrLists]
ASSUME ConfigAssumption ==
  /\ Static \in [Node -> [Node -> AddrLists]]
  /\ Hosts \in [Node -> Seq(Node)]
  /\ PeersDir \in [Node -> SUBSET Node] /\ Admitted \subseteq Node \X Node
  /\ Lighthouses \subseteq Node /\ MaxRestarts \in Nat

VARIABLES
  addrStore,   \* per node: VPN IP -> known addresses; no entry is << >>
  hostmap,     \* per node: the peers it has a session with, of those in PeersDir
  net,         \* the datagrams on their way
  restarts     \* restarts so far

vars == <<addrStore, hostmap, net, restarts>>

\* buildLightHouse.
Init ==
  /\ addrStore = Static
  /\ hostmap = [n \in Node |-> {}]
  /\ net = {}
  /\ restarts = 0

\* GetAddrs returns nothing for a peer without an entry and for an empty one.
GetAddrs(n, p) == addrStore[n][p]

\* send: one datagram to every address known for the peer, none if there is none.
send(n, to, body) ==
  {[from |-> Source[n], to |-> a, body |-> body] : a \in Range(GetAddrs(n, to))}

\* VpnIPByAddr walks a Go map: any peer with this address may be the answer.
VpnIPByAddr(n, a) == {p \in Node : a \in Range(addrStore[n][p])}

-----------------------------------------------------------------------------
\* Advertise, one round of its loop: the addresses go to one lighthouse.
Advertise(n, l) ==
  /\ l \in Range(Hosts[n])
  /\ net' = net \cup send(n, l, [kind |-> "update", addrs |-> Local[n]])
  /\ UNCHANGED <<addrStore, hostmap, restarts>>

\* One query to every lighthouse.
QueryPeer(n, p) == UNION {send(n, l, [kind |-> "query", vpnIp |-> p]) : l \in Range(Hosts[n])}

\* consumeInsidePacket, of a packet that the firewall lets out, for a peer that n
\* has no session with but a certificate of: GetAddrs finds nothing, so QueryPeer
\* asks every lighthouse.  A reply that comes in between GetAddrs and QueryPeer
\* only makes the question superfluous.
consumeInsidePacket(n, p) ==
  /\ n # p /\ <<n, p>> \in Admitted
  /\ p \notin hostmap[n]
  /\ p \in PeersDir[n]
  /\ GetAddrs(n, p) = << >>
  /\ net' = net \cup QueryPeer(n, p)
  /\ UNCHANGED <<addrStore, hostmap, restarts>>

\* onHandshakeComplete: a handshake that either of the two began has succeeded.
onHandshakeComplete(n, p) ==
  /\ n # p /\ p \in PeersDir[n] \ hostmap[n]
  /\ hostmap' = [hostmap EXCEPT ![n] = @ \cup {p}]
  /\ UNCHANGED <<addrStore, net, restarts>>

-----------------------------------------------------------------------------
(* The handlers: n got the datagram m and takes its sender to be p.        *)

handleQuery(n, m, p) ==
  LET q == m.body.vpnIp
  IN  /\ net' = (net \ {m}) \cup
          send(n, p, [kind |-> "queryReply", vpnIp |-> q, addrs |-> GetAddrs(n, q)])
      /\ UNCHANGED addrStore

\* Mutation: the addresses are stored for the sender of the reply.
handleQueryReplyOfSender(n, m, p) ==
  /\ addrStore' = [addrStore EXCEPT ![n][p] = m.body.addrs]
  /\ net' = net \ {m}

\* Mutation: only an entry that the node has is replaced.
handleQueryReplyKnown(n, m, p) ==
  /\ addrStore' = IF GetAddrs(n, m.body.vpnIp) = << >> THEN addrStore
                  ELSE [addrStore EXCEPT ![n][m.body.vpnIp] = m.body.addrs]
  /\ net' = net \ {m}

\* The reply replaces whatever is known, also when it is empty.
handleQueryReply(n, m, p) ==
  /\ addrStore' = [addrStore EXCEPT ![n][m.body.vpnIp] = m.body.addrs]
  /\ net' = net \ {m}

\* Mutation: only the first of the addresses is stored.
handleUpdateFirstOnly(n, m, p) ==
  /\ addrStore' = IF n \in Lighthouses
                    THEN [addrStore EXCEPT ![n][p] = SubSeq(m.body.addrs, 1, 1)]
                    ELSE addrStore
  /\ net' = net \ {m}

handleUpdate(n, m, p) ==
  /\ addrStore' = IF n \in Lighthouses THEN [addrStore EXCEPT ![n][p] = m.body.addrs]
                  ELSE addrStore
  /\ net' = net \ {m}

HandleMessage(n, m, p) ==
  \/ m.body.kind = "query" /\ handleQuery(n, m, p)
  \/ m.body.kind = "queryReply" /\ handleQueryReply(n, m, p)
  \/ m.body.kind = "update" /\ handleUpdate(n, m, p)

\* handleLightHouse: a datagram from an address nobody is known by is dropped.
handleLightHouse(n, m) ==
  LET senders == VpnIPByAddr(n, m.from)
  IN  /\ IF senders = {} THEN net' = net \ {m} /\ UNCHANGED addrStore
         ELSE \E p \in senders : HandleMessage(n, m, p)
      /\ UNCHANGED <<hostmap, restarts>>

\* What n gets of one kind from p.
Receive(n, p, kind) ==
  \E m \in net :
    /\ Owner[m.to] = n /\ m.to \notin Private
    /\ Owner[m.from] = p /\ m.body.kind = kind
    /\ handleLightHouse(n, m)

Lose ==
  /\ \E m \in net : net' = net \ {m}
  /\ UNCHANGED <<addrStore, hostmap, restarts>>

\* The daemon is started again: only static_host_map is left of what n knew, and
\* no session.
Restart(n) ==
  /\ restarts < MaxRestarts
  /\ restarts' = restarts + 1
  /\ addrStore' = [addrStore EXCEPT ![n] = Static[n]]
  /\ hostmap' = [hostmap EXCEPT ![n] = {}]
  /\ UNCHANGED net

Kinds == {"query", "queryReply", "update"}

Next ==
  \/ \E n, p \in Node : Advertise(n, p) \/ consumeInsidePacket(n, p) \/ onHandshakeComplete(n, p)
  \/ \E n, p \in Node, kind \in Kinds : Receive(n, p, kind)
  \/ \E n \in Node : Restart(n)
  \/ Lose

\* Run advertises on a ticker.  Applications keep sending to a peer that does not
\* answer, and every packet for which consumeInsidePacket gets as far as GetAddrs
\* asks again.  When datagrams of a kind go from a node to its lighthouse, or back,
\* again and again, some get through.  Nothing makes a handshake succeed.
Fairness ==
  /\ \A n, p \in Node : WF_vars(Advertise(n, p)) /\ WF_vars(consumeInsidePacket(n, p))
  /\ \A n \in Node : \A l \in Range(Hosts[n]) :
       /\ SF_vars(Receive(l, n, "update")) /\ SF_vars(Receive(l, n, "query"))
       /\ SF_vars(Receive(n, l, "queryReply"))

Spec == Init /\ [][Next]_vars /\ Fairness

-----------------------------------------------------------------------------
\* Whatever a node stores for a peer is an address of that peer.  Senders are
\* recognised by address alone, so one wrong entry would make a lighthouse book
\* the next update under the wrong peer and pass it on to everyone who asks.
Truthful == \A n, p \in Node : \A a \in Range(addrStore[n][p]) : Owner[a] = p

\* What a lighthouse knows of a node is what it was configured with, or all that
\* the node advertises and nothing else; and the latter only for a node that the
\* configuration lets it recognise.  No query, reply, late update or restart
\* leaves a lighthouse with part of a list or with a stranger's.
RegistryExact ==
  \A l \in Lighthouses, n \in Node :
    \/ addrStore[l][n] = Static[l][n]
    \/ addrStore[l][n] = Local[n] /\ Source[n] \in Range(Static[l][n])

\* The lighthouse l was told the address that n sends from, and n advertises it.
Identified(l, n) == Source[n] \in Range(Static[l][n]) \cap Range(Local[n])

\* A node that has a peer's certificate, and rules that let packets out to it,
\* finds an address of the peer for good, unless the peer's handshake comes
\* first; although queries, replies and updates are lost and overtake each other
\* and nodes restart and forget.  It takes a lighthouse that recognises the node,
\* and lighthouses that know the peer.
Discovered ==
  \A n, p \in Node :
    /\ n # p /\ <<n, p>> \in Admitted /\ p \in PeersDir[n]
    /\ \E l \in Range(Hosts[n]) : Identified(l, n)
    /\ \A l \in Range(Hosts[n]) : Identified(l, p)
    => <>[](p \in hostmap[n] \/ addrStore[n][p] # << >>)

\* "NAT traversal is supported" (src/README.md:21): a lighthouse that was told
\* the address a node sends from goes on knowing it, behind a NAT or not, since
\* without it, it drops all further updates and queries of that node.
StaysIdentified ==
  \A l \in Lighthouses, n \in Node :
    Source[n] \in Range(Static[l][n]) => Source[n] \in Range(addrStore[l][n])

\* "Regular nodes periodically advertise their addresses to the lighthouses"
\* (src/README.md:17-18), which "maintain a registry" of them: a node that goes
\* on advertising is registered at some time.
Registered ==
  \A n, l \in Node : l \in Range(Hosts[n]) => <>(addrStore[l][n] # << >>)

=============================================================================
