-------------------------- MODULE LightHouseProofs --------------------------
(***************************************************************************)
(* Proofs about peer discovery (src/lighthouse.go), for every set of       *)
(* nodes, every address plan and every configuration: entries are          *)
(* addresses of the peer they are stored for, a lighthouse knows of a node *)
(* what it was configured with or all that the node advertises, and one    *)
(* that knew nobody never learns of anybody.                               *)
(***************************************************************************)
EXTENDS LightHouse, TLAPS

\* What the operators configured is true: static_host_map, localUDPAddrs and
\* the address others see on a node's datagrams are addresses of that node.
HonestAddresses ==
  /\ \A n, p \in Node : \A a \in Range(Static[n][p]) : Owner[a] = p
  /\ \A n \in Node : \A a \in Range(Local[n]) : Owner[a] = n
  /\ \A n \in Node : Owner[Source[n]] = n

\* A lighthouse has no lighthouse.hosts, so it advertises and asks nothing.
LighthousesAskNobody == \A l \in Lighthouses : Hosts[l] = << >>

\* The three kinds of lighthouse message.
Bodies ==
  [kind : {"query"}, vpnIp : Node]
    \cup [kind : {"queryReply"}, vpnIp : Node, addrs : AddrLists]
    \cup [kind : {"update"}, addrs : AddrLists]

\* addrStore holds lists of addresses, and datagrams go between addresses.
LightHouseTypes ==
  /\ addrStore \in [Node -> [Node -> AddrLists]]
  /\ net \subseteq [from : Addr, to : Addr, body : Bodies]

\* What a datagram on its way may say: it comes from the address others see on
\* its sender's datagrams, an update holds the addresses of the node that sent it,
\* a reply only addresses of the node that was asked for.
MailTruthful ==
  \A m \in net :
    /\ m.from = Source[Owner[m.from]]
    /\ m.body.kind = "update" => m.body.addrs = Local[Owner[m.from]]
    /\ m.body.kind = "queryReply" => \A a \in Range(m.body.addrs) : Owner[a] = m.body.vpnIp

\* Truthful is not inductive: what is merged comes off the wire, so the lists
\* in queryReply and update messages must be true as well.
TruthInv == LightHouseTypes /\ MailTruthful /\ Truthful

\* Lighthouses take no part in queries but to answer them.
LighthouseMail ==
  \A m \in net :
    /\ m.body.kind = "query" => Owner[m.from] \notin Lighthouses
    /\ m.body.kind = "queryReply" => Owner[m.to] \notin Lighthouses

-----------------------------------------------------------------------------
(* The pieces of a step.                                                   *)

\* The members of a list of addresses are addresses, and an empty list has none.
LEMMA RangeOfList ==
  /\ \A s \in AddrLists : Range(s) \subseteq Addr
  /\ Range(<< >>) = {}
BY DEF AddrLists, Range

\* The datagrams of send go from the node to addresses it knows of the peer.
LEMMA SendEffect ==
  ASSUME LightHouseTypes, NEW n \in Node, NEW to \in Node, NEW body \in Bodies,
         NEW m \in send(n, to, body)
  PROVE  /\ m \in [from : Addr, to : Addr, body : Bodies]
         /\ m.from = Source[n] /\ m.to \in Range(addrStore[n][to]) /\ m.body = body
<1>1. PICK a \in Range(addrStore[n][to]) : m = [from |-> Source[n], to |-> a, body |-> body]
  BY DEF send, GetAddrs
<1>2. a \in Addr
  BY RangeOfList DEF LightHouseTypes
<1> QED
  BY <1>1, <1>2, AddressAssumption

\* What the bodies the code builds are.
LEMMA BodyTypes ==
  /\ \A a \in AddrLists : [kind |-> "update", addrs |-> a] \in Bodies
  /\ \A p \in Node : [kind |-> "query", vpnIp |-> p] \in Bodies
  /\ \A p \in Node, a \in AddrLists :
       [kind |-> "queryReply", vpnIp |-> p, addrs |-> a] \in Bodies
BY DEF Bodies

\* What the fields of a datagram are, by its kind.
LEMMA MailTypes ==
  ASSUME LightHouseTypes, NEW m \in net
  PROVE  /\ m \in [from : Addr, to : Addr, body : Bodies]
         /\ m.from \in Addr /\ m.to \in Addr
         /\ m.body.kind \in {"query", "queryReply"} => m.body.vpnIp \in Node
         /\ m.body.kind \in {"update", "queryReply"} => m.body.addrs \in AddrLists
<1>1. m \in [from : Addr, to : Addr, body : Bodies]
  BY DEF LightHouseTypes
<1>2. m.body \in Bodies
  BY <1>1
<1> QED
  BY <1>1, <1>2 DEF Bodies

\* Everything a step puts on the network was sent by Advertise, by QueryPeer or
\* by handleQuery.
Sent(m) ==
  \/ \E n, l \in Node :
       l \in Range(Hosts[n]) /\ m \in send(n, l, [kind |-> "update", addrs |-> Local[n]])
  \/ \E n, p, l \in Node :
       l \in Range(Hosts[n]) /\ m \in send(n, l, [kind |-> "query", vpnIp |-> p])
  \/ \E n, q, p \in Node, r \in net :
       /\ Owner[r.to] = n /\ r.body.kind = "query" /\ p \in VpnIPByAddr(n, r.from)
       /\ m \in send(n, p, [kind |-> "queryReply", vpnIp |-> q, addrs |-> addrStore[n][q]])

\* Every entry that a step changes was written by handleQueryReply, by
\* handleUpdate at a lighthouse or by a restart.
Stored(n, p) ==
  \/ addrStore'[n][p] = addrStore[n][p]
  \/ addrStore'[n][p] = Static[n][p]
  \/ \E m \in net :
       /\ Owner[m.to] = n /\ m.body.kind = "queryReply" /\ m.body.vpnIp = p
       /\ VpnIPByAddr(n, m.from) # {}
       /\ addrStore'[n][p] = m.body.addrs
  \/ \E m \in net :
       /\ Owner[m.to] = n /\ n \in Lighthouses
       /\ m.body.kind = "update" /\ p \in VpnIPByAddr(n, m.from)
       /\ addrStore'[n][p] = m.body.addrs

\* A step sends and stores nothing else.
StepEffect ==
  /\ \A m \in net' : m \in net \/ Sent(m)
  /\ addrStore' \in [Node -> [Node -> AddrLists]]
  /\ \A n, p \in Node : Stored(n, p)

\* A handler of n stores and sends nothing else.
LEMMA HandleEffect ==
  ASSUME LightHouseTypes, NEW n \in Node, NEW m \in net, Owner[m.to] = n,
         handleLightHouse(n, m)
  PROVE  StepEffect
<1>1. addrStore \in [Node -> [Node -> AddrLists]]
  BY DEF LightHouseTypes
<1>2. CASE net' = net \ {m} /\ UNCHANGED addrStore
  BY <1>1, <1>2 DEF StepEffect, Stored
<1>3. ASSUME NEW p \in VpnIPByAddr(n, m.from), m.body.kind = "query", handleQuery(n, m, p)
      PROVE  StepEffect
  <2>1. p \in Node /\ m.body.vpnIp \in Node
    BY <1>3, MailTypes DEF VpnIPByAddr
  <2>2. \A k \in net' : k \in net \/ Sent(k)
    BY <1>3, <2>1 DEF handleQuery, GetAddrs, Sent
  <2>3. UNCHANGED addrStore
    BY <1>3 DEF handleQuery
  <2> QED
    BY <1>1, <2>2, <2>3 DEF StepEffect, Stored
<1>4. ASSUME NEW p \in VpnIPByAddr(n, m.from), m.body.kind = "queryReply",
             handleQueryReply(n, m, p)
      PROVE  StepEffect
  <2>1. m.body.vpnIp \in Node /\ m.body.addrs \in AddrLists
    BY <1>4, MailTypes
  <2>2. addrStore' = [addrStore EXCEPT ![n][m.body.vpnIp] = m.body.addrs] /\ net' = net \ {m}
    BY <1>4 DEF handleQueryReply
  <2>3. addrStore' \in [Node -> [Node -> AddrLists]]
    BY <1>1, <2>1, <2>2
  <2>4. ASSUME NEW k \in Node, NEW q \in Node
        PROVE  Stored(k, q)
    <3>1. CASE k = n /\ q = m.body.vpnIp
      <4>1. addrStore'[k][q] = m.body.addrs
        BY <1>1, <2>1, <2>2, <3>1
      <4> QED
        BY <1>4, <3>1, <4>1 DEF Stored
    <3>2. CASE ~ (k = n /\ q = m.body.vpnIp)
      <4>1. addrStore'[k][q] = addrStore[k][q]
        BY <1>1, <2>1, <2>2, <3>2
      <4> QED
        BY <4>1 DEF Stored
    <3> QED
      BY <3>1, <3>2
  <2> QED
    BY <2>2, <2>3, <2>4 DEF StepEffect
<1>5. ASSUME NEW p \in VpnIPByAddr(n, m.from), m.body.kind = "update", handleUpdate(n, m, p),
             n \in Lighthouses
      PROVE  StepEffect
  <2>1. p \in Node /\ m.body.addrs \in AddrLists
    BY <1>5, MailTypes DEF VpnIPByAddr
  <2>2. addrStore' = [addrStore EXCEPT ![n][p] = m.body.addrs] /\ net' = net \ {m}
    BY <1>5 DEF handleUpdate
  <2>3. addrStore' \in [Node -> [Node -> AddrLists]]
    BY <1>1, <2>1, <2>2
  <2>4. ASSUME NEW k \in Node, NEW q \in Node
        PROVE  Stored(k, q)
    <3>1. CASE k = n /\ q = p
      <4>1. addrStore'[k][q] = m.body.addrs
        BY <1>1, <2>1, <2>2, <3>1
      <4> QED
        BY <1>5, <3>1, <4>1 DEF Stored
    <3>2. CASE ~ (k = n /\ q = p)
      <4>1. addrStore'[k][q] = addrStore[k][q]
        BY <1>1, <2>1, <2>2, <3>2
      <4> QED
        BY <4>1 DEF Stored
    <3> QED
      BY <3>1, <3>2
  <2> QED
    BY <2>2, <2>3, <2>4 DEF StepEffect
<1>6. ASSUME NEW p \in VpnIPByAddr(n, m.from), m.body.kind = "update", handleUpdate(n, m, p),
             n \notin Lighthouses
      PROVE  StepEffect
  BY <1>2, <1>6 DEF handleUpdate
<1> QED
  BY <1>2, <1>3, <1>4, <1>5, <1>6 DEF handleLightHouse, HandleMessage

\* Every step of the system, the operators and the network included.
LEMMA NextEffect == LightHouseTypes /\ [Next]_vars => StepEffect
<1> SUFFICES ASSUME LightHouseTypes, [Next]_vars
             PROVE  StepEffect
  OBVIOUS
<1>1. addrStore \in [Node -> [Node -> AddrLists]]
  BY DEF LightHouseTypes
<1>2. CASE UNCHANGED addrStore /\ \A m \in net' : m \in net \/ Sent(m)
  BY <1>1, <1>2 DEF StepEffect, Stored
<1>3. ASSUME NEW n \in Node, NEW l \in Node, Advertise(n, l)
      PROVE  StepEffect
  BY <1>2, <1>3 DEF Advertise, Sent
<1>4. ASSUME NEW n \in Node, NEW p \in Node, consumeInsidePacket(n, p)
      PROVE  StepEffect
  <2>1. UNCHANGED addrStore
    BY <1>4 DEF consumeInsidePacket
  <2>2. ASSUME NEW m \in net', m \notin net
        PROVE  Sent(m)
    <3>1. PICK l \in Range(Hosts[n]) : m \in send(n, l, [kind |-> "query", vpnIp |-> p])
      BY <1>4, <2>2 DEF consumeInsidePacket, QueryPeer
    <3>2. l \in Node
      BY ConfigAssumption DEF Range
    <3> QED
      BY <3>1, <3>2 DEF Sent
  <2> QED
    BY <1>2, <2>1, <2>2
<1>5. ASSUME NEW n \in Node, NEW p \in Node, NEW kind \in Kinds, Receive(n, p, kind)
      PROVE  StepEffect
  BY <1>5, HandleEffect DEF Receive
<1>6. ASSUME NEW n \in Node, Restart(n)
      PROVE  StepEffect
  <2>1. addrStore' = [addrStore EXCEPT ![n] = Static[n]] /\ UNCHANGED net
    BY <1>6 DEF Restart
  <2>2. addrStore' \in [Node -> [Node -> AddrLists]]
    BY <1>1, <2>1, ConfigAssumption
  <2>3. \A k, q \in Node : addrStore'[k][q] = IF k = n THEN Static[k][q] ELSE addrStore[k][q]
    BY <1>1, <2>1
  <2> QED
    BY <2>1, <2>2, <2>3 DEF StepEffect, Stored
<1>7. CASE Lose
  BY <1>2, <1>7 DEF Lose
<1>8. ASSUME NEW n \in Node, NEW p \in Node, onHandshakeComplete(n, p)
      PROVE  StepEffect
  BY <1>2, <1>8 DEF onHandshakeComplete
<1>9. CASE UNCHANGED vars
  BY <1>2, <1>9 DEF vars
<1> QED
  BY <1>3, <1>4, <1>5, <1>6, <1>7, <1>8, <1>9 DEF Next

\* The datagrams a step sends are well formed.
LEMMA SentType ==
  ASSUME LightHouseTypes, NEW m, Sent(m)
  PROVE  m \in [from : Addr, to : Addr, body : Bodies]
<1>1. addrStore \in [Node -> [Node -> AddrLists]]
  BY DEF LightHouseTypes
<1>2. ASSUME NEW n \in Node, NEW l \in Node,
             m \in send(n, l, [kind |-> "update", addrs |-> Local[n]])
      PROVE  m \in [from : Addr, to : Addr, body : Bodies]
  <2>1. [kind |-> "update", addrs |-> Local[n]] \in Bodies
    BY BodyTypes, AddressAssumption
  <2> QED
    BY <1>2, <2>1, SendEffect
<1>3. ASSUME NEW n \in Node, NEW l \in Node, NEW p \in Node,
             m \in send(n, l, [kind |-> "query", vpnIp |-> p])
      PROVE  m \in [from : Addr, to : Addr, body : Bodies]
  <2>1. [kind |-> "query", vpnIp |-> p] \in Bodies
    BY BodyTypes
  <2> QED
    BY <1>3, <2>1, SendEffect
<1>4. ASSUME NEW n \in Node, NEW p \in Node, NEW q \in Node,
             m \in send(n, p, [kind |-> "queryReply", vpnIp |-> q, addrs |-> addrStore[n][q]])
      PROVE  m \in [from : Addr, to : Addr, body : Bodies]
  <2>1. [kind |-> "queryReply", vpnIp |-> q, addrs |-> addrStore[n][q]] \in Bodies
    BY <1>1, BodyTypes
  <2> QED
    BY <1>4, <2>1, SendEffect
<1> QED
  BY <1>2, <1>3, <1>4 DEF Sent

\* Tables and datagrams keep their types.
LEMMA TypesNext == LightHouseTypes /\ [Next]_vars => LightHouseTypes'
BY NextEffect, SentType DEF StepEffect, LightHouseTypes

\* The store starts as static_host_map, with no message on its way.
LEMMA TypesInit == Init => LightHouseTypes
BY ConfigAssumption DEF Init, LightHouseTypes

-----------------------------------------------------------------------------
(* Truth.                                                                  *)

\* A sender recognised by its address is the owner of that address.
LEMMA SenderOwns ==
  ASSUME Truthful, NEW n \in Node, NEW a, NEW p \in VpnIPByAddr(n, a)
  PROVE  p \in Node /\ Owner[a] = p
BY DEF Truthful, VpnIPByAddr

\* What a step sends is as true as what its sender stored.
LEMMA MailNext ==
  ASSUME HonestAddresses, TruthInv, [Next]_vars
  PROVE  MailTruthful'
<1>1. LightHouseTypes /\ MailTruthful /\ Truthful /\ StepEffect
  BY NextEffect DEF TruthInv
<1>2. addrStore \in [Node -> [Node -> AddrLists]]
  BY <1>1 DEF LightHouseTypes
<1> SUFFICES ASSUME NEW m \in net'
             PROVE  /\ m.from = Source[Owner[m.from]]
                    /\ m.body.kind = "update" => m.body.addrs = Local[Owner[m.from]]
                    /\ m.body.kind = "queryReply" =>
                         \A a \in Range(m.body.addrs) : Owner[a] = m.body.vpnIp
  BY DEF MailTruthful
<1>3. CASE m \in net
  BY <1>1, <1>3 DEF MailTruthful
<1>4. ASSUME NEW n \in Node, NEW l \in Node,
             m \in send(n, l, [kind |-> "update", addrs |-> Local[n]])
      PROVE  /\ m.from = Source[Owner[m.from]]
             /\ m.body.kind = "update" /\ m.body.addrs = Local[Owner[m.from]]
  <2>1. [kind |-> "update", addrs |-> Local[n]] \in Bodies
    BY BodyTypes, AddressAssumption
  <2>2. m.from = Source[n] /\ m.body = [kind |-> "update", addrs |-> Local[n]]
    BY <1>1, <1>4, <2>1, SendEffect
  <2> QED
    BY <2>2 DEF HonestAddresses
<1>5. ASSUME NEW n \in Node, NEW l \in Node, NEW p \in Node,
             m \in send(n, l, [kind |-> "query", vpnIp |-> p])
      PROVE  m.from = Source[Owner[m.from]] /\ m.body.kind = "query"
  <2>1. [kind |-> "query", vpnIp |-> p] \in Bodies
    BY BodyTypes
  <2>2. m.from = Source[n] /\ m.body = [kind |-> "query", vpnIp |-> p]
    BY <1>1, <1>5, <2>1, SendEffect
  <2> QED
    BY <2>2 DEF HonestAddresses
<1>6. ASSUME NEW n \in Node, NEW p \in Node, NEW q \in Node,
             m \in send(n, p, [kind |-> "queryReply", vpnIp |-> q, addrs |-> addrStore[n][q]])
      PROVE  /\ m.from = Source[Owner[m.from]] /\ m.body.kind = "queryReply"
             /\ \A a \in Range(m.body.addrs) : Owner[a] = m.body.vpnIp
  <2>1. [kind |-> "queryReply", vpnIp |-> q, addrs |-> addrStore[n][q]] \in Bodies
    BY <1>2, BodyTypes
  <2>2. /\ m.from = Source[n]
        /\ m.body = [kind |-> "queryReply", vpnIp |-> q, addrs |-> addrStore[n][q]]
    BY <1>1, <1>6, <2>1, SendEffect
  <2> QED
    BY <1>1, <2>2 DEF Truthful, HonestAddresses
<1>7. CASE Sent(m)
  <2>1. "update" # "query" /\ "update" # "queryReply" /\ "query" # "queryReply"
    OBVIOUS
  <2> QED
    BY <1>4, <1>5, <1>6, <1>7, <2>1 DEF Sent
<1> QED
  BY <1>1, <1>3, <1>7 DEF StepEffect

\* What a handler stores for a peer are addresses of that peer.
LEMMA StoreNext ==
  ASSUME HonestAddresses, TruthInv, [Next]_vars
  PROVE  Truthful'
<1>1. MailTruthful /\ Truthful /\ StepEffect
  BY NextEffect DEF TruthInv
<1> SUFFICES ASSUME NEW n \in Node, NEW p \in Node, NEW a \in Range(addrStore'[n][p])
             PROVE  Owner[a] = p
  BY DEF Truthful
<1>2. CASE addrStore'[n][p] = addrStore[n][p]
  BY <1>1, <1>2 DEF Truthful
<1>3. CASE addrStore'[n][p] = Static[n][p]
  BY <1>3 DEF HonestAddresses
<1>4. ASSUME NEW m \in net, m.body.kind = "queryReply", m.body.vpnIp = p,
             addrStore'[n][p] = m.body.addrs
      PROVE  Owner[a] = p
  BY <1>1, <1>4 DEF MailTruthful
<1>5. ASSUME NEW m \in net, m.body.kind = "update", p \in VpnIPByAddr(n, m.from),
             addrStore'[n][p] = m.body.addrs
      PROVE  Owner[a] = p
  <2>1. Owner[m.from] = p
    BY <1>1, <1>5, SenderOwns
  <2>2. m.body.addrs = Local[p]
    BY <1>1, <1>5, <2>1 DEF MailTruthful
  <2> QED
    BY <1>5, <2>2 DEF HonestAddresses
<1> QED
  BY <1>1, <1>2, <1>3, <1>4, <1>5 DEF StepEffect, Stored

\* The invariant that Truthful needs: entries can only be as true as the
\* datagrams they are copied from.
THEOREM TruthSafe ==
  ASSUME HonestAddresses
  PROVE  Spec => []TruthInv
<1>1. Init => TruthInv
  BY TypesInit DEF TruthInv, Init, MailTruthful, Truthful, HonestAddresses
<1>2. TruthInv /\ [Next]_vars => TruthInv'
  BY TypesNext, MailNext, StoreNext DEF TruthInv
<1> QED
  BY <1>1, <1>2, PTL DEF Spec

\* If what is configured is true, so is every entry of every addrStore: lost,
\* overtaken and repeated datagrams, restarts and senders known by their address
\* alone never make a node book an address under the wrong peer.
THEOREM EntriesTruthful ==
  ASSUME HonestAddresses
  PROVE  Spec => []Truthful
<1>1. TruthInv => Truthful
  BY DEF TruthInv
<1> QED
  BY <1>1, TruthSafe, PTL

-----------------------------------------------------------------------------
(* What a lighthouse registers.                                            *)

\* RegistryExact is not inductive: a lighthouse overwrites entries with what it
\* gets, so no reply may be on its way to one, and every update must hold the
\* whole list of its sender and come from where the sender is seen.
RegistryInv == TruthInv /\ LighthouseMail /\ RegistryExact

\* No reply is ever sent to a lighthouse: it asks nothing, and a sender is
\* recognised rightly.
LEMMA LighthouseMailNext ==
  ASSUME HonestAddresses, LighthousesAskNobody, RegistryInv, [Next]_vars
  PROVE  LighthouseMail'
<1>1. /\ LightHouseTypes /\ Truthful /\ LighthouseMail /\ StepEffect
  BY NextEffect DEF RegistryInv, TruthInv
<1>2. addrStore \in [Node -> [Node -> AddrLists]]
  BY <1>1 DEF LightHouseTypes
<1> SUFFICES ASSUME NEW m \in net'
             PROVE  /\ m.body.kind = "query" => Owner[m.from] \notin Lighthouses
                    /\ m.body.kind = "queryReply" => Owner[m.to] \notin Lighthouses
  BY DEF LighthouseMail
<1>3. CASE m \in net
  BY <1>1, <1>3 DEF LighthouseMail
<1>4. ASSUME NEW n \in Node, NEW l \in Node,
             m \in send(n, l, [kind |-> "update", addrs |-> Local[n]])
      PROVE  m.body.kind = "update"
  <2>1. [kind |-> "update", addrs |-> Local[n]] \in Bodies
    BY BodyTypes, AddressAssumption
  <2>2. m.body = [kind |-> "update", addrs |-> Local[n]]
    BY <1>1, <1>4, <2>1, SendEffect
  <2> QED
    BY <2>2
<1>5. ASSUME NEW n \in Node, NEW l \in Range(Hosts[n]), l \in Node, NEW p \in Node,
             m \in send(n, l, [kind |-> "query", vpnIp |-> p])
      PROVE  m.body.kind = "query" /\ Owner[m.from] \notin Lighthouses
  <2>1. [kind |-> "query", vpnIp |-> p] \in Bodies
    BY BodyTypes
  <2>2. m.from = Source[n] /\ m.body = [kind |-> "query", vpnIp |-> p]
    BY <1>1, <1>5, <2>1, SendEffect
  <2>3. Owner[m.from] = n
    BY <2>2 DEF HonestAddresses
  <2>4. n \notin Lighthouses
    BY RangeOfList DEF LighthousesAskNobody
  <2> QED
    BY <2>2, <2>3, <2>4
<1>6. ASSUME NEW n \in Node, NEW p \in Node, NEW q \in Node, NEW r \in net,
             r.body.kind = "query", p \in VpnIPByAddr(n, r.from),
             m \in send(n, p, [kind |-> "queryReply", vpnIp |-> q, addrs |-> addrStore[n][q]])
      PROVE  m.body.kind = "queryReply" /\ Owner[m.to] \notin Lighthouses
  <2>1. [kind |-> "queryReply", vpnIp |-> q, addrs |-> addrStore[n][q]] \in Bodies
    BY <1>2, BodyTypes
  <2>2. /\ m.to \in Range(addrStore[n][p])
        /\ m.body = [kind |-> "queryReply", vpnIp |-> q, addrs |-> addrStore[n][q]]
    BY <1>1, <1>6, <2>1, SendEffect
  <2>3. Owner[m.to] = p /\ Owner[r.from] = p
    BY <1>1, <1>6, <2>2, SenderOwns DEF Truthful
  <2>4. p \notin Lighthouses
    BY <1>1, <1>6, <2>3 DEF LighthouseMail
  <2>5. m.body.kind = "queryReply"
    BY <2>2
  <2> QED
    BY <2>3, <2>4, <2>5
<1>7. CASE Sent(m)
  <2>1. "update" # "query" /\ "update" # "queryReply" /\ "query" # "queryReply"
    OBVIOUS
  <2> QED
    BY <1>4, <1>5, <1>6, <1>7, <2>1 DEF Sent
<1> QED
  BY <1>1, <1>3, <1>7 DEF StepEffect

\* Only an update from the node itself changes what a lighthouse knows of it, and
\* only an update that the configuration made recognisable, at first or still.
LEMMA RegistryNext ==
  ASSUME HonestAddresses, RegistryInv, [Next]_vars
  PROVE  RegistryExact'
<1>1. /\ Truthful /\ MailTruthful /\ LighthouseMail /\ RegistryExact /\ StepEffect
  BY NextEffect DEF RegistryInv, TruthInv
<1> SUFFICES ASSUME NEW l \in Lighthouses, NEW n \in Node
             PROVE  \/ addrStore'[l][n] = Static[l][n]
                    \/ addrStore'[l][n] = Local[n] /\ Source[n] \in Range(Static[l][n])
  BY DEF RegistryExact
<1>2. l \in Node
  BY ConfigAssumption
<1>3. CASE addrStore'[l][n] = addrStore[l][n]
  BY <1>1, <1>3 DEF RegistryExact
<1>4. CASE addrStore'[l][n] = Static[l][n]
  BY <1>4
<1>5. ASSUME NEW m \in net, Owner[m.to] = l, m.body.kind = "queryReply"
      PROVE  FALSE
  BY <1>1, <1>5 DEF LighthouseMail
<1>6. ASSUME NEW m \in net, m.body.kind = "update", n \in VpnIPByAddr(l, m.from),
             addrStore'[l][n] = m.body.addrs
      PROVE  addrStore'[l][n] = Local[n] /\ Source[n] \in Range(Static[l][n])
  <2>1. Owner[m.from] = n
    BY <1>1, <1>2, <1>6, SenderOwns
  <2>2. m.from = Source[n] /\ m.body.addrs = Local[n]
    BY <1>1, <1>6, <2>1 DEF MailTruthful
  <2>3. Source[n] \in Range(addrStore[l][n])
    BY <1>6, <2>2 DEF VpnIPByAddr
  <2> QED
    BY <1>1, <1>6, <2>2, <2>3 DEF RegistryExact
<1> QED
  BY <1>1, <1>2, <1>3, <1>4, <1>5, <1>6 DEF StepEffect, Stored

\* If what is configured is true and lighthouses have no lighthouses, then for
\* every node, behind a NAT or not, a lighthouse holds the configured list or the
\* whole list that the node advertises: replies never reach a lighthouse, an
\* update is booked under its sender, and a restart comes back to the
\* configuration.
THEOREM RegistryIsExact ==
  ASSUME HonestAddresses, LighthousesAskNobody
  PROVE  Spec => []RegistryExact
<1>1. Init => LighthouseMail /\ RegistryExact
  BY DEF Init, LighthouseMail, RegistryExact
<1>2. TruthInv /\ LighthouseMail /\ RegistryExact /\ [Next]_vars
        => LighthouseMail' /\ RegistryExact'
  BY LighthouseMailNext, RegistryNext DEF RegistryInv
<1> QED
  BY <1>1, <1>2, TruthSafe, PTL DEF Spec

\* A node that advertises the address it sends from is never locked out: a
\* lighthouse that was configured with that address goes on recognising it.
THEOREM AdvertisedSourceStays ==
  ASSUME HonestAddresses, LighthousesAskNobody,
         NEW l \in Lighthouses, NEW n \in Node, Identified(l, n)
  PROVE  Spec => [](Source[n] \in Range(addrStore[l][n]))
<1>1. RegistryExact => Source[n] \in Range(addrStore[l][n])
  BY DEF RegistryExact, Identified
<1> QED
  BY <1>1, RegistryIsExact, PTL

-----------------------------------------------------------------------------
(* The other side: a lighthouse that starts without addresses.             *)

\* A node without a static_host_map drops every LightHouse packet, since it
\* knows no sender by its address, and so never learns of anybody: updates do
\* not register a node with a lighthouse that does not know it yet.
THEOREM StrangersStayUnknown ==
  ASSUME NEW l \in Node, \A p \in Node : Static[l][p] = << >>
  PROVE  Spec => [](\A p \in Node : addrStore[l][p] = << >>)
<1> DEFINE Empty == \A p \in Node : addrStore[l][p] = << >>
<1>1. Init => LightHouseTypes /\ Empty
  BY TypesInit DEF Init
<1>2. LightHouseTypes /\ Empty /\ [Next]_vars => LightHouseTypes' /\ Empty'
  <2> SUFFICES ASSUME LightHouseTypes, Empty, [Next]_vars, NEW p \in Node
               PROVE  addrStore'[l][p] = << >>
    BY TypesNext
  <2>1. Stored(l, p)
    BY NextEffect DEF StepEffect
  <2>2. \A a : VpnIPByAddr(l, a) = {}
    BY RangeOfList DEF VpnIPByAddr
  <2> QED
    BY <2>1, <2>2 DEF Stored
<1> QED
  BY <1>1, <1>2, PTL DEF Spec
=============================================================================
