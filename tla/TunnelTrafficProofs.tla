------------------------ MODULE TunnelTrafficProofs -------------------------
(***************************************************************************)
(* What the sessions of TunnelProofs carry, for every set of nodes and     *)
(* every bound: each packet is sent once, flushed in order and written     *)
(* once, and the two ends of a session match.                              *)
(***************************************************************************)
EXTENDS TunnelProofs

-----------------------------------------------------------------------------
(* Peers.                                                                  *)

\* byVpnIP leads to a session with the peer it is looked up for.
PeersInv ==
  \A n, p \in Node : byVpnIP[n][p] # Nobody => host[n][byVpnIP[n][p]].VpnIP = p

\* PeersInv is inductive.
LEMMA PeersNext == TypeInv /\ IndexInv /\ PeersInv /\ [Next]_vars => PeersInv'
<1>1. ASSUME PeersInv, UNCHANGED vars
      PROVE  PeersInv'
  BY <1>1 DEF PeersInv, vars, nodeVars
<1>2. ASSUME TypeInv, IndexInv, PeersInv, Next
      PROVE  PeersInv'
  <2> SUFFICES ASSUME NEW q \in Node, NEW p \in Node, byVpnIP'[q][p] # Nobody
               PROVE  host'[q][byVpnIP'[q][p]].VpnIP = p
    BY DEF PeersInv
  <2>1. TypeInv'
    BY <1>2, NextType
  <2>2. byVpnIP'[q][p] \in Index /\ host'[q][byVpnIP'[q][p]] # Nobody
    BY <2>1 DEF TypeInv, TypeOK, LiveSessions
  <2>3. CASE byVpnIP'[q][p] = byVpnIP[q][p]
    <3>1. host[q][byVpnIP[q][p]] # Nobody /\ host[q][byVpnIP[q][p]].VpnIP = p
      BY <1>2, <2>3, Zenon DEF PeersInv, TypeInv, LiveSessions
    <3> QED
      BY <1>2, <2>2, <2>3, <3>1, StepHistory, Zenon DEF SameSession
  <2>4. ASSUME NEW n \in Node, HandshakeComplete(n), byVpnIP'[q][p] # byVpnIP[q][p]
        PROVE  host'[q][byVpnIP'[q][p]].VpnIP = p
    <3>1. /\ byVpnIP' = [byVpnIP EXCEPT ![n][host[n][udp[n].session].VpnIP] = udp[n].session]
          /\ host' = host
      BY <2>4, Zenon DEF HandshakeComplete
    <3>2. udp[n].session \in Index /\ host[n][udp[n].session].VpnIP \in Node
      BY <1>2, <2>4, ReaderFacts, HostFacts, Zenon DEF HandshakeComplete
    <3>3. q = n /\ p = host[n][udp[n].session].VpnIP /\ byVpnIP'[q][p] = udp[n].session
      BY <1>2, <2>4, <3>1, <3>2, Zenon DEF TypeInv, TypeOK
    <3> QED
      BY <3>1, <3>3, Zenon
  <2>5. ASSUME NEW n \in Node, Restart(n), byVpnIP'[q][p] # byVpnIP[q][p]
        PROVE  FALSE
    BY <1>2, <2>5, RestartEffect
  <2>6. byVpnIP' = byVpnIP \/ \E n \in Node : HandshakeComplete(n) \/ Restart(n)
    <3>1. PICK n \in Node :
             \/ \E r \in Node : TunRead(n, r)
             \/ TunSend(n) \/ TunNoStart(n) \/ TunStart(n) \/ TunQueue(n)
             \/ \E m \in Arriving(n, "stage0") : HandleStage0(n, m)
             \/ \E m \in Arriving(n, "stage1"), intact \in BOOLEAN : HandleStage1(n, m, intact)
             \/ \E m \in net : IgnoreStage1(n, m) \/ RefuseMessage(n, m)
             \/ HandshakeComplete(n) \/ Flush(n)
             \/ \E m \in Arriving(n, "message"), intact \in BOOLEAN : AcceptMessage(n, m, intact)
             \/ \E due \in SUBSET {r \in Node : InProgress(hm[n], r)} : Retry(n, due)
             \/ Restart(n)
      BY <1>2, NextCases
    <3>2. (\E r \in Node : TunRead(n, r)) \/ TunSend(n) \/ TunNoStart(n) \/ TunStart(n)
             \/ TunQueue(n) \/ Flush(n) => byVpnIP' = byVpnIP
      BY Zenon DEF TunRead, TunSend, TunNoStart, TunStart, TunQueue, Flush
    <3>3. /\ \A m : HandleStage0(n, m) \/ IgnoreStage1(n, m) \/ RefuseMessage(n, m)
                 => byVpnIP' = byVpnIP
          /\ \A m, intact : HandleStage1(n, m, intact) \/ AcceptMessage(n, m, intact)
                 => byVpnIP' = byVpnIP
          /\ \A due : Retry(n, due) => byVpnIP' = byVpnIP
      BY Zenon DEF HandleStage0, HandleStage1, IgnoreStage1, RefuseMessage, AcceptMessage, Retry, nodeVars
    <3> QED
      BY <3>1, <3>2, <3>3
  <2> QED
    BY <2>3, <2>4, <2>5, <2>6, Zenon
<1> QED
  BY <1>1, <1>2

\* byVpnIP is empty when the nodes start.
LEMMA PeersInit == Init => PeersInv
BY DEF Init, PeersInv

-----------------------------------------------------------------------------
(* Sequences of packets.                                                   *)

\* The packets in a queue.
Elems(q) == {q[j] : j \in 1 .. Len(q)}

\* A queue in the order the packets were read.
Ordered(q) == \A j, k \in 1 .. Len(q) : j < k => q[j].id < q[k].id

\* The empty queue is in order.
LEMMA EmptyQueue == Elems(<< >>) = {} /\ Ordered(<< >>) /\ Len(<< >>) = 0
BY DEF Elems, Ordered

\* Taking the oldest packet leaves an ordered queue of younger ones.
LEMMA TailElems ==
  ASSUME NEW q \in Seq(Packets), q # << >>, Ordered(q)
  PROVE  /\ Head(q) \in Elems(q)
         /\ Elems(Tail(q)) \subseteq Elems(q)
         /\ Ordered(Tail(q))
         /\ \A x \in Elems(Tail(q)) : Head(q).id < x.id
<1>1. /\ Len(q) \in Nat \ {0} /\ Head(q) = q[1]
      /\ Tail(q) \in Seq(Packets) /\ Len(Tail(q)) = Len(q) - 1
      /\ \A j \in 1 .. Len(q) - 1 : Tail(q)[j] = q[j + 1]
  BY TailFacts
<1>2. Head(q) \in Elems(q)
  BY <1>1 DEF Elems
<1>3. \A j \in 1 .. Len(Tail(q)) : Tail(q)[j] = q[j + 1] /\ j + 1 \in 1 .. Len(q) /\ 1 < j + 1
  BY <1>1
<1>4. Elems(Tail(q)) \subseteq Elems(q)
  BY <1>3 DEF Elems
<1>5. Ordered(Tail(q))
  <2> SUFFICES ASSUME NEW j \in 1 .. Len(Tail(q)), NEW l \in 1 .. Len(Tail(q)), j < l
               PROVE  Tail(q)[j].id < Tail(q)[l].id
    BY DEF Ordered
  <2>1. j + 1 < l + 1
    BY <1>1
  <2> QED
    BY <1>3, <2>1 DEF Ordered
<1>6. \A x \in Elems(Tail(q)) : Head(q).id < x.id
  <2> SUFFICES ASSUME NEW j \in 1 .. Len(Tail(q))
               PROVE  Head(q).id < Tail(q)[j].id
    BY DEF Elems
  <2>1. 1 \in 1 .. Len(q)
    BY <1>1
  <2> QED
    BY <1>1, <1>3, <2>1 DEF Ordered
<1> QED
  BY <1>2, <1>4, <1>5, <1>6

\* A packet younger than all of an ordered queue goes to its end.
LEMMA AppendElems ==
  ASSUME NEW q \in Seq(Packets), NEW k \in Packets, Ordered(q),
         \A x \in Elems(q) : x.id < k.id
  PROVE  /\ Elems(Append(q, k)) \subseteq Elems(q) \cup {k}
         /\ Ordered(Append(q, k))
<1> DEFINE e == Append(q, k)
<1>1. /\ Len(q) \in Nat /\ Len(e) = Len(q) + 1 /\ e[Len(e)] = k
      /\ \A j \in 1 .. Len(q) : e[j] = q[j] /\ q[j] \in Elems(q)
  BY DEF Elems
<1> HIDE DEF e
<1>2. \A j \in 1 .. Len(e) : j = Len(e) \/ j \in 1 .. Len(q)
  BY <1>1
<1>3. Elems(e) \subseteq Elems(q) \cup {k}
  <2> SUFFICES ASSUME NEW j \in 1 .. Len(e)
               PROVE  e[j] \in Elems(q) \cup {k}
    BY DEF Elems
  <2> QED
    BY <1>1, <1>2
<1>4. Ordered(e)
  <2> SUFFICES ASSUME NEW j \in 1 .. Len(e), NEW l \in 1 .. Len(e), j < l
               PROVE  e[j].id < e[l].id
    BY DEF Ordered
  <2>1. j \in 1 .. Len(q)
    BY <1>1
  <2>2. CASE l = Len(e)
    BY <1>1, <2>1, <2>2
  <2>3. CASE l \in 1 .. Len(q)
    BY <1>1, <2>1, <2>3 DEF Ordered
  <2> QED
    BY <1>2, <2>2, <2>3
<1> QED
  BY <1>3, <1>4 DEF e

\* Queueing a younger packet, the oldest dropped when the queue is full, keeps
\* order and length.
LEMMA EnqueueElems ==
  ASSUME NEW q \in Seq(Packets), NEW k \in Packets, Ordered(q),
         \A x \in Elems(q) : x.id < k.id, Len(q) <= maxPendingPackets
  PROVE  /\ Elems(Enqueue(q, k)) \subseteq Elems(q) \cup {k}
         /\ Ordered(Enqueue(q, k))
         /\ Len(Enqueue(q, k)) <= maxPendingPackets
<1>1. CASE Len(q) >= maxPendingPackets
  <2>1. Enqueue(q, k) = Append(Tail(q), k) /\ q # << >>
    BY <1>1, PendingAssumption DEF Enqueue
  <2>2. /\ Tail(q) \in Seq(Packets) /\ Len(Tail(q)) = Len(q) - 1
        /\ Elems(Tail(q)) \subseteq Elems(q) /\ Ordered(Tail(q))
    BY <2>1, TailFacts, TailElems
  <2>3. Len(Append(Tail(q), k)) = Len(q)
    BY <2>2
  <2>4. /\ Elems(Append(Tail(q), k)) \subseteq Elems(Tail(q)) \cup {k}
        /\ Ordered(Append(Tail(q), k))
    BY <2>2, AppendElems, Zenon
  <2> QED
    BY <2>1, <2>2, <2>3, <2>4
<1>2. CASE ~ (Len(q) >= maxPendingPackets)
  <2>1. Enqueue(q, k) = Append(q, k)
    BY <1>2 DEF Enqueue
  <2>2. Len(Append(q, k)) <= maxPendingPackets
    BY <1>2, PendingAssumption
  <2> QED
    BY <2>1, <2>2, AppendElems
<1> QED
  BY <1>1, <1>2

-----------------------------------------------------------------------------
(* Packets, and the places they can be in.                                 *)

\* The packets of n waiting for the handshake with p.
QueueOf(n, p) == hm[n].pending[p].pendingPackets

\* The packets of n that wait for a handshake.
Waiting(n) == UNION {Elems(QueueOf(n, p)) : p \in Node}

\* The packets of n that a flush still has to send.
Flushing(n) == Elems(udp[n].packets)

\* The packets of n that are on the wire.
SentBy(n) == {m.pkt : m \in {x \in Messages : x.src = n}}

\* A waiting queue: within maxPendingPackets, in order, and only packets from
\* n to p that were read.
QueueOK(n, p) ==
  /\ Len(QueueOf(n, p)) <= maxPendingPackets /\ Ordered(QueueOf(n, p))
  /\ \A k \in Elems(QueueOf(n, p)) : k.src = n /\ k.dst = p /\ k.id <= read

\* The packets that a flush has left: in order, and for the peer of the
\* session they will go out on.
FlushOK(n) ==
  /\ Ordered(udp[n].packets)
  /\ \A k \in Flushing(n) : k.src = n /\ k.id <= read /\ k.dst = host[n][udp[n].session].VpnIP

\* The packet that the TUN reader holds: younger than every other packet of
\* the node, and on its way to the peer of the session looked up for it.
TunOK(n) ==
  tun[n].pc # "read" =>
    /\ tun[n].pkt.src = n /\ tun[n].pkt.id <= read
    /\ tun[n].pc = "send" => host[n][tun[n].session].VpnIP = tun[n].pkt.dst
    /\ \A k \in Waiting(n) \cup Flushing(n) \cup SentBy(n) : k.id < tun[n].pkt.id

\* No packet is in two of the places a packet of a node can be.
Apart(n) ==
  /\ Waiting(n) \cap Flushing(n) = {}
  /\ (Waiting(n) \cup Flushing(n)) \cap SentBy(n) = {}

\* The four facts about one node.
NodeOK(n) == (\A p \in Node : QueueOK(n, p)) /\ FlushOK(n) /\ TunOK(n) /\ Apart(n)

\* Messages travel from the source of their packet to its destination, no
\* packet in two of them.
WireOK ==
  /\ \A m \in Messages : m.pkt.src = m.src /\ m.pkt.dst = m.dst /\ m.pkt.id <= read
  /\ SentAtMostOnce

\* SentAtMostOnce is not inductive: a packet must be known to be in one place
\* at a time, and to leave it when it is sent.
PlacesInv == (\A n \in Node : NodeOK(n)) /\ WireOK

\* A step that takes no packet of q to a place where it was not.
StaysPut(q) ==
  /\ \A p \in Node : QueueOf(q, p)' = QueueOf(q, p) \/ QueueOf(q, p)' = << >>
  /\ \/ udp'[q].packets = << >>
     \/ udp'[q].packets = udp[q].packets /\ udp'[q].session = udp[q].session
  /\ \/ tun'[q].pc = "read"
     \/ /\ tun[q].pc # "read" /\ tun'[q].pkt = tun[q].pkt
        /\ tun'[q].pc = "send" => tun[q].pc = "send" /\ tun'[q].session = tun[q].session

\* A step that adds no packet of q to any place.
Shrinks(q) == StaysPut(q) /\ SentBy(q)' = SentBy(q) /\ read <= read'

\* The places hold packets.
LEMMA PlaceTypes ==
  ASSUME TypeInv, NEW n \in Node
  PROVE  /\ \A p \in Node : QueueOf(n, p) \in Seq(Packets)
         /\ udp[n].packets \in Seq(Packets)
         /\ \A k \in Waiting(n) \cup Flushing(n) \cup SentBy(n) : k \in Packets /\ k.id \in Nat
         /\ read \in Nat
<1>1. \A p \in Node : QueueOf(n, p) \in Seq(Packets)
  BY PendingType, Zenon DEF TypeInv, TypeOK, QueueOf
<1>2. udp[n].packets \in Seq(Packets)
  BY ReaderFacts
<1>3. \A s \in Seq(Packets) : Elems(s) \subseteq Packets
  BY DEF Elems
<1>4. SentBy(n) \subseteq Packets
  BY MessageFacts DEF SentBy
<1>5. Waiting(n) \subseteq Packets
  BY <1>1, <1>3 DEF Waiting
<1>6. Flushing(n) \subseteq Packets
  BY <1>2, <1>3 DEF Flushing
<1>7. \A k \in Packets : k.id \in Nat
  BY DEF Packets
<1>8. read \in Nat
  BY BoundsAssumption DEF TypeInv, TypeOK
<1> QED
  BY <1>1, <1>2, <1>4, <1>5, <1>6, <1>7, <1>8

\* A waiting queue is part of what waits.
LEMMA WaitingIn ==
  ASSUME NEW n \in Node, NEW p \in Node
  PROVE  Elems(QueueOf(n, p)) \subseteq Waiting(n)
BY DEF Waiting

\* ReaderFacts after a step.
LEMMA ReaderFactsNext ==
  ASSUME TypeInv', NEW n \in Node
  PROVE  /\ tun'[n].pc = "send" => tun'[n].session \in Index /\ host'[n][tun'[n].session] # Nobody
         /\ udp'[n].pc # "read" => udp'[n].session \in Index /\ host'[n][udp'[n].session] # Nobody
         /\ udp'[n].pc = "read" => udp'[n] = UdpIdle
<1>1. tun'[n] \in TunStates /\ udp'[n] \in UdpStates
  BY DEF TypeInv, TypeOK
<1>2. /\ tun'[n].pc = "send" => host'[n][tun'[n].session] # Nobody
      /\ udp'[n].pc # "read" => host'[n][udp'[n].session] # Nobody
  BY DEF TypeInv, LiveSessions
<1> QED
  BY <1>1, <1>2, TunStateFacts, UdpStateFacts

\* Order, length and peers survive in a node whose packets stay put.
LEMMA StaysPutKeeps ==
  ASSUME TypeInv, TypeInv', IndexInv, Next, NEW q \in Node, NodeOK(q), StaysPut(q), read <= read'
  PROVE  /\ \A p \in Node : QueueOK(q, p)'
         /\ FlushOK(q)'
         /\ Waiting(q)' \subseteq Waiting(q) /\ Flushing(q)' \subseteq Flushing(q)
<1>1. /\ \A p \in Node : Elems(QueueOf(q, p)') \subseteq Elems(QueueOf(q, p))
      /\ \A p \in Node : QueueOK(q, p)'
      /\ read \in Nat /\ read' \in Nat
  <2>1. read \in Nat /\ read' \in Nat
    BY PlaceTypes DEF TypeInv, TypeOK
  <2>2. ASSUME NEW p \in Node, QueueOf(q, p)' = QueueOf(q, p)
        PROVE  /\ Elems(QueueOf(q, p)') \subseteq Elems(QueueOf(q, p)) 
               /\ QueueOK(q, p)'
    <3>1. \A k \in Elems(QueueOf(q, p)) : k.id \in Nat
      BY PlaceTypes, WaitingIn
    <3> QED
      BY <2>1, <2>2, <3>1 DEF StaysPut, NodeOK, QueueOK
  <2>3. ASSUME NEW p \in Node, QueueOf(q, p)' = << >>
        PROVE  /\ Elems(QueueOf(q, p)') \subseteq Elems(QueueOf(q, p)) 
               /\ QueueOK(q, p)'
    BY <2>3, EmptyQueue, PendingAssumption DEF QueueOK
  <2> QED
    BY <2>1, <2>2, <2>3 DEF StaysPut
<1>2. Waiting(q)' \subseteq Waiting(q)
  BY <1>1 DEF Waiting
<1>3. Flushing(q)' \subseteq Flushing(q) /\ FlushOK(q)'
  <2>1. CASE udp'[q].packets = << >>
    BY <2>1, EmptyQueue DEF Flushing, FlushOK
  <2>2. CASE udp'[q].packets # << >>
    <3>1. udp'[q].packets = udp[q].packets /\ udp'[q].session = udp[q].session
      BY <2>2 DEF StaysPut
    <3>2. udp[q].pc # "read" /\ udp'[q].pc # "read"
      BY <2>2, <3>1, ReaderFacts, ReaderFactsNext DEF UdpIdle
    <3>3. /\ udp[q].session \in Index /\ host[q][udp[q].session] # Nobody
          /\ host'[q][udp'[q].session] # Nobody
      BY <3>2, ReaderFacts, ReaderFactsNext, Zenon
    <3>4. host'[q][udp[q].session].VpnIP = host[q][udp[q].session].VpnIP
      BY <3>1, <3>3, StepHistory, Zenon DEF SameSession
    <3>5. \A k \in Flushing(q) : k.id \in Nat
      BY PlaceTypes
    <3> QED
      BY <1>1, <3>1, <3>4, <3>5 DEF Flushing, FlushOK, NodeOK
  <2> QED
    BY <2>1, <2>2
<1> QED
  BY <1>1, <1>2, <1>3

\* All of NodeOK survives when no packet arrives anywhere.
LEMMA ShrinkKeeps ==
  ASSUME TypeInv, TypeInv', IndexInv, Next, NEW q \in Node, NodeOK(q), Shrinks(q)
  PROVE  NodeOK(q)'
<1>1. read \in Nat /\ read' \in Nat
  BY PlaceTypes DEF TypeInv, TypeOK
<1>2. Waiting(q)' \subseteq Waiting(q) /\ Flushing(q)' \subseteq Flushing(q)
  BY StaysPutKeeps DEF Shrinks
<1>3. FlushOK(q)' /\ \A p \in Node : QueueOK(q, p)'
  BY StaysPutKeeps DEF Shrinks
<1>4. TunOK(q)'
  <2> SUFFICES ASSUME tun'[q].pc # "read"
               PROVE  TunOK(q)'
    BY Zenon DEF TunOK
  <2>1. /\ tun[q].pc # "read" /\ tun'[q].pkt = tun[q].pkt
        /\ tun'[q].pc = "send" => tun[q].pc = "send" /\ tun'[q].session = tun[q].session
        /\ SentBy(q)' = SentBy(q) /\ read <= read'
    BY Zenon DEF Shrinks, StaysPut
  <2>2. tun[q].pkt.id \in Nat
    BY <2>1, ReaderFacts DEF Packets
  <2>3. /\ tun[q].pkt.src = q /\ tun[q].pkt.id <= read
        /\ tun[q].pc = "send" => host[q][tun[q].session].VpnIP = tun[q].pkt.dst
        /\ \A k \in Waiting(q) \cup Flushing(q) \cup SentBy(q) : k.id < tun[q].pkt.id
    BY <2>1, Zenon DEF TunOK, NodeOK
  <2>4. ASSUME tun'[q].pc = "send"
        PROVE  host'[q][tun'[q].session].VpnIP = tun'[q].pkt.dst
    <3>1. /\ tun[q].session \in Index /\ host[q][tun[q].session] # Nobody
          /\ host'[q][tun[q].session] # Nobody
      BY <2>1, <2>4, ReaderFacts, ReaderFactsNext, Zenon
    <3>2. host'[q][tun[q].session].VpnIP = host[q][tun[q].session].VpnIP
      BY <3>1, StepHistory, Zenon DEF SameSession
    <3> QED
      BY <2>1, <2>3, <2>4, <3>2, Zenon
  <2>5. tun'[q].pkt.id <= read'
    BY ONLY <1>1, <2>1, <2>2, <2>3
  <2> QED
    BY <1>2, <2>1, <2>3, <2>4, <2>5, Zenon DEF TunOK
<1>5. Apart(q)'
  BY <1>2 DEF Apart, NodeOK, Shrinks
<1> QED
  BY <1>3, <1>4, <1>5 DEF NodeOK

\* Without a new message the network stays in order.
LEMMA NoSend ==
  ASSUME TypeInv, TypeInv', WireOK, Messages' = Messages, read <= read'
  PROVE  WireOK' /\ \A q \in Node : SentBy(q)' = SentBy(q)
<1>1. \A q \in Node : SentBy(q)' = SentBy(q)
  BY DEF SentBy
<1>2. read \in Nat /\ read' \in Nat
  BY BoundsAssumption DEF TypeInv, TypeOK
<1>3. \A m \in Messages : m.pkt \in Packets
  BY MessageFacts
<1>4. \A m \in Messages : m.pkt.id \in Nat
  BY <1>3 DEF Packets
<1> QED
  BY <1>1, <1>2, <1>4 DEF WireOK, SentAtMostOnce

\* PlacesInv survives a step in which all packets stay put.
LEMMA StaysPutStep ==
  ASSUME TypeInv, TypeInv', IndexInv, Next, PlacesInv, Messages' = Messages, read <= read',
         \A q \in Node : StaysPut(q)
  PROVE  PlacesInv'
<1>1. WireOK' /\ \A q \in Node : SentBy(q)' = SentBy(q)
  BY NoSend DEF PlacesInv
<1> QED
  BY <1>1, ShrinkKeeps DEF PlacesInv, Shrinks

\* Sending a packet that was not sent before keeps the network in order.
LEMMA SendWire ==
  ASSUME TypeInv, PlacesInv, NEW n \in Node, NEW i, NEW k \in Packets, sendToRemote(n, i, k),
         k.src = n, k.dst = host[n][i].VpnIP, k.id <= read, k \notin SentBy(n), read' = read
  PROVE  /\ WireOK'
         /\ SentBy(n)' = SentBy(n) \cup {k}
         /\ \A q \in Node \ {n} : SentBy(q)' = SentBy(q)
<1>1. PICK m : /\ net' = net \cup {m}
               /\ m.type = "message" /\ m.src = n /\ m.pkt = k
               /\ m.dst = host[n][i].VpnIP
  BY SendNet
<1>2. Messages' = Messages \cup {m}
  BY <1>1 DEF Messages
<1>3. \A x \in Messages : x.pkt = k => x.src # n
  BY DEF SentBy
<1>4. \A x \in Messages : x.pkt # k
  BY <1>3 DEF PlacesInv, WireOK
<1>5. SentAtMostOnce'
  BY <1>1, <1>2, <1>4 DEF PlacesInv, WireOK, SentAtMostOnce
<1>6. WireOK'
  BY <1>1, <1>2, <1>5 DEF PlacesInv, WireOK
<1>7. SentBy(n)' = SentBy(n) \cup {k} /\ \A q \in Node \ {n} : SentBy(q)' = SentBy(q)
  BY <1>1, <1>2 DEF SentBy
<1> QED
  BY <1>6, <1>7

\* The readers and the table of every other node stay as they are.
Alone(n) ==
  \A q \in Node \ {n} : hm'[q] = hm[q] /\ udp'[q] = udp[q] /\ tun'[q] = tun[q]

\* The packets of the other nodes stay put.
LEMMA AloneStaysPut ==
  ASSUME NEW n \in Node, Alone(n), NEW q \in Node \ {n}
  PROVE  StaysPut(q)
BY DEF Alone, StaysPut, QueueOf

\* The packet just read is the youngest of its node.
LEMMA TunReadPlaces ==
  ASSUME TypeInv, TypeInv', IndexInv, PeersInv, PlacesInv, Next,
         NEW n \in Node, NEW p \in Node, TunRead(n, p)
  PROVE  PlacesInv'
<1>1. /\ tun'[n] = [pc      |-> IF byVpnIP[n][p] # Nobody THEN "send" ELSE "start",
                    pkt     |-> [src |-> n, dst |-> p, id |-> read + 1],
                    session |-> byVpnIP[n][p]]
      /\ Alone(n) /\ read' = read + 1 /\ UNCHANGED <<hm, udp, host, net>>
  BY Zenon DEF TunRead, TypeInv, TypeOK, Alone
<1>2. read \in Nat
  BY PlaceTypes
<1>3. WireOK' /\ \A q \in Node : SentBy(q)' = SentBy(q)
  <2>1. Messages' = Messages
    BY <1>1 DEF Messages
  <2>2. read <= read'
    BY <1>1, <1>2
  <2> QED
    BY <2>1, <2>2, NoSend DEF PlacesInv
<1>4. \A q \in Node \ {n} : NodeOK(q)'
  BY <1>1, <1>2, <1>3, AloneStaysPut, ShrinkKeeps DEF PlacesInv, Shrinks
<1>5. Waiting(n)' = Waiting(n) /\ Flushing(n)' = Flushing(n) /\ SentBy(n)' = SentBy(n)
  BY <1>1, <1>3, Zenon DEF Waiting, Flushing, QueueOf
<1>6. \A k \in Waiting(n) \cup Flushing(n) \cup SentBy(n) : k.id \in Nat /\ k.id <= read
  <2>1. \A k \in Waiting(n) : k.id <= read
    BY DEF PlacesInv, NodeOK, QueueOK, Waiting
  <2>2. \A k \in Flushing(n) : k.id <= read
    BY DEF PlacesInv, NodeOK, FlushOK
  <2>3. \A k \in SentBy(n) : k.id <= read
    BY DEF PlacesInv, WireOK, SentBy
  <2> QED
    BY <2>1, <2>2, <2>3, PlaceTypes
<1>7. \A r \in Node : QueueOK(n, r)'
  <2> SUFFICES ASSUME NEW r \in Node
               PROVE  QueueOK(n, r)'
    OBVIOUS
  <2>1. QueueOf(n, r)' = QueueOf(n, r)
    BY <1>1 DEF QueueOf
  <2>2. \A k \in Elems(QueueOf(n, r)) : k.id <= read'
    BY ONLY <1>1, <1>2, <1>6, WaitingIn
  <2> QED
    BY <2>1, <2>2 DEF PlacesInv, NodeOK, QueueOK
<1>8. FlushOK(n)'
  <2>1. \A k \in Flushing(n) : k.id <= read'
    BY ONLY <1>1, <1>2, <1>6
  <2> QED
    <3>1. FlushOK(n)
      BY Zenon DEF PlacesInv, NodeOK
    <3>2. host' = host /\ udp' = udp
      BY <1>1, Zenon
    <3> QED
      BY ONLY <1>5, <2>1, <3>1, <3>2, Zenon DEF FlushOK
<1>9. TunOK(n)'
  <2>1. tun'[n].pc = "send" => host[n][tun'[n].session].VpnIP = p
    BY <1>1 DEF PeersInv
  <2>2. \A k \in Waiting(n) \cup Flushing(n) \cup SentBy(n) : k.id < tun'[n].pkt.id
    BY ONLY <1>1, <1>2, <1>6
  <2> QED
    BY ONLY <1>1, <1>2, <1>5, <2>1, <2>2 DEF TunOK
<1>10. Apart(n)'
  BY <1>5 DEF PlacesInv, NodeOK, Apart
<1>11. NodeOK(n)'
  BY <1>7, <1>8, <1>9, <1>10 DEF NodeOK
<1> QED
  BY <1>3, <1>4, <1>11 DEF PlacesInv

\* The TUN reader lets go of the packet it sends.
LEMMA TunSendPlaces ==
  ASSUME TypeInv, TypeInv', IndexInv, PlacesInv, Next, NEW n \in Node, TunSend(n)
  PROVE  PlacesInv'
<1> DEFINE k == tun[n].pkt
<1>1. /\ tun[n].pc = "send" /\ sendToRemote(n, tun[n].session, k)
      /\ tun'[n] = TunIdle /\ Alone(n) /\ UNCHANGED <<hm, udp, read>>
  BY Zenon DEF TunSend, TypeInv, TypeOK, Alone
<1>2. k \in Packets /\ k.id \in Nat
  <2>1. k \in Packets
    BY <1>1, ReaderFacts, Zenon
  <2> QED
    BY <2>1 DEF Packets
<1>3. /\ k.src = n /\ k.id <= read /\ k.dst = host[n][tun[n].session].VpnIP
      /\ \A x \in Waiting(n) \cup Flushing(n) \cup SentBy(n) : x.id < k.id
  BY <1>1, Zenon DEF PlacesInv, NodeOK, TunOK
<1>4. k \notin Waiting(n) \cup Flushing(n) \cup SentBy(n)
  BY ONLY <1>2, <1>3
<1>5. /\ WireOK' /\ SentBy(n)' = SentBy(n) \cup {k}
      /\ \A q \in Node \ {n} : SentBy(q)' = SentBy(q)
  BY <1>1, <1>2, <1>3, <1>4, SendWire, Zenon
<1>6. read <= read'
  BY <1>1, PlaceTypes
<1>7. \A q \in Node \ {n} : NodeOK(q)'
  BY <1>1, <1>5, <1>6, AloneStaysPut, ShrinkKeeps, Zenon DEF PlacesInv, Shrinks
<1>8. StaysPut(n)
  BY ONLY <1>1 DEF StaysPut, QueueOf, TunIdle
<1>9. /\ \A p \in Node : QueueOK(n, p)'
      /\ FlushOK(n)'
      /\ Waiting(n)' \subseteq Waiting(n) /\ Flushing(n)' \subseteq Flushing(n)
  BY <1>6, <1>8, StaysPutKeeps DEF PlacesInv
<1>10. TunOK(n)'
  BY <1>1 DEF TunOK, TunIdle
<1>11. Apart(n)'
  BY <1>4, <1>5, <1>9 DEF Apart, PlacesInv, NodeOK
<1>12. NodeOK(n)'
  BY <1>9, <1>10, <1>11 DEF NodeOK
<1> QED
  BY <1>5, <1>7, <1>12 DEF PlacesInv

\* A flush takes the packet it sends off its queue.
LEMMA FlushPlaces ==
  ASSUME TypeInv, TypeInv', IndexInv, PlacesInv, Next, NEW n \in Node, Flush(n)
  PROVE  PlacesInv'
<1> DEFINE s == udp[n].packets
           k == Head(s)
<1>1. /\ udp[n].pc = "flush" /\ sendToRemote(n, udp[n].session, k)
      /\ udp'[n].packets = << >> \/ (udp'[n].packets = Tail(s) /\ udp'[n].session = udp[n].session)
      /\ Alone(n) /\ UNCHANGED <<hm, tun, read>>
  <2>1. udp' = [udp EXCEPT ![n] = IF Len(udp[n].packets) = 1 THEN UdpIdle
                                  ELSE [udp[n] EXCEPT !.packets = Tail(udp[n].packets)]]
    BY DEF Flush
  <2>2. udp[n] \in [pc : {"install", "flush"}, session : Index, packets : Seq(Packets)]
    BY DEF Flush, TypeInv, TypeOK, UdpStates, UdpIdle
  <2>3. udp'[n].packets = << >> \/ (udp'[n].packets = Tail(s) /\ udp'[n].session = udp[n].session)
    BY <2>1, <2>2, Zenon DEF UdpIdle, TypeInv, TypeOK
  <2>4. Alone(n)
    BY <2>1, Zenon DEF Alone, Flush, TypeInv, TypeOK
  <2> QED
    BY <2>3, <2>4, Zenon DEF Flush
<1>2. /\ s \in Seq(Packets) /\ s # << >> /\ udp[n].session \in Index
      /\ host[n][udp[n].session] # Nobody
  BY <1>1, ReaderFacts, Zenon
<1>3. /\ Ordered(s)
      /\ \A x \in Flushing(n) : x.src = n /\ x.id <= read /\ x.dst = host[n][udp[n].session].VpnIP
  BY Zenon DEF PlacesInv, NodeOK, FlushOK
<1>4. /\ k \in Flushing(n) /\ Flushing(n)' \subseteq Flushing(n) /\ k \notin Flushing(n)'
      /\ Ordered(udp'[n].packets)
      /\ k \in Packets /\ k.id \in Nat
  <2>1. k \in Elems(s) /\ Elems(Tail(s)) \subseteq Elems(s) /\ Ordered(Tail(s))
    BY <1>2, <1>3, TailElems, Zenon
  <2>2. \A x \in Elems(Tail(s)) : k.id < x.id
    BY <1>2, <1>3, TailElems, Zenon
  <2>3. k \in Packets /\ k.id \in Nat
    BY <2>1, PlaceTypes DEF Flushing
  <2>4. k \notin Elems(Tail(s))
    BY <2>2, <2>3
  <2> QED
    BY <1>1, <2>1, <2>3, <2>4, EmptyQueue, Zenon DEF Flushing
<1>5. k \notin SentBy(n) /\ k \notin Waiting(n)
  BY <1>4 DEF PlacesInv, NodeOK, Apart
<1>6. /\ WireOK' /\ SentBy(n)' = SentBy(n) \cup {k}
      /\ \A q \in Node \ {n} : SentBy(q)' = SentBy(q)
  <2>1. k.src = n /\ k.dst = host[n][udp[n].session].VpnIP /\ k.id <= read /\ read' = read
    BY <1>1, <1>3, <1>4, Zenon
  <2> HIDE DEF k
  <2> QED
    BY <1>1, <1>4, <1>5, <2>1, SendWire, Zenon
<1> HIDE DEF k
<1>7. read <= read'
  BY <1>1, PlaceTypes
<1>8. \A q \in Node \ {n} : NodeOK(q)'
  BY <1>1, <1>6, <1>7, AloneStaysPut, ShrinkKeeps, Zenon DEF PlacesInv, Shrinks
<1>9. Waiting(n)' = Waiting(n) /\ \A p \in Node : QueueOK(n, p)'
  BY <1>1 DEF Waiting, QueueOf, QueueOK, PlacesInv, NodeOK
<1>10. \A q \in Node, i \in Index :
         host[q][i] # Nobody => host'[q][i] # Nobody /\ host'[q][i].VpnIP = host[q][i].VpnIP
  BY <1>1, <1>2, <1>4, SendKeeps, Zenon DEF HostsKept, SameSession
<1>11. FlushOK(n)'
  <2>1. CASE udp'[n].packets = << >>
    BY <2>1, EmptyQueue DEF FlushOK, Flushing
  <2>2. CASE udp'[n].session = udp[n].session
    BY <1>1, <1>2, <1>3, <1>4, <1>10, <2>2, Zenon DEF FlushOK
  <2> QED
    BY <1>1, <2>1, <2>2
<1>12. TunOK(n)'
  <2>1. Waiting(n)' \cup Flushing(n)' \cup SentBy(n)' \subseteq Waiting(n) \cup Flushing(n) \cup SentBy(n)
    BY <1>4, <1>6, <1>9
  <2>2. tun[n].pc = "send" => /\ tun[n].session \in Index /\ host[n][tun[n].session] # Nobody
    BY ReaderFacts, Zenon
  <2> QED
    BY <1>1, <1>10, <2>1, <2>2, Zenon DEF TunOK, PlacesInv, NodeOK
<1>13. Apart(n)'
  BY <1>4, <1>5, <1>6, <1>9 DEF Apart, PlacesInv, NodeOK
<1>14. NodeOK(n)'
  BY <1>9, <1>11, <1>12, <1>13 DEF NodeOK
<1> QED
  BY <1>6, <1>8, <1>14 DEF PlacesInv

\* The TUN reader lets go of the packet it queues.
LEMMA TunQueuePlaces ==
  ASSUME TypeInv, TypeInv', IndexInv, PlacesInv, Next, NEW n \in Node, TunQueue(n)
  PROVE  PlacesInv'
<1> DEFINE k == tun[n].pkt
<1>1. /\ tun[n].pc = "queue" /\ tun'[n] = TunIdle /\ UNCHANGED <<udp, host, net, read>>
      /\ Alone(n)
  BY Zenon DEF TunQueue, TypeInv, TypeOK, Alone
<1>2. /\ k \in Packets
      /\ \A p \in Node : QueueOf(n, p)' =
           IF p = k.dst /\ InProgress(hm[n], p) THEN Enqueue(QueueOf(n, p), k) ELSE QueueOf(n, p)
  BY TunQueueEffect, Zenon DEF QueueOf
<1>3. /\ k.src = n /\ k.id <= read
      /\ \A x \in Waiting(n) \cup Flushing(n) \cup SentBy(n) : x.id < k.id
  BY <1>1, Zenon DEF PlacesInv, NodeOK, TunOK
<1>4. k.id \in Nat
  BY <1>2 DEF Packets
<1> HIDE DEF k
<1>5. WireOK' /\ \A q \in Node : SentBy(q)' = SentBy(q)
  <2>1. Messages' = Messages
    BY <1>1 DEF Messages
  <2>2. read <= read'
    BY <1>1, PlaceTypes
  <2> QED
    BY <2>1, <2>2, NoSend DEF PlacesInv
<1>6. \A q \in Node \ {n} : NodeOK(q)'
  <2>1. read <= read'
    BY <1>1, PlaceTypes
  <2> QED
    BY <1>1, <1>5, <2>1, AloneStaysPut, ShrinkKeeps, Zenon DEF PlacesInv, Shrinks
<1>7. ASSUME NEW p \in Node
      PROVE  QueueOK(n, p)' /\ Elems(QueueOf(n, p)') \subseteq Elems(QueueOf(n, p)) \cup {k}
  <2>1. QueueOK(n, p)
    BY DEF PlacesInv, NodeOK
  <2>2. CASE p = k.dst /\ InProgress(hm[n], p)
    <3>1. QueueOf(n, p)' = Enqueue(QueueOf(n, p), k)
      BY <1>2, <2>2
    <3>2. QueueOf(n, p) \in Seq(Packets) /\ \A x \in Elems(QueueOf(n, p)) : x.id < k.id
      BY <1>3, PlaceTypes, WaitingIn
    <3>3. /\ Elems(Enqueue(QueueOf(n, p), k)) \subseteq Elems(QueueOf(n, p)) \cup {k}
          /\ Ordered(Enqueue(QueueOf(n, p), k))
          /\ Len(Enqueue(QueueOf(n, p), k)) <= maxPendingPackets
      BY <1>2, <2>1, <3>2, EnqueueElems, Zenon DEF QueueOK
    <3> QED
      BY <1>1, <1>3, <2>1, <2>2, <3>1, <3>3, Zenon DEF QueueOK
  <2>3. CASE ~ (p = k.dst /\ InProgress(hm[n], p))
    BY <1>1, <1>2, <2>1, <2>3, Zenon DEF QueueOK
  <2> QED
    BY <2>2, <2>3, Zenon
<1>8. Waiting(n)' \subseteq Waiting(n) \cup {k} /\ Flushing(n)' = Flushing(n)
  BY <1>1, <1>7 DEF Waiting, Flushing
<1>9. FlushOK(n)'
  BY <1>1, <1>8, Zenon DEF PlacesInv, NodeOK, FlushOK
<1>10. TunOK(n)'
  BY ONLY <1>1 DEF TunOK, TunIdle
<1>11. Apart(n)'
  <2>1. k \notin Flushing(n) /\ k \notin SentBy(n)
    BY <1>3, <1>4
  <2> QED
    BY <1>5, <1>8, <2>1 DEF Apart, PlacesInv, NodeOK
<1>12. NodeOK(n)'
  BY <1>7, <1>9, <1>10, <1>11 DEF NodeOK
<1> QED
  BY <1>5, <1>6, <1>12 DEF PlacesInv

\* The waiting queue becomes the UDP reader's to flush and leaves the
\* HandshakeManager in the same step.
LEMMA HandleStage1Places ==
  ASSUME TypeInv, TypeInv', IndexInv, PlacesInv, Next, NEW n \in Node,
         NEW m \in Arriving(n, "stage1"), NEW intact \in BOOLEAN, HandleStage1(n, m, intact)
  PROVE  PlacesInv'
<1> DEFINE i == m.remoteIndex
           p == hm[n].indexMap[i]
<1>1. i \in Index /\ m.responderIndex \in Index
  BY ArrivingType
<1>2. /\ p \in Node
      /\ hm'[n] = TakeHandshake(hm[n], i) /\ \A q \in Node \ {n} : hm'[q] = hm[q]
      /\ \/ /\ host'[n][i] = InitiatorHost(n, i, p, m.responderIndex)
            /\ udp'[n] = [pc |-> "install", session |-> i, packets |-> QueueOf(n, p)]
            /\ \A q \in Node \ {n} : udp'[q] = udp[q]
         \/ UNCHANGED <<host, udp>>
  BY HandleStage1Effect, Zenon DEF QueueOf
<1>3. UNCHANGED <<tun, net, read>> /\ udp[n].pc = "read"
  BY Zenon DEF HandleStage1
<1>4. \A q \in Node : QueueOf(n, q)' = IF q = p THEN << >> ELSE QueueOf(n, q)
  <2>1. hm[n] \in Tables(Packets) /\ p # Nobody
    BY <1>2, NobodyAssumption, Zenon DEF TypeInv, TypeOK
  <2>2. \A q \in Node : hm'[n].pending[q] = IF q = p THEN NoPending ELSE hm[n].pending[q]
    BY ONLY <1>1, <1>2, <2>1, TakeEffect
  <2>3. NoPending.pendingPackets = << >>
    BY DEF NoPending
  <2> QED
    BY <2>2, <2>3, Zenon DEF QueueOf
<1> HIDE DEF i, p
<1>5. Alone(n)
  BY <1>2, <1>3, Zenon DEF Alone
<1>6. Messages' = Messages /\ read <= read'
  BY <1>3, PlaceTypes DEF Messages
<1>7. CASE UNCHANGED <<host, udp>>
  <2>1. StaysPut(n)
    BY <1>3, <1>4, <1>7 DEF StaysPut, TunIdle
  <2> QED
    BY <1>5, <1>6, <2>1, AloneStaysPut, StaysPutStep
<1>8. CASE /\ host'[n][i] = InitiatorHost(n, i, p, m.responderIndex)
           /\ udp'[n] = [pc |-> "install", session |-> i, packets |-> QueueOf(n, p)]
  <2>1. WireOK' /\ \A q \in Node : SentBy(q)' = SentBy(q)
    BY <1>6, NoSend DEF PlacesInv
  <2>2. \A q \in Node \ {n} : NodeOK(q)'
    BY <1>5, <1>6, <2>1, AloneStaysPut, ShrinkKeeps, Zenon DEF PlacesInv, Shrinks
  <2>3. host'[n][i].VpnIP = p
    BY ONLY <1>8 DEF InitiatorHost, NewHost
  <2>4. \A q \in Node : QueueOK(n, q)
    BY DEF PlacesInv, NodeOK
  <2>5. \A q \in Node : QueueOK(n, q)'
    <3> SUFFICES ASSUME NEW q \in Node
                 PROVE  QueueOK(n, q)'
      OBVIOUS
    <3>1. CASE q = p
      <4>1. QueueOf(n, q)' = << >>
        BY <1>4, <3>1
      <4> QED
        BY <4>1, EmptyQueue, PendingAssumption DEF QueueOK
    <3>2. CASE q # p
      <4>1. QueueOf(n, q)' = QueueOf(n, q)
        BY <1>4, <3>2
      <4> QED
        BY <1>3, <2>4, <4>1, Zenon DEF QueueOK
    <3> QED
      BY <3>1, <3>2
  <2>6. Flushing(n)' = Elems(QueueOf(n, p)) /\ udp'[n].packets = QueueOf(n, p)
        /\ udp'[n].session = i
    BY ONLY <1>8 DEF Flushing
  <2>7. FlushOK(n)'
    BY <1>2, <1>3, <2>3, <2>4, <2>6, Zenon DEF FlushOK, QueueOK
  <2>8. /\ Waiting(n)' \subseteq Waiting(n) /\ Flushing(n)' \subseteq Waiting(n)
        /\ \A k \in Waiting(n)' : k.dst # p
    <3>1. ASSUME NEW k \in Waiting(n)'
          PROVE  k \in Waiting(n) /\ k.dst # p
      <4>1. PICK q \in Node : k \in Elems(QueueOf(n, q)')
        BY <3>1 DEF Waiting
      <4>2. q # p
        BY <1>4, <4>1, EmptyQueue
      <4>3. k \in Elems(QueueOf(n, q))
        BY <1>4, <4>1, <4>2
      <4> QED
        BY <2>4, <4>2, <4>3, WaitingIn, Zenon DEF QueueOK
    <3> QED
      BY <1>2, <2>6, <3>1, WaitingIn, Zenon
  <2>9. \A k \in Flushing(n)' : k.dst = p
    BY <1>2, <2>4, <2>6, Zenon DEF QueueOK
  <2>10. Apart(n)'
    BY <2>1, <2>8, <2>9 DEF Apart, PlacesInv, NodeOK
  <2>11. TunOK(n)'
    <3>1. tun[n].pc = "send" => /\ tun[n].session \in Index /\ host[n][tun[n].session] # Nobody
                                /\ host'[n][tun[n].session] # Nobody
      BY <1>3, ReaderFacts, ReaderFactsNext, Zenon
    <3>2. tun[n].pc = "send" => host'[n][tun[n].session].VpnIP = host[n][tun[n].session].VpnIP
      BY <3>1, StepHistory, Zenon DEF SameSession
    <3> QED
      BY <1>3, <2>1, <2>8, <3>2, Zenon DEF TunOK, PlacesInv, NodeOK
  <2>12. NodeOK(n)'
    BY <2>5, <2>7, <2>10, <2>11 DEF NodeOK
  <2> QED
    BY <2>1, <2>2, <2>12 DEF PlacesInv
<1> QED
  BY <1>2, <1>7, <1>8, Zenon

\* The steps that move no packet, or drop some.
Still(n) ==
  \/ TunNoStart(n) \/ TunStart(n) \/ HandshakeComplete(n) \/ Restart(n)
  \/ \E m \in Arriving(n, "stage0") : HandleStage0(n, m)
  \/ \E m \in net : IgnoreStage1(n, m) \/ RefuseMessage(n, m)
  \/ \E m \in Arriving(n, "message"), intact \in BOOLEAN : AcceptMessage(n, m, intact)
  \/ \E due \in SUBSET {p \in Node : InProgress(hm[n], p)} : Retry(n, due)

\* They leave every packet in the place it had.
LEMMA StillPlaces ==
  ASSUME TypeInv, TypeInv', IndexInv, PlacesInv, Next, NEW n \in Node, Still(n)
  PROVE  PlacesInv'
<1> SUFFICES StaysPut(n) /\ Alone(n) /\ Messages' = Messages /\ read' = read
  <2>1. read <= read'
    BY PlaceTypes
  <2> QED
    BY <2>1, AloneStaysPut, StaysPutStep
<1>1. CASE TunNoStart(n)
  <2>1. /\ Alone(n) /\ UNCHANGED <<hm, udp, net, read>>
        /\ tun[n].pc = "start" /\ tun'[n] = [tun[n] EXCEPT !.pc = "queue"]
    BY <1>1, Zenon DEF TunNoStart, TypeInv, TypeOK, Alone
  <2>2. tun'[n].pkt = tun[n].pkt /\ tun'[n].pc = "queue"
    <3>1. tun[n] \in [pc : {"start", "queue"}, pkt : Packets, session : {Nobody}]
      BY <2>1, TunWaitFacts, Zenon
    <3> QED
      BY ONLY <2>1, <3>1
  <2> QED
    BY ONLY <2>1, <2>2 DEF StaysPut, QueueOf, Messages
<1>2. CASE TunStart(n)
  <2>1. PICK i \in Index :
          /\ hm' = [hm EXCEPT ![n] = OpenHandshake(@, tun[n].pkt.dst, i)]
          /\ \/ /\ net' = net \cup {Stage0(n, tun[n].pkt.dst, i, 1)}
                /\ tun' = [tun EXCEPT ![n].pc = "queue"]
             \/ /\ net' = net
                /\ tun' = [tun EXCEPT ![n] = TunIdle]
    BY <1>2, Zenon DEF TunStart
  <2>2. UNCHANGED <<udp, read>> /\ tun[n].pc = "start"
    BY <1>2, Zenon DEF TunStart
  <2>3. Alone(n)
    BY <2>1, <2>2, Zenon DEF Alone, TypeInv, TypeOK
  <2>4. Messages' = Messages
    BY <2>1 DEF Messages, Stage0
  <2>5. tun[n] \in [pc : {"start", "queue"}, pkt : Packets, session : {Nobody}]
    BY <2>2, TunWaitFacts, Zenon
  <2>6. (tun'[n].pkt = tun[n].pkt /\ tun'[n].pc = "queue") \/ tun'[n].pc = "read"
    <3>1. tun'[n] = [tun[n] EXCEPT !.pc = "queue"] \/ tun'[n] = TunIdle
      BY <2>1, Zenon DEF TypeInv, TypeOK
    <3> QED
      BY ONLY <2>5, <3>1 DEF TunIdle
  <2>7. \A p \in Node : QueueOf(n, p)' = QueueOf(n, p) \/ QueueOf(n, p)' = << >>
    <3>1. hm[n] \in Tables(Packets) /\ tun[n].pkt.dst \in Node
      BY <2>5, Zenon DEF TypeInv, TypeOK, Packets
    <3>2. hm'[n] = OpenHandshake(hm[n], tun[n].pkt.dst, i)
      BY <2>1, Zenon DEF TypeInv, TypeOK
    <3> QED
      BY ONLY <3>1, <3>2, OpenEffect DEF QueueOf
  <2> QED
    BY <2>2, <2>3, <2>4, <2>6, <2>7, Zenon DEF StaysPut
<1>3. CASE HandshakeComplete(n)
  <2>1. /\ udp'[n] = IF udp[n].packets = << >> THEN UdpIdle ELSE [udp[n] EXCEPT !.pc = "flush"]
        /\ Alone(n) /\ UNCHANGED <<hm, tun, net, read>> /\ udp[n].pc = "install"
    <3>1. udp' = [udp EXCEPT ![n] = IF @.packets = << >> THEN UdpIdle ELSE [@ EXCEPT !.pc = "flush"]]
      BY <1>3, Zenon DEF HandshakeComplete
    <3>2. UNCHANGED <<hm, tun, net, read>> /\ udp[n].pc = "install"
      BY <1>3, Zenon DEF HandshakeComplete
    <3>3. udp \in [Node -> UdpStates]
      BY Zenon DEF TypeInv, TypeOK
    <3> QED
      BY ONLY <3>1, <3>2, <3>3, n \in Node DEF Alone
  <2>2. udp[n] \in [pc : {"install", "flush"}, session : Index, packets : Seq(Packets)]
    BY <2>1, UdpBusyFacts, Zenon
  <2>3. \/ udp'[n].packets = << >>
        \/ udp'[n].packets = udp[n].packets /\ udp'[n].session = udp[n].session
    BY ONLY <2>1, <2>2 DEF UdpIdle
  <2> QED
    BY ONLY <2>1, <2>3 DEF StaysPut, QueueOf, Messages, TunIdle
<1>4. CASE Restart(n)
  <2>1. Alone(n) /\ UNCHANGED <<net, read>> /\ tun'[n] = TunIdle /\ udp'[n] = UdpIdle
        /\ \A p \in Node : QueueOf(n, p)' = << >>
    BY <1>4, RestartEffect, Zenon DEF Alone, QueueOf
  <2> QED
    BY ONLY <2>1 DEF StaysPut, Messages, TunIdle, UdpIdle
<1>5. ASSUME NEW m \in Arriving(n, "stage0"), HandleStage0(n, m)
      PROVE  StaysPut(n) /\ Alone(n) /\ Messages' = Messages /\ read' = read
  <2>1. PICK r \in Index :
          /\ net' = net \cup {Stage1(n, m.src, m.initiatorIndex, r)}
          /\ udp'[n] = [pc |-> "install", session |-> r, packets |-> << >>]
          /\ \A q \in Node \ {n} : udp'[q] = udp[q]
    BY <1>5, HandleStage0Effect, Zenon
  <2>2. UNCHANGED <<hm, tun, read>>
    BY <1>5, Zenon DEF HandleStage0
  <2>3. Messages' = Messages
    BY ONLY <2>1 DEF Messages, Stage1
  <2> QED
    BY ONLY <2>1, <2>2, <2>3 DEF StaysPut, QueueOf, Alone
<1>6. ASSUME NEW m \in net, IgnoreStage1(n, m) \/ RefuseMessage(n, m)
      PROVE  StaysPut(n) /\ Alone(n) /\ Messages' = Messages /\ read' = read
  <2>1. UNCHANGED <<hm, tun, udp, net, read>>
    BY <1>6, Zenon DEF IgnoreStage1, RefuseMessage, nodeVars
  <2> QED
    BY <2>1, Zenon DEF StaysPut, Alone, QueueOf, Messages
<1>7. ASSUME NEW m, NEW intact, AcceptMessage(n, m, intact)
      PROVE  StaysPut(n) /\ Alone(n) /\ Messages' = Messages /\ read' = read
  <2>1. UNCHANGED <<hm, tun, udp, net, read>>
    BY <1>7, Zenon DEF AcceptMessage
  <2> QED
    BY <2>1, Zenon DEF StaysPut, Alone, QueueOf, Messages
<1>8. ASSUME NEW due \in SUBSET {p \in Node : InProgress(hm[n], p)}, Retry(n, due)
      PROVE  StaysPut(n) /\ Alone(n) /\ Messages' = Messages /\ read' = read
  <2>1. /\ hm'[n] = RetryPending(hm[n], due) /\ UNCHANGED <<tun, udp, read>> /\ Alone(n)
        /\ net' = net \cup
             {Stage0(n, p, hm[n].pending[p].localIndex, hm[n].pending[p].attempts + 1) :
                p \in due \ Expired(hm[n], due)}
    BY <1>8, Zenon DEF Retry, TypeInv, TypeOK, Alone
  <2>2. Messages' = Messages
    <3>1. \A p, j, a : Stage0(n, p, j, a).type # "message"
      BY DEF Stage0
    <3>2. net \subseteq net' /\ \A x \in net' \ net : x.type # "message"
      BY <2>1, <3>1, Zenon
    <3> QED
      BY <3>2 DEF Messages
  <2>3. \A p \in Node : QueueOf(n, p)' = QueueOf(n, p) \/ QueueOf(n, p)' = << >>
    <3>1. hm[n] \in Tables(Packets)
      BY Zenon DEF TypeInv, TypeOK
    <3>2. /\ \A q \in Expired(hm[n], due) : hm'[n].pending[q] = NoPending
          /\ \A q \in Node \ Expired(hm[n], due) :
               hm'[n].pending[q].pendingPackets = hm[n].pending[q].pendingPackets
      BY ONLY <2>1, <3>1, RetryEffect
    <3>3. NoPending.pendingPackets = << >>
      BY DEF NoPending
    <3> QED
      BY <3>2, <3>3, Zenon DEF QueueOf
  <2> QED
    BY <2>1, <2>2, <2>3, Zenon DEF StaysPut
<1> QED
  BY <1>1, <1>2, <1>3, <1>4, <1>5, <1>6, <1>7, <1>8, Zenon DEF Still

\* There are no packets when the nodes start.
LEMMA PlacesInit == Init => PlacesInv
<1> SUFFICES ASSUME Init PROVE PlacesInv
  OBVIOUS
<1>1. Messages = {} /\ \A n \in Node : SentBy(n) = {}
  BY Zenon DEF Init, Messages, SentBy
<1>2. \A n, p \in Node : QueueOf(n, p) = << >>
  BY Zenon DEF Init, QueueOf, EmptyTable, NoPending
<1>3. \A n \in Node : udp[n].packets = << >> /\ tun[n].pc = "read"
  BY Zenon DEF Init, UdpIdle, TunIdle
<1>4. \A n \in Node : Waiting(n) = {} /\ Flushing(n) = {}
  BY <1>2, <1>3, EmptyQueue, Zenon DEF Waiting, Flushing
<1>5. \A n, p \in Node : QueueOK(n, p)
  BY <1>2, EmptyQueue, PendingAssumption DEF QueueOK
<1>6. \A n \in Node : FlushOK(n) /\ TunOK(n) /\ Apart(n)
  BY <1>3, <1>4, EmptyQueue, Zenon DEF FlushOK, TunOK, Apart
<1> QED
  BY <1>1, <1>5, <1>6 DEF PlacesInv, NodeOK, WireOK, SentAtMostOnce

\* PlacesInv is inductive.
LEMMA PlacesNext ==
  TypeInv /\ IndexInv /\ PeersInv /\ PlacesInv /\ [Next]_vars => PlacesInv'
<1>1. ASSUME PlacesInv, UNCHANGED vars
      PROVE  PlacesInv'
  <2>1. UNCHANGED <<hm, host, tun, udp, net, read>>
    BY <1>1 DEF vars, nodeVars
  <2>2. Messages' = Messages /\ (\A n, p \in Node : QueueOf(n, p)' = QueueOf(n, p))
    BY <2>1 DEF Messages, QueueOf
  <2>3. \A n \in Node : Waiting(n)' = Waiting(n) /\ Flushing(n)' = Flushing(n) /\ SentBy(n)' = SentBy(n)
    BY <2>1, <2>2, Zenon DEF Waiting, Flushing, SentBy
  <2>4. WireOK'
    BY <1>1, <2>1, <2>2, Zenon DEF PlacesInv, WireOK, SentAtMostOnce
  <2>5. \A n, p \in Node : QueueOK(n, p)'
    BY ONLY <1>1, <2>1, <2>2 DEF PlacesInv, NodeOK, QueueOK
  <2>6. \A n \in Node : FlushOK(n)' /\ Apart(n)'
    <3>1. \A n \in Node : FlushOK(n) /\ Apart(n)
      BY <1>1, Zenon DEF PlacesInv, NodeOK
    <3>2. \A n \in Node : FlushOK(n)'
      BY ONLY <2>1, <2>3, <3>1, Zenon DEF FlushOK
    <3>3. \A n \in Node : Apart(n)'
      BY ONLY <2>3, <3>1, Zenon DEF Apart
    <3> QED
      BY <3>2, <3>3, Zenon
  <2>7. \A n \in Node : TunOK(n)'
    BY <1>1, <2>1, <2>3, Zenon DEF PlacesInv, NodeOK, TunOK
  <2> QED
    BY <2>4, <2>5, <2>6, <2>7 DEF PlacesInv, NodeOK
<1>2. ASSUME TypeInv, IndexInv, PeersInv, PlacesInv, Next
      PROVE  PlacesInv'
  <2>1. TypeInv'
    BY <1>2, NextType
  <2> QED
    BY <1>2, <2>1, NextCases, TunReadPlaces, TunSendPlaces, TunQueuePlaces, FlushPlaces,
       HandleStage1Places, StillPlaces, Zenon DEF Still
<1> QED
  BY <1>1, <1>2

\* In every execution byVpnIP leads to sessions with the right peer, and every
\* packet is in one place at a time.
THEOREM PlacesSafe == Spec => [](PeersInv /\ PlacesInv)
<1>1. TypeInv /\ IndexInv /\ PeersInv /\ PlacesInv /\ [Next]_vars => (PeersInv /\ PlacesInv)'
  BY PeersNext, PlacesNext
<1>2. Init => PeersInv /\ PlacesInv
  BY PeersInit, PlacesInit
<1> QED
  BY <1>1, <1>2, IndexSafe, PTL DEF Spec

\* consumeInsidePacket and the flush after a handshake never both send a
\* packet, and neither sends one twice.
THEOREM PacketsSentOnce == Spec => []SentAtMostOnce
<1>1. PeersInv /\ PlacesInv => SentAtMostOnce
  BY DEF PlacesInv, WireOK
<1> QED
  BY <1>1, PlacesSafe, PTL

\* The queue of a pending handshake holds packets for its peer, in the order
\* they were read.
THEOREM QueuesInOrder == Spec => []QueueInOrder
<1>1. PeersInv /\ PlacesInv => QueueInOrder
  <2> SUFFICES ASSUME PlacesInv, NEW n \in Node, NEW p \in Node
               PROVE  /\ Len(QueueOf(n, p)) <= maxPendingPackets
                      /\ \A j \in 1 .. Len(QueueOf(n, p)) :
                           QueueOf(n, p)[j].src = n /\ QueueOf(n, p)[j].dst = p
                      /\ \A j, k \in 1 .. Len(QueueOf(n, p)) :
                           j < k => QueueOf(n, p)[j].id < QueueOf(n, p)[k].id
    BY Zenon DEF QueueInOrder, QueueOf
  <2>1. QueueOK(n, p)
    BY DEF PlacesInv, NodeOK
  <2> QED
    BY <2>1, Zenon DEF QueueOK, Elems, Ordered
<1> QED
  BY <1>1, PlacesSafe, PTL

-----------------------------------------------------------------------------
(* Replays.                                                                *)

\* The window never holds a counter beyond its end.
WindowsEnd ==
  \A n \in Node, i \in Index : host[n][i] # Nobody =>
    \A c \in host[n][i].window : c <= host[n][i].windowEnd

\* n will never accept m again: its counter is marked, or the index it is
\* addressed to is spent.
Seen(n, m) ==
  \/ /\ host[n][m.remoteIndex] # Nobody
     /\ m.counter \in host[n][m.remoteIndex].window
  \/ /\ host[n][m.remoteIndex] = Nobody /\ hm[n].indexMap[m.remoteIndex] = Nobody
     /\ m.remoteIndex <= drawn[n]

\* A packet that was written to the TUN device was written once, by its
\* destination, from a message that will not be accepted again.
WrittenSeen ==
  \A n \in Node, k \in Packets : written[n][k] # 0 =>
    /\ written[n][k] = 1 /\ k.dst = n
    /\ \E m \in Messages : m.pkt = k /\ Seen(n, m)

\* WrittenAtMostOnce is not inductive: a second write is impossible because
\* the only message that carries the packet is marked, or the session that
\* could open it is gone for good.
WriteInv == WindowsEnd /\ WrittenSeen

\* A message that cannot be accepted again stays so: marks are kept, and a
\* spent index gets no session.
LEMMA SeenStays ==
  ASSUME TypeInv, IndexInv, Next, NEW n \in Node, NEW m, m.remoteIndex \in Index, Seen(n, m)
  PROVE  Seen(n, m)'
<1> DEFINE i == m.remoteIndex
<1>1. i \in Index
  OBVIOUS
<1>2. CASE host[n][i] # Nobody /\ m.counter \in host[n][i].window
  <2>1. CASE host'[n][i] # Nobody /\ SameSession(host[n][i], host'[n][i])
    BY <1>2, <2>1, Zenon DEF Seen, SameSession
  <2>2. CASE host'[n][i] = Nobody /\ Restart(n)
    <3>1. hm'[n].indexMap[i] = Nobody /\ drawn' = drawn
      BY <1>1, <2>2, RestartEffect, Zenon
    <3>2. i <= drawn[n]
      BY <1>1, <1>2, Zenon DEF IndexInv, IndexesFresh, HostFresh
    <3> QED
      BY <2>2, <3>1, <3>2, Zenon DEF Seen
  <2> QED
    BY <1>1, <1>2, <2>1, <2>2, StepHistory, Zenon
<1>3. CASE host[n][i] = Nobody /\ hm[n].indexMap[i] = Nobody /\ i <= drawn[n]
  <2>1. SpentStays
    BY StepHistory, Zenon
  <2> QED
    BY <1>1, <1>3, <2>1, Zenon DEF SpentStays, Seen
<1> QED
  BY <1>2, <1>3, Zenon DEF Seen

\* HandleStage1 changes a window only by building a new HostInfo.
LEMMA HandleStage1Windows ==
  ASSUME TypeInv, NEW n \in Node, NEW m \in Arriving(n, "stage1"), NEW intact \in BOOLEAN,
         HandleStage1(n, m, intact)
  PROVE  \A q \in Node, j \in Index : host'[q][j] = host[q][j] \/ host'[q][j].window = {}
<1> DEFINE i == m.remoteIndex
           h == InitiatorHost(n, i, hm[n].indexMap[i], m.responderIndex)
<1>1. \/ host' = [host EXCEPT ![n][i] = h]
      \/ host' = host
  BY Zenon DEF HandleStage1, InitiatorHost
<1>2. h.window = {}
  BY Zenon DEF InitiatorHost, NewHost
<1>3. i \in Index
  BY ArrivingType
<1> HIDE DEF i, h
<1>4. CASE host' = [host EXCEPT ![n][i] = h]
  <2>1. host \in [Node -> [Index -> Hosts \cup {Nobody}]]
    BY DEF TypeInv, TypeOK
  <2>2. host'[n][i] = h /\ \A q \in Node, j \in Index : q # n \/ j # i => host'[q][j] = host[q][j]
    BY <1>3, <1>4, <2>1
  <2> QED
    BY <1>2, <2>2, Zenon
<1> QED
  BY <1>1, <1>4

\* What a step may do to the window of a session.
LEMMA WindowStep ==
  ASSUME TypeInv, Next, NEW q \in Node, NEW j \in Index, host'[q][j] # Nobody
  PROVE  \/ host'[q][j].window = {}
         \/ /\ host[q][j] # Nobody /\ host'[q][j].window = host[q][j].window
            /\ host'[q][j].windowEnd = host[q][j].windowEnd
         \/ /\ host[q][j] # Nobody
            /\ \E c \in Nat : host'[q][j] = Marked(host[q][j], c)
<1>1. ASSUME NEW n \in Node, TunSend(n) \/ Flush(n)
      PROVE  /\ host[q][j] # Nobody /\ host'[q][j].window = host[q][j].window
             /\ host'[q][j].windowEnd = host[q][j].windowEnd
  <2>1. PICK i \in Index, k \in Packets : host[n][i] # Nobody /\ sendToRemote(n, i, k)
    <3>1. CASE TunSend(n)
      BY <3>1, ReaderFacts, Zenon DEF TunSend
    <3>2. CASE Flush(n)
      <4>1. udp[n].packets \in Seq(Packets) /\ udp[n].packets # << >>
        BY <3>2, ReaderFacts, Zenon DEF Flush
      <4>2. Head(udp[n].packets) \in Packets
        BY <4>1, TailFacts
      <4> QED
        BY <3>2, <4>2, ReaderFacts, Zenon DEF Flush
    <3> QED
      BY <1>1, <3>1, <3>2, Zenon
  <2>2. /\ HostsKept
        /\ host'[n][i].windowEnd = host[n][i].windowEnd /\ host'[n][i].window = host[n][i].window
        /\ \A r \in Node, l \in Index : r # n \/ l # i => host'[r][l] = host[r][l]
    BY <2>1, SendKeeps, Zenon
  <2> QED
    BY <2>2, Zenon DEF HostsKept
<1>2. ASSUME NEW n \in Node, NEW m \in Arriving(n, "message"), NEW intact \in BOOLEAN,
             AcceptMessage(n, m, intact)
      PROVE  \/ host'[q][j] = host[q][j]
             \/ /\ host[q][j] # Nobody
                /\ \E c \in Nat : host'[q][j] = Marked(host[q][j], c)
  <2>1. m.remoteIndex \in Index /\ m.counter \in Nat /\ host[n][m.remoteIndex] \in Hosts
    BY <1>2, ArrivingType, AcceptEffect
  <2>2. /\ host'[n][m.remoteIndex] = Marked(host[n][m.remoteIndex], m.counter)
        /\ \A r \in Node, l \in Index : r # n \/ l # m.remoteIndex => host'[r][l] = host[r][l]
    BY <1>2, <2>1, AcceptEffect, BuildType
  <2>3. host[n][m.remoteIndex] # Nobody
    BY <2>1, NoHostAssumption, Zenon
  <2> QED
    BY <2>1, <2>2, <2>3, Zenon
<1>3. ASSUME NEW n \in Node, NEW m \in Arriving(n, "stage0"), HandleStage0(n, m)
      PROVE  host'[q][j] = host[q][j] \/ host'[q][j].window = {}
  <2>1. PICK r \in Index :
          /\ host'[n][r] = ResponderHost(m.src, m.initiatorIndex, n, r)
          /\ \A x \in Node, l \in Index : x # n \/ l # r => host'[x][l] = host[x][l]
    BY <1>3, HandleStage0Host, Zenon
  <2>2. host'[n][r].window = {}
    BY ONLY <2>1 DEF ResponderHost, NewHost
  <2> QED
    BY <2>1, <2>2
<1>4. ASSUME NEW n \in Node, NEW m \in Arriving(n, "stage1"), NEW intact \in BOOLEAN,
             HandleStage1(n, m, intact)
      PROVE  host'[q][j] = host[q][j] \/ host'[q][j].window = {}
  BY <1>4, HandleStage1Windows, Zenon
<1>5. ASSUME NEW n \in Node, Restart(n)
      PROVE  host'[q][j] = host[q][j]
  BY <1>5, RestartHosts, Zenon
<1>6. ASSUME NEW n \in Node,
             \/ \E p \in Node : TunRead(n, p)
             \/ TunNoStart(n) \/ TunStart(n) \/ TunQueue(n)
             \/ \E m \in net : IgnoreStage1(n, m) \/ RefuseMessage(n, m)
             \/ HandshakeComplete(n)
             \/ \E due \in SUBSET {p \in Node : InProgress(hm[n], p)} : Retry(n, due)
      PROVE  host'[q][j] = host[q][j]
  BY <1>6, Zenon DEF TunRead, TunNoStart, TunStart, TunQueue, IgnoreStage1, RefuseMessage,
     HandshakeComplete, Retry, nodeVars
<1> QED
  BY <1>1, <1>2, <1>3, <1>4, <1>5, <1>6, NextCases, Zenon

\* WindowsEnd is inductive.
LEMMA WindowsNext == ASSUME TypeInv, WindowsEnd, Next PROVE WindowsEnd'
<1> SUFFICES ASSUME NEW q \in Node, NEW j \in Index, host'[q][j] # Nobody,
                    NEW c \in host'[q][j].window
             PROVE  c <= host'[q][j].windowEnd
  BY Zenon DEF WindowsEnd
<1>1. CASE host'[q][j].window = {}
  BY <1>1, Zenon
<1>2. CASE /\ host[q][j] # Nobody /\ host'[q][j].window = host[q][j].window
           /\ host'[q][j].windowEnd = host[q][j].windowEnd
  BY <1>2 DEF WindowsEnd
<1>3. ASSUME host[q][j] # Nobody, NEW d \in Nat, host'[q][j] = Marked(host[q][j], d)
      PROVE  c <= host'[q][j].windowEnd
  <2>1. /\ host[q][j] \in Hosts /\ host[q][j].windowEnd \in Nat
        /\ host[q][j].window \subseteq Nat
    BY <1>3, HostFacts, Zenon
  <2>2. /\ host'[q][j].windowEnd =
             IF d > host[q][j].windowEnd THEN d ELSE host[q][j].windowEnd
        /\ host'[q][j].window = host[q][j].window \cup {d}
    BY <1>3, <2>1 DEF Marked, Hosts
  <2>3. c = d \/ (c \in Nat /\ c <= host[q][j].windowEnd)
    BY <1>3, <2>1, <2>2, Zenon DEF WindowsEnd
  <2> QED
    BY ONLY <1>3, <2>1, <2>2, <2>3
<1> QED
  BY <1>1, <1>2, <1>3, WindowStep, Zenon

\* net keeps every datagram ever sent.
LEMMA NetGrows == ASSUME TypeInv, Next PROVE net \subseteq net'
<1>1. ASSUME NEW n \in Node, TunStart(n) \/ Restart(n)
      PROVE  net \subseteq net'
  BY <1>1 DEF TunStart, Restart
<1>2. ASSUME NEW n \in Node, NEW m, HandleStage0(n, m)
      PROVE  net \subseteq net'
  BY <1>2 DEF HandleStage0
<1>3. ASSUME NEW n \in Node, NEW m, NEW intact, HandleStage1(n, m, intact)
      PROVE  net \subseteq net'
  BY <1>3, Zenon DEF HandleStage1
<1>4. ASSUME NEW n \in Node, NEW due, Retry(n, due)
      PROVE  net \subseteq net'
  BY <1>4, Zenon DEF Retry
<1> QED
  BY <1>1, <1>2, <1>3, <1>4, StepCases, QuiescentEffect, Zenon

\* WrittenSeen is preserved: an accepted message was not marked, and is now.
LEMMA WrittenNext ==
  ASSUME TypeInv, IndexInv, PlacesInv, WriteInv, Next
  PROVE  WrittenSeen'
<1>1. Messages \subseteq Messages'
  <2>1. net \subseteq net'
    BY NetGrows
  <2> QED
    BY <2>1 DEF Messages
<1>2. ASSUME NEW n \in Node, NEW k \in Packets, written[n][k] # 0
      PROVE  /\ written[n][k] = 1 /\ k.dst = n
             /\ \E m \in Messages' : m.pkt = k /\ Seen(n, m)'
  <2>1. PICK m \in Messages : m.pkt = k /\ Seen(n, m)
    BY <1>2 DEF WriteInv, WrittenSeen
  <2>2. m.remoteIndex \in Index
    BY MessageFacts
  <2>3. Seen(n, m)'
    BY <2>1, <2>2, SeenStays
  <2> QED
    BY <1>1, <1>2, <2>1, <2>3 DEF WriteInv, WrittenSeen
<1>3. CASE written' = written
  BY <1>2, <1>3 DEF WrittenSeen
<1>4. ASSUME NEW n \in Node, NEW m \in Arriving(n, "message"), NEW intact \in BOOLEAN,
             AcceptMessage(n, m, intact), written' # written
      PROVE  WrittenSeen'
  <2> DEFINE i == m.remoteIndex
  <2>1. /\ m \in Messages /\ i \in Index /\ m.counter \in Nat /\ m.pkt \in Packets /\ m.dst = n
    BY ArrivingType
  <2>2. /\ i \in byIndex[n] /\ ~ IsReplay(host[n][i], m.counter)
        /\ written' = [written EXCEPT ![n][m.pkt] = @ + 1]
    BY <1>4, Zenon DEF AcceptMessage
  <2>3. /\ host[n][i] \in Hosts /\ host[n][i] # Nobody
        /\ host'[n][i] = Marked(host[n][i], m.counter)
    BY <1>4, <2>1, AcceptEffect, BuildType, NoHostAssumption
  <2>4. m.counter \notin host[n][i].window
    <3>1. \A c \in host[n][i].window : c <= host[n][i].windowEnd
      BY <2>1, <2>3, Zenon DEF WriteInv, WindowsEnd
    <3> QED
      BY <2>2, <3>1, Zenon DEF IsReplay
  <2>5. ~ Seen(n, m)
    BY <2>3, <2>4, Zenon DEF Seen
  <2>6. written[n][m.pkt] = 0
    <3> SUFFICES ASSUME written[n][m.pkt] # 0 PROVE FALSE
      OBVIOUS
    <3>1. PICK m2 \in Messages : m2.pkt = m.pkt /\ Seen(n, m2)
      BY <2>1 DEF WriteInv, WrittenSeen
    <3>2. m2 = m
      BY <2>1, <3>1 DEF PlacesInv, WireOK, SentAtMostOnce
    <3> QED
      BY <2>5, <3>1, <3>2
  <2>7. m.pkt.dst = n
    BY <2>1 DEF PlacesInv, WireOK
  <2>8. Seen(n, m)'
    <3>1. host'[n][i].window = host[n][i].window \cup {m.counter}
      BY <2>3 DEF Marked, Hosts
    <3>2. Marked(host[n][i], m.counter) \in Hosts
      BY <1>4, AcceptEffect
    <3> QED
      BY <2>3, <3>1, <3>2, NoHostAssumption, Zenon DEF Seen
  <2>9. /\ written'[n][m.pkt] = 1
        /\ \A q \in Node, k \in Packets : q # n \/ k # m.pkt => written'[q][k] = written[q][k]
    BY <2>1, <2>2, <2>6 DEF TypeInv, TypeOK
  <2> SUFFICES ASSUME NEW q \in Node, NEW k \in Packets, written'[q][k] # 0
               PROVE  /\ written'[q][k] = 1 /\ k.dst = q
                      /\ \E x \in Messages' : x.pkt = k /\ Seen(q, x)'
    BY Zenon DEF WrittenSeen
  <2>10. CASE q = n /\ k = m.pkt
    BY <1>1, <2>1, <2>7, <2>8, <2>9, <2>10, Zenon
  <2>11. CASE q # n \/ k # m.pkt
    BY <1>2, <2>9, <2>11
  <2> QED
    BY <2>10, <2>11, Zenon
<1>5. \/ written' = written
      \/ \E n \in Node : \E m, intact :
           m \in Arriving(n, "message") /\ intact \in BOOLEAN /\ AcceptMessage(n, m, intact)
  <2>1. ASSUME NEW n \in Node,
               \/ \E p \in Node : TunRead(n, p)
               \/ TunSend(n) \/ TunNoStart(n) \/ TunStart(n) \/ TunQueue(n)
               \/ HandshakeComplete(n) \/ Flush(n) \/ Restart(n)
        PROVE  written' = written
    BY <2>1, Zenon DEF TunRead, TunSend, TunNoStart, TunStart, TunQueue, HandshakeComplete, Flush, Restart
  <2>2. ASSUME NEW n \in Node,
               \/ \E m : HandleStage0(n, m) \/ IgnoreStage1(n, m) \/ RefuseMessage(n, m)
               \/ \E m, intact : HandleStage1(n, m, intact)
               \/ \E due : Retry(n, due)
        PROVE  written' = written
    BY <2>2, Zenon DEF HandleStage0, HandleStage1, IgnoreStage1, RefuseMessage, Retry
  <2> QED
    BY <2>1, <2>2, NextCases
<1> QED
  BY <1>3, <1>4, <1>5

\* WriteInv is inductive.
LEMMA WriteNext ==
  TypeInv /\ IndexInv /\ PlacesInv /\ WriteInv /\ [Next]_vars => WriteInv'
<1>1. ASSUME WriteInv, UNCHANGED vars
      PROVE  WriteInv'
  BY ONLY <1>1 DEF WriteInv, WindowsEnd, WrittenSeen, Seen, Messages, vars, nodeVars
<1>2. ASSUME TypeInv, IndexInv, PlacesInv, WriteInv, Next
      PROVE  WriteInv'
  BY <1>2, WindowsNext, WrittenNext, Zenon DEF WriteInv
<1> QED
  BY <1>1, <1>2

\* Nothing was written when the nodes start.
LEMMA WriteInit == Init => WriteInv
<1> SUFFICES ASSUME Init PROVE WriteInv
  OBVIOUS
<1>1. /\ \A n \in Node, i \in Index : host[n][i] = Nobody
      /\ \A n \in Node, k \in Packets : written[n][k] = 0
  BY Zenon DEF Init
<1> QED
  BY ONLY <1>1, Zenon DEF WriteInv, WindowsEnd, WrittenSeen

\* However often the network delivers a datagram and however the nodes
\* restart, consumeOutsideMessage writes no packet to the TUN device twice.
THEOREM PacketsWrittenOnce == Spec => []WrittenAtMostOnce
<1>1. TypeInv /\ WriteInv => WrittenAtMostOnce
  <2> SUFFICES ASSUME TypeInv, WriteInv, NEW n \in Node, NEW k \in Packets
               PROVE  written[n][k] <= IF k.dst = n THEN 1 ELSE 0
    BY DEF WrittenAtMostOnce
  <2>1. written[n][k] \in Nat
    BY DEF TypeInv, TypeOK
  <2> QED
    BY <2>1 DEF WriteInv, WrittenSeen
<1> QED
  BY <1>1, WriteInit, WriteNext, IndexSafe, PlacesSafe, PTL DEF Spec

-----------------------------------------------------------------------------
(* The two halves of a session.                                            *)

\* AddHost has put session r in byIndex of p, or is the next thing its UDP
\* reader does.
Installed(p, r) == r \in byIndex[p] \/ (udp[p].pc = "install" /\ udp[p].session = r)

\* Session r of p is the responder's half of the handshake n opened under i.
Answers(n, i, p, r) ==
  /\ host[p][r] # Nobody
  /\ host[p][r].VpnIP = n /\ host[p][r].RemoteIndex = i
  /\ host[p][r].SendCipher = <<Split(n, i, p, r), "c2">>
  /\ host[p][r].RecvCipher = <<Split(n, i, p, r), "c1">>
  /\ Installed(p, r)

\* p has drawn r, and unless it restarted since it holds the matching half
\* under it.
Answered(n, i, p, r) == r <= drawn[p] /\ (booted[p] < r => Answers(n, i, p, r))

\* A stage-0 on the wire, and the handshake its index belongs to.
Asks(m) == m.type = "stage0" => hm[m.src].indexMap[m.initiatorIndex] \in {Nobody, m.dst}

\* A stage-1 on the wire: for the handshake its index belongs to, from a
\* responder that holds its half.
Replies(m) ==
  m.type = "stage1" =>
    /\ hm[m.dst].indexMap[m.remoteIndex] \in {Nobody, m.src}
    /\ Answered(m.dst, m.remoteIndex, m.src, m.responderIndex)

\* A session built by an initiator: the initiator's keys of the split, and a
\* responder that holds the others.
Matched(n, i) ==
  host[n][i] # Nobody /\ IsInitiator(n, i) =>
    /\ host[n][i].SendCipher = <<Split(n, i, host[n][i].VpnIP, host[n][i].RemoteIndex), "c1">>
    /\ host[n][i].RecvCipher = <<Split(n, i, host[n][i].VpnIP, host[n][i].RemoteIndex), "c2">>
    /\ Answered(n, i, host[n][i].VpnIP, host[n][i].RemoteIndex)

\* InitiatorAnswered is not inductive: what the initiator builds comes from a
\* stage-1 on the wire, so every stage-1 must be known to match a responder,
\* for as long as it can be delivered.
TrafficInv ==
  /\ \A m \in net : Asks(m) /\ Replies(m)
  /\ \A n \in Node, i \in Index : Matched(n, i)

\* Only a restart takes a session out of byIndex.
LEMMA InstalledStays ==
  ASSUME TypeInv, Next, NEW p \in Node, NEW r \in Index, Installed(p, r), ~ Restart(p)
  PROVE  Installed(p, r)'
<1>1. ASSUME NEW n \in Node, HandshakeComplete(n)
      PROVE  Installed(p, r)'
  <2>1. /\ byIndex' = [byIndex EXCEPT ![n] = @ \cup {udp[n].session}]
        /\ \A q \in Node \ {n} : udp'[q] = udp[q]
    BY <1>1, Zenon DEF HandshakeComplete, TypeInv, TypeOK
  <2>2. /\ byIndex'[n] = byIndex[n] \cup {udp[n].session}
        /\ \A q \in Node \ {n} : byIndex'[q] = byIndex[q]
    BY <2>1, Zenon DEF TypeInv, TypeOK
  <2> QED
    BY <2>1, <2>2, Zenon DEF Installed
<1>2. ASSUME NEW n \in Node, Restart(n)
      PROVE  Installed(p, r)'
  <2>1. n # p
    BY <1>2
  <2>2. byIndex'[p] = byIndex[p] /\ udp'[p] = udp[p]
    BY <1>2, <2>1, RestartHosts, Zenon
  <2> QED
    BY <2>2, Zenon DEF Installed
<1>3. ASSUME NEW n \in Node, byIndex' = byIndex,
             \A q \in Node \ {n} : udp'[q] = udp[q], udp'[n] = udp[n] \/ udp[n].pc # "install"
      PROVE  Installed(p, r)'
  BY <1>3, Zenon DEF Installed
<1>4. ASSUME NEW n \in Node,
             \/ \E q \in Node : TunRead(n, q)
             \/ TunSend(n) \/ TunNoStart(n) \/ TunStart(n) \/ TunQueue(n)
             \/ \E m \in net : IgnoreStage1(n, m) \/ RefuseMessage(n, m)
             \/ \E m, intact : AcceptMessage(n, m, intact)
             \/ \E due : Retry(n, due)
      PROVE  Installed(p, r)'
  <2>1. UNCHANGED <<byIndex, udp>>
    BY <1>4, Zenon DEF TunRead, TunSend, TunNoStart, TunStart, TunQueue, IgnoreStage1, RefuseMessage,
       AcceptMessage, Retry, nodeVars
  <2> QED
    BY <2>1, Zenon DEF Installed
<1>5. ASSUME NEW n \in Node,
             \/ Flush(n)
             \/ \E m : HandleStage0(n, m)
             \/ \E m, intact : HandleStage1(n, m, intact)
      PROVE  Installed(p, r)'
  <2>1. byIndex' = byIndex /\ udp[n].pc # "install"
    BY <1>5, Zenon DEF Flush, HandleStage0, HandleStage1
  <2>2. \A q \in Node \ {n} : udp'[q] = udp[q]
    <3>1. udp' = udp \/ \E u : udp' = [udp EXCEPT ![n] = u]
      BY <1>5, Zenon DEF Flush, HandleStage0, HandleStage1
    <3>2. udp \in [Node -> UdpStates]
      BY Zenon DEF TypeInv, TypeOK
    <3> QED
      BY ONLY <3>1, <3>2, Zenon
  <2> QED
    BY <1>3, <2>1, <2>2, Zenon
<1> QED
  BY <1>1, <1>2, <1>4, <1>5, NextCases, Zenon

\* drawn never falls, and booted moves only with a restart.
LEMMA CounterStep ==
  ASSUME TypeInv, Next, NEW q \in Node
  PROVE  /\ drawn[q] \in Nat /\ drawn'[q] \in Nat /\ booted[q] \in Nat
         /\ drawn[q] <= drawn'[q]
         /\ ~ Restart(q) => booted'[q] = booted[q]
<1>1. drawn[q] \in Nat /\ booted[q] \in Nat
  BY CountFacts
<1>2. ASSUME NEW n \in Node, Restart(n)
      PROVE  drawn' = drawn /\ (~ Restart(q) => booted'[q] = booted[q])
  BY <1>2, RestartEffect, Zenon
<1>3. ASSUME NEW n \in Node,
             TunStart(n) \/ \E m \in Arriving(n, "stage0") : HandleStage0(n, m)
      PROVE  (\E i \in Index : randomIndex(n, i)) /\ booted' = booted
  BY <1>3, Zenon DEF TunStart, HandleStage0
<1>4. ASSUME NEW n \in Node,
             \/ \E m, intact : HandleStage1(n, m, intact)
             \/ \E due : Retry(n, due)
      PROVE  UNCHANGED <<drawn, booted>>
  BY <1>4, Zenon DEF HandleStage1, Retry
<1>5. ASSUME NEW n \in Node, NEW i \in Index, randomIndex(n, i)
      PROVE  drawn'[q] \in Nat /\ drawn[q] <= drawn'[q]
  BY <1>5, DrawnStep, Zenon
<1>6. UNCHANGED drawn => drawn'[q] \in Nat /\ drawn[q] <= drawn'[q]
  BY <1>1
<1> QED
  BY <1>1, <1>2, <1>3, <1>4, <1>5, <1>6, StepCases, QuiescentEffect, Zenon

\* An index that was drawn is never given to another peer.
LEMMA IndexMapStep ==
  ASSUME TypeInv, IndexInv, Next, NEW q \in Node, NEW j \in Index, j <= drawn[q]
  PROVE  hm'[q].indexMap[j] = hm[q].indexMap[j] \/ hm'[q].indexMap[j] = Nobody
<1>1. hm \in [Node -> Tables(Packets)]
  BY DEF TypeInv, TypeOK
<1>2. ASSUME NEW n \in Node, Quiescent(n)
      PROVE  hm'[q].indexMap[j] = hm[q].indexMap[j]
  BY <1>2, QuiescentEffect, Zenon DEF SameIndexes
<1>3. ASSUME NEW n \in Node, TunStart(n)
      PROVE  hm'[q].indexMap[j] = hm[q].indexMap[j]
  <2>1. PICK i \in Index :
           randomIndex(n, i) /\ hm' = [hm EXCEPT ![n] = OpenHandshake(@, tun[n].pkt.dst, i)]
    BY <1>3, Zenon DEF TunStart
  <2>2. tun[n].pkt.dst \in Node
    BY <1>3, ReaderFacts, Zenon DEF TunStart, Packets
  <2>3. i = drawn[n] + 1 /\ drawn[n] \in Nat
    BY <2>1, DrawnStep, CountFacts, Zenon
  <2>4. CASE q = n
    <3>1. j # i
      BY <2>3, <2>4 DEF Index
    <3>2. hm'[q] = OpenHandshake(hm[q], tun[n].pkt.dst, i)
      BY <1>1, <2>1, <2>4
    <3> QED
      BY ONLY <1>1, <2>2, <3>1, <3>2, OpenIndexes
  <2>5. CASE q # n
    BY <1>1, <2>1, <2>5
  <2> QED
    BY <2>4, <2>5, Zenon
<1>4. ASSUME NEW n \in Node, NEW m, HandleStage0(n, m)
      PROVE  hm' = hm
  BY <1>4 DEF HandleStage0
<1>5. ASSUME NEW n \in Node, NEW m \in Arriving(n, "stage1"), NEW intact \in BOOLEAN,
             HandleStage1(n, m, intact)
      PROVE  hm'[q].indexMap[j] = hm[q].indexMap[j] \/ hm'[q].indexMap[j] = Nobody
  <2>1. /\ m.remoteIndex \in Index /\ hm[n].indexMap[m.remoteIndex] # Nobody
        /\ hm' = [hm EXCEPT ![n] = TakeHandshake(@, m.remoteIndex)]
    BY <1>5, ArrivingType, Zenon DEF HandleStage1
  <2>2. CASE q = n
    <3>1. hm'[q] = TakeHandshake(hm[q], m.remoteIndex)
      BY <1>1, <2>1, <2>2
    <3> QED
      BY ONLY <1>1, <2>1, <2>2, <3>1, TakeEffect
  <2>3. CASE q # n
    BY <1>1, <2>1, <2>3
  <2> QED
    BY <2>2, <2>3, Zenon
<1>6. ASSUME NEW n \in Node, NEW due \in SUBSET {p \in Node : InProgress(hm[n], p)}, Retry(n, due)
      PROVE  hm'[q].indexMap[j] = hm[q].indexMap[j] \/ hm'[q].indexMap[j] = Nobody
  BY <1>6, RetryFresh, Zenon DEF Dropped
<1>7. ASSUME NEW n \in Node, Restart(n)
      PROVE  hm'[q].indexMap[j] = hm[q].indexMap[j] \/ hm'[q].indexMap[j] = Nobody
  BY <1>7, RestartEffect
<1> QED
  BY <1>2, <1>3, <1>4, <1>5, <1>6, <1>7, StepCases, Zenon

\* A responder holds its half until it restarts.
LEMMA AnsweredStays ==
  ASSUME TypeInv, IndexInv, Next, NEW n \in Node, NEW i \in Index,
         NEW p \in Node, NEW r \in Index, Answered(n, i, p, r)
  PROVE  Answered(n, i, p, r)'
<1>1. r \in Nat /\ drawn[p] \in Nat /\ booted[p] \in Nat /\ drawn'[p] \in Nat /\ drawn[p] <= drawn'[p]
  BY CounterStep DEF Index
<1>2. CASE Restart(p)
  <2>1. booted'[p] = drawn[p] /\ drawn' = drawn
    BY <1>2, RestartEffect, Zenon
  <2> QED
    BY <1>1, <2>1 DEF Answered
<1>3. CASE ~ Restart(p)
  <2>1. booted'[p] = booted[p]
    BY <1>3, CounterStep
  <2>2. r <= drawn'[p]
    BY <1>1 DEF Answered
  <2>3. ASSUME booted'[p] < r
        PROVE  Answers(n, i, p, r)'
    <3>1. Answers(n, i, p, r)
      BY <2>1, <2>3 DEF Answered
    <3>2. Installed(p, r)'
      BY <1>3, <3>1, InstalledStays, Zenon DEF Answers
    <3>3. host'[p][r] # Nobody /\ SameSession(host[p][r], host'[p][r])
      BY <1>3, <3>1, StepHistory, Zenon DEF Answers
    <3> QED
      BY <3>1, <3>2, <3>3, Zenon DEF Answers, SameSession
  <2> QED
    BY <2>2, <2>3 DEF Answered
<1> QED
  BY <1>2, <1>3

\* What is known of the datagrams on the wire stays true.
LEMMA OldTraffic ==
  ASSUME TypeInv, IndexInv, TrafficInv, Next, NEW m \in net
  PROVE  Asks(m)' /\ Replies(m)'
<1>1. CASE m.type = "stage0"
  <2>1. m.src \in Node /\ m.initiatorIndex \in Index /\ m.initiatorIndex <= drawn[m.src]
    BY <1>1, DatagramFacts DEF IndexInv, NetIndexes
  <2>2. hm[m.src].indexMap[m.initiatorIndex] \in {Nobody, m.dst}
    BY <1>1, Zenon DEF TrafficInv, Asks
  <2>3. hm'[m.src].indexMap[m.initiatorIndex] \in {Nobody, m.dst}
    BY <2>1, <2>2, IndexMapStep, Zenon
  <2> QED
    BY <1>1, <2>3, Zenon DEF Asks, Replies
<1>2. CASE m.type = "stage1"
  <2>1. /\ m.src \in Node /\ m.dst \in Node /\ m.remoteIndex \in Index
        /\ m.responderIndex \in Index /\ m.remoteIndex <= drawn[m.dst]
    BY <1>2, DatagramFacts DEF IndexInv, NetIndexes
  <2>2. /\ hm[m.dst].indexMap[m.remoteIndex] \in {Nobody, m.src}
        /\ Answered(m.dst, m.remoteIndex, m.src, m.responderIndex)
    BY <1>2, Zenon DEF TrafficInv, Replies
  <2>3. hm'[m.dst].indexMap[m.remoteIndex] \in {Nobody, m.src}
    BY <2>1, <2>2, IndexMapStep, Zenon
  <2>4. Answered(m.dst, m.remoteIndex, m.src, m.responderIndex)'
    BY <2>1, <2>2, AnsweredStays, Zenon
  <2> QED
    BY <1>2, <2>3, <2>4, Zenon DEF Asks, Replies
<1> QED
  BY <1>1, <1>2, Zenon DEF Asks, Replies

\* It is true of the datagram a step adds.
LEMMA NewTraffic ==
  ASSUME TypeInv, IndexInv, TrafficInv, Next, NEW x \in net' \ net
  PROVE  Asks(x)' /\ Replies(x)'
<1>1. hm \in [Node -> Tables(Packets)]
  BY DEF TypeInv, TypeOK
<1>2. ASSUME NEW n \in Node, Quiescent(n)
      PROVE  Asks(x)' /\ Replies(x)'
  BY <1>2, QuiescentEffect, Zenon DEF Asks, Replies
<1>3. ASSUME NEW n \in Node, TunStart(n)
      PROVE  Asks(x)' /\ Replies(x)'
  <2> DEFINE p == tun[n].pkt.dst
  <2>1. PICK i \in Index :
           /\ hm' = [hm EXCEPT ![n] = OpenHandshake(@, p, i)]
           /\ x = Stage0(n, p, i, 1)
    BY <1>3, Zenon DEF TunStart
  <2>2. p \in Node
    BY <1>3, ReaderFacts, Zenon DEF TunStart, Packets
  <2> HIDE DEF p
  <2>3. hm'[n] = OpenHandshake(hm[n], p, i)
    BY <1>1, <2>1, Zenon
  <2>4. hm'[n].indexMap[i] = p
    BY ONLY <1>1, <2>2, <2>3, OpenEffect
  <2>5. x.type = "stage0" /\ x.src = n /\ x.dst = p /\ x.initiatorIndex = i
    BY <2>1 DEF Stage0
  <2> QED
    BY <2>4, <2>5, Zenon DEF Asks, Replies
<1>4. ASSUME NEW n \in Node, NEW m \in Arriving(n, "stage0"), HandleStage0(n, m)
      PROVE  Asks(x)' /\ Replies(x)'
  <2>1. m \in net /\ m.type = "stage0" /\ m.src \in Node /\ m.dst = n /\ m.initiatorIndex \in Index
    BY ArrivingType
  <2>2. PICK r \in Index :
           /\ randomIndex(n, r)
           /\ net' = net \cup {Stage1(n, m.src, m.initiatorIndex, r)}
           /\ host'[n][r] = ResponderHost(m.src, m.initiatorIndex, n, r)
           /\ udp'[n] = [pc |-> "install", session |-> r, packets |-> << >>]
    BY <1>4, HandleStage0Effect, Zenon
  <2>3. /\ x.type = "stage1" /\ x.src = n /\ x.dst = m.src
        /\ x.remoteIndex = m.initiatorIndex /\ x.responderIndex = r
    BY ONLY <2>2 DEF Stage1
  <2>4. hm'[x.dst].indexMap[x.remoteIndex] \in {Nobody, x.src}
    <3>1. hm' = hm
      BY <1>4 DEF HandleStage0
    <3> QED
      BY <2>1, <2>3, <3>1, Zenon DEF TrafficInv, Asks
  <2>5. r <= drawn'[n]
    <3>1. drawn'[n] = r
      BY <2>2, DrawnStep, Zenon
    <3> QED
      BY ONLY <3>1, r \in Index DEF Index
  <2>6. Answers(m.src, m.initiatorIndex, n, r)'
    <3> DEFINE h == ResponderHost(m.src, m.initiatorIndex, n, r)
    <3>1. h # Nobody
      BY <2>1, BuiltHosts, Zenon
    <3>2. /\ h.VpnIP = m.src /\ h.RemoteIndex = m.initiatorIndex
          /\ h.SendCipher = <<Split(m.src, m.initiatorIndex, n, r), "c2">>
          /\ h.RecvCipher = <<Split(m.src, m.initiatorIndex, n, r), "c1">>
      BY ONLY Zenon DEF ResponderHost, NewHost, ciphersFromStates
    <3>3. Installed(n, r)'
      <4>1. udp'[n] = [pc |-> "install", session |-> r, packets |-> << >>]
        BY ONLY <2>2, Zenon
      <4>2. udp'[n].pc = "install" /\ udp'[n].session = r
        BY ONLY <4>1
      <4> QED
        BY ONLY <4>2, Zenon DEF Installed
    <3>4. host'[n][r] = h
      BY ONLY <2>2, Zenon
    <3> HIDE DEF h
    <3> QED
      BY ONLY <3>1, <3>2, <3>3, <3>4, Zenon DEF Answers
  <2> QED
    BY <2>3, <2>4, <2>5, <2>6, Zenon DEF Asks, Replies, Answered
<1>5. ASSUME NEW n \in Node, NEW m, NEW intact, HandleStage1(n, m, intact)
      PROVE  FALSE
  BY <1>5, Zenon DEF HandleStage1
<1>6. ASSUME NEW n \in Node, NEW due \in SUBSET {p \in Node : InProgress(hm[n], p)}, Retry(n, due)
      PROVE  Asks(x)' /\ Replies(x)'
  <2>1. PICK p \in due :
           x = Stage0(n, p, hm[n].pending[p].localIndex, hm[n].pending[p].attempts + 1)
    BY <1>6, Zenon DEF Retry
  <2>2. p \in Node /\ InProgress(hm[n], p)
    OBVIOUS
  <2> DEFINE i == hm[n].pending[p].localIndex
  <2>3. x.type = "stage0" /\ x.src = n /\ x.dst = p /\ x.initiatorIndex = i
    BY <2>1, Zenon DEF Stage0
  <2>4. i \in Index
    BY <1>1, <2>2, PendingType, Zenon
  <2>5. i <= drawn[n] /\ hm[n].indexMap[i] = p
    BY <2>2, Zenon DEF IndexInv, IndexesFresh, PendingFresh
  <2> HIDE DEF i
  <2>6. hm'[n].indexMap[i] \in {Nobody, p}
    BY <2>4, <2>5, IndexMapStep, Zenon
  <2> QED
    BY <2>3, <2>6, Zenon DEF Asks, Replies
<1>7. ASSUME NEW n \in Node, Restart(n)
      PROVE  FALSE
  BY <1>7, RestartEffect, Zenon
<1> QED
  BY <1>2, <1>3, <1>4, <1>5, <1>6, <1>7, StepCases

\* Sessions of initiators match, the one just built included.
LEMMA MatchedStep ==
  ASSUME TypeInv, IndexInv, TrafficInv, Next, NEW q \in Node, NEW j \in Index
  PROVE  Matched(q, j)'
<1> SUFFICES ASSUME host'[q][j] # Nobody, host'[q][j].SendCipher[2] = "c1"
             PROVE  Matched(q, j)'
  BY Zenon DEF Matched, IsInitiator
<1>1. CASE host[q][j] # Nobody
  <2>1. SameSession(host[q][j], host'[q][j])
    BY <1>1, StepHistory, Zenon
  <2>2. /\ host[q][j].SendCipher = <<Split(q, j, host[q][j].VpnIP, host[q][j].RemoteIndex), "c1">>
        /\ host[q][j].RecvCipher = <<Split(q, j, host[q][j].VpnIP, host[q][j].RemoteIndex), "c2">>
        /\ Answered(q, j, host[q][j].VpnIP, host[q][j].RemoteIndex)
    BY <1>1, <2>1, Zenon DEF TrafficInv, Matched, IsInitiator, SameSession
  <2>3. PICK p \in Node, r \in Index : p = host[q][j].VpnIP /\ r = host[q][j].RemoteIndex
    BY <1>1, HostFacts, Zenon
  <2>4. host'[q][j].VpnIP = p /\ host'[q][j].RemoteIndex = r
    BY <2>1, <2>3, Zenon DEF SameSession
  <2>5. /\ host'[q][j].SendCipher = <<Split(q, j, p, r), "c1">>
        /\ host'[q][j].RecvCipher = <<Split(q, j, p, r), "c2">>
        /\ Answered(q, j, p, r)
    BY <2>1, <2>2, <2>3, Zenon DEF SameSession
  <2>6. Answered(q, j, p, r)'
    BY <2>3, <2>5, AnsweredStays, Zenon
  <2> QED
    BY <2>4, <2>5, <2>6, Zenon DEF Matched
<1>2. CASE host[q][j] = Nobody
  <2>1. ASSUME NEW n \in Node, Quiescent(n)
        PROVE  FALSE
    BY <1>2, <2>1, QuiescentEffect, Zenon DEF HostsKept
  <2>2. ASSUME NEW n \in Node, TunStart(n) \/ \E due : Retry(n, due)
        PROVE  FALSE
    BY <1>2, <2>2, Zenon DEF TunStart, Retry
  <2>3. ASSUME NEW n \in Node, Restart(n)
        PROVE  FALSE
    BY <1>2, <2>3, RestartHosts, Zenon
  <2>4. ASSUME NEW n \in Node, NEW m \in Arriving(n, "stage0"), HandleStage0(n, m)
        PROVE  FALSE
    <3>1. m.src \in Node /\ m.initiatorIndex \in Index
      BY ArrivingType, Zenon
    <3>2. PICK r \in Index :
             /\ host'[n][r] = ResponderHost(m.src, m.initiatorIndex, n, r)
             /\ \A y \in Node, l \in Index : y # n \/ l # r => host'[y][l] = host[y][l]
      BY <2>4, HandleStage0Host, Zenon
    <3>3. q = n /\ j = r
      BY <1>2, <3>2, Zenon
    <3>4. host'[q][j] = ResponderHost(m.src, m.initiatorIndex, n, r)
      BY ONLY <3>2, <3>3, Zenon
    <3>5. ResponderHost(m.src, m.initiatorIndex, n, r).SendCipher =
            <<Split(m.src, m.initiatorIndex, n, r), "c2">>
      BY ONLY Zenon DEF ResponderHost, NewHost, ciphersFromStates
    <3>6. host'[q][j].SendCipher = <<Split(m.src, m.initiatorIndex, n, r), "c2">>
      BY ONLY <3>4, <3>5, Zenon
    <3> QED
      BY <3>6
  <2>5. ASSUME NEW n \in Node, NEW m \in Arriving(n, "stage1"), NEW intact \in BOOLEAN,
               HandleStage1(n, m, intact)
        PROVE  Matched(q, j)'
    <3> DEFINE i == m.remoteIndex
               p == hm[n].indexMap[i]
               r == m.responderIndex
    <3>1. m \in net /\ m.type = "stage1" /\ m.src \in Node /\ m.dst = n /\ i \in Index /\ r \in Index
      BY ArrivingType, Zenon
    <3>2. p \in Node /\ p # Nobody
      BY <2>5, HandleStage1Effect, NobodyAssumption, Zenon
    <3>3. host'[q][j] = InitiatorHost(n, i, p, r) /\ q = n /\ j = i
      <4>1. host' = [host EXCEPT ![n][i] = InitiatorHost(n, i, p, r)] \/ host' = host
        BY <2>5, Zenon DEF HandleStage1, InitiatorHost
      <4>2. host \in [Node -> [Index -> Hosts \cup {Nobody}]]
        BY Zenon DEF TypeInv, TypeOK
      <4> HIDE DEF i, p, r
      <4> QED
        BY <1>2, <3>1, <4>1, <4>2
    <3>4. p = m.src /\ Answered(n, i, m.src, r)
      BY <3>1, <3>2, Zenon DEF TrafficInv, Replies
    <3>5. /\ host'[q][j].VpnIP = p /\ host'[q][j].RemoteIndex = r
          /\ host'[q][j].SendCipher = <<Split(n, i, p, r), "c1">>
          /\ host'[q][j].RecvCipher = <<Split(n, i, p, r), "c2">>
      <4> HIDE DEF i, p, r
      <4>1. /\ InitiatorHost(n, i, p, r).VpnIP = p /\ InitiatorHost(n, i, p, r).RemoteIndex = r
            /\ InitiatorHost(n, i, p, r).SendCipher = <<Split(n, i, p, r), "c1">>
            /\ InitiatorHost(n, i, p, r).RecvCipher = <<Split(n, i, p, r), "c2">>
        BY ONLY Zenon DEF InitiatorHost, NewHost, ciphersFromStates
      <4> QED
        BY ONLY <3>3, <4>1, Zenon
    <3>6. Answered(n, i, m.src, r)'
      BY <3>1, <3>4, AnsweredStays, Zenon
    <3> HIDE DEF i, p, r
    <3>7. Answered(q, j, host[q][j].VpnIP, host[q][j].RemoteIndex)'
      <4>1. q = n /\ j = i /\ host'[q][j].VpnIP = m.src /\ host'[q][j].RemoteIndex = r
        BY <3>3, <3>4, <3>5, Zenon
      <4> QED
        BY <3>6, <4>1, Zenon
    <3> QED
      BY <3>3, <3>5, <3>7, Zenon DEF Matched
  <2> QED
    BY <2>1, <2>2, <2>3, <2>4, <2>5, StepCases, Zenon
<1> QED
  BY <1>1, <1>2

\* TrafficInv is inductive.
LEMMA TrafficNext == TypeInv /\ IndexInv /\ TrafficInv /\ [Next]_vars => TrafficInv'
<1>1. ASSUME TrafficInv, UNCHANGED vars
      PROVE  TrafficInv'
  <2>1. UNCHANGED <<hm, host, byIndex, udp, net, drawn, booted>>
    BY <1>1 DEF vars, nodeVars
  <2>2. \A n, i, p, r : Answered(n, i, p, r)' <=> Answered(n, i, p, r)
    BY ONLY <2>1 DEF Answered, Answers, Installed
  <2>3. \A m \in net : Asks(m)' /\ Replies(m)'
    BY <1>1, <2>1, <2>2, Zenon DEF TrafficInv, Asks, Replies
  <2>4. \A n \in Node, i \in Index : Matched(n, i)'
    BY <1>1, <2>1, <2>2, Zenon DEF TrafficInv, Matched, IsInitiator
  <2> QED
    BY <2>1, <2>3, <2>4 DEF TrafficInv
<1>2. ASSUME TypeInv, IndexInv, TrafficInv, Next
      PROVE  TrafficInv'
  <2>1. \A m \in net' : Asks(m)' /\ Replies(m)'
    BY <1>2, OldTraffic, NewTraffic, Zenon
  <2>2. \A n \in Node, i \in Index : Matched(n, i)'
    BY <1>2, MatchedStep, Zenon
  <2> QED
    BY <2>1, <2>2 DEF TrafficInv
<1> QED
  BY <1>1, <1>2

\* There is no traffic when the nodes start.
LEMMA TrafficInit == Init => TrafficInv
<1> SUFFICES ASSUME Init PROVE TrafficInv
  OBVIOUS
<1>1. net = {} /\ \A n \in Node, i \in Index : host[n][i] = Nobody
  BY Zenon DEF Init
<1> QED
  BY ONLY <1>1, Zenon DEF TrafficInv, Matched

\* When HandleStage1 has built a session, the responder holds its half under
\* the index the session sends to, with the keys crossed over, unless it has
\* restarted since.
THEOREM SessionsAnswered == Spec => []InitiatorAnswered
<1>1. TypeInv /\ TrafficInv => InitiatorAnswered
  <2> SUFFICES ASSUME TypeInv, TrafficInv, NEW n \in Node, NEW i \in byIndex[n], IsInitiator(n, i),
                      host[n][i].RemoteIndex > booted[host[n][i].VpnIP]
               PROVE  LET p == host[n][i].VpnIP
                          r == host[n][i].RemoteIndex
                      IN  /\ Paired(n, i, p, r)
                          /\ r \in byIndex[p] \/ (udp[p].pc = "install" /\ udp[p].session = r)
    BY Zenon DEF InitiatorAnswered
  <2> DEFINE p == host[n][i].VpnIP
             r == host[n][i].RemoteIndex
  <2>1. i \in Index /\ host[n][i] # Nobody
    BY Zenon DEF TypeInv, TypeOK, LiveSessions
  <2>2. /\ host[n][i].SendCipher = <<Split(n, i, p, r), "c1">>
        /\ host[n][i].RecvCipher = <<Split(n, i, p, r), "c2">>
        /\ Answered(n, i, p, r)
    BY <2>1, Zenon DEF TrafficInv, Matched
  <2>3. p \in Node /\ r \in Index /\ booted[p] \in Nat
    BY <2>1, HostFacts, CountFacts, Zenon
  <2>4. booted[p] < r
    BY <2>3, Zenon DEF Index
  <2> HIDE DEF p, r
  <2>5. Answers(n, i, p, r)
    BY <2>2, <2>4, Zenon DEF Answered
  <2>6. Paired(n, i, p, r)
    BY <2>2, <2>5, Zenon DEF Answers, Paired
  <2>7. r \in byIndex[p] \/ (udp[p].pc = "install" /\ udp[p].session = r)
    BY <2>5, Zenon DEF Answers, Installed
  <2> QED
    BY <2>6, <2>7, Zenon DEF p, r
<1> QED
  BY <1>1, TrafficInit, TrafficNext, IndexSafe, PTL DEF Spec
=============================================================================
