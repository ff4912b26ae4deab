---------------------------- MODULE TunnelProofs ----------------------------
(***************************************************************************)
(* Proofs about sessions between nodes, for every set of nodes, every      *)
(* certificate layout, every bound and every interleaving of the TUN       *)
(* readers, the UDP readers, the tickers, restarts and a network that      *)
(* loses, delays, reorders and duplicates.                                 *)
(***************************************************************************)
EXTENDS Tunnel, TLAPS

-----------------------------------------------------------------------------
(* Types, and the HostInfo behind every index that is held.                *)

\* What Head and Tail give for a queue that is not empty: the queue moves up
\* by one place.
LEMMA TailFacts ==
  ASSUME NEW S, NEW q \in Seq(S), q # << >>
  PROVE  /\ Len(q) \in Nat \ {0} /\ Head(q) = q[1] /\ Head(q) \in S
         /\ Tail(q) \in Seq(S) /\ Len(Tail(q)) = Len(q) - 1
         /\ \A j \in 1 .. Len(q) - 1 : Tail(q)[j] = q[j + 1]
         /\ Len(q) # 1 => Tail(q) # << >>
<1>1. Len(q) \in Nat \ {0} /\ Head(q) = q[1] /\ Head(q) \in S
  OBVIOUS
<1>2. /\ Tail(q) \in Seq(S) /\ Len(Tail(q)) = Len(q) - 1
      /\ \A j \in 1 .. Len(q) - 1 : Tail(q)[j] = q[j + 1]
  OBVIOUS
<1>3. \A s \in Seq(S) : Len(s) # 0 => s # << >>
  OBVIOUS
<1>4. Len(q) # 1 => Len(Tail(q)) # 0
  BY <1>1, <1>2
<1>5. Len(Tail(q)) # 0 => Tail(q) # << >>
  BY <1>2, <1>3, Zenon
<1> QED
  BY <1>1, <1>2, <1>4, <1>5, Zenon

\* An entry of HandshakeManager.pending is the zero entry or a handshake with
\* an index.
LEMMA PendingType ==
  ASSUME NEW Pkts, NEW t \in Tables(Pkts), NEW p \in Node
  PROVE  /\ t.pending[p].attempts \in 0 .. maxHandshakeAttempts
         /\ t.pending[p].pendingPackets \in Seq(Pkts)
         /\ InProgress(t, p) => t.pending[p].localIndex \in Index /\ t.pending[p] \in Handshakes(Pkts)
         /\ ~ InProgress(t, p) => t.pending[p] = NoPending
<1>1. CASE t.pending[p] = NoPending
  BY <1>1, AttemptsAssumption DEF NoPending, InProgress
<1>2. CASE t.pending[p] \in Handshakes(Pkts)
  BY <1>2, AttemptsAssumption DEF Handshakes, InProgress
<1> QED
  BY <1>1, <1>2 DEF Tables

\* StartHandshake leaves a well-formed HandshakeManager.
LEMMA OpenType ==
  ASSUME NEW Pkts, NEW t \in Tables(Pkts), NEW p \in Node, NEW i \in Index
  PROVE  OpenHandshake(t, p, i) \in Tables(Pkts)
BY AttemptsAssumption DEF OpenHandshake, Tables, Handshakes

\* HandleStage1 taking a handshake out leaves a well-formed HandshakeManager.
LEMMA TakeType ==
  ASSUME NEW Pkts, NEW t \in Tables(Pkts), NEW i \in Index, t.indexMap[i] # Nobody
  PROVE  TakeHandshake(t, i) \in Tables(Pkts)
BY DEF TakeHandshake, Tables

\* Queueing a packet, the oldest dropped when the queue is full, gives a queue
\* of packets.
LEMMA EnqueueType ==
  ASSUME NEW Pkts, NEW q \in Seq(Pkts), NEW k \in Pkts
  PROVE  Enqueue(q, k) \in Seq(Pkts)
<1>1. CASE Len(q) >= maxPendingPackets
  <2>1. q # << >>
    BY <1>1, PendingAssumption
  <2> QED
    BY <1>1, <2>1, TailFacts DEF Enqueue
<1>2. CASE ~ (Len(q) >= maxPendingPackets)
  BY <1>2 DEF Enqueue
<1> QED
  BY <1>1, <1>2

\* QueuePacket leaves a well-formed HandshakeManager.
LEMMA QueueType ==
  ASSUME NEW Pkts, NEW t \in Tables(Pkts), NEW p \in Node, NEW k \in Pkts
  PROVE  QueuePacket(t, p, k) \in Tables(Pkts)
<1>1. CASE InProgress(t, p)
  <2>1. t.pending[p] \in Handshakes(Pkts)
    BY <1>1 DEF Tables, InProgress, NoPending
  <2>2. Enqueue(t.pending[p].pendingPackets, k) \in Seq(Pkts)
    BY <2>1, EnqueueType DEF Handshakes
  <2> QED
    BY <1>1, <2>1, <2>2, Zenon DEF QueuePacket, Tables, Handshakes
<1>2. CASE ~ InProgress(t, p)
  BY <1>2 DEF QueuePacket
<1> QED
  BY <1>1, <1>2

\* RetryPending counts no handshake beyond maxHandshakeAttempts and leaves a
\* well-formed HandshakeManager.
LEMMA RetryType ==
  ASSUME NEW Pkts, NEW t \in Tables(Pkts), NEW due \in SUBSET {p \in Node : InProgress(t, p)}
  PROVE  RetryPending(t, due) \in Tables(Pkts)
<1>1. \A p \in due \ Expired(t, due) :
        [t.pending[p] EXCEPT !.attempts = @ + 1] \in Handshakes(Pkts)
  <2> SUFFICES ASSUME NEW p \in due \ Expired(t, due)
               PROVE  [t.pending[p] EXCEPT !.attempts = @ + 1] \in Handshakes(Pkts)
    OBVIOUS
  <2>1. t.pending[p] \in Handshakes(Pkts)
    BY DEF Tables, InProgress, NoPending
  <2>2. t.pending[p].attempts \in 1 .. maxHandshakeAttempts - 1
    BY <2>1, AttemptsAssumption DEF Expired, Handshakes
  <2> QED
    BY <2>1, <2>2, AttemptsAssumption DEF Handshakes
<1> QED
  BY <1>1 DEF RetryPending, Tables, Expired

\* Every index a map or a goroutine of a node holds belongs to a HostInfo that
\* was built: byVpnIP, byIndex, the session consumeInsidePacket looked up and
\* the one HandleStage0 or HandleStage1 is installing.
LiveSessions ==
  \A n \in Node :
    /\ \A p \in Node : byVpnIP[n][p] # Nobody => host[n][byVpnIP[n][p]] # Nobody
    /\ \A i \in byIndex[n] : host[n][i] # Nobody
    /\ tun[n].pc = "send" => host[n][tun[n].session] # Nobody
    /\ udp[n].pc # "read" => host[n][udp[n].session] # Nobody
    /\ udp[n].pc = "flush" => udp[n].packets # << >>

\* TypeOK is not inductive: a HostInfo must be there when a goroutine that
\* kept its index reads or updates it.
TypeInv == TypeOK /\ LiveSessions

\* A new HandshakeManager is well-formed.
LEMMA EmptyTableType == ASSUME NEW Pkts PROVE EmptyTable \in Tables(Pkts)
BY DEF EmptyTable, Tables

\* What the TUN reader holds at each of its points.
LEMMA TunStateFacts ==
  ASSUME NEW s \in TunStates
  PROVE  /\ s.pc \in {"read", "send", "start", "queue"}
         /\ s.pc # "read" => s.pkt \in Packets
         /\ s.pc = "send" => s.session \in Index
         /\ s.pc = "read" => s = TunIdle
<1>1. CASE s = TunIdle
  BY <1>1 DEF TunIdle
<1>2. CASE s \in [pc : {"send"}, pkt : Packets, session : Index]
  BY <1>2
<1>3. CASE s \in [pc : {"start", "queue"}, pkt : Packets, session : {Nobody}]
  BY <1>3
<1> QED
  BY <1>1, <1>2, <1>3 DEF TunStates

\* What the UDP reader holds at each of its points.
LEMMA UdpStateFacts ==
  ASSUME NEW s \in UdpStates
  PROVE  /\ s.pc \in {"read", "install", "flush"}
         /\ s.packets \in Seq(Packets)
         /\ s.pc # "read" => s.session \in Index
         /\ s.pc = "read" => s = UdpIdle
<1>1. CASE s = UdpIdle
  BY <1>1 DEF UdpIdle
<1>2. CASE s \in [pc : {"install", "flush"}, session : Index, packets : Seq(Packets)]
  BY <1>2
<1> QED
  BY <1>1, <1>2 DEF UdpStates

\* What the two readers of a node hold, and that the HostInfo they hold is
\* there.
LEMMA ReaderFacts ==
  ASSUME TypeInv, NEW n \in Node
  PROVE  /\ tun[n].pc \in {"read", "send", "start", "queue"}
         /\ tun[n].pc # "read" => tun[n].pkt \in Packets
         /\ tun[n].pc = "send" => tun[n].session \in Index /\ host[n][tun[n].session] # Nobody
         /\ tun[n].pc = "read" => tun[n] = TunIdle
         /\ udp[n].pc \in {"read", "install", "flush"}
         /\ udp[n].packets \in Seq(Packets)
         /\ udp[n].pc # "read" => udp[n].session \in Index /\ host[n][udp[n].session] # Nobody
         /\ udp[n].pc = "read" => udp[n] = UdpIdle
         /\ udp[n].pc = "flush" => udp[n].packets # << >>
<1>1. tun[n] \in TunStates /\ udp[n] \in UdpStates
  BY DEF TypeInv, TypeOK
<1>2. /\ tun[n].pc = "send" => host[n][tun[n].session] # Nobody
      /\ udp[n].pc # "read" => host[n][udp[n].session] # Nobody
      /\ udp[n].pc = "flush" => udp[n].packets # << >>
  BY DEF TypeInv, LiveSessions
<1> QED
  BY <1>1, <1>2, TunStateFacts, UdpStateFacts

\* A network of nodes that have just started is well-formed.
LEMMA TypeInit == Init => TypeInv
<1> SUFFICES ASSUME Init PROVE TypeInv
  OBVIOUS
<1>1. TypeOK
  BY EmptyTableType, CertsAssumption, IndexAssumption, BoundsAssumption DEF Init, TypeOK, TunStates, UdpStates
<1>2. LiveSessions
  BY Zenon DEF Init, LiveSessions, TunIdle, UdpIdle
<1> QED
  BY <1>1, <1>2 DEF TypeInv

\* Reading a packet and looking its session up keeps the types.
LEMMA TunReadType ==
  ASSUME TypeInv, NEW n \in Node, NEW p \in Node, TunRead(n, p)
  PROVE  TypeInv'
<1>1. tun' \in [Node -> TunStates]
  <2>1. [src |-> n, dst |-> p, id |-> read + 1] \in Packets
    BY BoundsAssumption DEF TunRead, Packets, TypeInv, TypeOK
  <2>2. tun'[n] \in TunStates
    BY <2>1 DEF TunRead, TunStates, TypeInv, TypeOK
  <2> QED
    BY <2>2 DEF TunRead, TypeInv, TypeOK
<1>2. read' \in 0 .. MaxPackets
  BY BoundsAssumption DEF TunRead, TypeInv, TypeOK
<1>3. TypeOK'
  BY <1>1, <1>2, Zenon DEF TunRead, TypeInv, TypeOK
<1>4. LiveSessions'
  BY Zenon DEF TunRead, TypeInv, TypeOK, LiveSessions
<1> QED
  BY <1>3, <1>4 DEF TypeInv

\* sendToRemote advances one counter, adds one datagram and takes no HostInfo
\* away.
LEMMA sendToRemoteType ==
  ASSUME TypeInv, NEW n \in Node, NEW i \in Index, NEW k \in Packets, host[n][i] # Nobody,
         sendToRemote(n, i, k)
  PROVE  /\ host' \in [Node -> [Index -> Hosts \cup {Nobody}]]
         /\ net' \subseteq Datagrams /\ net \subseteq net'
         /\ \A q \in Node, j \in Index : host[q][j] # Nobody => host'[q][j] # Nobody
<1>1. host[n][i] \in Hosts
  BY DEF TypeInv, TypeOK
<1>2. Message(n, host[n][i], k) \in Datagrams
  BY ONLY <1>1 DEF Hosts, Message, Datagrams
<1>3. [host[n][i] EXCEPT !.Counter = @ + 1] \in Hosts
  BY <1>1 DEF Hosts
<1>4. /\ host'[n][i] \in Hosts
      /\ \A q \in Node, j \in Index : q # n \/ j # i => host'[q][j] = host[q][j]
  BY <1>3, Zenon DEF sendToRemote, TypeInv, TypeOK
<1>5. host' \in [Node -> [Index -> Hosts \cup {Nobody}]]
  BY <1>3 DEF sendToRemote, TypeInv, TypeOK
<1>6. net' = net \cup {Message(n, host[n][i], k)} /\ net \subseteq Datagrams
  BY Zenon DEF sendToRemote, TypeInv, TypeOK
<1>7. net' \subseteq Datagrams /\ net \subseteq net'
  BY ONLY <1>2, <1>6, Zenon
<1>8. host'[n][i] # Nobody
  BY <1>4, NoHostAssumption, Zenon
<1> QED
  BY <1>4, <1>5, <1>7, <1>8, Zenon

\* Nothing but a restart takes a HostInfo away.
HostsStay == \A q \in Node, j \in Index : host[q][j] # Nobody => host'[q][j] # Nobody

\* LiveSessions survives a step that installs nothing, when the readers of the
\* node keep what they hold, let go of it, or take up an index whose HostInfo
\* is there.
LEMMA SessionsStayLive ==
  ASSUME TypeInv, HostsStay,
         NEW n \in Node, \A q \in Node \ {n} : UNCHANGED <<byVpnIP[q], byIndex[q], tun[q], udp[q]>>,
         UNCHANGED <<byVpnIP[n], byIndex[n]>>,
         \/ UNCHANGED tun[n]
         \/ tun'[n].pc # "send"
         \/ tun'[n].pc = "send" /\ tun'[n].session \in Index /\ host[n][tun'[n].session] # Nobody,
         \/ UNCHANGED udp[n]
         \/ udp'[n].pc = "read"
         \/ /\ udp'[n].session \in Index /\ host'[n][udp'[n].session] # Nobody
            /\ udp'[n].pc = "flush" => udp'[n].packets # << >>
  PROVE  LiveSessions'
<1> SUFFICES ASSUME NEW q \in Node
             PROVE  /\ \A p \in Node : byVpnIP'[q][p] # Nobody => host'[q][byVpnIP'[q][p]] # Nobody
                    /\ \A i \in byIndex'[q] : host'[q][i] # Nobody
                    /\ tun'[q].pc = "send" => host'[q][tun'[q].session] # Nobody
                    /\ udp'[q].pc # "read" => host'[q][udp'[q].session] # Nobody
                    /\ udp'[q].pc = "flush" => udp'[q].packets # << >>
  BY Zenon DEF LiveSessions
<1>1. UNCHANGED <<byVpnIP[q], byIndex[q]>>
  OBVIOUS
<1>2. \A p \in Node : byVpnIP'[q][p] # Nobody => host'[q][byVpnIP'[q][p]] # Nobody
  BY <1>1 DEF TypeInv, TypeOK, LiveSessions, HostsStay
<1>3. \A i \in byIndex'[q] : host'[q][i] # Nobody
  BY <1>1, Zenon DEF TypeInv, TypeOK, LiveSessions, HostsStay
<1>4. tun'[q].pc = "send" => host'[q][tun'[q].session] # Nobody
  BY ReaderFacts DEF HostsStay
<1>5. udp'[q].pc # "read" => host'[q][udp'[q].session] # Nobody
  BY ReaderFacts DEF HostsStay
<1>6. udp'[q].pc = "flush" => udp'[q].packets # << >>
  BY ReaderFacts
<1> QED
  BY <1>2, <1>3, <1>4, <1>5, <1>6, Zenon

\* Sending on the session that was looked up keeps the types.
LEMMA TunSendType ==
  ASSUME TypeInv, NEW n \in Node, TunSend(n)
  PROVE  TypeInv' /\ HostsStay
<1>1. tun[n].session \in Index /\ tun[n].pkt \in Packets /\ host[n][tun[n].session] # Nobody
  BY ReaderFacts, Zenon DEF TunSend
<1>2. /\ host' \in [Node -> [Index -> Hosts \cup {Nobody}]]
      /\ net' \subseteq Datagrams /\ net \subseteq net'
      /\ HostsStay
  BY <1>1, sendToRemoteType DEF TunSend, HostsStay
<1>3. tun' \in [Node -> TunStates]
  BY DEF TunSend, TypeInv, TypeOK, TunStates
<1>4. TypeOK'
  BY <1>2, <1>3 DEF TunSend, TypeInv, TypeOK
<1>5. LiveSessions'
  <2>1. tun'[n].pc # "send" /\ \A q \in Node \ {n} : UNCHANGED tun[q]
    BY DEF TunSend, TypeInv, TypeOK, TunIdle
  <2> QED
    BY <1>2, <2>1, SessionsStayLive, Zenon DEF TunSend
<1> QED
  BY <1>2, <1>4, <1>5 DEF TypeInv

\* Going on to QueuePacket without a handshake keeps the types.
LEMMA TunNoStartType ==
  ASSUME TypeInv, NEW n \in Node, TunNoStart(n)
  PROVE  TypeInv'
<1>1. tun[n] \in [pc : {"start", "queue"}, pkt : Packets, session : {Nobody}]
  BY DEF TunNoStart, TypeInv, TypeOK, TunStates, TunIdle
<1>2. [tun[n] EXCEPT !.pc = "queue"] \in TunStates
  BY <1>1 DEF TunStates
<1>3. TypeOK'
  BY <1>2 DEF TunNoStart, TypeInv, TypeOK
<1>4. tun'[n].pc # "send" /\ \A q \in Node \ {n} : UNCHANGED tun[q]
  BY <1>1 DEF TunNoStart, TypeInv, TypeOK
<1>5. HostsStay
  BY DEF HostsStay, TunNoStart
<1> QED
  BY <1>3, <1>4, <1>5, SessionsStayLive DEF TunNoStart, TypeInv

\* StartHandshake, its WriteTo failing or not, keeps the types.
LEMMA TunStartType ==
  ASSUME TypeInv, NEW n \in Node, TunStart(n)
  PROVE  TypeInv'
<1> DEFINE p == tun[n].pkt.dst
<1>1. tun[n] \in [pc : {"start", "queue"}, pkt : Packets, session : {Nobody}]
  BY DEF TunStart, TypeInv, TypeOK, TunStates, TunIdle
<1>2. p \in Node
  BY <1>1 DEF Packets
<1> HIDE DEF p
<1>3. PICK i \in Index :
        /\ randomIndex(n, i)
        /\ hm' = [hm EXCEPT ![n] = OpenHandshake(@, p, i)]
        /\ \/ /\ net' = net \cup {Stage0(n, p, i, 1)}
              /\ tun' = [tun EXCEPT ![n].pc = "queue"]
           \/ /\ net' = net
              /\ tun' = [tun EXCEPT ![n] = TunIdle]
  BY Zenon DEF TunStart, p
<1>4. [tun[n] EXCEPT !.pc = "queue"] \in TunStates /\ TunIdle \in TunStates
  BY <1>1 DEF TunStates
<1>5. tun' \in [Node -> TunStates]
  BY <1>3, <1>4, Zenon DEF TypeInv, TypeOK
<1>6. OpenHandshake(hm[n], p, i) \in Tables(Packets)
  BY <1>2, OpenType DEF TypeInv, TypeOK
<1>7. hm' \in [Node -> Tables(Packets)]
  BY <1>3, <1>6 DEF TypeInv, TypeOK
<1>8. Stage0(n, p, i, 1) \in Datagrams
  BY <1>2, AttemptsAssumption DEF Stage0, Datagrams
<1>9. net' \subseteq Datagrams /\ gone' \subseteq net'
  BY <1>3, <1>8 DEF TunStart, TypeInv, TypeOK
<1>10. drawn' \in [Node -> 0 .. MaxIndex]
  BY <1>3, IndexAssumption DEF randomIndex, TypeInv, TypeOK, Index
<1>11. TypeOK'
  BY <1>5, <1>7, <1>9, <1>10 DEF TunStart, TypeInv, TypeOK
<1>12. tun'[n].pc # "send" /\ \A q \in Node \ {n} : UNCHANGED tun[q]
  BY <1>1, <1>3 DEF TypeInv, TypeOK, TunIdle
<1>13. HostsStay
  BY DEF HostsStay, TunStart
<1> QED
  BY <1>11, <1>12, <1>13, SessionsStayLive DEF TunStart, TypeInv

\* QueuePacket keeps the types.
LEMMA TunQueueType ==
  ASSUME TypeInv, NEW n \in Node, TunQueue(n)
  PROVE  TypeInv'
<1>1. tun[n].pkt \in Packets /\ tun[n].pkt.dst \in Node
  BY ReaderFacts, Zenon DEF TunQueue, Packets
<1>2. QueuePacket(hm[n], tun[n].pkt.dst, tun[n].pkt) \in Tables(Packets)
  BY <1>1, QueueType DEF TypeInv, TypeOK
<1>3. hm' \in [Node -> Tables(Packets)] /\ tun' \in [Node -> TunStates]
  BY <1>2 DEF TunQueue, TypeInv, TypeOK, TunStates
<1>4. TypeOK'
  BY <1>3 DEF TunQueue, TypeInv, TypeOK
<1>5. tun'[n].pc # "send" /\ \A q \in Node \ {n} : UNCHANGED tun[q]
  BY DEF TunQueue, TypeInv, TypeOK, TunIdle
<1>6. HostsStay
  BY DEF HostsStay, TunQueue
<1> QED
  BY <1>4, <1>5, <1>6, SessionsStayLive DEF TunQueue, TypeInv

\* The fields of a datagram on the network.
LEMMA DatagramFacts ==
  ASSUME TypeInv, NEW m \in net
  PROVE  /\ m.src \in Node /\ m.dst \in Node
         /\ m.type = "stage0" => m.initiatorIndex \in Index
         /\ m.type = "stage1" => m.remoteIndex \in Index /\ m.responderIndex \in Index
         /\ m.type = "message" => /\ m.remoteIndex \in Index /\ m.counter \in Nat
                                  /\ m.cipher \in Ciphers /\ m.pkt \in Packets
BY DEF TypeInv, TypeOK, Datagrams

\* The fields of a HostInfo.
LEMMA HostFacts ==
  ASSUME TypeInv, NEW n \in Node, NEW i \in Index, host[n][i] # Nobody
  PROVE  /\ host[n][i] \in Hosts
         /\ host[n][i].VpnIP \in Node /\ host[n][i].RemoteIndex \in Index
         /\ host[n][i].Counter \in Nat /\ host[n][i].windowEnd \in Nat
         /\ host[n][i].window \subseteq Nat
         /\ host[n][i].SendCipher \in Ciphers /\ host[n][i].RecvCipher \in Ciphers
<1>1. host[n][i] \in Hosts
  BY DEF TypeInv, TypeOK
<1> QED
  BY <1>1 DEF Hosts

\* The same in the next state.
LEMMA HostFactsNext ==
  ASSUME TypeInv', NEW n \in Node, NEW i \in Index, host'[n][i] # Nobody
  PROVE  host'[n][i] \in Hosts /\ host'[n][i].Counter \in Nat
<1>1. host'[n][i] \in Hosts
  BY DEF TypeInv, TypeOK
<1> QED
  BY <1>1 DEF Hosts

\* A TUN reader that waits for a handshake holds a packet and no session.
LEMMA TunWaitFacts ==
  ASSUME TypeInv, NEW n \in Node, tun[n].pc \in {"start", "queue"}
  PROVE  tun[n] \in [pc : {"start", "queue"}, pkt : Packets, session : {Nobody}]
<1>1. tun[n] \in TunStates
  BY Zenon DEF TypeInv, TypeOK
<1>2. tun[n] \notin [pc : {"send"}, pkt : Packets, session : Index] /\ tun[n] # TunIdle
  BY DEF TunIdle
<1> QED
  BY <1>1, <1>2, Zenon DEF TunStates

\* A UDP reader that is past its read holds a session and a queue.
LEMMA UdpBusyFacts ==
  ASSUME TypeInv, NEW n \in Node, udp[n].pc # "read"
  PROVE  udp[n] \in [pc : {"install", "flush"}, session : Index, packets : Seq(Packets)]
<1>1. udp[n] \in UdpStates
  BY Zenon DEF TypeInv, TypeOK
<1>2. udp[n] # UdpIdle
  BY DEF UdpIdle
<1> QED
  BY <1>1, <1>2, Zenon DEF UdpStates

\* The indexes drawn are counted by naturals.
LEMMA CountFacts ==
  ASSUME TypeInv
  PROVE  \A n \in Node : drawn[n] \in Nat /\ booted[n] \in Nat
BY IndexAssumption DEF TypeInv, TypeOK

\* The fields of a datagram that is handed to a node.
LEMMA ArrivingType ==
  ASSUME TypeInv, NEW n \in Node
  PROVE  /\ \A m \in Arriving(n, "stage0") :
              m \in net /\ m.type = "stage0" /\ m.src \in Node /\ m.dst = n /\ m.initiatorIndex \in Index
         /\ \A m \in Arriving(n, "stage1") :
              /\ m \in net /\ m.type = "stage1" /\ m.src \in Node /\ m.dst = n
              /\ m.remoteIndex \in Index /\ m.responderIndex \in Index
         /\ \A m \in Arriving(n, "message") :
              /\ m \in Messages /\ m.src \in Node /\ m.dst = n /\ m.remoteIndex \in Index
              /\ m.counter \in Nat /\ m.cipher \in Ciphers /\ m.pkt \in Packets
BY DatagramFacts DEF Arriving, Messages

\* Only datagrams that were sent are delivered.
LEMMA ConsumeType ==
  ASSUME TypeInv, NEW m \in net, Consume(m), net \subseteq net'
  PROVE  gone' \subseteq net'
BY DEF Consume, TypeInv, TypeOK

\* A HostInfo is built under an index.
LEMMA BuildType ==
  ASSUME TypeInv, NEW n \in Node, NEW i \in Index, NEW h \in Hosts,
         host' = [host EXCEPT ![n][i] = h]
  PROVE  /\ host' \in [Node -> [Index -> Hosts \cup {Nobody}]]
         /\ host'[n][i] = h
         /\ \A q \in Node, j \in Index : q # n \/ j # i => host'[q][j] = host[q][j]
         /\ HostsStay
<1>1. /\ host' \in [Node -> [Index -> Hosts \cup {Nobody}]]
      /\ host'[n][i] = h
      /\ \A q \in Node, j \in Index : q # n \/ j # i => host'[q][j] = host[q][j]
  BY DEF TypeInv, TypeOK
<1> QED
  BY <1>1, NoHostAssumption DEF HostsStay

\* Either end of a handshake builds a well-formed HostInfo.
LEMMA NewHostType ==
  ASSUME NEW n \in Node, NEW i \in Index, NEW p \in Node, NEW r \in Index, NEW b \in BOOLEAN,
         NEW q \in Node, NEW j \in Index
  PROVE  NewHost(q, j, ciphersFromStates(Split(n, i, p, r), b)) \in Hosts
<1>1. Split(n, i, p, r) \in [initiator : Node \X Index, responder : Node \X Index]
  BY DEF Split
<1>2. /\ ciphersFromStates(Split(n, i, p, r), b).send \in Ciphers
      /\ ciphersFromStates(Split(n, i, p, r), b).recv \in Ciphers
  BY <1>1 DEF ciphersFromStates, Ciphers
<1> QED
  BY <1>2, Zenon DEF NewHost, Hosts

\* The responder half of a handshake keeps the types.
LEMMA HandleStage0Type ==
  ASSUME TypeInv, NEW n \in Node, NEW m \in Arriving(n, "stage0"), HandleStage0(n, m)
  PROVE  TypeInv'
<1>1. m \in net /\ m.src \in Node /\ m.initiatorIndex \in Index
  BY ArrivingType
<1>2. PICK r \in Index :
       /\ randomIndex(n, r)
       /\ net' = net \cup {Stage1(n, m.src, m.initiatorIndex, r)}
       /\ host' = [host EXCEPT ![n][r] =
                    NewHost(m.src, m.initiatorIndex,
                            ciphersFromStates(Split(m.src, m.initiatorIndex, n, r), FALSE))]
       /\ udp' = [udp EXCEPT ![n] = [pc |-> "install", session |-> r, packets |-> << >>]]
  BY Zenon DEF HandleStage0
<1>3. NewHost(m.src, m.initiatorIndex,
              ciphersFromStates(Split(m.src, m.initiatorIndex, n, r), FALSE)) \in Hosts
  BY <1>1, NewHostType, Zenon
<1>4. /\ host' \in [Node -> [Index -> Hosts \cup {Nobody}]]
      /\ host'[n][r] \in Hosts
      /\ HostsStay
  <2> DEFINE h == NewHost(m.src, m.initiatorIndex,
                          ciphersFromStates(Split(m.src, m.initiatorIndex, n, r), FALSE))
  <2>1. host' = [host EXCEPT ![n][r] = h] /\ h \in Hosts
    BY <1>2, <1>3, Zenon
  <2> HIDE DEF h
  <2>2. /\ host' \in [Node -> [Index -> Hosts \cup {Nobody}]]
        /\ host'[n][r] = h /\ HostsStay
    BY ONLY <2>1, TypeInv, n \in Node, r \in Index, BuildType, Zenon
  <2> QED
    BY <2>1, <2>2, Zenon
<1>5. net' \subseteq Datagrams /\ net \subseteq net'
  <2>1. Stage1(n, m.src, m.initiatorIndex, r) \in Datagrams
    BY ONLY <1>1, n \in Node, r \in Index DEF Stage1, Datagrams
  <2>2. net \subseteq Datagrams
    BY Zenon DEF TypeInv, TypeOK
  <2> QED
    BY <1>2, <2>1, <2>2, Zenon
<1>6. drawn' \in [Node -> 0 .. MaxIndex]
  BY <1>2, IndexAssumption DEF randomIndex, TypeInv, TypeOK, Index
<1>7. [pc |-> "install", session |-> r, packets |-> << >>] \in UdpStates
  BY DEF UdpStates
<1>8. udp' \in [Node -> UdpStates]
  BY <1>2, <1>7 DEF TypeInv, TypeOK
<1>9. gone' \subseteq net'
  BY <1>1, <1>5, ConsumeType DEF HandleStage0
<1>10. TypeOK'
  BY <1>4, <1>5, <1>6, <1>8, <1>9, Zenon DEF HandleStage0, TypeInv, TypeOK
<1>11. /\ udp'[n].session = r /\ udp'[n].pc = "install"
       /\ \A q \in Node \ {n} : UNCHANGED udp[q]
  BY <1>2 DEF TypeInv, TypeOK
<1>12. LiveSessions'
  BY <1>4, <1>11, SessionsStayLive, NoHostAssumption, Zenon DEF HandleStage0
<1> QED
  BY <1>10, <1>12 DEF TypeInv

\* The initiator half of a handshake, its payload intact or not, keeps the
\* types.
LEMMA HandleStage1Type ==
  ASSUME TypeInv, NEW n \in Node, NEW m \in Arriving(n, "stage1"), NEW intact \in BOOLEAN,
         HandleStage1(n, m, intact)
  PROVE  TypeInv'
<1> DEFINE i == m.remoteIndex
           p == hm[n].indexMap[i]
           h == NewHost(p, m.responderIndex,
                        ciphersFromStates(Split(n, i, p, m.responderIndex), TRUE))
           u == [pc |-> "install", session |-> i, packets |-> hm[n].pending[p].pendingPackets]
<1>1. m \in net /\ i \in Index /\ m.responderIndex \in Index
  BY ArrivingType
<1>2. hm[n] \in Tables(Packets) /\ p \in Node
  BY <1>1 DEF HandleStage1, TypeInv, TypeOK, Tables
<1>3. hm[n].pending[p].pendingPackets \in Seq(Packets)
  BY <1>2, PendingType, Zenon
<1>4. h \in Hosts
  BY <1>1, <1>2, NewHostType, Zenon
<1>5. u \in UdpStates /\ u.session = i /\ u.pc = "install"
  BY <1>1, <1>3, Zenon DEF UdpStates
<1>6. TakeHandshake(hm[n], i) \in Tables(Packets)
  BY <1>1, <1>2, TakeType, Zenon DEF HandleStage1
<1>7. /\ hm' = [hm EXCEPT ![n] = TakeHandshake(@, i)]
      /\ \/ host' = [host EXCEPT ![n][i] = h] /\ udp' = [udp EXCEPT ![n] = u]
         \/ UNCHANGED <<host, udp>>
  BY Zenon DEF HandleStage1
<1> HIDE DEF i, p, h, u
<1>8. hm' \in [Node -> Tables(Packets)] /\ udp' \in [Node -> UdpStates]
  BY <1>5, <1>6, <1>7, Zenon DEF TypeInv, TypeOK
<1>9. /\ host' \in [Node -> [Index -> Hosts \cup {Nobody}]]
      /\ HostsStay
      /\ host' = host \/ host'[n][i] \in Hosts
  <2>1. CASE host' = [host EXCEPT ![n][i] = h]
    BY <1>1, <1>4, <2>1, BuildType, Zenon
  <2>2. CASE host' = host
    BY <2>2 DEF TypeInv, TypeOK, HostsStay
  <2> QED
    BY <1>7, <2>1, <2>2
<1>10. gone' \subseteq net'
  BY <1>1, ConsumeType, Zenon DEF HandleStage1
<1>11. TypeOK'
  BY <1>8, <1>9, <1>10, Zenon DEF HandleStage1, TypeInv, TypeOK
<1>12. LiveSessions'
  <2>1. CASE host' = [host EXCEPT ![n][i] = h] /\ udp' = [udp EXCEPT ![n] = u]
    <3>1. udp'[n] = u /\ \A q \in Node \ {n} : UNCHANGED udp[q]
      BY <2>1 DEF TypeInv, TypeOK
    <3>2. host'[n][i] # Nobody
      BY <1>1, <1>4, <2>1, BuildType, NoHostAssumption, Zenon
    <3> QED
      BY <1>1, <1>5, <1>9, <3>1, <3>2, SessionsStayLive, Zenon DEF HandleStage1
  <2>2. CASE UNCHANGED <<host, udp>>
    BY <1>9, <2>2, SessionsStayLive, Zenon DEF HandleStage1
  <2> QED
    BY <1>7, <2>1, <2>2
<1> QED
  BY <1>11, <1>12 DEF TypeInv

\* A datagram that is dropped keeps the types.
LEMMA IgnoreType ==
  ASSUME TypeInv, NEW n \in Node, NEW m \in net, IgnoreStage1(n, m) \/ RefuseMessage(n, m)
  PROVE  TypeInv'
<1>1. UNCHANGED <<nodeVars, net, drawn, booted, read, written, restarts>> /\ Consume(m)
  BY Zenon DEF IgnoreStage1, RefuseMessage
<1>2. gone' \subseteq net'
  BY <1>1, ConsumeType
<1>3. TypeOK'
  BY <1>1, <1>2 DEF nodeVars, TypeInv, TypeOK
<1>4. LiveSessions'
  BY <1>1, Zenon DEF nodeVars, TypeInv, LiveSessions
<1> QED
  BY <1>3, <1>4 DEF TypeInv

\* Installing a session keeps the types; the queue to flush is then not empty.
LEMMA HandshakeCompleteType ==
  ASSUME TypeInv, NEW n \in Node, HandshakeComplete(n)
  PROVE  TypeInv'
<1> DEFINE i == udp[n].session
           p == host[n][i].VpnIP
           u == IF udp[n].packets = << >> THEN UdpIdle ELSE [udp[n] EXCEPT !.pc = "flush"]
<1>1. i \in Index /\ host[n][i] # Nobody /\ udp[n].packets \in Seq(Packets)
  BY ReaderFacts, Zenon DEF HandshakeComplete
<1>2. host[n][i] \in Hosts /\ p \in Node
  BY <1>1 DEF TypeInv, TypeOK, Hosts
<1>3. udp[n] \in [pc : {"install", "flush"}, session : Index, packets : Seq(Packets)]
  BY DEF HandshakeComplete, TypeInv, TypeOK, UdpStates, UdpIdle
<1>4. /\ u \in UdpStates
      /\ u.pc # "read" => u.session = i
      /\ u.pc = "flush" => u.packets # << >>
  BY <1>3 DEF UdpStates, UdpIdle
<1>5. /\ byVpnIP' = [byVpnIP EXCEPT ![n][p] = i]
      /\ byIndex' = [byIndex EXCEPT ![n] = @ \cup {i}]
      /\ peerCerts' = [peerCerts EXCEPT ![n] = @ \cup {p}]
      /\ udp' = [udp EXCEPT ![n] = u]
      /\ UNCHANGED <<hm, host, tun, net, gone, drawn, booted, read, written, restarts>>
  BY Zenon DEF HandshakeComplete
<1> HIDE DEF i, p, u
<1>6. TypeOK'
  BY <1>1, <1>2, <1>4, <1>5, Zenon DEF TypeInv, TypeOK
<1>7. LiveSessions'
  <2> SUFFICES ASSUME NEW q \in Node
               PROVE  /\ \A x \in Node : byVpnIP'[q][x] # Nobody => host[q][byVpnIP'[q][x]] # Nobody
                      /\ \A j \in byIndex'[q] : host[q][j] # Nobody
                      /\ tun[q].pc = "send" => host[q][tun[q].session] # Nobody
                      /\ udp'[q].pc # "read" => host[q][udp'[q].session] # Nobody
                      /\ udp'[q].pc = "flush" => udp'[q].packets # << >>
    BY <1>5, Zenon DEF LiveSessions
  <2>1. \A x \in Node : byVpnIP'[q][x] # Nobody => host[q][byVpnIP'[q][x]] # Nobody
    BY <1>1, <1>2, <1>5, Zenon DEF TypeInv, TypeOK, LiveSessions
  <2>2. \A j \in byIndex'[q] : host[q][j] # Nobody
    BY <1>1, <1>5, Zenon DEF TypeInv, TypeOK, LiveSessions
  <2>3. udp'[q] = IF q = n THEN u ELSE udp[q]
    BY <1>5 DEF TypeInv, TypeOK
  <2> QED
    BY <1>1, <1>4, <2>1, <2>2, <2>3, Zenon DEF TypeInv, LiveSessions
<1> QED
  BY <1>6, <1>7 DEF TypeInv

\* Flushing one packet of the queue keeps the types.
LEMMA FlushType ==
  ASSUME TypeInv, NEW n \in Node, Flush(n)
  PROVE  TypeInv' /\ HostsStay
<1> DEFINE u == IF Len(udp[n].packets) = 1 THEN UdpIdle
                ELSE [udp[n] EXCEPT !.packets = Tail(@)]
<1>1. /\ udp[n].session \in Index /\ host[n][udp[n].session] # Nobody
      /\ udp[n].packets \in Seq(Packets) /\ udp[n].packets # << >>
  BY ReaderFacts, Zenon DEF Flush
<1>2. Head(udp[n].packets) \in Packets
  BY <1>1
<1>3. /\ host' \in [Node -> [Index -> Hosts \cup {Nobody}]]
      /\ net' \subseteq Datagrams /\ net \subseteq net'
      /\ HostsStay
  BY <1>1, <1>2, sendToRemoteType DEF Flush, HostsStay
<1>4. udp[n] \in [pc : {"install", "flush"}, session : Index, packets : Seq(Packets)]
  BY DEF Flush, TypeInv, TypeOK, UdpStates, UdpIdle
<1>5. Len(udp[n].packets) # 1 =>
        Tail(udp[n].packets) # << >> /\ Tail(udp[n].packets) \in Seq(Packets)
  BY <1>1, TailFacts
<1>6. /\ u \in UdpStates
      /\ u.pc # "read" => u.session = udp[n].session
      /\ u.pc = "flush" => u.packets # << >>
  BY <1>4, <1>5, Zenon DEF UdpStates, UdpIdle
<1>7. udp' = [udp EXCEPT ![n] = u]
  BY DEF Flush
<1> HIDE DEF u
<1>8. udp' \in [Node -> UdpStates] /\ udp'[n] = u /\ \A q \in Node \ {n} : UNCHANGED udp[q]
  BY <1>6, <1>7 DEF TypeInv, TypeOK
<1>9. TypeOK'
  BY <1>3, <1>8 DEF Flush, TypeInv, TypeOK
<1>10. LiveSessions'
  <2>1. u.pc # "read" => udp'[n].session \in Index /\ host'[n][udp'[n].session] # Nobody
    BY <1>1, <1>3, <1>6, <1>8 DEF HostsStay
  <2> QED
    BY <1>3, <1>6, <1>8, <2>1, SessionsStayLive, Zenon DEF Flush
<1> QED
  BY <1>3, <1>9, <1>10 DEF TypeInv

\* handleMessage marks the counter in the session, whatever Decrypt says.
Marked(h, counter) ==
  [h EXCEPT !.windowEnd = IF counter > @ THEN counter ELSE @, !.window = @ \cup {counter}]

\* An accepted datagram changes one HostInfo: its counter is marked.
LEMMA AcceptEffect ==
  ASSUME TypeInv, NEW n \in Node, NEW m \in Arriving(n, "message"), NEW intact \in BOOLEAN,
         AcceptMessage(n, m, intact)
  PROVE  /\ m.remoteIndex \in byIndex[n] /\ host[n][m.remoteIndex] \in Hosts
         /\ Marked(host[n][m.remoteIndex], m.counter) \in Hosts
         /\ host' = [host EXCEPT ![n][m.remoteIndex] = Marked(host[n][m.remoteIndex], m.counter)]
<1> DEFINE i == m.remoteIndex
<1>1. i \in Index /\ m.counter \in Nat
  BY ArrivingType
<1>2. i \in byIndex[n] /\ host[n][i] \in Hosts
  BY <1>1 DEF AcceptMessage, TypeInv, TypeOK, LiveSessions
<1>3. Marked(host[n][i], m.counter) \in Hosts
  BY <1>1, <1>2, Zenon DEF Marked, Hosts
<1>4. host' = [host EXCEPT ![n][i].windowEnd = IF m.counter > @ THEN m.counter ELSE @,
                           ![n][i].window = @ \cup {m.counter}]
  BY Zenon DEF AcceptMessage
<1> HIDE DEF i
<1>5. host' = [host EXCEPT ![n][i] = Marked(host[n][i], m.counter)]
  BY <1>1, <1>2, <1>4, Zenon DEF Marked, TypeInv, TypeOK, Hosts
<1> QED
  BY <1>2, <1>3, <1>5 DEF i

\* Accepting a datagram keeps the types.
LEMMA AcceptMessageType ==
  ASSUME TypeInv, NEW n \in Node, NEW m \in Arriving(n, "message"), NEW intact \in BOOLEAN,
         AcceptMessage(n, m, intact)
  PROVE  TypeInv' /\ HostsStay
<1>1. /\ m \in net /\ m.remoteIndex \in Index /\ m.pkt \in Packets
      /\ host' \in [Node -> [Index -> Hosts \cup {Nobody}]]
      /\ HostsStay
  BY ArrivingType, AcceptEffect, BuildType DEF Messages
<1>2. written' \in [Node -> [Packets -> Nat]]
  BY <1>1 DEF AcceptMessage, TypeInv, TypeOK
<1>3. gone' \subseteq net'
  BY <1>1, ConsumeType, Zenon DEF AcceptMessage
<1>4. TypeOK'
  BY <1>1, <1>2, <1>3, Zenon DEF AcceptMessage, TypeInv, TypeOK
<1>5. LiveSessions'
  BY <1>1, SessionsStayLive, Zenon DEF AcceptMessage
<1> QED
  BY <1>1, <1>4, <1>5 DEF TypeInv

\* A tick of the retry ticker keeps the types.
LEMMA RetryStepType ==
  ASSUME TypeInv, NEW n \in Node, NEW due \in SUBSET {p \in Node : InProgress(hm[n], p)},
         Retry(n, due)
  PROVE  TypeInv'
<1>1. hm[n] \in Tables(Packets)
  BY DEF TypeInv, TypeOK
<1>2. hm' \in [Node -> Tables(Packets)]
  BY <1>1, RetryType, Zenon DEF Retry, TypeInv, TypeOK
<1>3. ASSUME NEW p \in due \ Expired(hm[n], due)
      PROVE  Stage0(n, p, hm[n].pending[p].localIndex, hm[n].pending[p].attempts + 1) \in Datagrams
  <2>1. hm[n].pending[p] \in Handshakes(Packets)
    BY ONLY <1>1 DEF Tables, InProgress, NoPending
  <2>2. /\ hm[n].pending[p].attempts + 1 \in 1 .. maxHandshakeAttempts
        /\ hm[n].pending[p].localIndex \in Index
    BY ONLY <2>1, AttemptsAssumption DEF Expired, Handshakes
  <2> QED
    BY <2>2, Zenon DEF Stage0, Datagrams
<1>4. net' \subseteq Datagrams /\ net \subseteq net'
  BY <1>3, Zenon DEF Retry, TypeInv, TypeOK
<1>5. TypeOK'
  BY <1>2, <1>4, Zenon DEF Retry, TypeInv, TypeOK
<1>6. HostsStay
  BY DEF HostsStay, Retry
<1>7. LiveSessions'
  BY <1>6, SessionsStayLive, Zenon DEF Retry
<1> QED
  BY <1>5, <1>7 DEF TypeInv

\* A restart of a node keeps the types.
LEMMA RestartType ==
  ASSUME TypeInv, NEW n \in Node, Restart(n)
  PROVE  TypeInv'
<1>1. hm' \in [Node -> Tables(Packets)]
  BY EmptyTableType, Zenon DEF Restart, TypeInv, TypeOK
<1>2. /\ tun' \in [Node -> TunStates] /\ udp' \in [Node -> UdpStates]
      /\ tun'[n] = TunIdle /\ udp'[n] = UdpIdle
      /\ \A q \in Node \ {n} : UNCHANGED <<tun[q], udp[q]>>
  BY Zenon DEF Restart, TypeInv, TypeOK, TunStates, UdpStates
<1>3. host' \in [Node -> [Index -> Hosts \cup {Nobody}]]
  BY Zenon DEF Restart, TypeInv, TypeOK
<1>4. byVpnIP' \in [Node -> [Node -> Index \cup {Nobody}]] /\ byIndex' \in [Node -> SUBSET Index]
  BY Zenon DEF Restart, TypeInv, TypeOK
<1>5. peerCerts' \in [Node -> SUBSET Node]
  BY CertsAssumption, Zenon DEF Restart, TypeInv, TypeOK
<1>6. booted' \in [Node -> 0 .. MaxIndex] /\ restarts' \in 0 .. MaxRestarts
  BY BoundsAssumption DEF Restart, TypeInv, TypeOK
<1>7. TypeOK'
  BY <1>1, <1>2, <1>3, <1>4, <1>5, <1>6, Zenon DEF Restart, TypeInv, TypeOK
<1>8. LiveSessions'
  <2> SUFFICES ASSUME NEW q \in Node
               PROVE  /\ \A p \in Node : byVpnIP'[q][p] # Nobody => host'[q][byVpnIP'[q][p]] # Nobody
                      /\ \A i \in byIndex'[q] : host'[q][i] # Nobody
                      /\ tun'[q].pc = "send" => host'[q][tun'[q].session] # Nobody
                      /\ udp'[q].pc # "read" => host'[q][udp'[q].session] # Nobody
                      /\ udp'[q].pc = "flush" => udp'[q].packets # << >>
    BY Zenon DEF LiveSessions
  <2>1. CASE q = n
    BY <1>2, <2>1, Zenon DEF Restart, TypeInv, TypeOK, TunIdle, UdpIdle
  <2>2. CASE q # n
    <3>1. UNCHANGED <<byVpnIP[q], byIndex[q], host[q], tun[q], udp[q]>>
      BY <1>2, <2>2, Zenon DEF Restart, TypeInv, TypeOK
    <3> QED
      BY <3>1, Zenon DEF TypeInv, LiveSessions
  <2> QED
    BY <2>1, <2>2, Zenon
<1> QED
  BY <1>7, <1>8 DEF TypeInv

\* The steps of Next, one by one.
LEMMA NextCases ==
  ASSUME Next
  PROVE  \E n \in Node :
           \/ \E p \in Node : TunRead(n, p)
           \/ TunSend(n) \/ TunNoStart(n) \/ TunStart(n) \/ TunQueue(n)
           \/ \E m \in Arriving(n, "stage0") : HandleStage0(n, m)
           \/ \E m \in Arriving(n, "stage1"), intact \in BOOLEAN : HandleStage1(n, m, intact)
           \/ \E m \in net : IgnoreStage1(n, m) \/ RefuseMessage(n, m)
           \/ HandshakeComplete(n) \/ Flush(n)
           \/ \E m \in Arriving(n, "message"), intact \in BOOLEAN : AcceptMessage(n, m, intact)
           \/ \E due \in SUBSET {p \in Node : InProgress(hm[n], p)} : Retry(n, due)
           \/ Restart(n)
<1>1. PICK n \in Node : TunReader(n) \/ UdpReader(n) \/ Ticker(n) \/ Restart(n)
  BY DEF Next
<1>2. CASE TunReader(n)
  BY <1>2 DEF TunReader
<1>3. CASE UdpReader(n)
  BY <1>3, Zenon DEF UdpReader, Arriving
<1>4. CASE Ticker(n)
  BY <1>4 DEF Ticker
<1> QED
  BY <1>1, <1>2, <1>3, <1>4, Zenon

\* TypeInv is inductive, action by action.
LEMMA NextType == TypeInv /\ [Next]_vars => TypeInv'
<1>1. ASSUME TypeInv, UNCHANGED vars
      PROVE  TypeInv'
  BY <1>1, Zenon DEF TypeInv, TypeOK, LiveSessions, vars, nodeVars
<1>2. ASSUME TypeInv, Next
      PROVE  TypeInv'
  BY <1>2, NextCases, TunReadType, TunSendType, TunNoStartType, TunStartType, TunQueueType,
     HandleStage0Type, HandleStage1Type, IgnoreType, HandshakeCompleteType, FlushType,
     AcceptMessageType, RetryStepType, RestartType
<1> QED
  BY <1>1, <1>2

\* The state stays well-formed in every execution; in particular attempts stay
\* within maxHandshakeAttempts and no goroutine ever touches a HostInfo that
\* was never built.
THEOREM TunnelTypes == Spec => []TypeOK
<1>1. TypeInv => TypeOK
  BY DEF TypeInv
<1> QED
  BY <1>1, TypeInit, NextType, PTL DEF Spec

-----------------------------------------------------------------------------
(* Indexes: one handshake or one session each, never used again.           *)

\* A HostInfo carries an index that its node drew after its last restart.
HostFresh(n, i) ==
  host[n][i] # Nobody => booted[n] < i /\ i <= drawn[n]

\* A pending handshake carries an index drawn after the last restart, and
\* indexMap leads from it back to the peer.
PendingFresh(n, p) ==
  InProgress(hm[n], p) => /\ booted[n] < hm[n].pending[p].localIndex
                          /\ hm[n].pending[p].localIndex <= drawn[n]
                          /\ hm[n].indexMap[hm[n].pending[p].localIndex] = p

\* indexMap leads to the handshake that carries the index, and no session has
\* that index yet.
IndexFresh(n, i) ==
  hm[n].indexMap[i] # Nobody => /\ InProgress(hm[n], hm[n].indexMap[i])
                                /\ hm[n].pending[hm[n].indexMap[i]].localIndex = i
                                /\ host[n][i] = Nobody

\* The three facts, for all nodes: indexes of handshakes and of sessions are
\* apart, and neither repeats one from before a restart.
IndexesFresh ==
  \A n \in Node : /\ booted[n] <= drawn[n]
                  /\ \A i \in Index : HostFresh(n, i) /\ IndexFresh(n, i)
                  /\ \A p \in Node : PendingFresh(n, p)

\* Handshake datagrams carry indexes that were drawn.
NetIndexes ==
  \A m \in net :
    /\ m.type = "stage0" => m.initiatorIndex <= drawn[m.src]
    /\ m.type = "stage1" => m.remoteIndex <= drawn[m.dst] /\ m.responderIndex <= drawn[m.src]

\* The inductive invariant behind MapsAgree.
IndexInv == IndexesFresh /\ NetIndexes

\* g is the session h at a later time: the same peer, indexes and keys, the
\* counter no lower, the marks all kept.
SameSession(h, g) ==
  /\ g.VpnIP = h.VpnIP /\ g.RemoteIndex = h.RemoteIndex
  /\ g.SendCipher = h.SendCipher /\ g.RecvCipher = h.RecvCipher
  /\ h.Counter <= g.Counter /\ h.window \subseteq g.window

\* A step that builds and removes no session.
HostsKept ==
  \A q \in Node, j \in Index :
    /\ host'[q][j] = Nobody <=> host[q][j] = Nobody
    /\ host[q][j] # Nobody => SameSession(host[q][j], host'[q][j])

\* A step on the HandshakeManager that opens and ends no handshake.
SameIndexes(t, u) ==
  /\ u.indexMap = t.indexMap
  /\ \A p \in Node : /\ InProgress(u, p) <=> InProgress(t, p)
                     /\ u.pending[p].localIndex = t.pending[p].localIndex

\* A session is the same as itself.
LEMMA SameSessionItself ==
  ASSUME TypeInv, NEW q \in Node, NEW j \in Index, host[q][j] # Nobody
  PROVE  SameSession(host[q][j], host[q][j])
<1>1. host[q][j].Counter \in Nat
  BY HostFacts, Zenon
<1>2. host[q][j].Counter <= host[q][j].Counter
  BY ONLY <1>1
<1> QED
  BY ONLY <1>2, Zenon DEF SameSession

\* Marking a counter leaves the rest of the session alone.
LEMMA MarkedSession ==
  ASSUME NEW h \in Hosts, NEW counter
  PROVE  SameSession(h, Marked(h, counter))
<1>1. /\ Marked(h, counter).VpnIP = h.VpnIP /\ Marked(h, counter).RemoteIndex = h.RemoteIndex
      /\ Marked(h, counter).SendCipher = h.SendCipher
      /\ Marked(h, counter).RecvCipher = h.RecvCipher
      /\ Marked(h, counter).Counter = h.Counter
      /\ Marked(h, counter).window = h.window \cup {counter}
  BY Zenon DEF Marked, Hosts
<1>2. h.Counter \in Nat
  BY Zenon DEF Hosts
<1>3. h.Counter <= h.Counter
  BY ONLY <1>2
<1> QED
  BY <1>1, <1>3, Zenon DEF SameSession

\* A step that leaves every HostInfo as it is keeps the sessions.
LEMMA UnchangedKeeps ==
  ASSUME TypeInv, UNCHANGED host
  PROVE  HostsKept
BY SameSessionItself, Zenon DEF HostsKept

\* sendToRemote keeps the sessions and takes the next counter of one of them.
LEMMA SendKeeps ==
  ASSUME TypeInv, NEW n \in Node, NEW i \in Index, NEW k \in Packets, host[n][i] # Nobody,
         sendToRemote(n, i, k)
  PROVE  /\ HostsKept
         /\ host'[n][i].Counter = host[n][i].Counter + 1
         /\ host'[n][i].windowEnd = host[n][i].windowEnd
         /\ host'[n][i].window = host[n][i].window
         /\ \A q \in Node, j \in Index : q # n \/ j # i => host'[q][j] = host[q][j]
<1>1. host[n][i] \in Hosts
  BY DEF TypeInv, TypeOK
<1>2. /\ host'[n][i] = [host[n][i] EXCEPT !.Counter = @ + 1]
      /\ \A q \in Node, j \in Index : q # n \/ j # i => host'[q][j] = host[q][j]
  BY Zenon DEF sendToRemote, TypeInv, TypeOK
<1>3. /\ SameSession(host[n][i], host'[n][i])
      /\ host'[n][i].Counter = host[n][i].Counter + 1
      /\ host'[n][i].windowEnd = host[n][i].windowEnd
      /\ host'[n][i].window = host[n][i].window
      /\ host'[n][i] \in Hosts
  BY <1>1, <1>2 DEF SameSession, Hosts
<1>4. \A q \in Node, j \in Index : host[q][j] # Nobody => SameSession(host[q][j], host[q][j])
  BY SameSessionItself, Zenon
<1>5. HostsKept
  BY <1>2, <1>3, <1>4, NoHostAssumption, Zenon DEF HostsKept
<1> QED
  BY <1>2, <1>3, <1>5, Zenon

\* Marking a counter keeps the sessions.
LEMMA AcceptKeeps ==
  ASSUME TypeInv, NEW n \in Node, NEW m \in Arriving(n, "message"), NEW intact \in BOOLEAN,
         AcceptMessage(n, m, intact)
  PROVE  HostsKept
<1> DEFINE i == m.remoteIndex
<1>1. i \in Index /\ m.counter \in Nat /\ host[n][i] \in Hosts
  <2>1. host[n][i] \in Hosts
    BY AcceptEffect, Zenon
  <2> QED
    BY <2>1, ArrivingType, Zenon
<1>2. /\ host'[n][i] = Marked(host[n][i], m.counter) /\ host'[n][i] \in Hosts
      /\ \A q \in Node, j \in Index : q # n \/ j # i => host'[q][j] = host[q][j]
  <2>1. /\ Marked(host[n][i], m.counter) \in Hosts
        /\ host' = [host EXCEPT ![n][i] = Marked(host[n][i], m.counter)]
    BY AcceptEffect, Zenon
  <2> HIDE DEF i
  <2> QED
    BY <1>1, <2>1, Zenon DEF TypeInv, TypeOK
<1>3. SameSession(host[n][i], host'[n][i])
  BY <1>1, <1>2, MarkedSession, Zenon
<1>4. \A q \in Node, j \in Index : host[q][j] # Nobody => SameSession(host[q][j], host[q][j])
  BY SameSessionItself, Zenon
<1> HIDE DEF i
<1> QED
  BY <1>1, <1>2, <1>3, <1>4, NoHostAssumption, Zenon DEF HostsKept

\* The datagram sendToRemote puts on the network.
LEMMA SendNet ==
  ASSUME NEW n, NEW i, NEW k, sendToRemote(n, i, k)
  PROVE  \E m : /\ net' = net \cup {m}
                /\ m.type = "message" /\ m.src = n /\ m.pkt = k
                /\ m.dst = host[n][i].VpnIP /\ m.remoteIndex = host[n][i].RemoteIndex
                /\ m.counter = host[n][i].Counter + 1 /\ m.cipher = host[n][i].SendCipher
<1>1. net' = net \cup {Message(n, host[n][i], k)}
  BY DEF sendToRemote
<1>2. /\ Message(n, host[n][i], k).type = "message" /\ Message(n, host[n][i], k).src = n
      /\ Message(n, host[n][i], k).pkt = k
      /\ Message(n, host[n][i], k).dst = host[n][i].VpnIP
      /\ Message(n, host[n][i], k).remoteIndex = host[n][i].RemoteIndex
      /\ Message(n, host[n][i], k).counter = host[n][i].Counter + 1
      /\ Message(n, host[n][i], k).cipher = host[n][i].SendCipher
  BY Zenon DEF Message
<1> QED
  BY <1>1, <1>2, Zenon

\* QueuePacket changes a queue and nothing else.
LEMMA QueueSameIndexes ==
  ASSUME NEW Pkts, NEW t \in Tables(Pkts), NEW p \in Node, NEW k \in Pkts
  PROVE  /\ SameIndexes(t, QueuePacket(t, p, k))
         /\ \A q \in Node :
              QueuePacket(t, p, k).pending[q].pendingPackets =
                IF q = p /\ InProgress(t, p) THEN Enqueue(t.pending[p].pendingPackets, k)
                ELSE t.pending[q].pendingPackets
<1>1. CASE InProgress(t, p)
  <2>1. t.pending[p] \in Handshakes(Pkts)
    BY <1>1 DEF Tables, InProgress, NoPending
  <2>2. /\ QueuePacket(t, p, k).indexMap = t.indexMap
        /\ QueuePacket(t, p, k).pending =
             [t.pending EXCEPT ![p].pendingPackets = Enqueue(@, k)]
    BY <1>1 DEF QueuePacket, Tables
  <2>3. \A q \in Node : q # p => QueuePacket(t, p, k).pending[q] = t.pending[q]
    BY <2>2 DEF Tables
  <2>4. QueuePacket(t, p, k).pending[p] =
          [t.pending[p] EXCEPT !.pendingPackets = Enqueue(@, k)]
    BY <2>2 DEF Tables
  <2>5. /\ QueuePacket(t, p, k).pending[p].attempts = t.pending[p].attempts
        /\ QueuePacket(t, p, k).pending[p].localIndex = t.pending[p].localIndex
        /\ QueuePacket(t, p, k).pending[p].pendingPackets = Enqueue(t.pending[p].pendingPackets, k)
    BY <2>1, <2>4 DEF Handshakes
  <2> QED
    BY <1>1, <2>2, <2>3, <2>5, Zenon DEF SameIndexes, InProgress
<1>2. CASE ~ InProgress(t, p)
  BY <1>2 DEF QueuePacket, SameIndexes
<1> QED
  BY <1>1, <1>2, Zenon

\* IndexesFresh survives a step that keeps sessions, handshakes and drawn
\* indexes.
LEMMA KeptFresh ==
  ASSUME TypeInv, IndexInv, HostsKept, UNCHANGED <<drawn, booted>>,
         \A q \in Node : SameIndexes(hm[q], hm'[q])
  PROVE  IndexesFresh'
<1> SUFFICES ASSUME NEW n \in Node
             PROVE  /\ booted[n] <= drawn[n]
                    /\ \A i \in Index : HostFresh(n, i)' /\ IndexFresh(n, i)'
                    /\ \A p \in Node : PendingFresh(n, p)'
  BY DEF IndexesFresh
<1>1. \A i \in Index : HostFresh(n, i)'
  BY Zenon DEF IndexInv, IndexesFresh, HostFresh, HostsKept, SameSession
<1>2. ASSUME NEW p \in Node PROVE PendingFresh(n, p)'
  <2>1. PendingFresh(n, p)
    BY Zenon DEF IndexInv, IndexesFresh
  <2>2. /\ hm'[n].indexMap = hm[n].indexMap
        /\ InProgress(hm'[n], p) <=> InProgress(hm[n], p)
        /\ hm'[n].pending[p].localIndex = hm[n].pending[p].localIndex
    BY Zenon DEF SameIndexes
  <2> QED
    BY <2>1, <2>2, Zenon DEF PendingFresh
<1>3. ASSUME NEW i \in Index PROVE IndexFresh(n, i)'
  <2>1. hm'[n].indexMap[i] = hm[n].indexMap[i]
    BY Zenon DEF SameIndexes
  <2>2. hm[n].indexMap[i] # Nobody => hm[n].indexMap[i] \in Node
    BY DEF TypeInv, TypeOK, Tables
  <2>3. IndexFresh(n, i) /\ (host'[n][i] = Nobody <=> host[n][i] = Nobody)
    BY Zenon DEF IndexInv, IndexesFresh, HostsKept
  <2>4. \A p \in Node : /\ InProgress(hm'[n], p) <=> InProgress(hm[n], p)
                        /\ hm'[n].pending[p].localIndex = hm[n].pending[p].localIndex
    BY Zenon DEF SameIndexes
  <2> QED
    BY ONLY <2>1, <2>2, <2>3, <2>4, Zenon DEF IndexFresh
<1>4. booted[n] <= drawn[n]
  BY DEF IndexInv, IndexesFresh
<1> QED
  BY <1>1, <1>2, <1>3, <1>4

\* What StartHandshake changes in the HandshakeManager.
LEMMA OpenEffect ==
  ASSUME NEW Pkts, NEW t \in Tables(Pkts), NEW p \in Node, NEW i \in Index
  PROVE  LET u == OpenHandshake(t, p, i)
         IN  /\ \A j \in Index : u.indexMap[j] = IF j = i THEN p ELSE t.indexMap[j]
             /\ \A q \in Node \ {p} : u.pending[q] = t.pending[q]
             /\ u.pending[p].localIndex = i /\ u.pending[p].attempts = 1
             /\ u.pending[p].pendingPackets = << >>
BY DEF OpenHandshake, Tables

\* Opening a handshake leaves the other indexes alone.
LEMMA OpenIndexes ==
  ASSUME NEW Pkts, NEW t \in Tables(Pkts), NEW p \in Node, NEW i \in Index,
         NEW j \in Index, j # i
  PROVE  OpenHandshake(t, p, i).indexMap[j] = t.indexMap[j]
BY OpenEffect

\* What taking a handshake out changes in the HandshakeManager.
LEMMA TakeEffect ==
  ASSUME NEW Pkts, NEW t \in Tables(Pkts), NEW i \in Index, t.indexMap[i] # Nobody
  PROVE  LET u == TakeHandshake(t, i)
         IN  /\ \A j \in Index : u.indexMap[j] = IF j = i THEN Nobody ELSE t.indexMap[j]
             /\ \A q \in Node : u.pending[q] = IF q = t.indexMap[i] THEN NoPending ELSE t.pending[q]
BY DEF TakeHandshake, Tables

\* What RetryPending changes: both maps lose exactly the expired handshakes.
LEMMA RetryEffect ==
  ASSUME NEW Pkts, NEW t \in Tables(Pkts), NEW due \in SUBSET {p \in Node : InProgress(t, p)}
  PROVE  LET u == RetryPending(t, due)
         IN  /\ \A j \in Index :
                  u.indexMap[j] = IF \E p \in Expired(t, due) : t.pending[p].localIndex = j
                                  THEN Nobody ELSE t.indexMap[j]
             /\ \A q \in Expired(t, due) : u.pending[q] = NoPending
             /\ \A q \in Node \ Expired(t, due) :
                  /\ InProgress(u, q) <=> InProgress(t, q)
                  /\ u.pending[q].localIndex = t.pending[q].localIndex
                  /\ u.pending[q].pendingPackets = t.pending[q].pendingPackets
<1> DEFINE u == RetryPending(t, due)
<1>1. \A j \in Index :
        u.indexMap[j] = IF \E p \in Expired(t, due) : t.pending[p].localIndex = j
                        THEN Nobody ELSE t.indexMap[j]
  BY DEF RetryPending
<1>2. \A q \in Node :
        u.pending[q] = IF q \in Expired(t, due) THEN NoPending
                       ELSE IF q \in due THEN [t.pending[q] EXCEPT !.attempts = @ + 1]
                       ELSE t.pending[q]
  BY DEF RetryPending
<1>3. Expired(t, due) \subseteq Node
  BY DEF Expired
<1> HIDE DEF u
<1>4. ASSUME NEW q \in due \ Expired(t, due)
      PROVE  /\ InProgress(u, q) /\ InProgress(t, q)
             /\ u.pending[q].localIndex = t.pending[q].localIndex
             /\ u.pending[q].pendingPackets = t.pending[q].pendingPackets
  <2>1. t.pending[q] \in Handshakes(Pkts)
    BY DEF Tables, InProgress, NoPending
  <2>2. u.pending[q] = [t.pending[q] EXCEPT !.attempts = @ + 1]
    BY <1>2
  <2> QED
    BY <2>1, <2>2, AttemptsAssumption DEF Handshakes, InProgress
<1>5. ASSUME NEW q \in Node \ Expired(t, due)
      PROVE  /\ InProgress(u, q) <=> InProgress(t, q)
             /\ u.pending[q].localIndex = t.pending[q].localIndex
             /\ u.pending[q].pendingPackets = t.pending[q].pendingPackets
  <2>1. CASE q \in due
    BY <1>4, <2>1
  <2>2. CASE q \notin due
    BY <1>2, <2>2, Zenon DEF InProgress
  <2> QED
    BY <2>1, <2>2
<1> QED
  BY <1>1, <1>2, <1>3, <1>5, Zenon DEF u

\* Indexes only grow, so what was drawn stays drawn.
LEMMA DrawnGrows ==
  ASSUME TypeInv, IndexInv, \A q \in Node : drawn'[q] \in Nat /\ drawn[q] <= drawn'[q]
  PROVE  /\ \A m \in net : /\ m.type = "stage0" => m.initiatorIndex <= drawn'[m.src]
                           /\ m.type = "stage1" => /\ m.remoteIndex <= drawn'[m.dst]
                                                   /\ m.responderIndex <= drawn'[m.src]
         /\ \A n \in Node, i \in Index : host[n][i] # Nobody => booted[n] < i /\ i <= drawn[n] /\ i <= drawn'[n]
         /\ \A n \in Node : booted[n] <= drawn'[n]
<1>1. ASSUME NEW q \in Node, NEW i \in Index, i <= drawn[q] PROVE i <= drawn'[q]
  BY <1>1, CountFacts DEF Index
<1>2. ASSUME NEW m \in net
      PROVE  /\ m.type = "stage0" => m.initiatorIndex <= drawn'[m.src]
             /\ m.type = "stage1" => /\ m.remoteIndex <= drawn'[m.dst]
                                     /\ m.responderIndex <= drawn'[m.src]
  BY <1>1, DatagramFacts DEF IndexInv, NetIndexes
<1>3. ASSUME NEW n \in Node, NEW i \in Index, host[n][i] # Nobody
      PROVE  booted[n] < i /\ i <= drawn[n] /\ i <= drawn'[n]
  BY <1>1, <1>3 DEF IndexInv, IndexesFresh, HostFresh
<1>4. \A n \in Node : booted[n] <= drawn'[n]
  BY CountFacts DEF IndexInv, IndexesFresh
<1> QED
  BY <1>2, <1>3, <1>4

\* randomIndex draws the next index of its node.
LEMMA DrawnStep ==
  ASSUME TypeInv, NEW n \in Node, NEW i \in Index, randomIndex(n, i)
  PROVE  /\ i = drawn[n] + 1 /\ drawn'[n] = i
         /\ \A q \in Node : drawn'[q] \in Nat /\ drawn[q] <= drawn'[q]
BY IndexAssumption DEF randomIndex, TypeInv, TypeOK, Index

\* StartHandshake puts a fresh index in both maps.
LEMMA TunStartFresh ==
  ASSUME TypeInv, IndexInv, NEW n \in Node, TunStart(n)
  PROVE  IndexInv'
<1> DEFINE p == tun[n].pkt.dst
<1>1. p \in Node
  BY ReaderFacts, Zenon DEF TunStart, Packets
<1> HIDE DEF p
<1>2. PICK i \in Index :
        /\ randomIndex(n, i)
        /\ hm' = [hm EXCEPT ![n] = OpenHandshake(@, p, i)]
        /\ \/ net' = net \cup {Stage0(n, p, i, 1)}
           \/ net' = net
  BY Zenon DEF TunStart, p
<1>3. /\ i = drawn[n] + 1 /\ drawn'[n] = i
      /\ \A q \in Node : drawn'[q] \in Nat /\ drawn[q] <= drawn'[q]
      /\ \A q \in Node : drawn[q] \in Nat /\ booted[q] \in Nat
  BY <1>2, DrawnStep, CountFacts, Zenon
<1>4. /\ hm'[n] = OpenHandshake(hm[n], p, i)
      /\ \A q \in Node \ {n} : hm'[q] = hm[q]
      /\ \A q \in Node : hm[q] \in Tables(Packets)
  BY <1>2 DEF TypeInv, TypeOK
<1>5. /\ \A j \in Index : hm'[n].indexMap[j] = IF j = i THEN p ELSE hm[n].indexMap[j]
      /\ \A q \in Node \ {p} : hm'[n].pending[q] = hm[n].pending[q]
      /\ hm'[n].pending[p].localIndex = i /\ hm'[n].pending[p].attempts = 1
  BY ONLY <1>1, <1>4, OpenEffect
<1>6. UNCHANGED <<host, booted>> /\ ~ InProgress(hm[n], p)
  BY DEF TunStart, p
<1>7. NetIndexes'
  <2>1. \A m : m = Stage0(n, p, i, 1) => m.type = "stage0" /\ m.initiatorIndex = i /\ m.src = n
    BY DEF Stage0
  <2> QED
    BY <1>2, <1>3, <2>1, DrawnGrows DEF NetIndexes
<1>8. ASSUME NEW q \in Node
      PROVE  /\ booted[q] <= drawn'[q]
             /\ \A j \in Index : HostFresh(q, j)'
  BY <1>3, <1>6, DrawnGrows, Zenon DEF HostFresh
<1>9. ASSUME NEW q \in Node, NEW x \in Node
      PROVE  PendingFresh(q, x)'
  <2>1. CASE q = n /\ x = p
    <3>1. booted[n] <= drawn[n]
      BY Zenon DEF IndexInv, IndexesFresh
    <3>2. booted'[n] < i /\ i <= drawn'[n]
      BY ONLY <1>3, <1>6, <3>1, n \in Node
    <3>3. hm'[n].indexMap[i] = p
      BY <1>5, Zenon
    <3> QED
      BY <1>5, <2>1, <3>2, <3>3, Zenon DEF PendingFresh
  <2>2. CASE (q # n \/ x # p) /\ InProgress(hm'[q], x)
    <3>1. hm'[q].pending[x] = hm[q].pending[x] /\ InProgress(hm[q], x)
      BY <1>4, <1>5, <2>2, Zenon DEF InProgress
    <3>2. hm[q].pending[x].localIndex \in Index
      BY <1>4, <3>1, PendingType, Zenon
    <3>3. PendingFresh(q, x)
      BY DEF IndexInv, IndexesFresh
    <3>4. hm[q].pending[x].localIndex <= drawn'[q]
      BY ONLY <1>3, <3>1, <3>2, <3>3 DEF PendingFresh, Index
    <3>5. q # n \/ hm[q].pending[x].localIndex # i
      BY ONLY <1>3, <3>1, <3>2, <3>3 DEF PendingFresh, Index
    <3>6. hm'[q].indexMap[hm[q].pending[x].localIndex] = x
      BY <1>4, <1>5, <3>1, <3>2, <3>3, <3>5, Zenon DEF PendingFresh
    <3> QED
      BY <1>6, <3>1, <3>3, <3>4, <3>6, Zenon DEF PendingFresh
  <2> QED
    BY <2>1, <2>2, Zenon DEF PendingFresh
<1>10. ASSUME NEW q \in Node, NEW j \in Index
       PROVE  IndexFresh(q, j)'
  <2>1. CASE q = n /\ j = i
    <3>1. host[n][i] = Nobody
      BY <1>3 DEF IndexInv, IndexesFresh, HostFresh
    <3> QED
      BY ONLY <1>5, <1>6, <2>1, <3>1 DEF InProgress, IndexFresh
  <2>2. CASE (q # n \/ j # i) /\ hm'[q].indexMap[j] # Nobody
    <3>1. hm'[q].indexMap[j] = hm[q].indexMap[j] /\ hm[q].indexMap[j] \in Node
      BY ONLY <1>4, <1>5, <2>2 DEF Tables
    <3>2. /\ InProgress(hm[q], hm[q].indexMap[j])
          /\ hm[q].pending[hm[q].indexMap[j]].localIndex = j
          /\ host[q][j] = Nobody
      BY <2>2, <3>1, Zenon DEF IndexInv, IndexesFresh, IndexFresh
    <3>3. hm'[q].pending[hm[q].indexMap[j]] = hm[q].pending[hm[q].indexMap[j]]
      BY <1>4, <1>5, <1>6, <3>1, <3>2, Zenon
    <3> QED
      BY <1>6, <3>1, <3>2, <3>3, Zenon DEF InProgress, IndexFresh
  <2> QED
    BY <2>1, <2>2, Zenon DEF IndexFresh
<1> QED
  BY <1>6, <1>7, <1>8, <1>9, <1>10, Zenon DEF IndexInv, IndexesFresh

\* The HostInfo that the initiator n builds for the responder p.
InitiatorHost(n, i, p, r) == NewHost(p, r, ciphersFromStates(Split(n, i, p, r), TRUE))

\* The HostInfo that the responder p builds for the initiator n.
ResponderHost(n, i, p, r) == NewHost(n, i, ciphersFromStates(Split(n, i, p, r), FALSE))

\* What either end builds is a HostInfo.
LEMMA BuiltHosts ==
  ASSUME NEW n \in Node, NEW i \in Index, NEW p \in Node, NEW r \in Index
  PROVE  /\ InitiatorHost(n, i, p, r) \in Hosts /\ InitiatorHost(n, i, p, r) # Nobody
         /\ ResponderHost(n, i, p, r) \in Hosts /\ ResponderHost(n, i, p, r) # Nobody
<1>1. InitiatorHost(n, i, p, r) \in Hosts /\ ResponderHost(n, i, p, r) \in Hosts
  BY NewHostType, Zenon DEF InitiatorHost, ResponderHost
<1> QED
  BY <1>1, NoHostAssumption, Zenon

\* HandleStage0 builds one HostInfo under a fresh index and answers.
LEMMA HandleStage0Effect ==
  ASSUME TypeInv, NEW n \in Node, NEW m \in Arriving(n, "stage0"), HandleStage0(n, m)
  PROVE  \E r \in Index :
           /\ randomIndex(n, r)
           /\ net' = net \cup {Stage1(n, m.src, m.initiatorIndex, r)}
           /\ host'[n][r] = ResponderHost(m.src, m.initiatorIndex, n, r)
           /\ \A q \in Node, j \in Index : q # n \/ j # r => host'[q][j] = host[q][j]
           /\ udp'[n] = [pc |-> "install", session |-> r, packets |-> << >>]
           /\ \A q \in Node \ {n} : udp'[q] = udp[q]
<1>1. PICK r \in Index :
       /\ randomIndex(n, r)
       /\ net' = net \cup {Stage1(n, m.src, m.initiatorIndex, r)}
       /\ host' = [host EXCEPT ![n][r] = ResponderHost(m.src, m.initiatorIndex, n, r)]
       /\ udp' = [udp EXCEPT ![n] = [pc |-> "install", session |-> r, packets |-> << >>]]
  BY Zenon DEF HandleStage0, ResponderHost
<1>2. /\ host'[n][r] = ResponderHost(m.src, m.initiatorIndex, n, r)
      /\ \A q \in Node, j \in Index : q # n \/ j # r => host'[q][j] = host[q][j]
  BY <1>1, Zenon DEF TypeInv, TypeOK
<1>3. /\ udp'[n] = [pc |-> "install", session |-> r, packets |-> << >>]
      /\ \A q \in Node \ {n} : udp'[q] = udp[q]
  BY <1>1, Zenon DEF TypeInv, TypeOK
<1> QED
  BY <1>1, <1>2, <1>3, Zenon

\* Of HostMap, HandleStage0 changes that one HostInfo.
LEMMA HandleStage0Host ==
  ASSUME TypeInv, NEW n \in Node, NEW m \in Arriving(n, "stage0"), HandleStage0(n, m)
  PROVE  \E r \in Index :
           /\ host'[n][r] = ResponderHost(m.src, m.initiatorIndex, n, r)
           /\ \A q \in Node, j \in Index : q # n \/ j # r => host'[q][j] = host[q][j]
BY HandleStage0Effect, Zenon

\* HandleStage1 takes the handshake out of both maps, and builds the HostInfo
\* under its index when the payload is intact.
LEMMA HandleStage1Effect ==
  ASSUME TypeInv, NEW n \in Node, NEW m \in Arriving(n, "stage1"), NEW intact \in BOOLEAN,
         HandleStage1(n, m, intact)
  PROVE  LET i == m.remoteIndex
             p == hm[n].indexMap[i]
         IN  /\ p \in Node
             /\ hm'[n] = TakeHandshake(hm[n], i) /\ \A q \in Node \ {n} : hm'[q] = hm[q]
             /\ \/ /\ host'[n][i] = InitiatorHost(n, i, p, m.responderIndex)
                   /\ \A q \in Node, j \in Index : q # n \/ j # i => host'[q][j] = host[q][j]
                   /\ udp'[n] = [pc |-> "install", session |-> i,
                                 packets |-> hm[n].pending[p].pendingPackets]
                   /\ \A q \in Node \ {n} : udp'[q] = udp[q]
                \/ UNCHANGED <<host, udp>>
<1> DEFINE i == m.remoteIndex
           p == hm[n].indexMap[i]
           h == InitiatorHost(n, i, p, m.responderIndex)
           u == [pc |-> "install", session |-> i, packets |-> hm[n].pending[p].pendingPackets]
<1>1. i \in Index
  BY ArrivingType
<1>2. p \in Node
  BY <1>1 DEF HandleStage1, TypeInv, TypeOK, Tables
<1>3. /\ hm' = [hm EXCEPT ![n] = TakeHandshake(@, i)]
      /\ \/ host' = [host EXCEPT ![n][i] = h] /\ udp' = [udp EXCEPT ![n] = u]
         \/ UNCHANGED <<host, udp>>
  BY Zenon DEF HandleStage1, InitiatorHost
<1> HIDE DEF i, p, h, u
<1>4. hm'[n] = TakeHandshake(hm[n], i) /\ \A q \in Node \ {n} : hm'[q] = hm[q]
  BY <1>3 DEF TypeInv, TypeOK
<1>5. ASSUME host' = [host EXCEPT ![n][i] = h], udp' = [udp EXCEPT ![n] = u]
      PROVE  /\ host'[n][i] = h
             /\ \A q \in Node, j \in Index : q # n \/ j # i => host'[q][j] = host[q][j]
             /\ udp'[n] = u /\ \A q \in Node \ {n} : udp'[q] = udp[q]
  BY <1>1, <1>5 DEF TypeInv, TypeOK
<1> QED
  BY <1>2, <1>3, <1>4, <1>5, Zenon DEF i, p, h, u

\* Of HostMap, HandleStage1 changes at most the HostInfo it builds.
LEMMA HandleStage1Host ==
  ASSUME TypeInv, NEW n \in Node, NEW m \in Arriving(n, "stage1"), NEW intact \in BOOLEAN,
         HandleStage1(n, m, intact)
  PROVE  LET i == m.remoteIndex
             p == hm[n].indexMap[i]
         IN  /\ p \in Node
             /\ \/ /\ host'[n][i] = InitiatorHost(n, i, p, m.responderIndex)
                   /\ \A q \in Node, j \in Index : q # n \/ j # i => host'[q][j] = host[q][j]
                \/ UNCHANGED host
<1> DEFINE i == m.remoteIndex
           p == hm[n].indexMap[i]
           h == InitiatorHost(n, i, p, m.responderIndex)
<1>1. i \in Index
  BY ArrivingType, Zenon
<1>2. p \in Node
  BY HandleStage1Effect, Zenon
<1>3. host' = [host EXCEPT ![n][i] = h] \/ UNCHANGED host
  BY Zenon DEF HandleStage1, InitiatorHost
<1>4. host \in [Node -> [Index -> Hosts \cup {Nobody}]]
  BY Zenon DEF TypeInv, TypeOK
<1> HIDE DEF i, p, h
<1>5. \/ /\ host'[n][i] = h
         /\ \A q \in Node, j \in Index : q # n \/ j # i => host'[q][j] = host[q][j]
      \/ UNCHANGED host
  <2>1. CASE host' = [host EXCEPT ![n][i] = h]
    BY ONLY <1>1, <1>4, <2>1, n \in Node, Zenon
  <2> QED
    BY <1>3, <2>1, Zenon
<1> QED
  BY <1>2, <1>5, Zenon DEF i, p, h

\* The responder draws a fresh index for its session.
LEMMA HandleStage0Fresh ==
  ASSUME TypeInv, IndexInv, NEW n \in Node, NEW m \in Arriving(n, "stage0"), HandleStage0(n, m)
  PROVE  IndexInv'
<1>1. m \in net /\ m.type = "stage0" /\ m.src \in Node /\ m.initiatorIndex \in Index
  BY ArrivingType
<1>2. PICK r \in Index :
       /\ randomIndex(n, r)
       /\ net' = net \cup {Stage1(n, m.src, m.initiatorIndex, r)}
       /\ host'[n][r] = ResponderHost(m.src, m.initiatorIndex, n, r)
       /\ \A q \in Node, j \in Index : q # n \/ j # r => host'[q][j] = host[q][j]
  BY HandleStage0Effect, Zenon
<1>3. /\ r = drawn[n] + 1 /\ drawn'[n] = r
      /\ \A q \in Node : drawn'[q] \in Nat /\ drawn[q] <= drawn'[q]
      /\ \A q \in Node : drawn[q] \in Nat /\ booted[q] \in Nat
  BY <1>2, DrawnStep, CountFacts, Zenon
<1>4. UNCHANGED <<hm, booted>>
  BY DEF HandleStage0
<1>5. m.initiatorIndex <= drawn'[m.src]
  BY <1>1, <1>3, DrawnGrows, Zenon
<1>6. NetIndexes'
  <2>1. \A x : x = Stage1(n, m.src, m.initiatorIndex, r) =>
          /\ x.type = "stage1" /\ x.src = n /\ x.dst = m.src
          /\ x.remoteIndex = m.initiatorIndex /\ x.responderIndex = r
    BY DEF Stage1
  <2> QED
    <3>1. r <= drawn'[n]
      BY ONLY <1>3, n \in Node
    <3>2. \A x \in net :
            /\ x.type = "stage0" => x.initiatorIndex <= drawn'[x.src]
            /\ x.type = "stage1" => x.remoteIndex <= drawn'[x.dst] /\ x.responderIndex <= drawn'[x.src]
      BY <1>3, DrawnGrows, Zenon
    <3>3. "stage1" # "stage0"
      OBVIOUS
    <3>4. ASSUME NEW x, x = Stage1(n, m.src, m.initiatorIndex, r)
          PROVE  /\ x.type # "stage0"
                 /\ x.remoteIndex <= drawn'[x.dst] /\ x.responderIndex <= drawn'[x.src]
      BY ONLY <1>5, <2>1, <3>1, <3>3, <3>4, Zenon
    <3> QED
      BY ONLY <1>2, <3>2, <3>4, Zenon DEF NetIndexes
<1>7. ASSUME NEW q \in Node
      PROVE  booted[q] <= drawn'[q]
  BY <1>3, DrawnGrows, Zenon
<1>8. ASSUME NEW q \in Node, NEW j \in Index
      PROVE  HostFresh(q, j)'
  <2>1. CASE q = n /\ j = r
    <3>1. booted[n] < r
      BY <1>3 DEF IndexInv, IndexesFresh
    <3> QED
      BY ONLY <1>3, <1>4, <2>1, <3>1 DEF HostFresh
  <2>2. CASE q # n \/ j # r
    BY <1>2, <1>3, <1>4, <2>2, DrawnGrows, Zenon DEF HostFresh
  <2> QED
    BY <2>1, <2>2
<1>9. ASSUME NEW q \in Node, NEW x \in Node
      PROVE  PendingFresh(q, x)'
  <2>1. PendingFresh(q, x)
    BY Zenon DEF IndexInv, IndexesFresh
  <2>2. InProgress(hm[q], x) => hm[q].pending[x].localIndex \in Index
    BY PendingType, Zenon DEF TypeInv, TypeOK
  <2> QED
    <3> DEFINE j == hm[q].pending[x].localIndex
    <3>1. ASSUME j \in Index, j <= drawn[q] PROVE j <= drawn'[q]
      <4>1. drawn[q] \in Nat /\ drawn'[q] \in Nat /\ drawn[q] <= drawn'[q]
        BY <1>3, Zenon
      <4> HIDE DEF j
      <4> QED
        BY ONLY <3>1, <4>1 DEF Index
    <3> QED
      BY <1>4, <2>1, <2>2, <3>1, Zenon DEF PendingFresh
<1>10. ASSUME NEW q \in Node, NEW j \in Index
       PROVE  IndexFresh(q, j)'
  <2>1. ASSUME hm[n].indexMap[r] # Nobody PROVE FALSE
    <3>1. hm[n].indexMap[r] \in Node
      BY <2>1 DEF TypeInv, TypeOK, Tables
    <3>2. PendingFresh(n, hm[n].indexMap[r]) /\ IndexFresh(n, r)
      BY <3>1, Zenon DEF IndexInv, IndexesFresh
    <3>3. hm[n].pending[hm[n].indexMap[r]].localIndex = r /\ r <= drawn[n]
      BY <2>1, <3>2, Zenon DEF PendingFresh, IndexFresh
    <3> QED
      BY ONLY <1>3, <3>3
  <2>2. CASE q = n /\ j = r
    BY <1>4, <2>1, <2>2, Zenon DEF IndexFresh
  <2>3. CASE q # n \/ j # r
    <3>1. IndexFresh(q, j)
      BY Zenon DEF IndexInv, IndexesFresh
    <3> QED
      BY <1>2, <1>4, <2>3, <3>1, Zenon DEF IndexFresh
  <2> QED
    BY <2>2, <2>3
<1> QED
  BY <1>4, <1>6, <1>7, <1>8, <1>9, <1>10, Zenon DEF IndexInv, IndexesFresh

\* The handshakes with the peers in out leave the two maps of n, together.
Dropped(n, out) ==
  /\ \A p \in out : InProgress(hm[n], p) /\ hm'[n].pending[p] = NoPending
  /\ \A p \in Node \ out : /\ InProgress(hm'[n], p) <=> InProgress(hm[n], p)
                          /\ hm'[n].pending[p].localIndex = hm[n].pending[p].localIndex
  /\ \A i \in Index : hm'[n].indexMap[i] =
       IF \E p \in out : hm[n].pending[p].localIndex = i THEN Nobody ELSE hm[n].indexMap[i]
  /\ \A q \in Node \ {n} : hm'[q] = hm[q]

\* Handshakes that leave both maps together leave the rest in agreement.
LEMMA DroppedFresh ==
  ASSUME TypeInv, IndexInv, NEW n \in Node, NEW out \in SUBSET Node, Dropped(n, out),
         UNCHANGED <<drawn, booted>>
  PROVE  \A q \in Node : /\ \A x \in Node : PendingFresh(q, x)'
                         /\ \A j \in Index : hm'[q].indexMap[j] # Nobody =>
                              /\ hm'[q].indexMap[j] = hm[q].indexMap[j]
                              /\ InProgress(hm'[q], hm'[q].indexMap[j])
                              /\ hm'[q].pending[hm'[q].indexMap[j]].localIndex = j
                              /\ host[q][j] = Nobody
<1> USE DEF Dropped
<1> SUFFICES ASSUME NEW q \in Node
             PROVE  /\ \A x \in Node : PendingFresh(q, x)'
                    /\ \A j \in Index : hm'[q].indexMap[j] # Nobody =>
                              /\ hm'[q].indexMap[j] = hm[q].indexMap[j]
                              /\ InProgress(hm'[q], hm'[q].indexMap[j])
                              /\ hm'[q].pending[hm'[q].indexMap[j]].localIndex = j
                              /\ host[q][j] = Nobody
  BY Zenon
<1>1. ASSUME NEW x \in Node, InProgress(hm'[q], x)
      PROVE  PendingFresh(q, x)'
  <2>1. q = n => x \notin out
    BY <1>1 DEF InProgress, NoPending
  <2>2. InProgress(hm[q], x) /\ hm'[q].pending[x].localIndex = hm[q].pending[x].localIndex
    BY <1>1, <2>1, Zenon
  <2>3. PendingFresh(q, x) /\ hm[q].pending[x].localIndex \in Index
    BY <2>2, PendingType, Zenon DEF IndexInv, IndexesFresh, TypeInv, TypeOK
  <2>4. ASSUME q = n, NEW p \in out, hm[n].pending[p].localIndex = hm[n].pending[x].localIndex
        PROVE  FALSE
    <3>1. PendingFresh(n, p) /\ InProgress(hm[n], p)
      BY Zenon DEF IndexInv, IndexesFresh
    <3>2. hm[n].indexMap[hm[n].pending[p].localIndex] = p
      BY ONLY <3>1, Zenon DEF PendingFresh
    <3>3. hm[n].indexMap[hm[n].pending[x].localIndex] = x
      BY ONLY <2>2, <2>3, <2>4, Zenon DEF PendingFresh
    <3> QED
      BY ONLY <2>1, <2>4, <3>2, <3>3, p \in out, Zenon
  <2>5. hm'[q].indexMap[hm[q].pending[x].localIndex] = x
    <3>1. hm[q].indexMap[hm[q].pending[x].localIndex] = x
      BY ONLY <2>2, <2>3, Zenon DEF PendingFresh
    <3>2. CASE q # n
      BY <3>1, <3>2, Zenon
    <3>3. CASE q = n
      <4>1. ~ \E p \in out : hm[n].pending[p].localIndex = hm[n].pending[x].localIndex
        BY <2>4, <3>3, Zenon
      <4>2. hm[n].pending[x].localIndex \in Index
        BY <2>3, <3>3, Zenon
      <4>3. hm'[n].indexMap[hm[n].pending[x].localIndex] = hm[n].indexMap[hm[n].pending[x].localIndex]
        BY <4>1, <4>2, Zenon
      <4> QED
        BY ONLY <3>1, <3>3, <4>3, Zenon
    <3> QED
      BY <3>2, <3>3, Zenon
  <2> QED
    BY <2>2, <2>3, <2>5, Zenon DEF PendingFresh
<1>2. ASSUME NEW j \in Index, hm'[q].indexMap[j] # Nobody
      PROVE  /\ hm'[q].indexMap[j] = hm[q].indexMap[j]
             /\ InProgress(hm'[q], hm'[q].indexMap[j])
             /\ hm'[q].pending[hm'[q].indexMap[j]].localIndex = j
             /\ host[q][j] = Nobody
  <2>1. hm'[q].indexMap[j] = hm[q].indexMap[j]
    BY <1>2, Zenon
  <2>2. hm[q].indexMap[j] \in Node
    BY <1>2, <2>1 DEF TypeInv, TypeOK, Tables
  <2>3. IndexFresh(q, j)
    BY Zenon DEF IndexInv, IndexesFresh
  <2>4. q = n => hm[q].indexMap[j] \notin out
    BY <1>2, <2>1, <2>3 DEF IndexFresh
  <2> QED
    BY <1>2, <2>1, <2>2, <2>3, <2>4, Zenon DEF IndexFresh
<1> QED
  BY <1>1, <1>2, Zenon DEF PendingFresh

\* The initiator moves its index from the handshake to the session.
LEMMA HandleStage1Fresh ==
  ASSUME TypeInv, IndexInv, NEW n \in Node, NEW m \in Arriving(n, "stage1"),
         NEW intact \in BOOLEAN, HandleStage1(n, m, intact)
  PROVE  IndexInv'
<1> DEFINE i == m.remoteIndex
           p == hm[n].indexMap[i]
<1>1. /\ m \in net /\ m.type = "stage1" /\ m.src \in Node /\ m.dst = n
      /\ i \in Index /\ m.responderIndex \in Index
  BY ArrivingType
<1>2. /\ p \in Node
      /\ hm'[n] = TakeHandshake(hm[n], i) /\ \A q \in Node \ {n} : hm'[q] = hm[q]
      /\ \/ /\ host'[n][i] = InitiatorHost(n, i, p, m.responderIndex)
            /\ \A q \in Node, j \in Index : q # n \/ j # i => host'[q][j] = host[q][j]
         \/ UNCHANGED host
  BY HandleStage1Effect, Zenon
<1>3. InProgress(hm[n], p) /\ hm[n].pending[p].localIndex = i
  BY <1>1, <1>2, NobodyAssumption, Zenon DEF IndexInv, IndexesFresh, IndexFresh
<1>4. UNCHANGED <<drawn, booted, net>>
  BY Zenon DEF HandleStage1
<1> HIDE DEF i, p
<1>5. hm[n] \in Tables(Packets) /\ hm[n].indexMap[i] # Nobody /\ hm[n].indexMap[i] = p
  BY <1>2, NobodyAssumption, Zenon DEF TypeInv, TypeOK, p
<1>6. /\ \A j \in Index : hm'[n].indexMap[j] = IF j = i THEN Nobody ELSE hm[n].indexMap[j]
      /\ \A q \in Node : hm'[n].pending[q] = IF q = p THEN NoPending ELSE hm[n].pending[q]
  BY ONLY <1>1, <1>2, <1>5, TakeEffect
<1>7. Dropped(n, {p})
  BY <1>2, <1>3, <1>6, Zenon DEF InProgress, Dropped
<1>8. {p} \in SUBSET Node
  BY <1>2
<1>9. \A q \in Node : /\ \A x \in Node : PendingFresh(q, x)'
                      /\ \A j \in Index : hm'[q].indexMap[j] # Nobody =>
                           /\ InProgress(hm'[q], hm'[q].indexMap[j])
                           /\ hm'[q].pending[hm'[q].indexMap[j]].localIndex = j
                           /\ host[q][j] = Nobody
  BY <1>2, <1>4, <1>7, <1>8, DroppedFresh, Zenon
<1>10. ASSUME NEW q \in Node, NEW j \in Index
       PROVE  IndexFresh(q, j)'
  <2>1. CASE q = n /\ j = i
    BY <1>6, <2>1, Zenon DEF IndexFresh
  <2>2. CASE q # n \/ j # i
    <3>1. host'[q][j] = host[q][j]
      BY <1>2, <2>2, Zenon
    <3> QED
      BY <1>9, <3>1, Zenon DEF IndexFresh
  <2> QED
    BY <2>1, <2>2
<1>11. ASSUME NEW q \in Node, NEW j \in Index
       PROVE  HostFresh(q, j)'
  <2>1. HostFresh(q, j)
    BY Zenon DEF IndexInv, IndexesFresh
  <2>2. CASE host'[q][j] = host[q][j]
    BY <1>4, <2>1, <2>2, Zenon DEF HostFresh
  <2>3. CASE q = n /\ j = i /\ host'[n][i] = InitiatorHost(n, i, p, m.responderIndex)
    <3>1. booted[n] < i /\ i <= drawn[n]
      BY <1>2, <1>3, Zenon DEF IndexInv, IndexesFresh, PendingFresh
    <3> QED
      BY <1>4, <2>3, <3>1 DEF HostFresh
  <2> QED
    BY <1>2, <2>2, <2>3, Zenon
<1>12. NetIndexes'
  BY <1>4 DEF IndexInv, NetIndexes
<1> QED
  BY <1>4, <1>9, <1>10, <1>11, <1>12, Zenon DEF IndexInv, IndexesFresh

\* RetryPending removes expired handshakes from both maps.
LEMMA RetryFresh ==
  ASSUME TypeInv, IndexInv, NEW n \in Node,
         NEW due \in SUBSET {p \in Node : InProgress(hm[n], p)}, Retry(n, due)
  PROVE  IndexInv' /\ Dropped(n, Expired(hm[n], due))
<1>1. /\ hm'[n] = RetryPending(hm[n], due) /\ \A q \in Node \ {n} : hm'[q] = hm[q]
      /\ hm[n] \in Tables(Packets)
      /\ UNCHANGED <<host, drawn, booted>>
  BY Zenon DEF Retry, TypeInv, TypeOK
<1>2. Expired(hm[n], due) \in SUBSET Node /\ \A p \in Expired(hm[n], due) : InProgress(hm[n], p)
  BY DEF Expired
<1>3. Dropped(n, Expired(hm[n], due))
  BY ONLY <1>1, <1>2, RetryEffect DEF Dropped
<1>4. \A q \in Node : /\ \A x \in Node : PendingFresh(q, x)'
                      /\ \A j \in Index : hm'[q].indexMap[j] # Nobody =>
                           /\ InProgress(hm'[q], hm'[q].indexMap[j])
                           /\ hm'[q].pending[hm'[q].indexMap[j]].localIndex = j
                           /\ host[q][j] = Nobody
  BY <1>1, <1>2, <1>3, DroppedFresh, Zenon
<1>5. \A q \in Node : /\ booted'[q] <= drawn'[q]
                      /\ \A j \in Index : HostFresh(q, j)' /\ IndexFresh(q, j)'
  BY <1>1, <1>4, Zenon DEF IndexInv, IndexesFresh, HostFresh, IndexFresh
<1>6. NetIndexes'
  <2> SUFFICES ASSUME NEW p \in due \ Expired(hm[n], due),
                      NEW m, m = Stage0(n, p, hm[n].pending[p].localIndex, hm[n].pending[p].attempts + 1)
               PROVE  /\ m.type = "stage0" => m.initiatorIndex <= drawn'[m.src]
                      /\ m.type # "stage1"
    BY <1>1, Zenon DEF Retry, IndexInv, NetIndexes
  <2>1. m.type = "stage0" /\ m.src = n /\ m.initiatorIndex = hm[n].pending[p].localIndex
    BY Zenon DEF Stage0
  <2>2. hm[n].pending[p].localIndex <= drawn[n]
    BY Zenon DEF IndexInv, IndexesFresh, PendingFresh
  <2> QED
    BY <1>1, <2>1, <2>2, Zenon
<1> QED
  BY <1>3, <1>4, <1>5, <1>6, Zenon DEF IndexInv, IndexesFresh

\* Restart empties the HostMap of its node and leaves the other nodes alone.
LEMMA RestartHosts ==
  ASSUME TypeInv, NEW n \in Node, Restart(n)
  PROVE  /\ \A i \in Index : host'[n][i] = Nobody
         /\ \A q \in Node \ {n} : host'[q] = host[q] /\ byIndex'[q] = byIndex[q] /\ udp'[q] = udp[q]
<1>1. (\A i \in Index : host'[n][i] = Nobody) /\ \A q \in Node \ {n} : host'[q] = host[q]
  BY Zenon DEF Restart, TypeInv, TypeOK
<1>2. \A q \in Node \ {n} : byIndex'[q] = byIndex[q] /\ udp'[q] = udp[q]
  BY Zenon DEF Restart, TypeInv, TypeOK
<1> QED
  BY <1>1, <1>2, Zenon

\* What a restart resets.
LEMMA RestartEffect ==
  ASSUME TypeInv, NEW n \in Node, Restart(n)
  PROVE  /\ hm'[n] = EmptyTable
         /\ \A p \in Node : ~ InProgress(hm'[n], p) /\ hm'[n].pending[p].pendingPackets = << >>
         /\ \A i \in Index : hm'[n].indexMap[i] = Nobody /\ host'[n][i] = Nobody
         /\ \A p \in Node : byVpnIP'[n][p] = Nobody
         /\ byIndex'[n] = {} /\ tun'[n] = TunIdle /\ udp'[n] = UdpIdle
         /\ booted'[n] = drawn[n]
         /\ \A q \in Node \ {n} : /\ hm'[q] = hm[q] /\ host'[q] = host[q] /\ booted'[q] = booted[q]
                                 /\ byVpnIP'[q] = byVpnIP[q] /\ byIndex'[q] = byIndex[q]
                                 /\ tun'[q] = tun[q] /\ udp'[q] = udp[q]
         /\ UNCHANGED <<net, gone, drawn, read, written>>
<1>1. hm'[n] = EmptyTable /\ \A q \in Node \ {n} : hm'[q] = hm[q]
  BY Zenon DEF Restart, TypeInv, TypeOK
<1>2. /\ \A p \in Node : ~ InProgress(EmptyTable, p) /\ EmptyTable.pending[p].pendingPackets = << >>
      /\ \A i \in Index : EmptyTable.indexMap[i] = Nobody
  BY DEF EmptyTable, InProgress, NoPending
<1>3. (\A i \in Index : host'[n][i] = Nobody) /\ \A q \in Node \ {n} : host'[q] = host[q]
  BY Zenon DEF Restart, TypeInv, TypeOK
<1>4. /\ \A p \in Node : byVpnIP'[n][p] = Nobody
      /\ byIndex'[n] = {} /\ tun'[n] = TunIdle /\ udp'[n] = UdpIdle
      /\ booted'[n] = drawn[n]
      /\ \A q \in Node \ {n} : /\ byVpnIP'[q] = byVpnIP[q] /\ byIndex'[q] = byIndex[q]
                              /\ tun'[q] = tun[q] /\ udp'[q] = udp[q] /\ booted'[q] = booted[q]
  BY Zenon DEF Restart, TypeInv, TypeOK
<1> QED
  BY <1>1, <1>2, <1>3, <1>4, Zenon DEF Restart

\* After a restart nothing is left of the indexes drawn before.
LEMMA RestartFresh ==
  ASSUME TypeInv, IndexInv, NEW n \in Node, Restart(n)
  PROVE  IndexInv'
<1>1. NetIndexes'
  BY RestartEffect, Zenon DEF IndexInv, NetIndexes
<1>2. ASSUME NEW q \in Node
      PROVE  /\ booted'[q] <= drawn'[q]
             /\ \A i \in Index : HostFresh(q, i)' /\ IndexFresh(q, i)'
             /\ \A p \in Node : PendingFresh(q, p)'
  <2>1. CASE q = n
    <3>1. booted'[n] = drawn[n] /\ drawn' = drawn /\ drawn[n] \in Nat
      BY RestartEffect, CountFacts, Zenon
    <3>2. booted'[n] <= drawn'[n]
      BY ONLY <3>1
    <3>3. /\ \A i \in Index : hm'[n].indexMap[i] = Nobody /\ host'[n][i] = Nobody
          /\ \A p \in Node : ~ InProgress(hm'[n], p)
      BY RestartEffect, Zenon
    <3> QED
      BY <2>1, <3>2, <3>3, Zenon DEF HostFresh, IndexFresh, PendingFresh
  <2>2. CASE q # n
    <3>1. hm'[q] = hm[q] /\ host'[q] = host[q] /\ booted'[q] = booted[q] /\ drawn' = drawn
      BY <2>2, RestartEffect, Zenon
    <3>2. booted[q] <= drawn[q] /\ \A p \in Node : PendingFresh(q, p)
      BY Zenon DEF IndexInv, IndexesFresh
    <3>3. \A i \in Index : HostFresh(q, i) /\ IndexFresh(q, i)
      BY Zenon DEF IndexInv, IndexesFresh
    <3>4. \A p \in Node : PendingFresh(q, p)'
      BY <3>1, <3>2, Zenon DEF PendingFresh
    <3>5. \A i \in Index : HostFresh(q, i)' /\ IndexFresh(q, i)'
      BY <3>1, <3>3, Zenon DEF HostFresh, IndexFresh
    <3> QED
      BY <3>1, <3>2, <3>4, <3>5, Zenon
  <2> QED
    BY <2>1, <2>2, Zenon
<1> QED
  BY <1>1, <1>2, Zenon DEF IndexInv, IndexesFresh

\* A HandshakeManager that is left alone keeps its indexes.
LEMMA SameTable == ASSUME NEW t PROVE SameIndexes(t, t)
BY DEF SameIndexes

\* QueuePacket changes one queue and no index.
LEMMA TunQueueEffect ==
  ASSUME TypeInv, NEW n \in Node, TunQueue(n)
  PROVE  /\ \A q \in Node : SameIndexes(hm[q], hm'[q])
         /\ tun[n].pkt \in Packets /\ tun[n].pkt.dst \in Node
         /\ \A p \in Node : hm'[n].pending[p].pendingPackets =
              IF p = tun[n].pkt.dst /\ InProgress(hm[n], p)
              THEN Enqueue(hm[n].pending[p].pendingPackets, tun[n].pkt)
              ELSE hm[n].pending[p].pendingPackets
         /\ \A q \in Node \ {n} : hm'[q] = hm[q]
<1>1. tun[n].pkt \in Packets /\ tun[n].pkt.dst \in Node
  BY ReaderFacts DEF TunQueue, Packets
<1>2. hm[n] \in Tables(Packets)
  BY DEF TypeInv, TypeOK
<1>3. /\ hm'[n] = QueuePacket(hm[n], tun[n].pkt.dst, tun[n].pkt)
      /\ \A q \in Node \ {n} : hm'[q] = hm[q]
  BY DEF TunQueue, TypeInv, TypeOK
<1>4. SameIndexes(hm[n], hm'[n])
  BY ONLY <1>1, <1>2, <1>3, QueueSameIndexes
<1>5. \A p \in Node : hm'[n].pending[p].pendingPackets =
        IF p = tun[n].pkt.dst /\ InProgress(hm[n], p)
        THEN Enqueue(hm[n].pending[p].pendingPackets, tun[n].pkt)
        ELSE hm[n].pending[p].pendingPackets
  BY ONLY <1>1, <1>2, <1>3, QueueSameIndexes
<1> QED
  BY <1>1, <1>3, <1>4, <1>5, SameTable, Zenon

\* The steps that build no session, draw no index and end no handshake.
Quiescent(n) ==
  \/ \E p \in Node : TunRead(n, p)
  \/ TunSend(n) \/ TunNoStart(n) \/ TunQueue(n)
  \/ \E m \in net : IgnoreStage1(n, m) \/ RefuseMessage(n, m)
  \/ HandshakeComplete(n) \/ Flush(n)
  \/ \E m \in Arriving(n, "message"), intact \in BOOLEAN : AcceptMessage(n, m, intact)

\* What a quiescent step leaves alone.
LEMMA QuiescentEffect ==
  ASSUME TypeInv, NEW n \in Node, Quiescent(n)
  PROVE  /\ HostsKept /\ \A q \in Node : SameIndexes(hm[q], hm'[q])
         /\ UNCHANGED <<drawn, booted>>
         /\ net \subseteq net' /\ \A m \in net' \ net : m.type = "message"
<1>1. ASSUME TunSend(n)
      PROVE  HostsKept /\ net \subseteq net' /\ \A m \in net' \ net : m.type = "message"
  <2>1. tun[n].session \in Index /\ tun[n].pkt \in Packets /\ host[n][tun[n].session] # Nobody
    BY <1>1, ReaderFacts, Zenon DEF TunSend
  <2> QED
    <3>1. sendToRemote(n, tun[n].session, tun[n].pkt)
      BY <1>1, Zenon DEF TunSend
    <3>2. HostsKept
      BY <2>1, <3>1, SendKeeps, Zenon
    <3>3. \E m : net' = net \cup {m} /\ m.type = "message"
      BY <3>1, SendNet
    <3> QED
      BY <3>2, <3>3, Zenon
<1>2. ASSUME Flush(n)
      PROVE  HostsKept /\ net \subseteq net' /\ \A m \in net' \ net : m.type = "message"
  <2>1. /\ udp[n].session \in Index /\ host[n][udp[n].session] # Nobody
        /\ Head(udp[n].packets) \in Packets
    BY <1>2, ReaderFacts, TailFacts, Zenon DEF Flush
  <2> QED
    <3>1. sendToRemote(n, udp[n].session, Head(udp[n].packets))
      BY <1>2, Zenon DEF Flush
    <3>2. HostsKept
      BY <2>1, <3>1, SendKeeps, Zenon
    <3>3. \E m : net' = net \cup {m} /\ m.type = "message"
      BY <3>1, SendNet
    <3> QED
      BY <3>2, <3>3, Zenon
<1>3. ASSUME NEW m \in Arriving(n, "message"), NEW intact \in BOOLEAN, AcceptMessage(n, m, intact)
      PROVE  HostsKept
  BY <1>3, AcceptKeeps
<1>4. CASE TunSend(n)
  BY <1>1, <1>4, SameTable DEF TunSend
<1>5. CASE Flush(n)
  BY <1>2, <1>5, SameTable DEF Flush
<1>6. CASE \E m \in Arriving(n, "message"), intact \in BOOLEAN : AcceptMessage(n, m, intact)
  BY <1>3, <1>6, SameTable, Zenon DEF AcceptMessage
<1>7. CASE TunQueue(n)
  BY <1>7, TunQueueEffect, UnchangedKeeps, Zenon DEF TunQueue
<1>8. CASE \E m \in net : IgnoreStage1(n, m) \/ RefuseMessage(n, m)
  BY <1>8, SameTable, UnchangedKeeps, Zenon DEF IgnoreStage1, RefuseMessage, nodeVars
<1>9. CASE (\E p \in Node : TunRead(n, p)) \/ TunNoStart(n) \/ HandshakeComplete(n)
  BY <1>9, SameTable, UnchangedKeeps, Zenon DEF TunRead, TunNoStart, HandshakeComplete
<1> QED
  BY <1>4, <1>5, <1>6, <1>7, <1>8, <1>9, Zenon DEF Quiescent

\* A quiescent step keeps IndexInv.
LEMMA QuiescentFresh ==
  ASSUME TypeInv, IndexInv, NEW n \in Node, Quiescent(n)
  PROVE  IndexInv'
<1>1. IndexesFresh'
  BY QuiescentEffect, KeptFresh
<1>2. NetIndexes'
  BY QuiescentEffect DEF IndexInv, NetIndexes
<1> QED
  BY <1>1, <1>2 DEF IndexInv

\* A step of Next is quiescent or one of five.
LEMMA StepCases ==
  ASSUME Next
  PROVE  \E n \in Node :
           \/ Quiescent(n)
           \/ TunStart(n)
           \/ \E m \in Arriving(n, "stage0") : HandleStage0(n, m)
           \/ \E m \in Arriving(n, "stage1"), intact \in BOOLEAN : HandleStage1(n, m, intact)
           \/ \E due \in SUBSET {p \in Node : InProgress(hm[n], p)} : Retry(n, due)
           \/ Restart(n)
BY NextCases, Zenon DEF Quiescent

\* No index is in use when the nodes start.
LEMMA IndexInit == Init => IndexInv
<1> SUFFICES ASSUME Init PROVE IndexInv
  OBVIOUS
<1>1. \A p \in Node : ~ InProgress(EmptyTable, p)
  BY DEF EmptyTable, InProgress, NoPending
<1>2. \A i \in Index : EmptyTable.indexMap[i] = Nobody
  BY DEF EmptyTable
<1> QED
  BY <1>1, <1>2 DEF Init, IndexInv, IndexesFresh, NetIndexes, HostFresh, IndexFresh, PendingFresh

\* IndexInv is inductive.
LEMMA IndexNext == TypeInv /\ IndexInv /\ [Next]_vars => IndexInv'
<1>1. ASSUME TypeInv, IndexInv, UNCHANGED vars
      PROVE  IndexInv'
  <2>1. UNCHANGED <<hm, host, net, drawn, booted>>
    BY <1>1, Zenon DEF vars, nodeVars
  <2>2. NetIndexes'
    BY <1>1, <2>1, Zenon DEF IndexInv, NetIndexes
  <2>3. IndexesFresh'
    BY <1>1, <2>1, Zenon DEF IndexInv, IndexesFresh, HostFresh, IndexFresh, PendingFresh
  <2> QED
    BY <2>2, <2>3, Zenon DEF IndexInv
<1>2. ASSUME TypeInv, IndexInv, Next
      PROVE  IndexInv'
  BY <1>2, StepCases, QuiescentFresh, TunStartFresh, HandleStage0Fresh, HandleStage1Fresh,
     RetryFresh, RestartFresh
<1> QED
  BY <1>1, <1>2

\* IndexInv holds in every execution.
LEMMA IndexSafe == Spec => [](TypeInv /\ IndexInv)
BY TypeInit, NextType, IndexInit, IndexNext, PTL DEF Spec

\* IndexInv implies that the two maps agree.
LEMMA IndexInvMaps == IndexInv => MapsAgree
BY Zenon DEF IndexInv, IndexesFresh, IndexFresh, PendingFresh, MapsAgree

\* pending and indexMap of every HandshakeManager describe the same handshakes
\* in every execution, whatever StartHandshake, HandleStage1, RetryPending and
\* restarts do in between.
THEOREM TunnelMapsAgree == Spec => []MapsAgree
BY IndexSafe, IndexInvMaps, PTL

-----------------------------------------------------------------------------
(* What a step may do to a session.                                        *)

\* Every node and index whose session is there before the step.
SessionsKept ==
  \A q \in Node, j \in Index : host[q][j] # Nobody =>
    host'[q][j] # Nobody /\ SameSession(host[q][j], host'[q][j])

\* A drawn index with no handshake pending under it never gets a (new) session.
SpentStays ==
  \A q \in Node, j \in Index : j <= drawn[q] /\ hm[q].indexMap[j] = Nobody =>
    /\ j <= drawn'[q] /\ hm'[q].indexMap[j] = Nobody
    /\ host[q][j] = Nobody => host'[q][j] = Nobody

\* A session that is left alone is the same session.
LEMMA SameSessionRefl ==
  ASSUME TypeInv, NEW n \in Node, NEW i \in Index, host[n][i] # Nobody
  PROVE  SameSession(host[n][i], host[n][i])
BY HostFacts DEF SameSession

\* A quiescent step replaces no session and revives no index.
LEMMA QuiescentHistory ==
  ASSUME TypeInv, NEW n \in Node, Quiescent(n)
  PROVE  SessionsKept /\ SpentStays
<1>1. SessionsKept
  BY QuiescentEffect, Zenon DEF HostsKept, SessionsKept
<1>2. SpentStays
  BY QuiescentEffect, Zenon DEF HostsKept, SpentStays, SameIndexes
<1> QED
  BY <1>1, <1>2

\* Nor does StartHandshake.
LEMMA TunStartHistory ==
  ASSUME TypeInv, IndexInv, NEW n \in Node, TunStart(n)
  PROVE  SessionsKept /\ SpentStays
<1> DEFINE p == tun[n].pkt.dst
<1>1. p \in Node
  BY ReaderFacts DEF TunStart, Packets
<1> HIDE DEF p
<1>2. PICK i \in Index :
        /\ randomIndex(n, i)
        /\ hm' = [hm EXCEPT ![n] = OpenHandshake(@, p, i)]
  BY Zenon DEF TunStart, p
<1>3. /\ i = drawn[n] + 1
      /\ \A q \in Node : drawn'[q] \in Nat /\ drawn[q] <= drawn'[q] /\ drawn[q] \in Nat
  BY <1>2, DrawnStep, CountFacts, Zenon
<1>4. /\ hm'[n] = OpenHandshake(hm[n], p, i) /\ hm[n] \in Tables(Packets)
      /\ \A q \in Node \ {n} : hm'[q] = hm[q]
  BY <1>2 DEF TypeInv, TypeOK
<1>5. \A j \in Index : hm'[n].indexMap[j] = IF j = i THEN p ELSE hm[n].indexMap[j]
  BY ONLY <1>1, <1>4, OpenEffect
<1>6. UNCHANGED host
  BY DEF TunStart
<1>7. ASSUME NEW q \in Node, NEW j \in Index, j <= drawn[q]
      PROVE  j <= drawn'[q] /\ (q # n \/ j # i)
  BY <1>3, <1>7 DEF Index
<1>8. SpentStays
  BY <1>4, <1>5, <1>6, <1>7, Zenon DEF SpentStays
<1>9. SessionsKept
  BY <1>6, SameSessionRefl DEF SessionsKept
<1> QED
  BY <1>8, <1>9

\* Nor does HandleStage0.
LEMMA HandleStage0History ==
  ASSUME TypeInv, IndexInv, NEW n \in Node, NEW m \in Arriving(n, "stage0"), HandleStage0(n, m)
  PROVE  SessionsKept /\ SpentStays
<1>1. PICK r \in Index :
       /\ randomIndex(n, r)
       /\ \A q \in Node, j \in Index : q # n \/ j # r => host'[q][j] = host[q][j]
  BY HandleStage0Effect, Zenon
<1>2. /\ r = drawn[n] + 1
      /\ \A q \in Node : drawn'[q] \in Nat /\ drawn[q] <= drawn'[q] /\ drawn[q] \in Nat
  BY <1>1, DrawnStep, CountFacts, Zenon
<1>3. UNCHANGED hm
  BY DEF HandleStage0
<1>4. ASSUME NEW q \in Node, NEW j \in Index, j <= drawn[q]
      PROVE  j <= drawn'[q] /\ host'[q][j] = host[q][j]
  <2>1. j <= drawn'[q] /\ (q # n \/ j # r)
    BY <1>2, <1>4 DEF Index
  <2> QED
    BY <1>1, <2>1
<1>5. SpentStays
  BY <1>3, <1>4 DEF SpentStays
<1>6. \A q \in Node, j \in Index : host[q][j] # Nobody => j <= drawn[q]
  BY DEF IndexInv, IndexesFresh, HostFresh
<1>7. SessionsKept
  BY <1>4, <1>6, SameSessionRefl, Zenon DEF SessionsKept
<1> QED
  BY <1>5, <1>7

\* Nor does HandleStage1, whose index was pending.
LEMMA HandleStage1History ==
  ASSUME TypeInv, IndexInv, NEW n \in Node, NEW m \in Arriving(n, "stage1"),
         NEW intact \in BOOLEAN, HandleStage1(n, m, intact)
  PROVE  SessionsKept /\ SpentStays
<1> DEFINE i == m.remoteIndex
           p == hm[n].indexMap[i]
<1>1. i \in Index
  BY ArrivingType, Zenon
<1>2. /\ p \in Node
      /\ hm'[n] = TakeHandshake(hm[n], i) /\ \A q \in Node \ {n} : hm'[q] = hm[q]
      /\ \A q \in Node, j \in Index : q # n \/ j # i => host'[q][j] = host[q][j]
  BY HandleStage1Effect, Zenon
<1>3. hm[n].indexMap[i] # Nobody /\ host[n][i] = Nobody
  BY <1>1, <1>2, NobodyAssumption, Zenon DEF IndexInv, IndexesFresh, IndexFresh
<1>4. hm[n] \in Tables(Packets) /\ UNCHANGED drawn
  BY Zenon DEF TypeInv, TypeOK, HandleStage1
<1> HIDE DEF i, p
<1>5. \A j \in Index : hm'[n].indexMap[j] = IF j = i THEN Nobody ELSE hm[n].indexMap[j]
  BY ONLY <1>1, <1>2, <1>3, <1>4, TakeEffect
<1>6. SpentStays
  BY <1>2, <1>3, <1>4, <1>5, Zenon DEF SpentStays
<1>7. SessionsKept
  BY <1>2, <1>3, SameSessionRefl, Zenon DEF SessionsKept
<1> QED
  BY <1>6, <1>7

\* Nor does RetryPending.
LEMMA RetryHistory ==
  ASSUME TypeInv, IndexInv, NEW n \in Node,
         NEW due \in SUBSET {p \in Node : InProgress(hm[n], p)}, Retry(n, due)
  PROVE  SessionsKept /\ SpentStays
<1>1. UNCHANGED <<host, drawn>>
  BY Zenon DEF Retry
<1>2. SessionsKept
  BY <1>1, SameSessionRefl, Zenon DEF SessionsKept
<1>3. \A q \in Node, j \in Index : hm[q].indexMap[j] = Nobody => hm'[q].indexMap[j] = Nobody
  BY RetryFresh, Zenon DEF Dropped
<1> QED
  BY <1>1, <1>2, <1>3, Zenon DEF SpentStays

\* A restart takes the sessions of one node away and revives no index.
LEMMA RestartHistory ==
  ASSUME TypeInv, IndexInv, NEW n \in Node, Restart(n)
  PROVE  /\ SpentStays
         /\ \A q \in Node \ {n}, j \in Index : host'[q][j] = host[q][j]
         /\ \A j \in Index : host'[n][j] = Nobody
<1>1. /\ \A j \in Index : hm'[n].indexMap[j] = Nobody /\ host'[n][j] = Nobody
      /\ \A q \in Node \ {n} : hm'[q] = hm[q] /\ host'[q] = host[q]
      /\ drawn' = drawn
  BY RestartEffect, Zenon
<1> QED
  BY <1>1, Zenon DEF SpentStays

\* No session is ever replaced: over any step it keeps its peer, its keys and
\* its marks, or it goes with a restart of its node.
LEMMA StepHistory ==
  ASSUME TypeInv, IndexInv, Next
  PROVE  /\ SpentStays
         /\ \A q \in Node, j \in Index : host[q][j] # Nobody =>
              \/ host'[q][j] # Nobody /\ SameSession(host[q][j], host'[q][j])
              \/ host'[q][j] = Nobody /\ Restart(q)
<1>1. ASSUME NEW n \in Node, Restart(n), NEW q \in Node, NEW j \in Index, host[q][j] # Nobody
      PROVE  \/ host'[q][j] # Nobody /\ SameSession(host[q][j], host'[q][j])
             \/ host'[q][j] = Nobody /\ Restart(q)
  BY <1>1, RestartHistory, SameSessionRefl
<1>2. CASE \E n \in Node : Restart(n)
  BY <1>1, <1>2, RestartHistory, Zenon
<1>3. CASE SessionsKept /\ SpentStays
  BY <1>3 DEF SessionsKept
<1> QED
  BY <1>2, <1>3, StepCases, QuiescentHistory, TunStartHistory, HandleStage0History,
     HandleStage1History, RetryHistory, Zenon

\* Over a step a session goes on with its peer, its indexes and its keys, its
\* counter never lower and no mark taken back, or its node restarts.
SessionGoesOn ==
  \A q \in Node, j \in Index : host[q][j] # Nobody =>
    \/ host'[q][j] # Nobody /\ SameSession(host[q][j], host'[q][j])
    \/ host'[q][j] = Nobody /\ Restart(q)

\* No handshake, duplicated or late, ever replaces, rewinds or re-keys a
\* HostInfo that was built under an index: only a restart of its node ends it.
THEOREM SessionsGoOn == Spec => [][SessionGoesOn]_vars
<1>1. TypeInv /\ IndexInv /\ [Next]_vars => [SessionGoesOn]_vars
  BY StepHistory, Zenon DEF SessionGoesOn
<1> QED
  BY <1>1, IndexSafe, PTL DEF Spec

-----------------------------------------------------------------------------
(* Nonces.                                                                 *)

\* The end of a split that seals with the cipher c.
Sealer(c) == IF c[2] = "c1" THEN c[1].initiator ELSE c[1].responder

\* A session seals with the key that is this end's alone.
OwnCiphers(n, i) ==
  host[n][i] # Nobody => Sealer(host[n][i].SendCipher) = <<n, i>>

\* The message m was sealed by session i of its sender, whose index was spent
\* then; if the session is still there its Counter has passed m.
SealedBy(m, i) ==
  /\ Sealer(m.cipher) = <<m.src, i>>
  /\ i <= drawn[m.src] /\ hm[m.src].indexMap[i] = Nobody
  /\ host[m.src][i] # Nobody => m.counter <= host[m.src][i].Counter

\* NonceUnique is not inductive: a new number is unused because Counter bounds
\* every number under its key, and the key belongs to one session that no
\* other ever replaces.
NonceInv ==
  /\ \A n \in Node, i \in Index : OwnCiphers(n, i)
  /\ \A m \in Messages : \E i \in Index : SealedBy(m, i)
  /\ NonceUnique

\* The fields of a data message.
LEMMA MessageFacts ==
  ASSUME TypeInv, NEW m \in Messages
  PROVE  /\ m \in net /\ m.type = "message" /\ m.src \in Node /\ m.dst \in Node
         /\ m.remoteIndex \in Index /\ m.counter \in Nat /\ m.pkt \in Packets
BY DatagramFacts DEF Messages

\* A session that is built, by either end, seals as the end it belongs to.
LEMMA CiphersStep ==
  ASSUME TypeInv, IndexInv, NonceInv, Next, NEW n \in Node, NEW i \in Index
  PROVE  OwnCiphers(n, i)'
<1>1. CASE host[n][i] # Nobody
  <2>1. OwnCiphers(n, i)
    BY DEF NonceInv
  <2> QED
    BY <1>1, <2>1, StepHistory, Zenon DEF OwnCiphers, SameSession
<1>2. CASE host[n][i] = Nobody /\ host'[n][i] # Nobody
  <2>1. ASSUME NEW q \in Node, NEW m \in Arriving(q, "stage0"), HandleStage0(q, m)
        PROVE  OwnCiphers(n, i)'
    <3>1. m.src \in Node /\ m.initiatorIndex \in Index
      BY ArrivingType, Zenon
    <3>2. PICK r \in Index :
             /\ host'[q][r] = ResponderHost(m.src, m.initiatorIndex, q, r)
             /\ \A x \in Node, j \in Index : x # q \/ j # r => host'[x][j] = host[x][j]
      BY <2>1, HandleStage0Host, Zenon
    <3>3. q = n /\ r = i
      BY <1>2, <3>2
    <3> DEFINE h == ResponderHost(m.src, m.initiatorIndex, n, i)
    <3>4. host'[n][i] = h
      BY ONLY <3>2, <3>3, Zenon
    <3>5. h.SendCipher = <<Split(m.src, m.initiatorIndex, n, i), "c2">>
      BY ONLY Zenon DEF ResponderHost, NewHost, ciphersFromStates
    <3> HIDE DEF h
    <3>6. Sealer(h.SendCipher) = <<n, i>>
      BY ONLY <3>5 DEF Sealer, Split
    <3> QED
      BY ONLY <3>4, <3>6, Zenon DEF OwnCiphers
  <2>2. ASSUME NEW q \in Node, NEW m \in Arriving(q, "stage1"), NEW intact \in BOOLEAN,
               HandleStage1(q, m, intact)
        PROVE  OwnCiphers(n, i)'
    <3> DEFINE p == hm[q].indexMap[m.remoteIndex]
    <3>1. m.remoteIndex \in Index /\ m.responderIndex \in Index
      BY <2>2, ArrivingType
    <3>2. /\ p \in Node
          /\ \/ /\ host'[q][m.remoteIndex] = InitiatorHost(q, m.remoteIndex, p, m.responderIndex)
                /\ \A x \in Node, j \in Index : x # q \/ j # m.remoteIndex => host'[x][j] = host[x][j]
             \/ UNCHANGED host
      BY <2>2, HandleStage1Host, Zenon
    <3> HIDE DEF p
    <3>3. q = n /\ m.remoteIndex = i /\ host'[n][i] = InitiatorHost(n, i, p, m.responderIndex)
      BY <1>2, <3>2
    <3> DEFINE h == InitiatorHost(n, i, p, m.responderIndex)
    <3>4. host'[n][i] = h
      BY ONLY <3>3, Zenon
    <3>5. h.SendCipher = <<Split(n, i, p, m.responderIndex), "c1">>
      BY ONLY Zenon DEF InitiatorHost, NewHost, ciphersFromStates
    <3> HIDE DEF h
    <3>6. Sealer(h.SendCipher) = <<n, i>>
      BY ONLY <3>5 DEF Sealer, Split
    <3> QED
      BY ONLY <3>4, <3>6, Zenon DEF OwnCiphers
  <2>3. ASSUME NEW q \in Node, Quiescent(q)
        PROVE  FALSE
    BY <1>2, <2>3, QuiescentEffect, Zenon DEF HostsKept
  <2>4. ASSUME NEW q \in Node, Restart(q)
        PROVE  FALSE
    BY <1>2, <2>4, RestartHistory
  <2>5. ASSUME NEW q \in Node,
               TunStart(q) \/ \E due \in SUBSET {p \in Node : InProgress(hm[q], p)} : Retry(q, due)
        PROVE  FALSE
    BY <1>2, <2>5, Zenon DEF TunStart, Retry
  <2> QED
    BY <2>1, <2>2, <2>3, <2>4, <2>5, StepCases
<1>3. CASE host'[n][i] = Nobody
  BY <1>3 DEF OwnCiphers
<1> QED
  BY <1>1, <1>2, <1>3

\* A message stays attributed to the session that sealed it.
LEMMA SealedStays ==
  ASSUME TypeInv, IndexInv, Next, NEW m \in Messages, NEW i \in Index, SealedBy(m, i), TypeInv'
  PROVE  SealedBy(m, i)'
<1>1. m.src \in Node /\ m.counter \in Nat
  BY MessageFacts
<1>2. /\ i <= drawn'[m.src] /\ hm'[m.src].indexMap[i] = Nobody
      /\ host[m.src][i] = Nobody => host'[m.src][i] = Nobody
  BY <1>1, StepHistory, Zenon DEF SealedBy, SpentStays
<1>3. ASSUME host'[m.src][i] # Nobody
      PROVE  m.counter <= host'[m.src][i].Counter
  <2>1. host[m.src][i] # Nobody /\ SameSession(host[m.src][i], host'[m.src][i])
    BY <1>1, <1>2, <1>3, StepHistory, Zenon
  <2>2. host[m.src][i].Counter \in Nat /\ host'[m.src][i].Counter \in Nat
    BY <1>1, <1>3, <2>1, HostFacts, HostFactsNext, Zenon
  <2>3. m.counter <= host[m.src][i].Counter /\ host[m.src][i].Counter <= host'[m.src][i].Counter
    BY <2>1, Zenon DEF SealedBy, SameSession
  <2> QED
    BY ONLY <1>1, <2>2, <2>3
<1> QED
  BY <1>2, <1>3, Zenon DEF SealedBy

\* The datagram of sendToRemote: a new nonce of the session it is sent on.
LEMMA SendNonce ==
  ASSUME TypeInv, IndexInv, NonceInv, TypeInv', Next,
         NEW n \in Node, NEW i \in Index, NEW k \in Packets, host[n][i] # Nobody,
         sendToRemote(n, i, k), UNCHANGED <<hm, drawn>>
  PROVE  /\ \A m \in Messages' : \E j \in Index : SealedBy(m, j)'
         /\ NonceUnique'
<1>1. PICK m : /\ net' = net \cup {m}
               /\ m.type = "message" /\ m.src = n
               /\ m.counter = host[n][i].Counter + 1 /\ m.cipher = host[n][i].SendCipher
  BY SendNet
<1>2. Messages' = Messages \cup {m}
  BY <1>1 DEF Messages
<1>3. /\ host'[n][i].Counter = host[n][i].Counter + 1
      /\ host[n][i].Counter \in Nat
  BY SendKeeps, HostFacts, Zenon
<1>4. Sealer(m.cipher) = <<n, i>>
  BY <1>1, Zenon DEF NonceInv, OwnCiphers
<1>5. i <= drawn[n] /\ hm[n].indexMap[i] = Nobody
  BY Zenon DEF IndexInv, IndexesFresh, HostFresh, IndexFresh
<1>6. SealedBy(m, i)'
  <2>1. m.counter <= host'[n][i].Counter
    BY ONLY <1>1, <1>3
  <2> QED
    BY <1>1, <1>4, <1>5, <2>1, Zenon DEF SealedBy
<1>7. \A x \in Messages' : \E j \in Index : SealedBy(x, j)'
  BY <1>2, <1>6, SealedStays DEF NonceInv
<1>8. ASSUME NEW x \in Messages, x.cipher = m.cipher, x.counter = m.counter
      PROVE  FALSE
  <2>1. PICK j \in Index : SealedBy(x, j)
    BY DEF NonceInv
  <2>2. <<x.src, j>> = <<n, i>>
    BY <1>4, <1>8, <2>1, Zenon DEF SealedBy
  <2>3. x.src = n /\ j = i
    BY <2>2, Zenon
  <2>4. x.counter <= host[n][i].Counter
    BY <2>1, <2>3 DEF SealedBy
  <2> QED
    BY ONLY <1>1, <1>3, <1>8, <2>4
<1>9. NonceUnique'
  BY <1>2, <1>8 DEF NonceInv, NonceUnique
<1> QED
  BY <1>7, <1>9

\* Only TunSend and Flush send data messages.
LEMMA SameMessages ==
  ASSUME Next, \A n \in Node : ~ TunSend(n) /\ ~ Flush(n)
  PROVE  Messages' = Messages
<1>0. ASSUME net \subseteq net', \A x \in net' \ net : x.type # "message"
      PROVE  Messages' = Messages
  BY ONLY <1>0, Zenon DEF Messages
<1>1. ASSUME NEW n \in Node, TunStart(n)
      PROVE  Messages' = Messages
  <2>1. \A p, j, a : Stage0(n, p, j, a).type # "message"
    BY ONLY DEF Stage0
  <2>2. \E p, j : net' = net \/ net' = net \cup {Stage0(n, p, j, 1)}
    BY <1>1, Zenon DEF TunStart
  <2>3. net \subseteq net' /\ \A x \in net' \ net : x.type # "message"
    BY ONLY <2>1, <2>2, Zenon
  <2> QED
    BY <1>0, <2>3, Zenon
<1>2. ASSUME NEW n \in Node, NEW m \in Arriving(n, "stage0"), HandleStage0(n, m)
      PROVE  Messages' = Messages
  <2>1. \A p, j, r : Stage1(n, p, j, r).type # "message"
    BY ONLY DEF Stage1
  <2>2. \E p, j, r : net' = net \cup {Stage1(n, p, j, r)}
    BY <1>2, Zenon DEF HandleStage0
  <2>3. net \subseteq net' /\ \A x \in net' \ net : x.type # "message"
    BY ONLY <2>1, <2>2, Zenon
  <2> QED
    BY <1>0, <2>3, Zenon
<1>3. ASSUME NEW n \in Node, NEW due, Retry(n, due)
      PROVE  Messages' = Messages
  <2>1. \A p, j, a : Stage0(n, p, j, a).type # "message"
    BY ONLY DEF Stage0
  <2>2. net \subseteq net' /\ \A x \in net' \ net : x.type # "message"
    BY <1>3, <2>1, Zenon DEF Retry
  <2> QED
    BY <1>0, <2>2, Zenon
<1>4. ASSUME NEW n \in Node, Restart(n) \/ \E m, intact : HandleStage1(n, m, intact)
      PROVE  Messages' = Messages
  BY <1>4, Zenon DEF Restart, HandleStage1, Messages
<1>5. ASSUME NEW n \in Node, Quiescent(n)
      PROVE  Messages' = Messages
  <2>1. UNCHANGED net
    BY <1>5, Zenon DEF Quiescent, TunRead, TunNoStart, TunQueue, IgnoreStage1, RefuseMessage,
       HandshakeComplete, AcceptMessage
  <2> QED
    BY <2>1 DEF Messages
<1> QED
  BY <1>1, <1>2, <1>3, <1>4, <1>5, StepCases

\* No message was sealed when the nodes start.
LEMMA NonceInit == Init => NonceInv
BY DEF Init, NonceInv, NonceUnique, Messages, OwnCiphers

\* NonceInv is inductive.
LEMMA NonceNext == TypeInv /\ IndexInv /\ NonceInv /\ [Next]_vars => NonceInv'
<1>1. ASSUME NonceInv, UNCHANGED vars
      PROVE  NonceInv'
  BY <1>1, Zenon DEF NonceInv, NonceUnique, Messages, OwnCiphers, SealedBy, vars, nodeVars
<1>2. ASSUME TypeInv, IndexInv, NonceInv, Next
      PROVE  NonceInv'
  <2>1. TypeInv'
    BY <1>2, NextType
  <2>2. \A n \in Node, i \in Index : OwnCiphers(n, i)'
    BY <1>2, CiphersStep
  <2>3. ASSUME NEW n \in Node, TunSend(n)
        PROVE  /\ \A m \in Messages' : \E j \in Index : SealedBy(m, j)'
               /\ NonceUnique'
    <3>1. tun[n].session \in Index /\ tun[n].pkt \in Packets /\ host[n][tun[n].session] # Nobody
      BY <1>2, <2>3, ReaderFacts, Zenon DEF TunSend
    <3> QED
      BY <1>2, <2>1, <2>3, <3>1, SendNonce, Zenon DEF TunSend
  <2>4. ASSUME NEW n \in Node, Flush(n)
        PROVE  /\ \A m \in Messages' : \E j \in Index : SealedBy(m, j)'
               /\ NonceUnique'
    <3>1. /\ udp[n].session \in Index /\ host[n][udp[n].session] # Nobody
          /\ Head(udp[n].packets) \in Packets
      BY <1>2, <2>4, ReaderFacts, TailFacts, Zenon DEF Flush
    <3> QED
      BY <1>2, <2>1, <2>4, <3>1, SendNonce DEF Flush
  <2>5. ASSUME \A n \in Node : ~ TunSend(n) /\ ~ Flush(n)
        PROVE  /\ \A m \in Messages' : \E j \in Index : SealedBy(m, j)'
               /\ NonceUnique'
    BY <1>2, <2>1, <2>5, SameMessages, SealedStays DEF NonceInv, NonceUnique
  <2> QED
    BY <2>2, <2>3, <2>4, <2>5 DEF NonceInv
<1> QED
  BY <1>1, <1>2

\* NonceInv holds in every execution.
LEMMA NonceSafe == Spec => []NonceInv
BY IndexSafe, NonceInit, NonceNext, PTL DEF Spec

\* No two data messages are ever sealed under the same key with the same
\* counter: not by the TUN reader and the flush of the UDP reader sending at
\* once, not across restarts, not when a session is built anew.
THEOREM NoncesUnique == Spec => []NonceUnique
<1>1. NonceInv => NonceUnique
  BY DEF NonceInv
<1> QED
  BY <1>1, NonceSafe, PTL
=============================================================================
