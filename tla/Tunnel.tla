------------------------------- MODULE Tunnel -------------------------------
(***************************************************************************)
(* Sessions between nodes: the TUN reader, the UDP reader and the retry    *)
(* ticker of every node (src/interface.go), its HandshakeManager           *)
(* (src/handshake_manager.go), its HostMap (src/hostmap.go), and the UDP   *)
(* network between the nodes.                                              *)
(*                                                                         *)
(* The two readers are goroutines: each has a program counter, and a step  *)
(* is what it does between two points where the other one, the ticker or   *)
(* the network may act.  A node's VPN IP, its certificate and its UDP      *)
(* address are the node.  randomIndex is taken never to repeat a value on  *)
(* a node; the fresh Noise ephemeral drawn together with an index is       *)
(* named by that index, so a split is named by the two indexes.            *)
(*                                                                         *)
(* CloseTunnel is left out: nothing in the code sends one, and what        *)
(* handleCloseTunnel does to the sessions is in HostMap and Interface.     *)
(***************************************************************************)
EXTENDS HandshakeTable

CONSTANTS
  PeerCerts,      \* the certificates loadPeerCerts finds on each node
  WindowSize,     \* replayWindowSize
  Duplicates,     \* may the network deliver a datagram again?
  MaxPackets,     \* bound: packets read from all TUN devices
  MaxRestarts     \* bound: restarts of all nodes

ASSUME CertsAssumption == PeerCerts \in [Node -> SUBSET Node]
ASSUME DuplicatesAssumption == Duplicates \in BOOLEAN
ASSUME WindowAssumption == WindowSize \in Nat \ {0}
ASSUME BoundsAssumption == MaxPackets \in Nat /\ MaxRestarts \in Nat

VARIABLES
  hm,          \* HandshakeManager: its two maps, per node
  host,        \* the HostInfo objects of each node, by their Index
  byVpnIP,     \* HostMap.byVpnIP: the index of the object, or Nobody
  byIndex,     \* HostMap.byIndex: the indexes that have an entry
  peerCerts,   \* Interface.peerCerts
  tun,         \* the TUN reader of each node
  udp,         \* the UDP reader of each node
  net,         \* every datagram ever sent
  gone,        \* without Duplicates: the datagrams already delivered
  drawn,       \* indexes drawn so far, per node
  booted,      \* value of drawn at the last restart, per node
  read,        \* packets read from TUN devices so far
  written,     \* history: how often each packet was written to a TUN device
  restarts     \* restarts so far

nodeVars == <<hm, host, byVpnIP, byIndex, peerCerts, tun, udp>>
vars == <<nodeVars, net, gone, drawn, booted, read, written, restarts>>

Packets == [src : Node, dst : Node, id : 1 .. MaxPackets]

TunIdle == [pc |-> "read", pkt |-> Nobody, session |-> Nobody]
UdpIdle == [pc |-> "read", session |-> Nobody, packets |-> << >>]

Init ==
  /\ hm = [n \in Node |-> EmptyTable]
  /\ host = [n \in Node |-> [i \in Index |-> Nobody]]
  /\ byVpnIP = [n \in Node |-> [p \in Node |-> Nobody]]
  /\ byIndex = [n \in Node |-> {}]
  /\ peerCerts = PeerCerts
  /\ tun = [n \in Node |-> TunIdle]
  /\ udp = [n \in Node |-> UdpIdle]
  /\ net = {} /\ gone = {}
  /\ drawn = [n \in Node |-> 0] /\ booted = [n \in Node |-> 0]
  /\ read = 0 /\ restarts = 0
  /\ written = [n \in Node |-> [k \in Packets |-> 0]]

-----------------------------------------------------------------------------
(* Datagrams.  A stage-0 resent by the ticker is the same bytes in a new   *)
(* datagram; attempt tells the copies apart and no handler reads it.       *)

Stage0(n, p, i, attempt) ==
  [type |-> "stage0", src |-> n, dst |-> p, initiatorIndex |-> i, attempt |-> attempt]

Stage1(n, p, i, r) ==
  [type |-> "stage1", src |-> n, dst |-> p, remoteIndex |-> i, responderIndex |-> r]

Message(n, h, pkt) ==
  [type |-> "message", src |-> n, dst |-> h.VpnIP, remoteIndex |-> h.RemoteIndex,
   counter |-> h.Counter + 1, cipher |-> h.SendCipher, pkt |-> pkt]

\* The datagrams of a type that the network may hand to n now.  The types are
\* the two handshake stages and messages; no node sends a CloseTunnel.
Arriving(n, type) ==
  {m \in net : m.type = type /\ m.dst = n /\ (Duplicates \/ m \notin gone)}

Consume(m) == gone' = IF Duplicates THEN gone ELSE gone \cup {m}

\* randomIndex and, with it, a fresh Noise ephemeral.
randomIndex(n, i) ==
  /\ drawn[n] < MaxIndex
  /\ i = drawn[n] + 1
  /\ drawn' = [drawn EXCEPT ![n] = i]

\* Noise: the cipher states a responder r on node p derives from stage-0 i of n.
Split(n, i, p, r) == [initiator |-> <<n, i>>, responder |-> <<p, r>>]

\* c1 carries initiator to responder, c2 responder to initiator.
ciphersFromStates(split, isInitiator) ==
  IF isInitiator THEN [send |-> <<split, "c1">>, recv |-> <<split, "c2">>]
                 ELSE [send |-> <<split, "c2">>, recv |-> <<split, "c1">>]

NewHost(p, remoteIndex, ciphers) ==
  [VpnIP |-> p, RemoteIndex |-> remoteIndex,
   SendCipher |-> ciphers.send, RecvCipher |-> ciphers.recv,
   Counter |-> 0, windowEnd |-> 0, window |-> {}]

-----------------------------------------------------------------------------
(* The TUN reader: consumeInsidePacket.                                    *)

\* GetByVpnIP.  A packet the firewall refuses goes no further and changes
\* nothing, so only the packets it lets through are read here.
TunRead(n, p) ==
  /\ tun[n].pc = "read" /\ p # n /\ read < MaxPackets
  /\ read' = read + 1
  /\ tun' = [tun EXCEPT ![n] =
               [pc      |-> IF byVpnIP[n][p] # Nobody THEN "send" ELSE "start",
                pkt     |-> [src |-> n, dst |-> p, id |-> read + 1],
                session |-> byVpnIP[n][p]]]
  /\ UNCHANGED <<hm, host, byVpnIP, byIndex, peerCerts, udp, net, gone, drawn,
                 booted, written, restarts>>

\* Mutation: two senders can take the same counter.
sendToRemoteStaleCounter(n, i, pkt) ==
  /\ net' = net \cup {Message(n, host[n][i], pkt)}
  /\ host' = [host EXCEPT ![n][i].Counter =
                IF udp[n].pc = "flush" /\ tun[n].pc = "send" THEN @ ELSE @ + 1]

\* sendToRemote: Counter.Add(1) is atomic, so the number and the datagram that
\* carries it belong to one sender whatever the other goroutine does.
sendToRemote(n, i, pkt) ==
  /\ net' = net \cup {Message(n, host[n][i], pkt)}
  /\ host' = [host EXCEPT ![n][i].Counter = @ + 1]

\* The session found by TunRead may have been replaced in the meantime.
TunSend(n) ==
  /\ tun[n].pc = "send"
  /\ sendToRemote(n, tun[n].session, tun[n].pkt)
  /\ tun' = [tun EXCEPT ![n] = TunIdle]
  /\ UNCHANGED <<hm, byVpnIP, byIndex, peerCerts, udp, gone, drawn, booted,
                 read, written, restarts>>

\* No certificate, or no address (QueryPeer, modelled in the lighthouse):
\* straight to QueuePacket.  StartHandshake returns nil when one is pending.
TunNoStart(n) ==
  /\ tun[n].pc = "start"
  /\ tun' = [tun EXCEPT ![n].pc = "queue"]
  /\ UNCHANGED <<hm, host, byVpnIP, byIndex, peerCerts, udp, net, gone, drawn,
                 booted, read, written, restarts>>

\* StartHandshake.  When WriteTo fails the handshake stays in the maps and the
\* ticker will resend it, but the packet that asked for it is not queued.
TunStart(n) ==
  LET p == tun[n].pkt.dst
  IN  /\ tun[n].pc = "start"
      /\ p \in peerCerts[n]
      /\ ~ InProgress(hm[n], p)
      /\ \E i \in Index :
           /\ randomIndex(n, i)
           /\ hm' = [hm EXCEPT ![n] = OpenHandshake(@, p, i)]
           /\ \/ /\ net' = net \cup {Stage0(n, p, i, 1)}
                 /\ tun' = [tun EXCEPT ![n].pc = "queue"]
              \/ /\ net' = net
                 /\ tun' = [tun EXCEPT ![n] = TunIdle]
      /\ UNCHANGED <<host, byVpnIP, byIndex, peerCerts, udp, gone, booted, read,
                     written, restarts>>

TunQueue(n) ==
  /\ tun[n].pc = "queue"
  /\ hm' = [hm EXCEPT ![n] = QueuePacket(@, tun[n].pkt.dst, tun[n].pkt)]
  /\ tun' = [tun EXCEPT ![n] = TunIdle]
  /\ UNCHANGED <<host, byVpnIP, byIndex, peerCerts, udp, net, gone, drawn, booted,
                 read, written, restarts>>

-----------------------------------------------------------------------------
(* The UDP reader: consumeOutsidePacket and, from it, the handlers.        *)

\* HandleStage0: answer, then build the session.  Every return before WriteTo
\* has succeeded changes nothing, as if the datagram had been lost.
HandleStage0(n, m) ==
  /\ udp[n].pc = "read"
  /\ Consume(m)
  /\ \E r \in Index :
       /\ randomIndex(n, r)
       /\ net' = net \cup {Stage1(n, m.src, m.initiatorIndex, r)}
       /\ LET split == Split(m.src, m.initiatorIndex, n, r)
          IN  host' = [host EXCEPT ![n][r] =
                         NewHost(m.src, m.initiatorIndex, ciphersFromStates(split, FALSE))]
       /\ udp' = [udp EXCEPT ![n] = [pc |-> "install", session |-> r, packets |-> << >>]]
  /\ UNCHANGED <<hm, byVpnIP, byIndex, peerCerts, tun, booted, read, written, restarts>>

\* HandleStage1.  The handshake leaves the maps before the message is verified;
\* a body that fails to parse, verify or decrypt ends there.
HandleStage1(n, m, intact) ==
  LET i == m.remoteIndex
      p == hm[n].indexMap[i]
      split == Split(n, i, p, m.responderIndex)
  IN  /\ udp[n].pc = "read"
      /\ Consume(m)
      /\ p # Nobody
      /\ hm' = [hm EXCEPT ![n] = TakeHandshake(@, i)]
      /\ IF intact
           THEN /\ host' = [host EXCEPT ![n][i] =
                              NewHost(p, m.responderIndex, ciphersFromStates(split, TRUE))]
                /\ udp' = [udp EXCEPT ![n] =
                             [pc |-> "install", session |-> i,
                              packets |-> hm[n].pending[p].pendingPackets]]
           ELSE UNCHANGED <<host, udp>>
      /\ UNCHANGED <<byVpnIP, byIndex, peerCerts, tun, net, drawn, booted, read,
                     written, restarts>>

\* HandleStage1 for an index nobody waits for.
IgnoreStage1(n, m) ==
  /\ udp[n].pc = "read"
  /\ Consume(m)
  /\ hm[n].indexMap[m.remoteIndex] = Nobody
  /\ UNCHANGED <<nodeVars, net, drawn, booted, read, written, restarts>>

\* Mutation: Add drops the index entry of the session it replaces.
HandshakeCompleteEvicting(n) ==
  LET i == udp[n].session
      p == host[n][i].VpnIP
  IN  /\ udp[n].pc = "install"
      /\ byVpnIP' = [byVpnIP EXCEPT ![n][p] = i]
      /\ byIndex' = [byIndex EXCEPT ![n] = (@ \ {byVpnIP[n][p]}) \cup {i}]
      /\ peerCerts' = [peerCerts EXCEPT ![n] = @ \cup {p}]
      /\ udp' = [udp EXCEPT ![n] = IF @.packets = << >> THEN UdpIdle ELSE [@ EXCEPT !.pc = "flush"]]
      /\ UNCHANGED <<hm, host, tun, net, gone, drawn, booted, read, written, restarts>>

\* onHandshakeComplete up to its loop: HostMap.Add, which leaves the index
\* entry of a replaced session in place, and the certificate cache.
HandshakeComplete(n) ==
  LET i == udp[n].session
      p == host[n][i].VpnIP
  IN  /\ udp[n].pc = "install"
      /\ byVpnIP' = [byVpnIP EXCEPT ![n][p] = i]
      /\ byIndex' = [byIndex EXCEPT ![n] = @ \cup {i}]
      /\ peerCerts' = [peerCerts EXCEPT ![n] = @ \cup {p}]
      /\ udp' = [udp EXCEPT ![n] = IF @.packets = << >> THEN UdpIdle ELSE [@ EXCEPT !.pc = "flush"]]
      /\ UNCHANGED <<hm, host, tun, net, gone, drawn, booted, read, written, restarts>>

\* One round of onHandshakeComplete's loop over the queued packets.
Flush(n) ==
  /\ udp[n].pc = "flush"
  /\ sendToRemote(n, udp[n].session, Head(udp[n].packets))
  /\ udp' = [udp EXCEPT ![n] = IF Len(@.packets) = 1 THEN UdpIdle
                               ELSE [@ EXCEPT !.packets = Tail(udp[n].packets)]]
  /\ UNCHANGED <<hm, byVpnIP, byIndex, peerCerts, tun, gone, drawn, booted, read,
                 written, restarts>>

\* CheckReplay as ReplayFilter states it, which ReplayWindow implements.
IsReplay(h, counter) ==
  /\ counter <= h.windowEnd
  /\ h.windowEnd - counter >= WindowSize \/ counter \in h.window

\* handleMessage for an index without a session, or for a replay.
RefuseMessage(n, m) ==
  /\ udp[n].pc = "read"
  /\ Consume(m)
  /\ m.remoteIndex \in byIndex[n] => IsReplay(host[n][m.remoteIndex], m.counter)
  /\ UNCHANGED <<nodeVars, net, drawn, booted, read, written, restarts>>

\* Mutation: the window is only tested, never marked.
AcceptMessageUnmarked(n, m, intact) ==
  LET i == m.remoteIndex
  IN  /\ udp[n].pc = "read"
      /\ Consume(m)
      /\ i \in byIndex[n] /\ ~ IsReplay(host[n][i], m.counter)
      /\ written' = IF intact /\ m.cipher = host[n][i].RecvCipher
                      THEN [written EXCEPT ![n][m.pkt] = @ + 1] ELSE written
      /\ UNCHANGED <<nodeVars, net, drawn, booted, read, restarts>>

\* handleMessage: the counter is marked before Decrypt; a datagram damaged on
\* the way, or sealed with another cipher, fails there and is dropped.
AcceptMessage(n, m, intact) ==
  LET i == m.remoteIndex
  IN  /\ udp[n].pc = "read"
      /\ Consume(m)
      /\ i \in byIndex[n] /\ ~ IsReplay(host[n][i], m.counter)
      /\ host' = [host EXCEPT
                    ![n][i].windowEnd = IF m.counter > @ THEN m.counter ELSE @,
                    ![n][i].window = @ \cup {m.counter}]
      /\ written' = IF intact /\ m.cipher = host[n][i].RecvCipher
                      THEN [written EXCEPT ![n][m.pkt] = @ + 1] ELSE written
      /\ UNCHANGED <<hm, byVpnIP, byIndex, peerCerts, tun, udp, net, drawn, booted,
                     read, restarts>>

-----------------------------------------------------------------------------
\* The ticker: retryPending for the handshakes that are due.  A WriteTo that
\* fails is a datagram that is never delivered.
Retry(n, due) ==
  /\ hm' = [hm EXCEPT ![n] = RetryPending(@, due)]
  /\ net' = net \cup {Stage0(n, p, hm[n].pending[p].localIndex, hm[n].pending[p].attempts + 1) :
                        p \in due \ Expired(hm[n], due)}
  /\ UNCHANGED <<host, byVpnIP, byIndex, peerCerts, tun, udp, gone, drawn, booted,
                 read, written, restarts>>

\* The daemon is stopped and started again: nothing of this state is on disk
\* except the certificates that loadPeerCerts reads.
Restart(n) ==
  /\ restarts < MaxRestarts
  /\ restarts' = restarts + 1
  /\ hm' = [hm EXCEPT ![n] = EmptyTable]
  /\ host' = [host EXCEPT ![n] = [i \in Index |-> Nobody]]
  /\ byVpnIP' = [byVpnIP EXCEPT ![n] = [p \in Node |-> Nobody]]
  /\ byIndex' = [byIndex EXCEPT ![n] = {}]
  /\ peerCerts' = [peerCerts EXCEPT ![n] = PeerCerts[n]]
  /\ tun' = [tun EXCEPT ![n] = TunIdle]
  /\ udp' = [udp EXCEPT ![n] = UdpIdle]
  /\ booted' = [booted EXCEPT ![n] = drawn[n]]
  /\ UNCHANGED <<net, gone, drawn, read, written>>

TunReader(n) ==
  (\E p \in Node : TunRead(n, p)) \/ TunSend(n) \/ TunNoStart(n) \/ TunStart(n) \/ TunQueue(n)

UdpReader(n) ==
  \/ \E m \in Arriving(n, "stage0") : HandleStage0(n, m)
  \/ \E m \in Arriving(n, "stage1"), intact \in BOOLEAN : HandleStage1(n, m, intact)
  \/ \E m \in Arriving(n, "stage1") : IgnoreStage1(n, m)
  \/ HandshakeComplete(n)
  \/ Flush(n)
  \/ \E m \in Arriving(n, "message") : RefuseMessage(n, m)
  \/ \E m \in Arriving(n, "message"), intact \in BOOLEAN : AcceptMessage(n, m, intact)

Ticker(n) ==
  \E due \in (SUBSET {p \in Node : InProgress(hm[n], p)}) \ {{}} : Retry(n, due)

Next == \E n \in Node : TunReader(n) \/ UdpReader(n) \/ Ticker(n) \/ Restart(n)

Spec == Init /\ [][Next]_vars

-----------------------------------------------------------------------------
Ciphers == [initiator : Node \X Index, responder : Node \X Index] \X {"c1", "c2"}

Hosts ==
  [VpnIP : Node, RemoteIndex : Index, SendCipher : Ciphers, RecvCipher : Ciphers,
   Counter : Nat, windowEnd : Nat, window : SUBSET Nat]

ASSUME NoHostAssumption == Nobody \notin Hosts

Datagrams ==
  [type : {"stage0"}, src : Node, dst : Node, initiatorIndex : Index,
   attempt : 1 .. maxHandshakeAttempts]
  \cup
  [type : {"stage1"}, src : Node, dst : Node, remoteIndex : Index, responderIndex : Index]
  \cup
  [type : {"message"}, src : Node, dst : Node, remoteIndex : Index, counter : Nat,
   cipher : Ciphers, pkt : Packets]

TunStates ==
  {TunIdle}
  \cup [pc : {"send"}, pkt : Packets, session : Index]
  \cup [pc : {"start", "queue"}, pkt : Packets, session : {Nobody}]

UdpStates ==
  {UdpIdle} \cup [pc : {"install", "flush"}, session : Index, packets : Seq(Packets)]

\* The variables have their types; in particular no stage-0 goes out for a
\* handshake that has used up its maxHandshakeAttempts.
TypeOK ==
  /\ hm \in [Node -> Tables(Packets)]
  /\ host \in [Node -> [Index -> Hosts \cup {Nobody}]]
  /\ byVpnIP \in [Node -> [Node -> Index \cup {Nobody}]]
  /\ byIndex \in [Node -> SUBSET Index]
  /\ peerCerts \in [Node -> SUBSET Node]
  /\ tun \in [Node -> TunStates]
  /\ udp \in [Node -> UdpStates]
  /\ net \subseteq Datagrams
  /\ gone \subseteq net
  /\ drawn \in [Node -> 0 .. MaxIndex]
  /\ booted \in [Node -> 0 .. MaxIndex]
  /\ read \in 0 .. MaxPackets
  /\ written \in [Node -> [Packets -> Nat]]
  /\ restarts \in 0 .. MaxRestarts

\* The messages on the wire.
Messages == {m \in net : m.type = "message"}

\* No cipher ever seals two datagrams under one counter: Counter is the AEAD
\* nonce.  The TUN reader and the flush of queued packets share the counter,
\* and a session built twice from one response would start it again at zero.
NonceUnique ==
  \A m1, m2 \in Messages : m1.cipher = m2.cipher /\ m1.counter = m2.counter => m1 = m2

\* A packet read from the TUN device is sealed and sent at most once, although
\* it moves from the reader to a queue, to a flush and to a session, any of
\* which may be replaced, retried or duplicated under it.
SentAtMostOnce == \A m1, m2 \in Messages : m1.pkt = m2.pkt => m1 = m2

\* A packet is written to the TUN device of its destination only, and at most
\* once, whatever the network repeats and however often sessions change.
WrittenAtMostOnce ==
  \A n \in Node, k \in Packets : written[n][k] <= IF k.dst = n THEN 1 ELSE 0

\* The two maps of a HandshakeManager describe the same handshakes.
MapsAgree ==
  \A n \in Node :
    /\ \A p \in Node : InProgress(hm[n], p) =>
         hm[n].indexMap[hm[n].pending[p].localIndex] = p
    /\ \A i \in Index : hm[n].indexMap[i] # Nobody =>
         hm[n].pending[hm[n].indexMap[i]].localIndex = i

\* Packets wait for a handshake in the order in which they were read, at most
\* maxPendingPackets of them, in the queue of their own destination.
QueueInOrder ==
  \A n, p \in Node :
    LET q == hm[n].pending[p].pendingPackets
    IN  /\ Len(q) <= maxPendingPackets
        /\ \A j \in 1 .. Len(q) : q[j].src = n /\ q[j].dst = p
        /\ \A j, k \in 1 .. Len(q) : j < k => q[j].id < q[k].id

IsInitiator(n, i) == host[n][i].SendCipher[2] = "c1"

\* What session i of n seals, session r of p opens, and the other way round.
Paired(n, i, p, r) ==
  /\ host[p][r] # Nobody
  /\ host[p][r].VpnIP = n /\ host[p][r].RemoteIndex = i
  /\ host[n][i].SendCipher = host[p][r].RecvCipher
  /\ host[n][i].RecvCipher = host[p][r].SendCipher

\* A session that n opened as initiator is answered: unless the peer restarted
\* after it drew its index, the peer holds the matching session under that
\* index, or is about to store it.  Later handshakes, in either direction, do
\* not take it away: this rests on Add keeping the index entries of the
\* sessions it replaces, as two nodes that open towards each other at the same
\* time end up sending on different sessions.
InitiatorAnswered ==
  \A n \in Node : \A i \in byIndex[n] : IsInitiator(n, i) =>
    LET p == host[n][i].VpnIP
        r == host[n][i].RemoteIndex
    IN  r > booted[p] =>
          /\ Paired(n, i, p, r)
          /\ r \in byIndex[p] \/ (udp[p].pc = "install" /\ udp[p].session = r)

Quiet ==
  /\ net \subseteq gone
  /\ \A n \in Node : tun[n].pc = "read" /\ udp[n].pc = "read"
  /\ \A n, p \in Node : ~ InProgress(hm[n], p)

\* When nothing is in flight and nothing is pending any more, two nodes that
\* have sessions with each other can open what the other one sends: "a
\* transparent encrypted tunnel between any two nodes" (src/README.md:13-14).
BothWays ==
  Quiet => \A n, p \in Node :
    byVpnIP[n][p] # Nobody /\ byVpnIP[p][n] # Nobody =>
      LET h == host[n][byVpnIP[n][p]]
      IN  /\ h.RemoteIndex \in byIndex[p]
          /\ host[p][h.RemoteIndex].RecvCipher = h.SendCipher

=============================================================================
