------------------------------ MODULE Interface ------------------------------
(***************************************************************************)
(* One node's Interface (src/interface.go): the TUN reader and the UDP     *)
(* reader between the HostMap, the firewall and the cache of certificates  *)
(* that handshakes are started from.  A module variable is one Go object   *)
(* with its own lock; a step is one call on one object, so the readers,    *)
(* the handshake ticker and the expiry of the firewall interleave.         *)
(*                                                                         *)
(* A peer's certificates are numbered in the order it was issued them; a   *)
(* new one comes with a new key, as neth-cert sign makes them, and the     *)
(* peer starts using it by a restart.  The peer answers a stage-0 only if  *)
(* that was made for the certificate it then uses: the pre-shared key is   *)
(* made from the certificate's fingerprint and the first message is        *)
(* encrypted to its key.  Nothing in a stage-0 tells how old it is.        *)
(* Encryption, replay and the retries of a handshake are in Tunnel, finding*)
(* the peer's address in LightHouse.                                       *)
(***************************************************************************)
EXTENDS HostMap, Firewall, FiniteSets

CONSTANTS
  Up,          \* the peers whose daemon runs
  GroupsOf     \* the groups in each of a peer's certificates

ASSUME CertsAssumption ==
  /\ Certs = DOMAIN GroupsOf /\ 1 \in Certs /\ Certs \subseteq Nat
  /\ Memberships = {GroupsOf[c] : c \in Certs}
  /\ Up \subseteq VpnIP /\ Remotes \subseteq VpnIP /\ Nil \notin Certs

VARIABLES
  peerCerts,   \* Interface.peerCerts
  pending,     \* HandshakeManager.pending: the certificate it was made for, and
               \* whether the peer has answered
  tun,         \* what the TUN reader is at
  udp,         \* what the UDP reader is at
  certOf       \* the certificate each peer uses

ownVars == <<peerCerts, pending, tun, udp, certOf>>
vars == <<hostVars, fwVars, ownVars>>

Idle == [pc |-> "idle"]

\* peers_dir holds a peer's first certificate, or nothing.
Init ==
  /\ HostMapInit /\ FirewallInit
  /\ peerCerts \in [VpnIP -> {Nil, 1}]
  /\ pending = [ip \in VpnIP |-> Nil]
  /\ tun = Idle /\ udp = Idle
  /\ certOf = [ip \in VpnIP |-> 1]

-----------------------------------------------------------------------------
\* The TUN reader: consumeInsidePacket.

TunRead(f) ==
  /\ tun = Idle
  /\ tun' = [pc |-> "allow", flow |-> f, host |-> byVpnIP[f.remote]]
  /\ NoPacket /\ UNCHANGED <<hostVars, peerCerts, pending, udp, certOf>>

\* Mutation: without a session, the groups are those of the cached certificate.
dstGroupsCached(host, ip) ==
  IF host # Nil THEN GroupsOf[sessions[host].Cert]
  ELSE IF peerCerts[ip] # Nil THEN GroupsOf[peerCerts[ip]] ELSE {}

dstGroups(host, ip) == IF host # Nil THEN GroupsOf[sessions[host].Cert] ELSE {}

\* With a session the packet is then sent on it, whatever has become of it.
TunAllow ==
  /\ tun.pc = "allow"
  /\ LET groups == dstGroups(tun.host, tun.flow.remote)
     IN  /\ Allow("out", tun.flow, groups)
         /\ tun' = IF Allowed("out", tun.flow, groups) /\ tun.host = Nil
                     THEN [pc |-> "cert", ip |-> tun.flow.remote]
                   ELSE Idle
  /\ UNCHANGED <<hostVars, peerCerts, pending, udp, certOf>>

\* getPeerCert: without a certificate no handshake can be started.
TunCert ==
  /\ tun.pc = "cert"
  /\ tun' = IF peerCerts[tun.ip] = Nil THEN Idle
            ELSE [pc |-> "start", ip |-> tun.ip, cert |-> peerCerts[tun.ip]]
  /\ NoPacket /\ UNCHANGED <<hostVars, peerCerts, pending, udp, certOf>>

\* StartHandshake with the certificate read before, unless one is under way.
TunStart ==
  /\ tun.pc = "start"
  /\ tun' = Idle
  /\ pending' = IF pending[tun.ip] # Nil THEN pending
                ELSE [pending EXCEPT ![tun.ip] = [cert |-> tun.cert, answered |-> FALSE]]
  /\ NoPacket /\ UNCHANGED <<hostVars, peerCerts, udp, certOf>>

-----------------------------------------------------------------------------
\* The UDP reader: consumeOutsidePacket.

\* A stage-0 of the peer, which may be an old one, with any certificate that
\* the peer has had.
HandleStage0(ip) ==
  /\ udp = Idle /\ Cardinality(Added) < MaxSessions
  /\ \E c \in Certs : c <= certOf[ip] /\ udp' = [pc |-> "add", ip |-> ip, cert |-> c]
  /\ NoPacket /\ UNCHANGED <<hostVars, peerCerts, pending, tun, certOf>>

HandleStage1(ip) ==
  /\ udp = Idle /\ Cardinality(Added) < MaxSessions
  /\ pending[ip] # Nil /\ pending[ip].answered
  /\ pending' = [pending EXCEPT ![ip] = Nil]
  /\ udp' = [pc |-> "add", ip |-> ip, cert |-> pending[ip].cert]
  /\ NoPacket /\ UNCHANGED <<hostVars, peerCerts, tun, certOf>>

\* onHandshakeComplete, the first call: the hostmap.
CompleteAdd ==
  /\ udp.pc = "add"
  /\ \E i \in Index : i = 1 + Cardinality(Added) /\ Add(udp.ip, i, udp.cert)
  /\ udp' = [udp EXCEPT !.pc = "cache"]
  /\ NoPacket /\ UNCHANGED <<peerCerts, pending, tun, certOf>>

\* Mutation: a certificate that is in the cache is not replaced.
CompleteCacheKeeping ==
  /\ udp.pc = "cache"
  /\ peerCerts' = [peerCerts EXCEPT ![udp.ip] = IF @ = Nil THEN udp.cert ELSE @]
  /\ udp' = Idle
  /\ NoPacket /\ UNCHANGED <<hostVars, pending, tun, certOf>>

\* onHandshakeComplete, the second call; the queued packets go out unfiltered.
CompleteCache ==
  /\ udp.pc = "cache"
  /\ peerCerts' = [peerCerts EXCEPT ![udp.ip] = udp.cert]
  /\ udp' = Idle
  /\ NoPacket /\ UNCHANGED <<hostVars, pending, tun, certOf>>

\* handleMessage with a packet of flow f, on any session that its index leads to.
\* The source address inside the packet need not be that of the session's peer.
HandleMessage(i, f) ==
  /\ udp = Idle
  /\ byIndex[i] # Nil
  /\ Allow("in", f, GroupsOf[sessions[byIndex[i]].Cert])
  /\ UNCHANGED <<hostVars, ownVars>>

HandleCloseTunnel(i) ==
  /\ udp = Idle
  /\ CloseTunnel(i)
  /\ NoPacket /\ UNCHANGED ownVars

-----------------------------------------------------------------------------
\* Mutation: the handshake that is given up stays in the map.
GiveUpKeeping(ip) ==
  /\ pending[ip] # Nil
  /\ NoPacket /\ UNCHANGED <<hostVars, ownVars>>

\* retryPending, when the last attempt was in vain.
GiveUp(ip) ==
  /\ pending[ip] # Nil
  /\ pending' = [pending EXCEPT ![ip] = Nil]
  /\ NoPacket /\ UNCHANGED <<hostVars, peerCerts, tun, udp, certOf>>

\* The firewall's ticker.
Expiry == FirewallTick /\ UNCHANGED <<hostVars, ownVars>>

\* The peer answers our stage-0.
Answer(ip) ==
  /\ pending[ip] # Nil /\ pending[ip].cert = certOf[ip] /\ ~ pending[ip].answered
  /\ pending' = [pending EXCEPT ![ip].answered = TRUE]
  /\ NoPacket /\ UNCHANGED <<hostVars, peerCerts, tun, udp, certOf>>

\* The peer is given a new certificate and restarts.
Reissue(ip) ==
  /\ certOf[ip] + 1 \in Certs
  /\ certOf' = [certOf EXCEPT ![ip] = @ + 1]
  /\ NoPacket /\ UNCHANGED <<hostVars, peerCerts, pending, tun, udp>>

Next ==
  \/ \E f \in Flows : TunRead(f)
  \/ TunAllow
  \/ TunCert
  \/ TunStart
  \/ \E ip \in Up : HandleStage0(ip) \/ HandleStage1(ip) \/ Answer(ip) \/ Reissue(ip)
  \/ \E ip \in VpnIP : GiveUp(ip)
  \/ CompleteAdd
  \/ CompleteCache
  \/ \E i \in Index : HandleCloseTunnel(i) \/ \E f \in Flows : HandleMessage(i, f)
  \/ Expiry

\* The flows that a rule without a group admits.
Ungrouped == {f \in Flows : ByRule("out", f, {})}

\* The readers go on; applications go on sending; a handshake that is tried
\* again and again is at some time answered and its answer delivered before it
\* is given up.
Fairness ==
  /\ WF_vars(TunAllow \/ TunCert \/ TunStart)
  /\ WF_vars(CompleteAdd \/ CompleteCache)
  /\ \A f \in Ungrouped : SF_vars(TunRead(f))
  /\ \A ip \in Up : WF_vars(GiveUp(ip)) /\ SF_vars(Answer(ip)) /\ SF_vars(HandleStage1(ip))

Spec == Init /\ [][Next]_vars
FairSpec == Spec /\ Fairness

-----------------------------------------------------------------------------
\* Between two datagrams the cached certificate of a peer is that of the newest
\* session made with it: what the peer proved last is what the next handshake
\* is started from, also when an older session outlives it.
CacheFollowsSessions ==
  udp = Idle =>
    \A s \in Added : (\A r \in Added : sessions[r].VpnIP = sessions[s].VpnIP => r <= s)
                       => peerCerts[sessions[s].VpnIP] = sessions[s].Cert

\* A rule can have admitted packets of this key in the direction d: one without a
\* group, or one whose group a session's certificate has.
Admitting(key, d) ==
  \E g \in Flows :
    /\ Key(d, g) = key
    /\ \/ ByRule(d, g, {})
       \/ \E s \in Added : /\ d = "out" => sessions[s].VpnIP = g.remote
                           /\ ByRule(d, g, GroupsOf[sessions[s].Cert])

\* The connection table has an entry that only a group can have made, only if a
\* peer proved a certificate with such a group in a handshake: groups of
\* certificates that were merely put into peers_dir do not count.  For what goes
\* out it is the peer that the packets go to; for what comes in it is the peer
\* that sealed the packet, whatever address the packet gives as its source.
GroupsProven ==
  \A f \in Flows : \A dir \in {"in", "out"} :
    seen[Key(dir, f)] # Untracked => Admitting(Key(dir, f), "in") \/ Admitting(Key(dir, f), "out")

\* A node that loses its session gets a new one as long as its applications
\* send something that needs no group and its cached certificate is the one the
\* peer uses.
Reconnects ==
  \A ip \in {f.remote : f \in Ungrouped} :
    byVpnIP[ip] = Nil /\ peerCerts[ip] = certOf[ip]
      ~> byVpnIP[ip] # Nil \/ peerCerts[ip] # certOf[ip] \/ Cardinality(Added) = MaxSessions

=============================================================================
