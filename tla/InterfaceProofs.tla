--------------------------- MODULE InterfaceProofs ---------------------------
(***************************************************************************)
(* The two maps of HostMap agree, for any number of peers, indexes and     *)
(* sessions.  The connection table admits and refuses as it should, for    *)
(* any rules, flows, groups, timeouts and expiry interval.  The readers,   *)
(* the ticker and the handshakes of Interface use the HostMap and the      *)
(* firewall as HostMapSpec and FirewallSpec say, so that what is proved of *)
(* these holds of the whole; and the cache of certificates and the         *)
(* connection table follow what handshakes have proved.                    *)
(***************************************************************************)
EXTENDS Interface, TLAPS

-----------------------------------------------------------------------------
(* HostMap.                                                                *)

Session == [VpnIP : VpnIP, Index : Index, Cert : Certs]

HostMapTypeOK ==
  /\ sessions \in [1 .. MaxSessions -> Session \cup {Nil}]
  /\ byVpnIP \in [VpnIP -> Added \cup {Nil}]
  /\ byIndex \in [Index -> Added \cup {Nil}]

\* What makes CurrentIsNewest inductive: an index belongs to one session, and
\* the index map leads to the session that has the index.
IndexOwned ==
  /\ \A r, s \in Added : sessions[r].Index = sessions[s].Index => r = s
  /\ \A i \in Index : byIndex[i] # Nil => sessions[byIndex[i]].Index = i

HostMapInv == HostMapTypeOK /\ IndexOwned /\ CurrentIsNewest

\* Both maps are empty in the HostMap that NewHostMap returns.
LEMMA HostMapStarts == HostMapInit => HostMapInv
BY SessionsAssumption
   DEF HostMapInit, HostMapInv, HostMapTypeOK, IndexOwned, CurrentIsNewest, Added

\* Add keeps the maps in agreement: the session it stores is newer than all.
LEMMA AddKeepsInv ==
  ASSUME HostMapInv, NEW ip \in VpnIP, NEW i \in Index, NEW cert \in Certs, Add(ip, i, cert)
  PROVE  HostMapInv'
<1> DEFINE new == [VpnIP |-> ip, Index |-> i, Cert |-> cert]
<1> USE SessionsAssumption
<1>1. PICK s \in 1 .. MaxSessions :
        /\ Added = 1 .. s - 1
        /\ \A r \in Added : sessions[r].Index # i
        /\ sessions' = [sessions EXCEPT ![s] = new]
        /\ byVpnIP' = [byVpnIP EXCEPT ![ip] = s]
        /\ byIndex' = [byIndex EXCEPT ![i] = s]
  BY DEF Add
<1>2. new \in Session /\ new # Nil
  BY DEF Session
<1>3. /\ Added' = Added \cup {s}
      /\ sessions'[s] = new
      /\ \A r \in Added : sessions'[r] = sessions[r] /\ r < s /\ r # s /\ r \in Int
  <2> HIDE DEF new
  <2>1. /\ sessions'[s] = new
        /\ \A r \in 1 .. MaxSessions : r # s => sessions'[r] = sessions[r]
    BY <1>1 DEF HostMapInv, HostMapTypeOK
  <2>2. Added' = Added \cup {s}
    BY <1>2, <2>1 DEF Added
  <2>3. \A r \in Added : r < s /\ r # s /\ r \in Int
    BY <1>1
  <2>4. Added \subseteq 1 .. MaxSessions
    BY DEF Added
  <2> QED
    BY <2>1, <2>2, <2>3, <2>4
<1>4. HostMapTypeOK'
  <2>1. sessions' \in [1 .. MaxSessions -> Session \cup {Nil}]
    BY <1>1, <1>2 DEF HostMapInv, HostMapTypeOK
  <2>2. byVpnIP' \in [VpnIP -> Added' \cup {Nil}] /\ byIndex' \in [Index -> Added' \cup {Nil}]
    BY <1>1, <1>3 DEF HostMapInv, HostMapTypeOK
  <2> QED
    BY <2>1, <2>2 DEF HostMapTypeOK
<1>5. new.VpnIP = ip /\ new.Index = i
  OBVIOUS
<1> HIDE DEF new
<1>6. Nil \notin Added /\ s # Nil
  BY <1>1 DEF Added
<1>7. IndexOwned'
  <2>1. \A q, r \in Added : sessions[q].Index = sessions[r].Index => q = r
    BY DEF HostMapInv, IndexOwned
  <2>2. \A q, r \in Added' : sessions'[q].Index = sessions'[r].Index => q = r
    BY <1>1, <1>3, <1>5, <2>1
  <2>3. /\ \A j \in Index : byIndex[j] # Nil => byIndex[j] \in Added /\ sessions[byIndex[j]].Index = j
        /\ \A j \in Index : byIndex'[j] = IF j = i THEN s ELSE byIndex[j]
    BY <1>1 DEF HostMapInv, HostMapTypeOK, IndexOwned
  <2>4. \A j \in Index : byIndex'[j] # Nil => sessions'[byIndex'[j]].Index = j
    BY <1>3, <1>5, <2>3
  <2> QED
    BY <2>2, <2>4 DEF IndexOwned
<1>8. CurrentIsNewest'
  <2> SUFFICES ASSUME NEW p \in VpnIP, byVpnIP'[p] # Nil
               PROVE  /\ sessions'[byVpnIP'[p]].VpnIP = p
                      /\ byIndex'[sessions'[byVpnIP'[p]].Index] = byVpnIP'[p]
                      /\ \A j \in Index : byIndex'[j] # Nil /\ sessions'[byIndex'[j]].VpnIP = p
                                            => byIndex'[j] <= byVpnIP'[p]
    BY DEF CurrentIsNewest
  <2>1. CASE p = ip
    <3>1. byVpnIP'[p] = s
      BY <1>1, <2>1 DEF HostMapInv, HostMapTypeOK
    <3>2. \A j \in Index : byIndex'[j] # Nil => byIndex'[j] <= s
      BY <1>1, <1>3 DEF HostMapInv, HostMapTypeOK
    <3> QED
      BY <1>1, <1>3, <1>5, <2>1, <3>1, <3>2 DEF HostMapInv, HostMapTypeOK
  <2>2. CASE p # ip
    <3>1. /\ byVpnIP'[p] = byVpnIP[p] /\ byVpnIP[p] \in Added
          /\ sessions'[byVpnIP[p]] = sessions[byVpnIP[p]]
          /\ sessions[byVpnIP[p]].Index # i
      BY <1>1, <1>3, <2>2 DEF HostMapInv, HostMapTypeOK
    <3>2. /\ sessions[byVpnIP[p]].VpnIP = p
          /\ byIndex[sessions[byVpnIP[p]].Index] = byVpnIP[p]
          /\ \A j \in Index : byIndex[j] # Nil /\ sessions[byIndex[j]].VpnIP = p
                                => byIndex[j] <= byVpnIP[p]
      BY <3>1 DEF HostMapInv, CurrentIsNewest
    <3>3. sessions[byVpnIP[p]].Index \in Index
      BY <3>1 DEF HostMapInv, HostMapTypeOK, Added, Session
    <3>4. \A j \in Index : j # i => byIndex'[j] = byIndex[j]
      BY <1>1 DEF HostMapInv, HostMapTypeOK
    <3>5. byIndex'[i] = s
      BY <1>1 DEF HostMapInv, HostMapTypeOK
    <3>6. ASSUME NEW j \in Index, byIndex'[j] # Nil, sessions'[byIndex'[j]].VpnIP = p
          PROVE  byIndex'[j] <= byVpnIP'[p]
      <4>1. j # i
        BY <1>3, <1>5, <2>2, <3>5, <3>6
      <4>2. byIndex[j] \in Added
        BY <3>4, <3>6, <4>1 DEF HostMapInv, HostMapTypeOK
      <4> QED
        BY <1>3, <3>1, <3>2, <3>4, <3>6, <4>1, <4>2
    <3> QED
      BY <3>1, <3>2, <3>3, <3>4, <3>6
  <2> QED
    BY <2>1, <2>2
<1> QED
  BY <1>4, <1>7, <1>8 DEF HostMapInv

\* Remove, as handleCloseTunnel calls it, keeps the maps in agreement and leaves
\* no index that leads to the session it takes away.
LEMMA RemoveKeepsInv ==
  ASSUME HostMapInv, NEW ip \in VpnIP, Remove(ip)
  PROVE  HostMapInv' /\ GoneFromBoth
<1> USE SessionsAssumption
<1>1. /\ sessions' = sessions /\ Added' = Added
      /\ byVpnIP' = [byVpnIP EXCEPT ![ip] = Nil]
  BY DEF Remove, Added
<1>2. Nil \notin Added
  BY DEF Added
<1>3. \A s \in Added : sessions[s].Index \in Index
  BY DEF HostMapInv, HostMapTypeOK, Added, Session
<1>4. \A i \in Index : byIndex'[i] = byIndex[i] \/ byIndex'[i] = Nil
  BY <1>3 DEF Remove, HostMapInv, HostMapTypeOK
<1>5. byIndex' \in [Index -> Added \cup {Nil}]
  BY <1>3 DEF Remove, HostMapInv, HostMapTypeOK
<1>6. \A p \in VpnIP : p # ip => byVpnIP'[p] = byVpnIP[p]
  BY <1>1 DEF HostMapInv, HostMapTypeOK
<1>7. byVpnIP'[ip] = Nil
  BY <1>1 DEF HostMapInv, HostMapTypeOK
<1>8. HostMapTypeOK'
  BY <1>1, <1>5 DEF HostMapInv, HostMapTypeOK
<1>9. IndexOwned'
  BY <1>1, <1>4 DEF HostMapInv, IndexOwned
<1>10. ASSUME NEW i \in Index, byVpnIP[ip] # Nil
       PROVE  byIndex'[i] # byVpnIP[ip]
  <2>1. byVpnIP[ip] \in Added
    BY <1>10 DEF HostMapInv, HostMapTypeOK
  <2>2. byIndex'[sessions[byVpnIP[ip]].Index] = Nil
    BY <1>3, <1>10, <2>1 DEF Remove, HostMapInv, HostMapTypeOK
  <2>3. CASE byIndex[i] = byVpnIP[ip]
    BY <1>2, <1>10, <2>1, <2>2, <2>3 DEF HostMapInv, IndexOwned
  <2> QED
    BY <1>2, <1>4, <2>1, <2>3
<1>11. ASSUME NEW p \in VpnIP, p # ip, byVpnIP[p] # Nil
       PROVE  byIndex'[sessions[byVpnIP[p]].Index] = byVpnIP[p]
  <2>1. byVpnIP[p] \in Added /\ sessions[byVpnIP[p]].VpnIP = p
        /\ byIndex[sessions[byVpnIP[p]].Index] = byVpnIP[p]
    BY <1>11 DEF HostMapInv, HostMapTypeOK, CurrentIsNewest
  <2>2. CASE byVpnIP[ip] = Nil
    BY <2>1, <2>2 DEF Remove
  <2>3. CASE byVpnIP[ip] # Nil
    <3>1. byVpnIP[ip] \in Added /\ sessions[byVpnIP[ip]].VpnIP = ip
      BY <2>3 DEF HostMapInv, HostMapTypeOK, CurrentIsNewest
    <3>2. sessions[byVpnIP[p]].Index # sessions[byVpnIP[ip]].Index
      BY <1>11, <2>1, <3>1 DEF HostMapInv, IndexOwned
    <3> QED
      BY <1>3, <2>1, <2>3, <3>1, <3>2 DEF Remove, HostMapInv, HostMapTypeOK
  <2> QED
    BY <2>2, <2>3
<1>12. CurrentIsNewest'
  BY <1>1, <1>4, <1>6, <1>7, <1>11 DEF HostMapInv, CurrentIsNewest
<1> QED
  BY <1>6, <1>7, <1>8, <1>9, <1>10, <1>12 DEF HostMapInv, GoneFromBoth

\* Every call on the HostMap keeps the invariant and obeys RemovedFromBoth.
LEMMA HostMapStep ==
  ASSUME HostMapInv, [HostMapNext]_hostVars
  PROVE  HostMapInv' /\ GoneFromBoth
<1>1. CASE \E i \in Index : CloseTunnel(i)
  <2>1. PICK i \in Index : CloseTunnel(i)
    BY <1>1
  <2>2. sessions[byIndex[i]].VpnIP \in VpnIP
    BY <2>1 DEF CloseTunnel, HostMapInv, HostMapTypeOK, Added, Session
  <2> QED
    BY <2>1, <2>2, RemoveKeepsInv DEF CloseTunnel
<1>2. CASE \E i \in Index, ip \in VpnIP, cert \in Certs : Add(ip, i, cert)
  <2>1. PICK i \in Index, ip \in VpnIP, cert \in Certs : Add(ip, i, cert)
    BY <1>2
  <2>2. \A p \in VpnIP : byVpnIP[p] # Nil => byVpnIP'[p] # Nil
    BY <2>1, SessionsAssumption DEF Add, HostMapInv, HostMapTypeOK
  <2> QED
    BY <2>1, <2>2, AddKeepsInv DEF GoneFromBoth
<1>3. CASE UNCHANGED hostVars
  BY <1>3 DEF hostVars, GoneFromBoth, HostMapInv, HostMapTypeOK, IndexOwned, CurrentIsNewest, Added
<1> QED
  BY <1>1, <1>2, <1>3 DEF HostMapNext

\* For any peers, indexes and number of sessions, the session that packets are
\* sent on is the newest that can be received on, and can be received on itself.
THEOREM SentOnNewest == HostMapSpec => []CurrentIsNewest
<1>1. HostMapInv /\ [HostMapNext]_hostVars => HostMapInv'
  BY HostMapStep
<1>2. HostMapInv => CurrentIsNewest
  BY DEF HostMapInv
<1> QED
  BY HostMapStarts, <1>1, <1>2, PTL DEF HostMapSpec

\* For any peers, indexes and number of sessions, a session that is no longer
\* sent on after a CloseTunnel is no longer received on either.
THEOREM RemovedEntirely == HostMapSpec => RemovedFromBoth
<1>1. HostMapInv /\ [HostMapNext]_hostVars => HostMapInv'
  BY HostMapStep
<1>2. HostMapInv /\ [HostMapNext]_hostVars
        => [GoneFromBoth]_hostVars
  BY HostMapStep
<1> QED
  BY HostMapStarts, <1>1, <1>2, PTL DEF HostMapSpec, RemovedFromBoth

-----------------------------------------------------------------------------
(* Firewall.                                                               *)

\* The ages are taken from the clock, so the history agrees with the table as
\* long as an entry is there.  Every Expire leaves only entries younger than
\* their timeout, and they age by phase until the next; what it takes away is
\* at least one timeout old.
TableInv ==
  /\ seen \in [Keys -> Nat \cup {-1}]
  /\ made \in [Keys -> Nat \cup {-1}]
  /\ phase \in 0 .. Interval - 1
  /\ \A k \in Keys : seen[k] # -1 => made[k] = seen[k] /\ seen[k] < Timeout[k.Proto] + phase
  /\ \A k \in Keys : seen[k] = -1 => made[k] = -1 \/ made[k] >= Timeout[k.Proto]

\* The last packet was let through if its key is in the table.
VerdictInv ==
  \/ verdict = NoVerdict
  \/ /\ verdict.dir \in {"in", "out"} /\ verdict.flow \in Flows
     /\ verdict.allowed <=> seen[VerdictKey] # -1

FirewallInv == TableInv /\ VerdictInv

\* The key of a packet has a timeout.
LEMMA KeyType ==
  ASSUME NEW f \in Flows, NEW dir \in {"in", "out"}
  PROVE  Key(dir, f) \in Keys /\ Key(dir, f).Proto = f.proto
<1>1. f.remote \in Remotes /\ f.localPort \in Ports /\ f.remotePort \in Ports /\ f.proto \in Protos
  BY DEF Remotes, Ports, Protos
<1> QED
  BY <1>1 DEF Key, Keys

\* The timeout that Expire uses for a key is positive.
LEMMA TimeoutType == \A k \in Keys : Timeout[k.Proto] \in Nat \ {0}
BY TimeoutAssumption DEF Keys

\* The new firewall's table is empty.
LEMMA FirewallStarts == FirewallInit => FirewallInv
BY TimeoutAssumption
   DEF FirewallInit, FirewallInv, TableInv, VerdictInv, Untracked, Never

\* AllowInbound and AllowOutbound track a key only when it is not in the table.
LEMMA AllowKeepsInv ==
  ASSUME FirewallInv, NEW f \in Flows, NEW dir \in {"in", "out"}, NEW groups,
         Allow(dir, f, groups)
  PROVE  FirewallInv'
<1> DEFINE k == Key(dir, f)
           byRule == ByRule(dir, f, groups)
<1>1. k \in Keys
  BY KeyType
<1>2. /\ verdict'.dir = dir /\ verdict'.flow = f
      /\ verdict'.allowed <=> IsEstablished(k) \/ byRule
      /\ phase' = phase
  BY DEF Allow, Allowed
<1>3. VerdictKey' = k
  BY <1>2 DEF VerdictKey, Key
<1>4. /\ ~ IsEstablished(k) /\ byRule
           => seen' = [seen EXCEPT ![k] = 0] /\ made' = [made EXCEPT ![k] = 0]
      /\ IsEstablished(k) \/ ~ byRule => seen' = seen /\ made' = made
  BY DEF Allow, Track
<1> HIDE DEF k, byRule
<1>5. TableInv'
  <2>1. CASE ~ IsEstablished(k) /\ byRule
    <3>1. seen' = [seen EXCEPT ![k] = 0] /\ made' = [made EXCEPT ![k] = 0]
      BY <1>4, <2>1
    <3>2. seen' \in [Keys -> Nat \cup {-1}] /\ made' \in [Keys -> Nat \cup {-1}]
      BY <3>1 DEF FirewallInv, TableInv
    <3>3. ASSUME NEW q \in Keys, q # k
          PROVE  seen'[q] = seen[q] /\ made'[q] = made[q]
      BY <3>1, <3>3 DEF FirewallInv, TableInv
    <3>4. seen'[k] = 0 /\ made'[k] = 0 /\ 0 < Timeout[k.Proto] + phase
      BY <1>1, <3>1, TimeoutType, TimeoutAssumption DEF FirewallInv, TableInv
    <3> QED
      BY <1>2, <3>2, <3>3, <3>4 DEF FirewallInv, TableInv
  <2>2. CASE IsEstablished(k) \/ ~ byRule
    BY <1>2, <1>4, <2>2 DEF FirewallInv, TableInv
  <2> QED
    BY <2>1, <2>2
<1>6. verdict'.allowed <=> seen'[k] # -1
  BY <1>1, <1>2, <1>4 DEF FirewallInv, TableInv, IsEstablished, Untracked
<1> QED
  BY <1>2, <1>3, <1>5, <1>6 DEF FirewallInv, VerdictInv

\* A unit of time ages the entries, and Expire leaves none past its timeout.
LEMMA TickKeepsInv ==
  ASSUME FirewallInv, FirewallTick
  PROVE  FirewallInv'
<1> USE TimeoutType, TimeoutAssumption
<1> DEFINE run == phase + 1 = Interval
<1>1. /\ phase' = IF run THEN 0 ELSE phase + 1
      /\ seen' = [k \in Keys |-> IF run /\ seen[k] # -1 /\ seen[k] + 1 >= Timeout[k.Proto] THEN -1
                                 ELSE IF seen[k] = -1 THEN -1 ELSE seen[k] + 1]
      /\ made' = [k \in Keys |-> IF made[k] = -1 \/ made[k] >= Timeout[k.Proto] + Interval
                                   THEN made[k] ELSE made[k] + 1]
      /\ verdict' = NoVerdict
  BY DEF FirewallTick, Stale, Older, Untracked, Never
<1>2. phase' \in 0 .. Interval - 1
  BY <1>1 DEF FirewallInv, TableInv
<1>3. seen' \in [Keys -> Nat \cup {-1}] /\ made' \in [Keys -> Nat \cup {-1}]
  BY <1>1 DEF FirewallInv, TableInv
<1>4. ASSUME NEW k \in Keys, seen'[k] # -1
      PROVE  made'[k] = seen'[k] /\ seen'[k] < Timeout[k.Proto] + phase'
  <2>1. seen[k] # -1 /\ made[k] = seen[k] /\ seen[k] < Timeout[k.Proto] + phase
    BY <1>1, <1>4 DEF FirewallInv, TableInv
  <2>2. seen[k] \in Nat /\ phase \in 0 .. Interval - 1 /\ Timeout[k.Proto] \in Nat
    BY <2>1 DEF FirewallInv, TableInv
  <2>3. seen'[k] = seen[k] + 1 /\ made'[k] = made[k] + 1
    BY <1>1, <1>4, <2>1, <2>2
  <2>4. CASE run
    BY <1>1, <1>4, <2>1, <2>2, <2>3, <2>4
  <2>5. CASE ~ run
    BY <1>1, <2>1, <2>2, <2>3, <2>5
  <2> QED
    BY <2>4, <2>5
<1>5. ASSUME NEW k \in Keys, seen'[k] = -1
      PROVE  made'[k] = -1 \/ made'[k] >= Timeout[k.Proto]
  <2>1. /\ seen[k] \in Nat \cup {-1} /\ made[k] \in Nat \cup {-1} /\ Timeout[k.Proto] \in Nat
        /\ seen[k] # -1 => made[k] = seen[k]
        /\ seen[k] = -1 => made[k] = -1 \/ made[k] >= Timeout[k.Proto]
    BY DEF FirewallInv, TableInv
  <2> QED
    BY <1>1, <1>5, <2>1
<1> QED
  BY <1>1, <1>2, <1>3, <1>4, <1>5 DEF FirewallInv, TableInv, VerdictInv

\* Every step of the firewall keeps the invariant.
LEMMA FirewallStep ==
  ASSUME FirewallInv, [FirewallNext]_fwVars
  PROVE  FirewallInv'
<1>1. CASE NoPacket
  BY <1>1 DEF NoPacket, FirewallInv, TableInv, VerdictInv
<1>2. CASE UNCHANGED fwVars
  BY <1>2 DEF fwVars, FirewallInv, TableInv, VerdictInv, VerdictKey
<1> QED
  BY <1>1, <1>2, AllowKeepsInv, TickKeepsInv DEF FirewallNext

\* The table is in order after any sequence of calls and ticks.
LEMMA FirewallInvariance == FirewallSpec => []FirewallInv
<1>1. FirewallInv /\ [FirewallNext]_fwVars => FirewallInv'
  BY FirewallStep
<1> QED
  BY FirewallStarts, <1>1, PTL DEF FirewallSpec

\* In a table in order, what IsEstablished answers for was admitted recently.
LEMMA InvAllowsOnlyRecent == FirewallInv => AllowedByRecentRule
<1> SUFFICES ASSUME FirewallInv, verdict.allowed
             PROVE  made[VerdictKey] # Never
                      /\ made[VerdictKey] < Timeout[verdict.flow.proto] + Interval
  BY DEF AllowedByRecentRule
<1>1. /\ verdict.dir \in {"in", "out"} /\ verdict.flow \in Flows
      /\ seen[VerdictKey] # -1
  BY DEF FirewallInv, VerdictInv, NoVerdict
<1>2. VerdictKey \in Keys /\ VerdictKey.Proto = verdict.flow.proto
  BY <1>1, KeyType DEF VerdictKey
<1> QED
  BY <1>1, <1>2, TimeoutType, TimeoutAssumption DEF FirewallInv, TableInv, Never

\* In a table in order, a key that is missing was never admitted or is stale.
LEMMA InvRefusesOnlyStale == FirewallInv => RefusedOnlyWhenStale
<1> SUFFICES ASSUME FirewallInv, verdict.dir # "none", ~ verdict.allowed
             PROVE  made[VerdictKey] = Never \/ made[VerdictKey] >= Timeout[verdict.flow.proto]
  BY DEF RefusedOnlyWhenStale
<1>1. /\ verdict.dir \in {"in", "out"} /\ verdict.flow \in Flows
      /\ seen[VerdictKey] = -1
  BY DEF FirewallInv, VerdictInv, NoVerdict
<1>2. VerdictKey \in Keys /\ VerdictKey.Proto = verdict.flow.proto
  BY <1>1, KeyType DEF VerdictKey
<1> QED
  BY <1>1, <1>2 DEF FirewallInv, TableInv, Never

\* For any rules, timeouts and interval: what passes was admitted by a rule less
\* than one timeout and one interval ago, although IsEstablished ignores ages.
THEOREM PassesOnRecentRule == FirewallSpec => []AllowedByRecentRule
BY FirewallInvariance, InvAllowsOnlyRecent, PTL

\* For any rules, timeouts and interval: what is refused was not admitted by a
\* rule within the last timeout.
THEOREM RefusesOnlyStale == FirewallSpec => []RefusedOnlyWhenStale
BY FirewallInvariance, InvRefusesOnlyStale, PTL

-----------------------------------------------------------------------------
(* Interface: the two of them behind the readers, the ticker and handshakes. *)

TunOK ==
  \/ tun = Idle
  \/ /\ tun.pc = "allow" /\ tun.flow \in Flows
     /\ tun.host # Nil => tun.host \in Added /\ sessions[tun.host].VpnIP = tun.flow.remote
  \/ tun.pc = "cert" /\ tun.ip \in VpnIP
  \/ tun.pc = "start" /\ tun.ip \in VpnIP /\ tun.cert \in Certs

UdpOK == udp = Idle \/ udp \in [pc : {"add", "cache"}, ip : VpnIP, cert : Certs]

OwnTypeOK ==
  /\ peerCerts \in [VpnIP -> Certs \cup {Nil}]
  /\ pending \in [VpnIP -> [cert : Certs, answered : BOOLEAN] \cup {Nil}]
  /\ certOf \in [VpnIP -> Certs]
  /\ TunOK /\ UdpOK

\* Between the two calls of onHandshakeComplete the cache lags behind the
\* session that was added, and only for its peer.
CacheInv ==
  \A s \in Added : (\A r \in Added : sessions[r].VpnIP = sessions[s].VpnIP => r <= s)
    => IF udp.pc = "cache" /\ udp.ip = sessions[s].VpnIP THEN udp.cert = sessions[s].Cert
       ELSE peerCerts[sessions[s].VpnIP] = sessions[s].Cert

\* Mapped to the HostMap and to the firewall, a step is a step of theirs.
Implements == [HostMapNext]_hostVars /\ [FirewallNext]_fwVars

\* Sessions are never forgotten: an object that a reader holds stays as it is.
Grows == Added \subseteq Added' /\ \A s \in Added : sessions'[s] = sessions[s]

\* peers_dir may have been read or not.
LEMMA InterfaceStarts == Init => HostMapInv /\ FirewallInv /\ OwnTypeOK /\ CacheInv /\ GroupsProven
<1> SUFFICES ASSUME Init
             PROVE  HostMapInv /\ FirewallInv /\ OwnTypeOK /\ CacheInv /\ GroupsProven
  OBVIOUS
<1>1. HostMapInv /\ FirewallInv
  BY HostMapStarts, FirewallStarts DEF Init
<1>2. OwnTypeOK
  BY CertsAssumption DEF Init, OwnTypeOK, TunOK, UdpOK
<1>3. Added = {}
  BY DEF Init, HostMapInit, Added
<1>4. CacheInv
  BY <1>3 DEF CacheInv
<1>5. \A f \in Flows : \A dir \in {"in", "out"} : seen[Key(dir, f)] = Untracked
  BY KeyType DEF Init, FirewallInit
<1> QED
  BY <1>1, <1>2, <1>4, <1>5 DEF GroupsProven

\* The session of a lookup belongs to the address that was looked up.
LEMMA LookupByIP ==
  ASSUME HostMapInv, NEW ip \in VpnIP, byVpnIP[ip] # Nil
  PROVE  byVpnIP[ip] \in Added /\ sessions[byVpnIP[ip]].VpnIP = ip
BY DEF HostMapInv, HostMapTypeOK, CurrentIsNewest

\* A session in the hostmap has an address and a certificate.
LEMMA SessionType ==
  ASSUME HostMapInv, NEW s \in Added
  PROVE  sessions[s].VpnIP \in VpnIP /\ sessions[s].Cert \in Certs
BY DEF HostMapInv, HostMapTypeOK, Added, Session

\* Those who run are peers.
LEMMA UpArePeers == \A ip \in Up : ip \in VpnIP
BY CertsAssumption

\* The remote end of a flow is a peer.
LEMMA FlowRemote == \A f \in Flows : f.remote \in VpnIP
BY CertsAssumption DEF Remotes

\* The steps of the hostmap: what they do to the sessions.
LEMMA HostMapGrows == ASSUME HostMapInv, [HostMapNext]_hostVars PROVE Grows
<1>1. CASE \E i \in Index : CloseTunnel(i)
  BY <1>1 DEF CloseTunnel, Remove, Grows, Added
<1>2. CASE \E i \in Index, ip \in VpnIP, cert \in Certs : Add(ip, i, cert)
  <2>1. PICK i \in Index, ip \in VpnIP, cert \in Certs : Add(ip, i, cert)
    BY <1>2
  <2>2. PICK s \in 1 .. MaxSessions :
          /\ Added = 1 .. s - 1
          /\ sessions' = [sessions EXCEPT ![s] = [VpnIP |-> ip, Index |-> i, Cert |-> cert]]
    BY <2>1 DEF Add
  <2>3. s \notin Added
    BY <2>2
  <2>4. \A r \in Added : sessions'[r] = sessions[r]
    BY <2>2, <2>3 DEF HostMapInv, HostMapTypeOK, Added
  <2> QED
    BY <2>4 DEF Grows, Added
<1>3. CASE UNCHANGED hostVars
  BY <1>3 DEF hostVars, Grows, Added
<1> QED
  BY <1>1, <1>2, <1>3 DEF HostMapNext

\* The groups that a packet is judged by are none, or those of a session's
\* certificate.
LEMMA GroupsType ==
  ASSUME HostMapInv, NEW s \in Added
  PROVE  GroupsOf[sessions[s].Cert] \in Memberships
BY SessionType, CertsAssumption

\* Every step of Interface is a step of the HostMap and of the firewall.
LEMMA StepImplements ==
  ASSUME HostMapInv, OwnTypeOK, [Next]_vars
  PROVE  Implements
<1> USE DEF Implements
<1>1. ASSUME NoPacket, UNCHANGED hostVars PROVE Implements
  BY <1>1 DEF FirewallNext
<1>2. ASSUME NEW f \in Flows, TunRead(f) PROVE Implements
  BY <1>1, <1>2 DEF TunRead
<1>3. CASE TunAllow
  <2>1. tun.flow \in Flows /\ (tun.host # Nil => tun.host \in Added)
    BY <1>3 DEF TunAllow, OwnTypeOK, TunOK, Idle
  <2>2. dstGroups(tun.host, tun.flow.remote) \in Memberships \cup {{}}
    BY <2>1, GroupsType DEF dstGroups
  <2>3. FirewallNext
    BY <1>3, <2>1, <2>2 DEF TunAllow, FirewallNext
  <2> QED
    BY <1>3, <2>3 DEF TunAllow
<1>4. CASE TunCert \/ TunStart
  BY <1>1, <1>4 DEF TunCert, TunStart
<1>5. ASSUME NEW ip \in VpnIP,
             HandleStage0(ip) \/ HandleStage1(ip) \/ GiveUp(ip) \/ Answer(ip) \/ Reissue(ip)
      PROVE  Implements
  BY <1>1, <1>5 DEF HandleStage0, HandleStage1, GiveUp, Answer, Reissue
<1>6. CASE CompleteAdd
  <2>1. udp.ip \in VpnIP /\ udp.cert \in Certs
    BY <1>6 DEF CompleteAdd, OwnTypeOK, UdpOK, Idle
  <2>2. HostMapNext
    BY <1>6, <2>1 DEF CompleteAdd, HostMapNext
  <2>3. FirewallNext
    BY <1>6 DEF CompleteAdd, FirewallNext
  <2> QED
    BY <2>2, <2>3
<1>7. CASE CompleteCache
  BY <1>1, <1>7 DEF CompleteCache
<1>8. ASSUME NEW i \in Index, NEW f \in Flows, HandleMessage(i, f) PROVE Implements
  <2>1. byIndex[i] \in Added
    BY <1>8 DEF HandleMessage, HostMapInv, HostMapTypeOK
  <2>2. FirewallNext
    BY <1>8, <2>1, GroupsType DEF HandleMessage, FirewallNext
  <2> QED
    BY <1>8, <2>2 DEF HandleMessage
<1>9. ASSUME NEW i \in Index, HandleCloseTunnel(i) PROVE Implements
  BY <1>9 DEF HandleCloseTunnel, HostMapNext, FirewallNext
<1>10. CASE Expiry
  BY <1>10 DEF Expiry, FirewallNext
<1>11. CASE UNCHANGED vars
  BY <1>11 DEF vars
<1> QED
  BY <1>2, <1>3, <1>4, <1>5, <1>6, <1>7, <1>8, <1>9, <1>10, <1>11,
     UpArePeers DEF Next

\* The readers' places and the maps of Interface keep their types.
LEMMA StepKeepsTypes ==
  ASSUME HostMapInv, OwnTypeOK, [Next]_vars, Grows
  PROVE  OwnTypeOK'
<1>1. ASSUME tun' = tun PROVE TunOK'
  BY <1>1 DEF OwnTypeOK, TunOK, Grows
<1>2. ASSUME udp' = udp PROVE UdpOK'
  BY <1>2 DEF OwnTypeOK, UdpOK
<1>3. ASSUME NEW f \in Flows, TunRead(f) PROVE OwnTypeOK'
  <2>1. tun' = [pc |-> "allow", flow |-> f, host |-> byVpnIP[f.remote]] /\ UNCHANGED <<hostVars, peerCerts, pending, udp, certOf>>
    BY <1>3 DEF TunRead
  <2>2. TunOK'
    BY <2>1, LookupByIP, FlowRemote DEF TunOK, hostVars, Added
  <2> QED
    BY <1>2, <2>1, <2>2 DEF OwnTypeOK
<1>4. CASE TunAllow
  <2>1. tun.flow \in Flows /\ tun.flow.remote \in VpnIP
    BY <1>4, FlowRemote DEF TunAllow, OwnTypeOK, TunOK, Idle
  <2>2. TunOK'
    BY <1>4, <2>1 DEF TunAllow, TunOK
  <2> QED
    BY <1>2, <1>4, <2>2 DEF TunAllow, OwnTypeOK
<1>5. CASE TunCert \/ TunStart
  <2>1. CASE TunCert
    <3>1. tun.ip \in VpnIP
      BY <2>1 DEF TunCert, OwnTypeOK, TunOK, Idle
    <3> QED
      BY <1>2, <2>1, <3>1 DEF TunCert, OwnTypeOK, TunOK
  <2>2. CASE TunStart
    <3>1. tun.ip \in VpnIP /\ tun.cert \in Certs
      BY <2>2 DEF TunStart, OwnTypeOK, TunOK, Idle
    <3> QED
      BY <1>2, <2>2, <3>1 DEF TunStart, OwnTypeOK, TunOK
  <2> QED
    BY <1>5, <2>1, <2>2
<1>6. ASSUME NEW ip \in VpnIP, HandleStage0(ip) PROVE OwnTypeOK'
  BY <1>1, <1>6 DEF HandleStage0, OwnTypeOK, UdpOK
<1>7. ASSUME NEW ip \in VpnIP, HandleStage1(ip) PROVE OwnTypeOK'
  BY <1>1, <1>7 DEF HandleStage1, OwnTypeOK, UdpOK
<1>8. ASSUME NEW ip \in VpnIP, GiveUp(ip) PROVE OwnTypeOK'
  BY <1>1, <1>2, <1>8 DEF GiveUp, OwnTypeOK
<1>9. ASSUME NEW ip \in VpnIP, Answer(ip) PROVE OwnTypeOK'
  BY <1>1, <1>2, <1>9 DEF Answer, OwnTypeOK
<1>10. ASSUME NEW ip \in VpnIP, Reissue(ip) PROVE OwnTypeOK'
  BY <1>1, <1>2, <1>10 DEF Reissue, OwnTypeOK
<1>11. CASE CompleteAdd
  BY <1>1, <1>11 DEF CompleteAdd, OwnTypeOK, UdpOK, Idle
<1>12. CASE CompleteCache
  BY <1>1, <1>12 DEF CompleteCache, OwnTypeOK, UdpOK, Idle
<1>13. ASSUME UNCHANGED ownVars PROVE OwnTypeOK'
  BY <1>1, <1>2, <1>13 DEF ownVars, OwnTypeOK
<1> QED
  BY <1>3, <1>4, <1>5, <1>6, <1>7, <1>8, <1>9, <1>10, <1>11, <1>12, <1>13, UpArePeers
     DEF Next, HandleMessage, HandleCloseTunnel, Expiry, vars

\* onHandshakeComplete leaves the cache behind for one call, and no other step
\* changes the sessions or the cache.
LEMMA StepKeepsCache ==
  ASSUME HostMapInv, OwnTypeOK, CacheInv, [Next]_vars
  PROVE  CacheInv'
<1>1. ASSUME sessions' = sessions, peerCerts' = peerCerts, udp' = udp PROVE CacheInv'
  BY <1>1 DEF CacheInv, Added
<1>2. ASSUME NEW ip \in VpnIP, HandleStage0(ip) \/ HandleStage1(ip) PROVE CacheInv'
  <2>1. /\ sessions' = sessions /\ peerCerts' = peerCerts
        /\ udp.pc # "cache" /\ udp'.pc # "cache"
    BY <1>2 DEF HandleStage0, HandleStage1, hostVars, Idle
  <2> QED
    BY <2>1 DEF CacheInv, Added
<1>3. CASE CompleteAdd
  <2>1. /\ udp \in [pc : {"add", "cache"}, ip : VpnIP, cert : Certs]
        /\ udp.pc = "add" /\ udp' = [udp EXCEPT !.pc = "cache"] /\ peerCerts' = peerCerts
    BY <1>3 DEF CompleteAdd, OwnTypeOK, UdpOK, Idle
  <2>2. udp'.pc = "cache" /\ udp'.ip = udp.ip /\ udp'.cert = udp.cert
    BY <2>1
  <2>3. PICK i \in Index : Add(udp.ip, i, udp.cert)
    BY <1>3 DEF CompleteAdd
  <2> DEFINE new == [VpnIP |-> udp.ip, Index |-> i, Cert |-> udp.cert]
  <2>4. PICK s \in 1 .. MaxSessions : Added = 1 .. s - 1 /\ sessions' = [sessions EXCEPT ![s] = new]
    BY <2>3 DEF Add
  <2>5. new.VpnIP = udp.ip /\ new.Cert = udp.cert /\ new # Nil
    BY <2>1, SessionsAssumption
  <2> HIDE DEF new
  <2>6. /\ Added' = Added \cup {s} /\ sessions'[s] = new
        /\ \A r \in Added : sessions'[r] = sessions[r] /\ r < s /\ r # s /\ r \in Int /\ s \in Int
    <3>1. \A r \in Added : r < s /\ r # s /\ r \in Int /\ s \in Int
      BY <2>4
    <3>2. DOMAIN sessions = 1 .. MaxSessions
      BY DEF HostMapInv, HostMapTypeOK
    <3>3. sessions'[s] = new /\ \A r \in 1 .. MaxSessions : r # s => sessions'[r] = sessions[r]
      BY <2>4, <3>2
    <3>4. \A r \in Added : sessions'[r] = sessions[r]
      BY <3>1, <3>3 DEF Added
    <3>5. Added' = Added \cup {s}
      BY <2>4, <2>5, <3>3 DEF Added
    <3> QED
      BY <3>1, <3>3, <3>4, <3>5
  <2> SUFFICES ASSUME NEW q \in Added',
                      \A r \in Added' : sessions'[r].VpnIP = sessions'[q].VpnIP => r <= q
               PROVE  IF udp'.pc = "cache" /\ udp'.ip = sessions'[q].VpnIP
                        THEN udp'.cert = sessions'[q].Cert
                      ELSE peerCerts'[sessions'[q].VpnIP] = sessions'[q].Cert
    BY DEF CacheInv
  <2>7. CASE q = s
    BY <2>2, <2>5, <2>6, <2>7
  <2>8. CASE q # s
    <3>1. q \in Added /\ sessions'[q] = sessions[q] /\ ~ s <= q
      BY <2>6, <2>8
    <3>2. sessions[q].VpnIP # udp.ip
      BY <2>5, <2>6, <3>1
    <3>3. \A r \in Added : sessions[r].VpnIP = sessions[q].VpnIP => r <= q
      BY <2>6, <3>1
    <3> QED
      BY <2>1, <2>2, <3>1, <3>2, <3>3 DEF CacheInv
  <2> QED
    BY <2>7, <2>8
<1>4. CASE CompleteCache
  <2>1. /\ sessions' = sessions /\ udp.pc = "cache" /\ udp'.pc = "idle" /\ udp.ip \in VpnIP
        /\ peerCerts' = [peerCerts EXCEPT ![udp.ip] = udp.cert]
    BY <1>4 DEF CompleteCache, OwnTypeOK, UdpOK, Idle, hostVars
  <2>2. \A s \in Added : sessions[s].VpnIP \in VpnIP
    BY SessionType
  <2> QED
    BY <2>1, <2>2 DEF CacheInv, Added, OwnTypeOK
<1>5. CASE UNCHANGED vars
  BY <1>1, <1>5 DEF vars, hostVars, ownVars
<1> QED
  BY <1>1, <1>2, <1>3, <1>4, <1>5, UpArePeers
     DEF Next, TunRead, TunAllow, TunCert, TunStart, GiveUp, Answer, Reissue, HandleMessage,
         HandleCloseTunnel, CloseTunnel, Remove, Expiry, hostVars, ownVars

\* What a session has proved stays proved.
LEMMA AdmittingStays ==
  ASSUME Grows, NEW k, NEW d \in {"in", "out"}, Admitting(k, d)
  PROVE  Admitting(k, d)'
<1>1. PICK g \in Flows :
        /\ Key(d, g) = k
        /\ \/ ByRule(d, g, {})
           \/ \E s \in Added : /\ d = "out" => sessions[s].VpnIP = g.remote
                               /\ ByRule(d, g, GroupsOf[sessions[s].Cert])
  BY DEF Admitting
<1> QED
  BY <1>1 DEF Admitting, Grows

\* A call of the firewall tracks what the groups that it is given admit.
LEMMA AllowKeepsProven ==
  ASSUME FirewallInv, GroupsProven, Grows, NEW d \in {"in", "out"}, NEW g \in Flows, NEW groups,
         Allow(d, g, groups),
         \/ groups = {}
         \/ \E s \in Added : /\ d = "out" => sessions[s].VpnIP = g.remote
                             /\ groups = GroupsOf[sessions[s].Cert]
  PROVE  GroupsProven'
<1> SUFFICES ASSUME NEW f \in Flows, NEW dir \in {"in", "out"}, seen'[Key(dir, f)] # Untracked
             PROVE  Admitting(Key(dir, f), "in")' \/ Admitting(Key(dir, f), "out")'
  BY DEF GroupsProven
<1>1. CASE seen[Key(dir, f)] # Untracked
  BY <1>1, AdmittingStays DEF GroupsProven
<1>2. CASE seen[Key(dir, f)] = Untracked
  <2>1. ByRule(d, g, groups) /\ seen' = [seen EXCEPT ![Key(d, g)] = 0]
    BY <1>2 DEF Allow, Track
  <2>2. Key(dir, f) = Key(d, g)
    BY <1>2, <2>1, KeyType DEF FirewallInv, TableInv
  <2>3. Admitting(Key(d, g), d)
    BY <2>1 DEF Admitting
  <2> QED
    BY <2>2, <2>3, AdmittingStays
<1> QED
  BY <1>1, <1>2

\* No step makes an entry for groups that no session's certificate has.
LEMMA StepKeepsProven ==
  ASSUME HostMapInv, FirewallInv, OwnTypeOK, GroupsProven, [Next]_vars, Grows
  PROVE  GroupsProven'
<1>1. ASSUME \A k \in Keys : seen'[k] # Untracked => seen[k] # Untracked
      PROVE  GroupsProven'
  <2> SUFFICES ASSUME NEW f \in Flows, NEW dir \in {"in", "out"}, seen'[Key(dir, f)] # Untracked
               PROVE  Admitting(Key(dir, f), "in")' \/ Admitting(Key(dir, f), "out")'
    BY DEF GroupsProven
  <2>1. seen[Key(dir, f)] # Untracked
    BY <1>1, KeyType
  <2> QED
    BY <2>1, AdmittingStays DEF GroupsProven
<1>2. ASSUME seen' = seen PROVE GroupsProven'
  BY <1>1, <1>2
<1>3. CASE TunAllow
  <2>1. /\ tun.flow \in Flows
        /\ tun.host # Nil => tun.host \in Added /\ sessions[tun.host].VpnIP = tun.flow.remote
    BY <1>3 DEF TunAllow, OwnTypeOK, TunOK, Idle
  <2> QED
    BY <1>3, <2>1, AllowKeepsProven DEF TunAllow, dstGroups
<1>4. ASSUME NEW i \in Index, NEW f \in Flows, HandleMessage(i, f) PROVE GroupsProven'
  <2>1. byIndex[i] \in Added
    BY <1>4 DEF HandleMessage, HostMapInv, HostMapTypeOK
  <2> QED
    BY <1>4, <2>1, AllowKeepsProven DEF HandleMessage
<1>5. CASE Expiry
  <2>1. \A k \in Keys : seen'[k] # Untracked => seen[k] # Untracked
    BY <1>5 DEF Expiry, FirewallTick, Older
  <2> QED
    BY <1>1, <2>1
<1>6. CASE UNCHANGED vars
  BY <1>2, <1>6 DEF vars, fwVars
<1> QED
  BY <1>2, <1>3, <1>4, <1>5, <1>6
     DEF Next, TunRead, TunCert, TunStart, HandleStage0, HandleStage1, CompleteAdd, CompleteCache,
         GiveUp, Answer, Reissue, HandleCloseTunnel, NoPacket

InterfaceInv == HostMapInv /\ FirewallInv /\ OwnTypeOK /\ CacheInv /\ GroupsProven

\* The whole invariant is kept, and every step is one of the parts' steps.
LEMMA InterfaceStep ==
  ASSUME InterfaceInv, [Next]_vars
  PROVE  InterfaceInv' /\ Implements
<1>1. Implements
  BY StepImplements DEF InterfaceInv
<1>2. Grows
  BY <1>1, HostMapGrows DEF InterfaceInv, Implements
<1> QED
  BY <1>1, <1>2, HostMapStep, FirewallStep, StepKeepsTypes, StepKeepsCache, StepKeepsProven
     DEF InterfaceInv, Implements

\* Every reachable state of Interface satisfies the invariant.
LEMMA InterfaceInvariance == Spec => []InterfaceInv
<1>1. Init => InterfaceInv
  BY InterfaceStarts DEF InterfaceInv
<1>2. InterfaceInv /\ [Next]_vars => InterfaceInv'
  BY InterfaceStep
<1> QED
  BY <1>1, <1>2, PTL DEF Spec

\* The readers of src/interface.go use the HostMap as its specification says:
\* all that is proved of the HostMap alone holds in the running Interface.
THEOREM InterfaceImplementsHostMap == Spec => HostMapSpec
<1>1. Init => HostMapInit
  BY DEF Init
<1>2. InterfaceInv /\ [Next]_vars => [HostMapNext]_hostVars
  BY InterfaceStep DEF Implements
<1> QED
  BY <1>1, <1>2, InterfaceInvariance, PTL DEF Spec, HostMapSpec

\* They use the firewall as its specification says, with groups that are those
\* of a session's certificate or none.
THEOREM InterfaceImplementsFirewall == Spec => FirewallSpec
<1>1. Init => FirewallInit
  BY DEF Init
<1>2. InterfaceInv /\ [Next]_vars => [FirewallNext]_fwVars
  BY InterfaceStep DEF Implements
<1> QED
  BY <1>1, <1>2, InterfaceInvariance, PTL DEF Spec, FirewallSpec

\* In the running Interface, whatever the interleaving: packets go out on the
\* newest session, and pass the firewall on a recent word of a rule only.
THEOREM InterfaceSafe == Spec => [](CurrentIsNewest /\ AllowedByRecentRule /\ RefusedOnlyWhenStale)
BY InterfaceImplementsHostMap, InterfaceImplementsFirewall, SentOnNewest, PassesOnRecentRule,
   RefusesOnlyStale, PTL

\* For any number of peers, certificates and sessions, the next handshake with a
\* peer is started from the certificate that it proved last.
THEOREM CacheIsNewest == Spec => []CacheFollowsSessions
<1>1. InterfaceInv => CacheFollowsSessions
  BY DEF InterfaceInv, CacheInv, CacheFollowsSessions, Idle
<1> QED
  BY <1>1, InterfaceInvariance, PTL

\* For any rules, groups and peers, a group counts only once a handshake has
\* proved a certificate that has it: that of the peer a packet goes to, or of
\* the peer that sealed the packet that came in.
THEOREM GroupsNeedProof == Spec => []GroupsProven
<1>1. InterfaceInv => GroupsProven
  BY DEF InterfaceInv
<1> QED
  BY <1>1, InterfaceInvariance, PTL

==============================================================================
