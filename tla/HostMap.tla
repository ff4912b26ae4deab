------------------------------- MODULE HostMap -------------------------------
(***************************************************************************)
(* The registry of sessions (src/hostmap.go): Add, called for every        *)
(* completed handshake, and Remove, called for a CloseTunnel datagram      *)
(* (src/interface.go).  Both run under HostMap.mu, so a call is one step.  *)
(* A session is named by the number of the Add that stored it, and its     *)
(* index is taken to be new: randomIndex draws 32 random bits.             *)
(***************************************************************************)
EXTENDS Integers

CONSTANTS
  VpnIP,         \* the peers
  Index,         \* local indexes
  Certs,         \* certificates that peers present
  Nil,           \* no entry
  MaxSessions    \* bound: sessions ever added

ASSUME SessionsAssumption ==
  /\ MaxSessions \in Nat
  /\ Nil \notin 1 .. MaxSessions
  /\ Nil \notin [VpnIP : VpnIP, Index : Index, Cert : Certs]

VARIABLES
  sessions,   \* the HostInfo objects, in the order they were added
  byVpnIP,
  byIndex

hostVars == <<sessions, byVpnIP, byIndex>>

Added == {s \in 1 .. MaxSessions : sessions[s] # Nil}

HostMapInit ==
  /\ sessions = [s \in 1 .. MaxSessions |-> Nil]
  /\ byVpnIP = [ip \in VpnIP |-> Nil]
  /\ byIndex = [i \in Index |-> Nil]

\* Mutation: only the index map is updated when the peer has a session.
AddKeepingCurrent(ip, i, cert) ==
  \E s \in 1 .. MaxSessions :
    /\ Added = 1 .. s - 1
    /\ \A r \in Added : sessions[r].Index # i
    /\ sessions' = [sessions EXCEPT ![s] = [VpnIP |-> ip, Index |-> i, Cert |-> cert]]
    /\ byVpnIP' = [byVpnIP EXCEPT ![ip] = IF @ = Nil THEN s ELSE @]
    /\ byIndex' = [byIndex EXCEPT ![i] = s]

Add(ip, i, cert) ==
  \E s \in 1 .. MaxSessions :
    /\ Added = 1 .. s - 1
    /\ \A r \in Added : sessions[r].Index # i
    /\ sessions' = [sessions EXCEPT ![s] = [VpnIP |-> ip, Index |-> i, Cert |-> cert]]
    /\ byVpnIP' = [byVpnIP EXCEPT ![ip] = s]
    /\ byIndex' = [byIndex EXCEPT ![i] = s]

\* Mutation: only the VPN IP entry is deleted.
RemoveByIPOnly(ip) ==
  /\ byVpnIP' = [byVpnIP EXCEPT ![ip] = Nil]
  /\ UNCHANGED <<sessions, byIndex>>

Remove(ip) ==
  /\ byIndex' = IF byVpnIP[ip] = Nil THEN byIndex
                ELSE [byIndex EXCEPT ![sessions[byVpnIP[ip]].Index] = Nil]
  /\ byVpnIP' = [byVpnIP EXCEPT ![ip] = Nil]
  /\ UNCHANGED sessions

\* handleCloseTunnel: the session is found by index and removed by VPN IP.
CloseTunnel(i) ==
  /\ byIndex[i] # Nil
  /\ Remove(sessions[byIndex[i]].VpnIP)

HostMapNext ==
  \E i \in Index : CloseTunnel(i) \/ \E ip \in VpnIP, cert \in Certs : Add(ip, i, cert)

HostMapSpec == HostMapInit /\ [][HostMapNext]_hostVars

-----------------------------------------------------------------------------
\* The session found by VPN IP is also found by its index, and is the newest
\* session with that peer that any index leads to: packets are never sent on a
\* session that an older one has outlived.
CurrentIsNewest ==
  \A ip \in VpnIP : byVpnIP[ip] # Nil =>
    /\ sessions[byVpnIP[ip]].VpnIP = ip
    /\ byIndex[sessions[byVpnIP[ip]].Index] = byVpnIP[ip]
    /\ \A i \in Index : byIndex[i] # Nil /\ sessions[byIndex[i]].VpnIP = ip
                          => byIndex[i] <= byVpnIP[ip]

\* The current sessions that this step takes away cannot be received on.
GoneFromBoth ==
  \A ip \in VpnIP : byVpnIP[ip] # Nil /\ byVpnIP'[ip] = Nil
    => \A i \in Index : byIndex'[i] # byVpnIP[ip]

\* When a peer loses its current session, no index leads to that session any
\* more: Remove takes it out of both maps, so nothing more is received on it.
RemovedFromBoth == [][GoneFromBoth]_hostVars

=============================================================================
