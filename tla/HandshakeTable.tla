--------------------------- MODULE HandshakeTable ---------------------------
(***************************************************************************)
(* The two maps of one HandshakeManager (src/handshake_manager.go) and the *)
(* critical sections that change them.  Each operator is what one method   *)
(* does to the maps while it holds m.mu.                                   *)
(*                                                                         *)
(* A table t has t.pending, from the peer's VPN IP to its handshake, and   *)
(* t.indexMap, from a local index to the VPN IP of the handshake stored    *)
(* under it: a handshake leaves pending and indexMap in the same critical  *)
(* section, so the VPN IP names the object the code points to.             *)
(***************************************************************************)
EXTENDS Integers, Sequences

CONSTANTS
  Node,                   \* the nodes, named by their VPN IPs
  MaxIndex,               \* bound: session indexes are 1 .. MaxIndex
  Nobody,                 \* nil
  maxPendingPackets,      \* 50
  maxHandshakeAttempts    \* 10

Index == 1 .. MaxIndex

ASSUME NobodyAssumption == Nobody \notin Node /\ Nobody \notin Index
ASSUME IndexAssumption == MaxIndex \in Nat
ASSUME PendingAssumption == maxPendingPackets \in Nat \ {0}
ASSUME AttemptsAssumption == maxHandshakeAttempts \in Nat \ {0}

NoPending == [localIndex |-> Nobody, attempts |-> 0, pendingPackets |-> << >>]

EmptyTable ==
  [pending  |-> [p \in Node |-> NoPending],
   indexMap |-> [i \in Index |-> Nobody]]

InProgress(t, p) == t.pending[p].attempts > 0

\* StartHandshake past its "already in progress" check.
OpenHandshake(t, p, i) ==
  [pending  |-> [t.pending EXCEPT ![p] = [localIndex     |-> i,
                                          attempts       |-> 1,
                                          pendingPackets |-> << >>]],
   indexMap |-> [t.indexMap EXCEPT ![i] = p]]

\* Mutation: the entry is left in both maps until the response is verified.
TakeHandshakeLater(t, i) == t

\* HandleStage1, for an index that indexMap knows.
TakeHandshake(t, i) ==
  [pending  |-> [t.pending EXCEPT ![t.indexMap[i]] = NoPending],
   indexMap |-> [t.indexMap EXCEPT ![i] = Nobody]]

\* Mutation: a full queue drops nothing.
EnqueueUnbounded(queue, pkt) == Append(queue, pkt)

\* Mutation: a full queue drops the new packet.
EnqueueDroppingNewest(queue, pkt) ==
  IF Len(queue) >= maxPendingPackets THEN queue ELSE Append(queue, pkt)

Enqueue(queue, pkt) ==
  Append(IF Len(queue) >= maxPendingPackets THEN Tail(queue) ELSE queue, pkt)

\* QueuePacket: without a handshake in progress the packet is dropped.
QueuePacket(t, p, pkt) ==
  IF InProgress(t, p)
    THEN [t EXCEPT !.pending[p].pendingPackets = Enqueue(@, pkt)]
    ELSE t

\* Mutation: one attempt too many.
ExpiredLate(t, due) == {p \in due : t.pending[p].attempts > maxHandshakeAttempts}

\* Mutation: one attempt too few.
ExpiredEarly(t, due) == {p \in due : t.pending[p].attempts + 1 >= maxHandshakeAttempts}

Expired(t, due) == {p \in due : t.pending[p].attempts >= maxHandshakeAttempts}

\* Mutation: an expired handshake keeps its entry in indexMap.
RetryKeepingIndex(t, due) ==
  [pending  |-> [p \in Node |->
                   IF p \in Expired(t, due) THEN NoPending
                   ELSE IF p \in due THEN [t.pending[p] EXCEPT !.attempts = @ + 1]
                   ELSE t.pending[p]],
   indexMap |-> t.indexMap]

\* Mutation: resending does not count.
RetryWithoutCount(t, due) ==
  [pending  |-> [p \in Node |-> IF p \in Expired(t, due) THEN NoPending ELSE t.pending[p]],
   indexMap |-> [i \in Index |->
                   IF i \in {t.pending[p].localIndex : p \in Expired(t, due)}
                     THEN Nobody ELSE t.indexMap[i]]]

\* retryPending over the handshakes whose nextRetry has come.
RetryPending(t, due) ==
  LET gone == {t.pending[p].localIndex : p \in Expired(t, due)}
  IN  [pending  |-> [p \in Node |->
                       IF p \in Expired(t, due) THEN NoPending
                       ELSE IF p \in due THEN [t.pending[p] EXCEPT !.attempts = @ + 1]
                       ELSE t.pending[p]],
       indexMap |-> [i \in Index |-> IF i \in gone THEN Nobody ELSE t.indexMap[i]]]

Handshakes(Packets) ==
  [localIndex : Index, attempts : 1 .. maxHandshakeAttempts, pendingPackets : Seq(Packets)]

Tables(Packets) ==
  [pending  : [Node -> Handshakes(Packets) \cup {NoPending}],
   indexMap : [Index -> Node \cup {Nobody}]]

=============================================================================
