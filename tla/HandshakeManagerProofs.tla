----------------------- MODULE HandshakeManagerProofs -----------------------
(***************************************************************************)
(* HandshakeManager for any set of peers, any indexes, any limits and any  *)
(* delays: the two maps stay sound although indexes may collide, the queue *)
(* of a handshake holds the newest packets, the ticker gives up only after *)
(* all attempts were sent, and a handshake ends within the sum of its      *)
(* delays.                                                                 *)
(***************************************************************************)
EXTENDS HandshakeManager, TLAPS

\* The variables have their types.
HandshakeTypes ==
  /\ t \in Tables(Nat)
  /\ wait \in [Node -> Nat] /\ queued \in [Node -> Nat]
  /\ sent \in [Node -> Nat] /\ age \in [Node -> Nat]
  /\ started \in Nat

\* Every attempt that is counted was sent, and no other.
SentIsCounted == \A p \in Node : InProgress(t, p) => sent[p] = t.pending[p].attempts

\* What a step of the code preserves: GivesUpAfterAllAttempts is not about one
\* state, and follows from SentIsCounted.
ManagerInv == HandshakeTypes /\ IndexMapSound /\ QueueIsNewest /\ SentIsCounted

-----------------------------------------------------------------------------
(* The critical sections of src/handshake_manager.go on a table u.         *)

\* An entry of pending is a handshake, or there is none.
LEMMA PendingType ==
  ASSUME NEW u \in Tables(Nat), NEW p \in Node
  PROVE  /\ u.pending[p].attempts \in 0 .. maxHandshakeAttempts
         /\ u.pending[p].pendingPackets \in Seq(Nat)
         /\ InProgress(u, p) => /\ u.pending[p].attempts \in 1 .. maxHandshakeAttempts
                                /\ u.pending[p].localIndex \in Index
                                /\ u.pending[p] \in Handshakes(Nat)
<1>1. CASE u.pending[p] = NoPending
  BY <1>1, AttemptsAssumption DEF NoPending, InProgress
<1>2. CASE u.pending[p] \in Handshakes(Nat)
  BY <1>2, AttemptsAssumption DEF Handshakes, InProgress
<1> QED
  BY <1>1, <1>2 DEF Tables

\* StartHandshake stores the new handshake in both maps and touches no other.
LEMMA OpenEffect ==
  ASSUME NEW u \in Tables(Nat), NEW p \in Node, NEW i \in Index
  PROVE  /\ OpenHandshake(u, p, i) \in Tables(Nat)
         /\ \A j \in Index :
              OpenHandshake(u, p, i).indexMap[j] = IF j = i THEN p ELSE u.indexMap[j]
         /\ \A q \in Node \ {p} : OpenHandshake(u, p, i).pending[q] = u.pending[q]
         /\ OpenHandshake(u, p, i).pending[p].localIndex = i
         /\ OpenHandshake(u, p, i).pending[p].attempts = 1
         /\ OpenHandshake(u, p, i).pending[p].pendingPackets = << >>
BY AttemptsAssumption DEF OpenHandshake, Tables, Handshakes

\* HandleStage1 takes the handshake out of both maps.
LEMMA TakeEffect ==
  ASSUME NEW u \in Tables(Nat), NEW i \in Index, u.indexMap[i] # Nobody
  PROVE  /\ TakeHandshake(u, i) \in Tables(Nat)
         /\ \A j \in Index :
              TakeHandshake(u, i).indexMap[j] = IF j = i THEN Nobody ELSE u.indexMap[j]
         /\ \A q \in Node :
              TakeHandshake(u, i).pending[q] = IF q = u.indexMap[i] THEN NoPending ELSE u.pending[q]
BY DEF TakeHandshake, Tables

\* Enqueue keeps the newest packets: after offered packets the queue q holds
\* the last Len(q) numbers, and so it does after one more.
Newest(q, offered) ==
  /\ Len(q) = IF offered < maxPendingPackets THEN offered ELSE maxPendingPackets
  /\ \A j \in 1 .. Len(q) : q[j] = offered - Len(q) + j

\* QueuePacket on a queue of the newest packets.
LEMMA EnqueueNewest ==
  ASSUME NEW q \in Seq(Nat), NEW k \in Nat, Newest(q, k)
  PROVE  Enqueue(q, k + 1) \in Seq(Nat) /\ Newest(Enqueue(q, k + 1), k + 1)
<1>1. maxPendingPackets \in Nat /\ maxPendingPackets > 0
  BY PendingAssumption
<1>2. Len(q) \in Nat /\ \A j \in 1 .. Len(q) : q[j] = k - Len(q) + j
  BY DEF Newest
<1>3. CASE k < maxPendingPackets
  <2>1. Len(q) = k /\ Enqueue(q, k + 1) = Append(q, k + 1)
    BY <1>1, <1>3 DEF Newest, Enqueue
  <2>2. /\ Append(q, k + 1) \in Seq(Nat) /\ Len(Append(q, k + 1)) = k + 1
        /\ Append(q, k + 1)[k + 1] = k + 1
        /\ \A j \in 1 .. k : Append(q, k + 1)[j] = q[j]
    BY <2>1
  <2>3. \A j \in 1 .. k + 1 : j \in 1 .. k \/ j = k + 1
    OBVIOUS
  <2>4. \A j \in 1 .. k + 1 : Append(q, k + 1)[j] = (k + 1) - (k + 1) + j
    BY <1>2, <2>1, <2>2, <2>3
  <2>5. k + 1 = IF k + 1 < maxPendingPackets THEN k + 1 ELSE maxPendingPackets
    BY <1>1, <1>3
  <2> DEFINE e == Append(q, k + 1)
  <2>6. /\ Enqueue(q, k + 1) = e /\ e \in Seq(Nat) /\ Len(e) = k + 1
        /\ \A j \in 1 .. k + 1 : e[j] = (k + 1) - (k + 1) + j
    BY <2>1, <2>2, <2>4
  <2> HIDE DEF e
  <2>7. Newest(e, k + 1)
    BY <2>5, <2>6 DEF Newest
  <2> QED
    BY <2>6, <2>7
<1>4. CASE ~ (k < maxPendingPackets)
  <2> DEFINE m == maxPendingPackets
             e == Append(Tail(q), k + 1)
  <2>1. Len(q) = m /\ Enqueue(q, k + 1) = e /\ q # << >>
    BY <1>1, <1>4 DEF Newest, Enqueue
  <2>2. /\ Tail(q) \in Seq(Nat) /\ Len(Tail(q)) = m - 1
        /\ \A j \in 1 .. m - 1 : Tail(q)[j] = q[j + 1]
    BY <1>1, <2>1
  <2>3. /\ e \in Seq(Nat) /\ Len(e) = m /\ e[m] = k + 1
        /\ \A j \in 1 .. m - 1 : e[j] = Tail(q)[j]
    BY <1>1, <2>2
  <2> HIDE DEF e
  <2>4. \A j \in 1 .. m - 1 : e[j] = (k + 1) - m + j
    <3> SUFFICES ASSUME NEW j \in 1 .. m - 1
                 PROVE  e[j] = (k + 1) - m + j
      OBVIOUS
    <3>1. j + 1 \in 1 .. m /\ j \in Nat
      BY <1>1
    <3>2. e[j] = q[j + 1]
      BY <2>2, <2>3
    <3> QED
      BY <1>1, <1>2, <2>1, <3>1, <3>2
  <2>5. \A j \in 1 .. m : j \in 1 .. m - 1 \/ j = m
    BY <1>1
  <2>6. \A j \in 1 .. m : e[j] = (k + 1) - m + j
    <3>1. (k + 1) - m + m = k + 1
      BY <1>1
    <3> QED
      BY <2>3, <2>4, <2>5, <3>1
  <2>7. m = IF k + 1 < maxPendingPackets THEN k + 1 ELSE maxPendingPackets
    BY <1>1, <1>4
  <2> QED
    BY <2>1, <2>3, <2>6, <2>7 DEF Newest
<1> QED
  BY <1>3, <1>4

\* QueuePacket changes the queue of its peer and nothing else.
LEMMA QueueEffect ==
  ASSUME NEW u \in Tables(Nat), NEW p \in Node, NEW k \in Nat, InProgress(u, p),
         Enqueue(u.pending[p].pendingPackets, k) \in Seq(Nat)
  PROVE  /\ QueuePacket(u, p, k) \in Tables(Nat)
         /\ QueuePacket(u, p, k).indexMap = u.indexMap
         /\ \A q \in Node \ {p} : QueuePacket(u, p, k).pending[q] = u.pending[q]
         /\ QueuePacket(u, p, k).pending[p].localIndex = u.pending[p].localIndex
         /\ QueuePacket(u, p, k).pending[p].attempts = u.pending[p].attempts
         /\ QueuePacket(u, p, k).pending[p].pendingPackets =
              Enqueue(u.pending[p].pendingPackets, k)
<1>1. u.pending[p] \in Handshakes(Nat)
  BY PendingType
<1> QED
  BY <1>1 DEF QueuePacket, Tables, Handshakes

\* retryPending drops the expired handshakes and their indexes, counts an
\* attempt of the other ones that are due, and leaves the rest alone.
LEMMA RetryEffect ==
  ASSUME NEW u \in Tables(Nat), NEW due \in SUBSET {p \in Node : InProgress(u, p)}
  PROVE  /\ RetryPending(u, due) \in Tables(Nat)
         /\ \A j \in Index :
              RetryPending(u, due).indexMap[j] =
                IF \E p \in Expired(u, due) : u.pending[p].localIndex = j
                THEN Nobody ELSE u.indexMap[j]
         /\ \A p \in Expired(u, due) : RetryPending(u, due).pending[p] = NoPending
         /\ \A p \in due \ Expired(u, due) :
              /\ RetryPending(u, due).pending[p].attempts = u.pending[p].attempts + 1
              /\ RetryPending(u, due).pending[p].localIndex = u.pending[p].localIndex
              /\ RetryPending(u, due).pending[p].pendingPackets = u.pending[p].pendingPackets
         /\ \A p \in Node \ due : RetryPending(u, due).pending[p] = u.pending[p]
<1>1. \A p \in due \ Expired(u, due) :
        [u.pending[p] EXCEPT !.attempts = @ + 1] \in Handshakes(Nat)
  <2> SUFFICES ASSUME NEW p \in due \ Expired(u, due)
               PROVE  [u.pending[p] EXCEPT !.attempts = @ + 1] \in Handshakes(Nat)
    OBVIOUS
  <2>1. u.pending[p] \in Handshakes(Nat)
    BY PendingType
  <2>2. u.pending[p].attempts \in 1 .. maxHandshakeAttempts - 1
    BY <2>1, AttemptsAssumption DEF Expired, Handshakes
  <2> DEFINE h == u.pending[p]
  <2>3. h \in Handshakes(Nat) /\ h.attempts + 1 \in 1 .. maxHandshakeAttempts
    BY <2>1, <2>2, AttemptsAssumption
  <2> HIDE DEF h
  <2>4. [h EXCEPT !.attempts = @ + 1] \in Handshakes(Nat)
    BY <2>3 DEF Handshakes
  <2> QED
    BY <2>4 DEF h
<1>2. RetryPending(u, due) \in Tables(Nat)
  BY <1>1 DEF RetryPending, Tables, Expired
<1>3. Expired(u, due) \subseteq due /\ due \subseteq Node
  BY DEF Expired
<1>4. \A p \in due \ Expired(u, due) :
        RetryPending(u, due).pending[p] = [u.pending[p] EXCEPT !.attempts = @ + 1]
  BY <1>3 DEF RetryPending
<1>5. ASSUME NEW p \in due \ Expired(u, due)
      PROVE  /\ RetryPending(u, due).pending[p].attempts = u.pending[p].attempts + 1
             /\ RetryPending(u, due).pending[p].localIndex = u.pending[p].localIndex
             /\ RetryPending(u, due).pending[p].pendingPackets = u.pending[p].pendingPackets
  <2>1. u.pending[p] \in Handshakes(Nat)
    BY PendingType
  <2> QED
    BY <1>4, <2>1 DEF Handshakes
<1>6. /\ \A p \in Expired(u, due) : RetryPending(u, due).pending[p] = NoPending
      /\ \A p \in Node \ due : RetryPending(u, due).pending[p] = u.pending[p]
  BY <1>3 DEF RetryPending
<1>7. \A j \in Index : RetryPending(u, due).indexMap[j] =
        IF \E p \in Expired(u, due) : u.pending[p].localIndex = j THEN Nobody ELSE u.indexMap[j]
  BY DEF RetryPending
<1> QED
  BY <1>2, <1>5, <1>6, <1>7
-----------------------------------------------------------------------------
(* The invariant.                                                          *)

\* An empty HandshakeManager satisfies the invariant.
LEMMA ManagerInit == Init => ManagerInv
<1> SUFFICES ASSUME Init PROVE ManagerInv
  OBVIOUS
<1>1. EmptyTable \in Tables(Nat)
  BY DEF EmptyTable, Tables
<1>2. \A p \in Node : ~ InProgress(EmptyTable, p)
  BY DEF EmptyTable, InProgress, NoPending
<1>3. \A i \in Index : EmptyTable.indexMap[i] = Nobody
  BY DEF EmptyTable
<1> QED
  BY <1>1, <1>2, <1>3 DEF Init, Zero, ManagerInv, HandshakeTypes, IndexMapSound, QueueIsNewest,
     SentIsCounted

\* StartHandshake, also when it draws an index that is in use: the index then
\* leads to the new handshake, and the old one has none.
LEMMA StartKeeps ==
  ASSUME ManagerInv, NEW p \in Node, NEW i \in Index, StartHandshake(p, i)
  PROVE  ManagerInv'
<1>1. /\ t \in Tables(Nat) /\ ~ InProgress(t, p) /\ t' = OpenHandshake(t, p, i)
      /\ queued \in [Node -> Nat] /\ queued' = [queued EXCEPT ![p] = 0]
      /\ sent \in [Node -> Nat] /\ sent' = [sent EXCEPT ![p] = 1]
  BY DEF StartHandshake, ManagerInv, HandshakeTypes
<1>2. /\ t' \in Tables(Nat)
      /\ \A j \in Index : t'.indexMap[j] = IF j = i THEN p ELSE t.indexMap[j]
      /\ \A q \in Node \ {p} : t'.pending[q] = t.pending[q]
      /\ t'.pending[p].localIndex = i /\ t'.pending[p].attempts = 1
      /\ t'.pending[p].pendingPackets = << >>
  BY <1>1, OpenEffect
<1>3. HandshakeTypes'
  BY <1>2, RetryAssumption DEF StartHandshake, ManagerInv, HandshakeTypes
<1>4. IndexMapSound'
  <2> SUFFICES ASSUME NEW j \in Index, t'.indexMap[j] # Nobody
               PROVE  /\ InProgress(t', t'.indexMap[j])
                      /\ t'.pending[t'.indexMap[j]].localIndex = j
    BY DEF IndexMapSound
  <2>1. CASE j = i
    BY <1>2, <2>1 DEF InProgress
  <2>2. CASE j # i
    <3>1. /\ t'.indexMap[j] = t.indexMap[j] /\ InProgress(t, t.indexMap[j])
          /\ t.pending[t.indexMap[j]].localIndex = j
      BY <1>2, <2>2 DEF ManagerInv, IndexMapSound
    <3>2. t.indexMap[j] \in Node \ {p}
      BY <1>1, <1>2, <2>2, <3>1 DEF Tables
    <3> QED
      BY <1>2, <3>1, <3>2 DEF InProgress
  <2> QED
    BY <2>1, <2>2
<1>5. QueueIsNewest'
  <2> SUFFICES ASSUME NEW q \in Node, InProgress(t', q)
               PROVE  Newest(t'.pending[q].pendingPackets, queued'[q])
    BY DEF QueueIsNewest, Newest
  <2>1. CASE q = p
    <3>1. queued'[q] = 0 /\ t'.pending[q].pendingPackets = << >>
      BY <1>1, <1>2, <2>1
    <3> QED
      BY <3>1, PendingAssumption DEF Newest
  <2>2. CASE q # p
    <3>1. t'.pending[q] = t.pending[q] /\ queued'[q] = queued[q] /\ InProgress(t, q)
      BY <1>1, <1>2, <2>2 DEF InProgress
    <3> QED
      BY <3>1 DEF ManagerInv, QueueIsNewest, Newest
  <2> QED
    BY <2>1, <2>2
<1>6. SentIsCounted'
  <2> SUFFICES ASSUME NEW q \in Node, InProgress(t', q)
               PROVE  sent'[q] = t'.pending[q].attempts
    BY DEF SentIsCounted
  <2>1. CASE q = p
    BY <1>1, <1>2, <2>1
  <2>2. CASE q # p
    BY <1>1, <1>2, <2>2 DEF ManagerInv, SentIsCounted, InProgress
  <2> QED
    BY <2>1, <2>2
<1> QED
  BY <1>3, <1>4, <1>5, <1>6 DEF ManagerInv

\* QueuePacket.
LEMMA QueueKeeps ==
  ASSUME ManagerInv, NEW p \in Node, Queue(p)
  PROVE  ManagerInv'
<1> DEFINE s == t.pending[p].pendingPackets
           k == queued[p]
<1>1. /\ t \in Tables(Nat) /\ InProgress(t, p) /\ t' = QueuePacket(t, p, k + 1)
      /\ queued \in [Node -> Nat] /\ queued' = [queued EXCEPT ![p] = k + 1]
      /\ UNCHANGED sent
  BY DEF Queue, ManagerInv, HandshakeTypes
<1>2. k \in Nat /\ k + 1 \in Nat /\ s \in Seq(Nat) /\ Newest(s, k)
  BY <1>1, PendingType DEF ManagerInv, QueueIsNewest, Newest
<1> HIDE DEF s, k
<1>3. Enqueue(s, k + 1) \in Seq(Nat) /\ Newest(Enqueue(s, k + 1), k + 1)
  BY <1>2, EnqueueNewest
<1>4. /\ t' \in Tables(Nat) /\ t'.indexMap = t.indexMap
      /\ \A q \in Node \ {p} : t'.pending[q] = t.pending[q]
      /\ t'.pending[p].localIndex = t.pending[p].localIndex
      /\ t'.pending[p].attempts = t.pending[p].attempts
      /\ t'.pending[p].pendingPackets = Enqueue(s, k + 1)
  BY <1>1, <1>2, <1>3, QueueEffect DEF s
<1>5. \A q \in Node : /\ InProgress(t', q) <=> InProgress(t, q)
                      /\ t'.pending[q].attempts = t.pending[q].attempts
                      /\ t'.pending[q].localIndex = t.pending[q].localIndex
  BY <1>4 DEF InProgress
<1>6. HandshakeTypes'
  BY <1>1, <1>2, <1>4 DEF Queue, ManagerInv, HandshakeTypes
<1>7. IndexMapSound' /\ SentIsCounted'
  <2>1. \A j \in Index : t.indexMap[j] \in Node \cup {Nobody}
    BY <1>1 DEF Tables
  <2>2. IndexMapSound'
    BY <1>4, <1>5, <2>1 DEF ManagerInv, IndexMapSound
  <2> QED
    BY <1>1, <1>5, <2>2 DEF ManagerInv, SentIsCounted
<1>8. QueueIsNewest'
  <2> SUFFICES ASSUME NEW q \in Node, InProgress(t', q)
               PROVE  Newest(t'.pending[q].pendingPackets, queued'[q])
    BY DEF QueueIsNewest, Newest
  <2>1. CASE q = p
    BY <1>1, <1>3, <1>4, <2>1
  <2>2. CASE q # p
    <3>1. t'.pending[q] = t.pending[q] /\ queued'[q] = queued[q] /\ InProgress(t, q)
      BY <1>1, <1>4, <2>2 DEF InProgress
    <3> QED
      BY <3>1 DEF ManagerInv, QueueIsNewest, Newest
  <2> QED
    BY <2>1, <2>2
<1> QED
  BY <1>6, <1>7, <1>8 DEF ManagerInv

\* HandleStage1 and retryPending only take handshakes away or count attempts:
\* what is still pending afterwards was pending before, with its index and queue.
Remains(q) ==
  InProgress(t', q) => /\ InProgress(t, q)
                       /\ t'.pending[q].localIndex = t.pending[q].localIndex
                       /\ t'.pending[q].pendingPackets = t.pending[q].pendingPackets

\* IndexMapSound and QueueIsNewest of such a step.
LEMMA RemainsKeeps ==
  ASSUME ManagerInv, UNCHANGED queued, \A q \in Node : Remains(q),
         \A j \in Index : t'.indexMap[j] # Nobody =>
           /\ t'.indexMap[j] = t.indexMap[j]
           /\ InProgress(t', t.indexMap[j])
  PROVE  IndexMapSound' /\ QueueIsNewest'
<1>1. \A j \in Index : t.indexMap[j] \in Node \cup {Nobody}
  BY DEF ManagerInv, HandshakeTypes, Tables
<1>2. IndexMapSound'
  BY <1>1 DEF ManagerInv, IndexMapSound, Remains
<1>3. QueueIsNewest'
  <2> SUFFICES ASSUME NEW q \in Node, InProgress(t', q)
               PROVE  Newest(t'.pending[q].pendingPackets, queued'[q])
    BY DEF QueueIsNewest, Newest
  <2>1. InProgress(t, q) /\ t'.pending[q].pendingPackets = t.pending[q].pendingPackets
    BY DEF Remains
  <2> QED
    BY <2>1 DEF ManagerInv, QueueIsNewest, Newest
<1> QED
  BY <1>2, <1>3

\* HandleStage1.
LEMMA HandleKeeps ==
  ASSUME ManagerInv, NEW i \in Index, HandleStage1(i)
  PROVE  ManagerInv'
<1>1. /\ t \in Tables(Nat) /\ t.indexMap[i] # Nobody /\ t' = TakeHandshake(t, i)
      /\ UNCHANGED <<wait, queued, sent, age, started>>
  BY DEF HandleStage1, ManagerInv, HandshakeTypes
<1>2. /\ t' \in Tables(Nat)
      /\ \A j \in Index : t'.indexMap[j] = IF j = i THEN Nobody ELSE t.indexMap[j]
      /\ \A q \in Node : t'.pending[q] = IF q = t.indexMap[i] THEN NoPending ELSE t.pending[q]
  BY <1>1, TakeEffect
<1>3. \A q \in Node : InProgress(t', q) => q # t.indexMap[i] /\ t'.pending[q] = t.pending[q]
  BY <1>2 DEF InProgress, NoPending
<1>4. \A q \in Node : Remains(q)
  BY <1>3 DEF Remains, InProgress
<1>5. ASSUME NEW j \in Index, t'.indexMap[j] # Nobody
      PROVE  t'.indexMap[j] = t.indexMap[j] /\ InProgress(t', t.indexMap[j])
  <2>1. j # i /\ t'.indexMap[j] = t.indexMap[j]
    BY <1>2, <1>5
  <2>2. /\ t.indexMap[j] \in Node /\ InProgress(t, t.indexMap[j])
        /\ t.pending[t.indexMap[j]].localIndex = j /\ t.pending[t.indexMap[i]].localIndex = i
    BY <1>1, <1>5, <2>1 DEF ManagerInv, IndexMapSound, Tables
  <2>3. t'.pending[t.indexMap[j]] = t.pending[t.indexMap[j]]
    BY <1>2, <2>1, <2>2
  <2> QED
    BY <2>1, <2>2, <2>3 DEF InProgress
<1>6. IndexMapSound' /\ QueueIsNewest'
  BY <1>1, <1>4, <1>5, RemainsKeeps
<1>7. SentIsCounted'
  BY <1>1, <1>3 DEF ManagerInv, SentIsCounted, InProgress
<1>8. HandshakeTypes'
  BY <1>1, <1>2 DEF ManagerInv, HandshakeTypes
<1> QED
  BY <1>6, <1>7, <1>8 DEF ManagerInv

\* The delay of a resent stage-0 is at least one tick: 500ms shifted by at most
\* six, capped.
LEMMA RetryDelayType == ASSUME NEW k \in Nat \ {0} PROVE RetryDelay(k) \in Nat \ {0}
<1> DEFINE e == IF k < 6 THEN k ELSE 6
<1>1. e \in 1 .. 6
  OBVIOUS
<1>2. \A d \in 1 .. 6 : 2 ^ d \in Nat \ {0}
  <2>1. 2 ^ 1 = 2 /\ 2 ^ 2 = 4 /\ 2 ^ 3 = 8 /\ 2 ^ 4 = 16 /\ 2 ^ 5 = 32 /\ 2 ^ 6 = 64
    OBVIOUS
  <2>2. \A d \in 1 .. 6 : d = 1 \/ d = 2 \/ d = 3 \/ d = 4 \/ d = 5 \/ d = 6
    OBVIOUS
  <2> SUFFICES ASSUME NEW d \in 1 .. 6
               PROVE  2 ^ d \in Nat \ {0}
    OBVIOUS
  <2>3. CASE d = 1
    BY <2>1, <2>3
  <2>4. CASE d = 2
    BY <2>1, <2>4
  <2>5. CASE d = 3
    BY <2>1, <2>5
  <2>6. CASE d = 4
    BY <2>1, <2>6
  <2>7. CASE d = 5
    BY <2>1, <2>7
  <2>8. CASE d = 6
    BY <2>1, <2>8
  <2> QED
    BY <2>2, <2>3, <2>4, <2>5, <2>6, <2>7, <2>8
<1>3. 2 ^ e \in Nat \ {0}
  BY <1>1, <1>2
<1>4. \A x \in Nat \ {0} : retryBase * x \in Nat \ {0}
  BY RetryAssumption
<1>5. retryBase * 2 ^ e \in Nat \ {0} /\ retryMax \in Nat \ {0}
  BY <1>3, <1>4, RetryAssumption
<1>6. RetryDelay(k) = IF retryBase * 2 ^ e > retryMax THEN retryMax ELSE retryBase * 2 ^ e
  BY DEF RetryDelay
<1> QED
  BY <1>5, <1>6

\* A tick, handshake by handshake: one that is due is resent or, when it has
\* used up its attempts, dropped; the others wait for one tick less.
LEMMA TickEffect ==
  ASSUME ManagerInv, Tick
  PROVE  /\ t' \in Tables(Nat) /\ UNCHANGED <<queued, started>>
         /\ \A p \in Node : Remains(p)
         /\ \A j \in Index : t'.indexMap[j] # Nobody =>
              t'.indexMap[j] = t.indexMap[j] /\ InProgress(t', t.indexMap[j])
         /\ \A p \in Node : InProgress(t, p) /\ ~ InProgress(t', p) =>
              t.pending[p].attempts = maxHandshakeAttempts
         /\ \A p \in Node : InProgress(t', p) =>
              /\ age'[p] = CountTo(Lifetime, age[p])
              /\ \/ /\ wait[p] <= 1 /\ t.pending[p].attempts < maxHandshakeAttempts
                    /\ t'.pending[p].attempts = t.pending[p].attempts + 1
                    /\ wait'[p] = RetryDelay(t.pending[p].attempts + 1)
                    /\ sent'[p] = CountTo(maxHandshakeAttempts, sent[p])
                 \/ /\ wait[p] > 1 /\ t'.pending[p].attempts = t.pending[p].attempts
                    /\ wait'[p] = wait[p] - 1 /\ sent'[p] = sent[p]
         /\ wait' \in [Node -> Nat] /\ sent' \in [Node -> Nat] /\ age' \in [Node -> Nat]
<1> DEFINE active == {p \in Node : InProgress(t, p)}
           due == {p \in active : wait[p] <= 1}
           gone == Expired(t, due)
           resent == due \ gone
<1>1. /\ t \in Tables(Nat) /\ t' = RetryPending(t, due)
      /\ wait' = [p \in Node |-> IF p \in resent THEN RetryDelay(t'.pending[p].attempts)
                                 ELSE IF p \in active \ due THEN wait[p] - 1 ELSE wait[p]]
      /\ sent' = [p \in Node |->
                    IF p \in resent THEN CountTo(maxHandshakeAttempts, sent[p]) ELSE sent[p]]
      /\ age' = [p \in Node |-> IF p \in active THEN CountTo(Lifetime, age[p]) ELSE age[p]]
      /\ UNCHANGED <<queued, started>>
  BY DEF Tick, ManagerInv, HandshakeTypes
<1>2. /\ wait \in [Node -> Nat] /\ sent \in [Node -> Nat] /\ age \in [Node -> Nat]
  BY DEF ManagerInv, HandshakeTypes
<1>3. /\ active \subseteq Node /\ due \subseteq active /\ gone \subseteq due
      /\ \A p \in Node : p \in active <=> InProgress(t, p)
      /\ \A p \in active : p \in due <=> wait[p] <= 1
      /\ \A p \in due : p \in gone <=> t.pending[p].attempts >= maxHandshakeAttempts
  BY DEF Expired
<1>4. /\ t' \in Tables(Nat)
      /\ \A j \in Index : t'.indexMap[j] =
           IF \E p \in gone : t.pending[p].localIndex = j THEN Nobody ELSE t.indexMap[j]
      /\ \A p \in gone : t'.pending[p] = NoPending
      /\ \A p \in resent : /\ t'.pending[p].attempts = t.pending[p].attempts + 1
                            /\ t'.pending[p].localIndex = t.pending[p].localIndex
                            /\ t'.pending[p].pendingPackets = t.pending[p].pendingPackets
      /\ \A p \in Node \ due : t'.pending[p] = t.pending[p]
  <2>1. due \in SUBSET {p \in Node : InProgress(t, p)}
    OBVIOUS
  <2> HIDE DEF due
  <2> QED
    BY <1>1, <2>1, RetryEffect
<1>5. \A p \in active : t.pending[p].attempts \in 1 .. maxHandshakeAttempts
  BY <1>1, <1>3, PendingType
<1> HIDE DEF active, due, gone
<1>6. ASSUME NEW p \in Node
      PROVE  InProgress(t', p) <=> p \in active \ gone
  <2>1. CASE p \in gone
    BY <1>4, <2>1 DEF InProgress, NoPending
  <2>2. CASE p \in resent
    BY <1>3, <1>4, <1>5, <2>2 DEF InProgress
  <2>3. CASE p \in Node \ due
    BY <1>3, <1>4, <2>3 DEF InProgress
  <2> QED
    BY <1>3, <2>1, <2>2, <2>3
<1>7. ASSUME NEW p \in Node
      PROVE  Remains(p)
  BY <1>3, <1>4, <1>6 DEF Remains
<1>8. ASSUME NEW j \in Index, t'.indexMap[j] # Nobody
      PROVE  t'.indexMap[j] = t.indexMap[j] /\ InProgress(t', t.indexMap[j])
  <2>1. t'.indexMap[j] = t.indexMap[j] /\ ~ \E p \in gone : t.pending[p].localIndex = j
    BY <1>4, <1>8
  <2>2. /\ t.indexMap[j] \in Node /\ InProgress(t, t.indexMap[j])
        /\ t.pending[t.indexMap[j]].localIndex = j
    BY <1>1, <1>8, <2>1 DEF ManagerInv, IndexMapSound, Tables
  <2>3. t.indexMap[j] \in active \ gone
    BY <1>3, <2>1, <2>2
  <2> QED
    BY <1>6, <2>1, <2>2, <2>3
<1>9. ASSUME NEW p \in Node, InProgress(t, p), ~ InProgress(t', p)
      PROVE  t.pending[p].attempts = maxHandshakeAttempts
  BY <1>3, <1>5, <1>6, <1>9, AttemptsAssumption
<1>10. ASSUME NEW p \in Node, InProgress(t', p)
       PROVE  /\ age'[p] = CountTo(Lifetime, age[p])
              /\ \/ /\ wait[p] <= 1 /\ t.pending[p].attempts < maxHandshakeAttempts
                    /\ t'.pending[p].attempts = t.pending[p].attempts + 1
                    /\ wait'[p] = RetryDelay(t.pending[p].attempts + 1)
                    /\ sent'[p] = CountTo(maxHandshakeAttempts, sent[p])
                 \/ /\ wait[p] > 1 /\ t'.pending[p].attempts = t.pending[p].attempts
                    /\ wait'[p] = wait[p] - 1 /\ sent'[p] = sent[p]
  <2>1. p \in active /\ p \notin gone
    BY <1>6, <1>10
  <2>2. age'[p] = CountTo(Lifetime, age[p])
    BY <1>1, <2>1
  <2>3. CASE p \in due
    <3>1. p \in resent
      BY <2>1, <2>3
    <3>2. t.pending[p].attempts < maxHandshakeAttempts /\ wait[p] <= 1
      BY <1>3, <1>5, <2>1, <2>3, AttemptsAssumption
    <3>3. t'.pending[p].attempts = t.pending[p].attempts + 1
      BY <1>4, <3>1
    <3>4. wait'[p] = RetryDelay(t'.pending[p].attempts)
      BY <1>1, <3>1
    <3>5. sent'[p] = CountTo(maxHandshakeAttempts, sent[p])
      BY <1>1, <3>1
    <3> QED
      BY <2>2, <3>2, <3>3, <3>4, <3>5
  <2>4. CASE p \notin due
    <3>1. wait[p] > 1
      BY <1>2, <1>3, <2>1, <2>4
    <3>2. t'.pending[p] = t.pending[p]
      BY <1>4, <2>4
    <3>3. wait'[p] = wait[p] - 1 /\ sent'[p] = sent[p]
      BY <1>1, <2>1, <2>4
    <3> QED
      BY <2>2, <3>1, <3>2, <3>3
  <2> QED
    BY <2>3, <2>4
<1>11. wait' \in [Node -> Nat] /\ sent' \in [Node -> Nat] /\ age' \in [Node -> Nat]
  <2>1. \A b, k \in Nat : CountTo(b, k) \in Nat
    BY DEF CountTo
  <2>2. sent' \in [Node -> Nat] /\ age' \in [Node -> Nat]
    BY <1>1, <1>2, <2>1, AttemptsAssumption, LifetimeAssumption
  <2>3. \A p \in resent : RetryDelay(t'.pending[p].attempts) \in Nat
    <3> SUFFICES ASSUME NEW p \in resent
                 PROVE  RetryDelay(t'.pending[p].attempts) \in Nat
      OBVIOUS
    <3>1. t'.pending[p].attempts \in Nat \ {0}
      BY <1>3, <1>4, <1>5
    <3> QED
      BY <3>1, RetryDelayType
  <2>4. ASSUME NEW p \in active \ due
        PROVE  wait[p] - 1 \in Nat
    <3>1. wait[p] \in Nat /\ ~ (wait[p] <= 1)
      BY <1>2, <1>3
    <3> QED
      BY <3>1
  <2> QED
    BY <1>1, <1>2, <2>2, <2>3, <2>4
<1> QED
  BY <1>1, <1>4, <1>7, <1>8, <1>9, <1>10, <1>11

\* retryPending.
LEMMA TickKeeps == ASSUME ManagerInv, Tick PROVE ManagerInv'
<1>1. IndexMapSound' /\ QueueIsNewest'
  BY TickEffect, RemainsKeeps
<1>2. HandshakeTypes'
  BY TickEffect DEF ManagerInv, HandshakeTypes
<1>3. SentIsCounted'
  <2> SUFFICES ASSUME NEW p \in Node, InProgress(t', p)
               PROVE  sent'[p] = t'.pending[p].attempts
    BY DEF SentIsCounted
  <2>1. InProgress(t, p) /\ sent[p] = t.pending[p].attempts
    BY TickEffect DEF Remains, ManagerInv, SentIsCounted
  <2>2. t.pending[p].attempts \in Nat
    BY PendingType DEF ManagerInv, HandshakeTypes
  <2>3. CASE /\ t.pending[p].attempts < maxHandshakeAttempts
             /\ t'.pending[p].attempts = t.pending[p].attempts + 1
             /\ sent'[p] = CountTo(maxHandshakeAttempts, sent[p])
    BY <2>1, <2>2, <2>3, AttemptsAssumption DEF CountTo
  <2>4. CASE t'.pending[p].attempts = t.pending[p].attempts /\ sent'[p] = sent[p]
    BY <2>1, <2>4
  <2> QED
    BY <2>3, <2>4, TickEffect
<1> QED
  BY <1>1, <1>2, <1>3 DEF ManagerInv

\* Every step preserves the invariant.
LEMMA ManagerNext == ManagerInv /\ [Next]_vars => ManagerInv'
<1>1. ASSUME ManagerInv, UNCHANGED vars
      PROVE  ManagerInv'
  BY <1>1 DEF vars, ManagerInv, HandshakeTypes, IndexMapSound, QueueIsNewest, SentIsCounted
<1>2. ASSUME ManagerInv, Next
      PROVE  ManagerInv'
  BY <1>2, StartKeeps, QueueKeeps, HandleKeeps, TickKeeps DEF Next
<1> QED
  BY <1>1, <1>2

\* The invariant holds at all times.
THEOREM ManagerSafe == Spec => []ManagerInv
BY ManagerInit, ManagerNext, PTL DEF Spec

-----------------------------------------------------------------------------
(* What the runs check on an instance, for every value of the constants.   *)

\* Whatever indexes randomIndex draws, HandleStage1 never applies a response to
\* a handshake that is over or has another index.
THEOREM IndexesSound == Spec => []IndexMapSound
<1>1. ManagerInv => IndexMapSound
  BY DEF ManagerInv
<1> QED
  BY <1>1, ManagerSafe, PTL

\* QueuePacket always leaves the newest packets in the queue of a handshake, in
\* the order in which they came.
THEOREM QueuesNewest == Spec => []QueueIsNewest
<1>1. ManagerInv => QueueIsNewest
  BY DEF ManagerInv
<1> QED
  BY <1>1, ManagerSafe, PTL

\* retryPending gives up on a handshake only after maxHandshakeAttempts stage-0
\* datagrams were sent for it.
THEOREM AllAttemptsSent == Spec => GivesUpAfterAllAttempts
<1>1. ManagerInv /\ [Next]_vars =>
        [\A p \in Node : Tick /\ InProgress(t, p) /\ ~ InProgress(t', p)
                           => sent[p] = maxHandshakeAttempts]_vars
  <2> SUFFICES ASSUME ManagerInv, NEW p \in Node, Tick, InProgress(t, p), ~ InProgress(t', p)
               PROVE  sent[p] = maxHandshakeAttempts
    OBVIOUS
  <2>1. t.pending[p].attempts = maxHandshakeAttempts
    BY TickEffect
  <2> QED
    BY <2>1 DEF ManagerInv, SentIsCounted
<1> QED
  BY <1>1, ManagerSafe, PTL DEF Spec, GivesUpAfterAllAttempts

-----------------------------------------------------------------------------
(* How long a handshake may take.                                          *)

\* Rest[k] is the sum of the delays that follow the k-th stage-0 of a
\* handshake: none after the last one.
SumsDelays(Rest) ==
  /\ Rest \in [1 .. maxHandshakeAttempts -> Nat]
  /\ Rest[maxHandshakeAttempts] = 0
  /\ \A k \in 1 .. maxHandshakeAttempts - 1 : Rest[k] = RetryDelay(k + 1) + Rest[k + 1]

\* The time a handshake has taken, the time to its next retry and the delays
\* still to come never exceed what they were when it started.
WithinBudget(Rest) ==
  \A p \in Node : InProgress(t, p) =>
    wait[p] >= 1 /\ age[p] + wait[p] + Rest[t.pending[p].attempts] <= Lifetime + 1

\* A step keeps every handshake within its budget: a tick takes one from wait
\* for the one it adds to age, a resend turns the next delay into wait.
LEMMA BudgetNext ==
  ASSUME NEW CONSTANT Rest, SumsDelays(Rest), retryBase + Rest[1] <= Lifetime,
         ManagerInv, WithinBudget(Rest), [Next]_vars
  PROVE  WithinBudget(Rest)'
<1>1. /\ t \in Tables(Nat) /\ wait \in [Node -> Nat] /\ age \in [Node -> Nat]
      /\ retryBase \in Nat \ {0} /\ Lifetime \in Nat
  BY RetryAssumption, LifetimeAssumption DEF ManagerInv, HandshakeTypes
<1>2. \A k \in 1 .. maxHandshakeAttempts : Rest[k] \in Nat
  BY DEF SumsDelays
<1>3. CASE UNCHANGED vars
  BY <1>3 DEF vars, WithinBudget
<1>4. ASSUME NEW p \in Node, NEW i \in Index, StartHandshake(p, i)
      PROVE  WithinBudget(Rest)'
  <2>1. PICK d \in {retryBase, retryBase + 1} : wait' = [wait EXCEPT ![p] = d]
    BY <1>4 DEF StartHandshake
  <2>2. t' = OpenHandshake(t, p, i) /\ age' = [age EXCEPT ![p] = 0]
    BY <1>4 DEF StartHandshake
  <2>3. t'.pending[p].attempts = 1 /\ \A q \in Node \ {p} : t'.pending[q] = t.pending[q]
    BY <1>1, <2>2, OpenEffect
  <2> SUFFICES ASSUME NEW q \in Node, InProgress(t', q)
               PROVE  /\ wait'[q] >= 1
                      /\ age'[q] + wait'[q] + Rest[t'.pending[q].attempts] <= Lifetime + 1
    BY DEF WithinBudget
  <2>4. CASE q = p
    <3>1. wait'[q] = d /\ age'[q] = 0 /\ t'.pending[q].attempts = 1
      BY <1>1, <2>1, <2>2, <2>3, <2>4
    <3>2. Rest[1] \in Nat
      BY <1>2, AttemptsAssumption
    <3> QED
      BY <1>1, <3>1, <3>2
  <2>5. CASE q # p
    <3>1. /\ wait'[q] = wait[q] /\ age'[q] = age[q] /\ t'.pending[q] = t.pending[q]
          /\ InProgress(t, q)
      BY <1>1, <2>1, <2>2, <2>3, <2>5 DEF InProgress
    <3> QED
      BY <3>1 DEF WithinBudget
  <2> QED
    BY <2>4, <2>5
<1>5. ASSUME NEW p \in Node, Queue(p)
      PROVE  WithinBudget(Rest)'
  <2>1. UNCHANGED <<wait, age>>
    BY <1>5 DEF Queue
  <2>2. \A q \in Node : t'.pending[q].attempts = t.pending[q].attempts
    <3>1. /\ InProgress(t, p) /\ t' = QueuePacket(t, p, queued[p] + 1) /\ queued[p] \in Nat
          /\ t.pending[p].pendingPackets \in Seq(Nat)
          /\ Newest(t.pending[p].pendingPackets, queued[p])
      BY <1>1, <1>5, PendingType DEF Queue, ManagerInv, HandshakeTypes, QueueIsNewest, Newest
    <3>2. Enqueue(t.pending[p].pendingPackets, queued[p] + 1) \in Seq(Nat) /\ queued[p] + 1 \in Nat
      BY <3>1, EnqueueNewest
    <3>3. /\ t'.pending[p].attempts = t.pending[p].attempts
          /\ \A q \in Node \ {p} : t'.pending[q] = t.pending[q]
      BY <1>1, <3>1, <3>2, QueueEffect
    <3> QED
      BY <3>3
  <2> QED
    BY <2>1, <2>2 DEF WithinBudget, InProgress
<1>6. ASSUME NEW i \in Index, HandleStage1(i)
      PROVE  WithinBudget(Rest)'
  <2>1. UNCHANGED <<wait, age>> /\ t.indexMap[i] # Nobody /\ t' = TakeHandshake(t, i)
    BY <1>6 DEF HandleStage1
  <2>2. \A q \in Node : t'.pending[q] = NoPending \/ t'.pending[q] = t.pending[q]
    BY <1>1, <2>1, TakeEffect
  <2>3. \A q \in Node : InProgress(t', q) => InProgress(t, q) /\ t'.pending[q] = t.pending[q]
    BY <2>2 DEF InProgress, NoPending
  <2> QED
    BY <2>1, <2>3 DEF WithinBudget
<1>7. ASSUME Tick
      PROVE  WithinBudget(Rest)'
  <2> SUFFICES ASSUME NEW p \in Node, InProgress(t', p)
               PROVE  /\ wait'[p] >= 1
                      /\ age'[p] + wait'[p] + Rest[t'.pending[p].attempts] <= Lifetime + 1
    BY DEF WithinBudget
  <2> DEFINE k == t.pending[p].attempts
  <2>1. InProgress(t, p) /\ age'[p] = CountTo(Lifetime, age[p])
    BY <1>7, TickEffect DEF Remains
  <2>2. /\ k \in 1 .. maxHandshakeAttempts /\ Rest[k] \in Nat
        /\ wait[p] \in Nat /\ age[p] \in Nat
        /\ wait[p] >= 1 /\ age[p] + wait[p] + Rest[k] <= Lifetime + 1
    BY <1>1, <1>2, <2>1, PendingType DEF WithinBudget
  <2>3. age'[p] \in Nat /\ age'[p] <= age[p] + 1
    BY <1>1, <2>1, <2>2 DEF CountTo
  <2>4. CASE /\ wait[p] <= 1 /\ k < maxHandshakeAttempts
             /\ t'.pending[p].attempts = k + 1 /\ wait'[p] = RetryDelay(k + 1)
    <3>1. k \in 1 .. maxHandshakeAttempts - 1 /\ k + 1 \in 1 .. maxHandshakeAttempts
          /\ k + 1 \in Nat \ {0}
      BY <2>2, <2>4, AttemptsAssumption
    <3>2. Rest[k] = RetryDelay(k + 1) + Rest[k + 1] /\ Rest[k + 1] \in Nat
      BY <1>2, <3>1 DEF SumsDelays
    <3>3. RetryDelay(k + 1) \in Nat \ {0}
      BY <3>1, RetryDelayType
    <3> HIDE DEF k
    <3>4. wait'[p] \in Nat \ {0} /\ wait'[p] + Rest[k + 1] = Rest[k]
      BY <2>4, <3>2, <3>3
    <3> QED
      BY <1>1, <2>2, <2>3, <2>4, <3>2, <3>4
  <2>5. CASE wait[p] > 1 /\ t'.pending[p].attempts = k /\ wait'[p] = wait[p] - 1
    <3> HIDE DEF k
    <3> QED
      BY <1>1, <2>2, <2>3, <2>5
  <2> QED
    BY <1>7, <2>4, <2>5, TickEffect
<1> QED
  BY <1>3, <1>4, <1>5, <1>6, <1>7 DEF Next

\* A Lifetime that covers the first delay, the ticks it may be late and all the
\* delays of RetryDelay bounds the life of every handshake: the ticker of Run
\* drops it by then, whatever else happens.
THEOREM LifetimeHolds ==
  ASSUME NEW CONSTANT Rest, SumsDelays(Rest), retryBase + Rest[1] <= Lifetime
  PROVE  Spec => []LifetimeBounded
<1>1. Init => WithinBudget(Rest)
  <2>1. \A p \in Node : ~ InProgress(EmptyTable, p)
    BY DEF EmptyTable, InProgress, NoPending
  <2> QED
    BY <2>1 DEF Init, WithinBudget
<1>2. ManagerInv /\ WithinBudget(Rest) /\ [Next]_vars => WithinBudget(Rest)'
  BY BudgetNext
<1>3. ManagerInv /\ WithinBudget(Rest) => LifetimeBounded
  <2> SUFFICES ASSUME ManagerInv, WithinBudget(Rest), NEW p \in Node, InProgress(t, p)
               PROVE  age[p] <= Lifetime
    BY DEF LifetimeBounded
  <2>1. t.pending[p].attempts \in 1 .. maxHandshakeAttempts
    BY PendingType DEF ManagerInv, HandshakeTypes
  <2>2. Rest[t.pending[p].attempts] \in Nat
    BY <2>1 DEF SumsDelays
  <2>3. age[p] \in Nat /\ wait[p] \in Nat /\ Lifetime \in Nat
    BY LifetimeAssumption DEF ManagerInv, HandshakeTypes
  <2> QED
    BY <2>2, <2>3 DEF WithinBudget
<1> QED
  BY <1>1, <1>2, <1>3, ManagerSafe, PTL DEF Spec

\* With the constants of handshake_manager.go, in ticks of 100 ms: ten attempts,
\* 500 ms doubled up to 30 s.  No handshake is pending for more than 180.5 s.
THEOREM LifetimeOfCode ==
  ASSUME maxHandshakeAttempts = 10, retryBase = 5, retryMax = 300, Lifetime = 1805
  PROVE  Spec => []LifetimeBounded
<1> DEFINE Rest == [k \in 1 .. 10 |->
                      IF k >= 5 THEN 300 * (10 - k)
                      ELSE 1500 + (IF k <= 4 THEN 160 ELSE 0) + (IF k <= 3 THEN 80 ELSE 0)
                                + (IF k <= 2 THEN 40 ELSE 0) + (IF k <= 1 THEN 20 ELSE 0)]
<1>1. \A k \in 6 .. 10 : RetryDelay(k) = 300
  BY DEF RetryDelay
<1>2. RetryDelay(2) = 20 /\ RetryDelay(3) = 40 /\ RetryDelay(4) = 80 /\ RetryDelay(5) = 160
  BY DEF RetryDelay
<1>3. \A k \in 1 .. 9 : Rest[k] = RetryDelay(k + 1) + Rest[k + 1]
  <2> SUFFICES ASSUME NEW k \in 1 .. 9
               PROVE  Rest[k] = RetryDelay(k + 1) + Rest[k + 1]
    OBVIOUS
  <2>1. CASE k >= 5
    <3>1. RetryDelay(k + 1) = 300
      BY <1>1, <2>1
    <3> QED
      BY <2>1, <3>1
  <2>2. CASE k \in {1, 2, 3, 4}
    BY <1>2, <2>2
  <2> QED
    BY <2>1, <2>2
<1>4. SumsDelays(Rest) /\ retryBase + Rest[1] <= Lifetime
  <2>1. Rest \in [1 .. 10 -> Nat] /\ Rest[10] = 0 /\ Rest[1] = 1800
    OBVIOUS
  <2> HIDE DEF Rest
  <2> QED
    BY <1>3, <2>1 DEF SumsDelays
<1> HIDE DEF Rest
<1> QED
  BY <1>4, LifetimeHolds
=============================================================================
