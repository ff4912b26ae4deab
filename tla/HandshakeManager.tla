-------------------------- MODULE HandshakeManager --------------------------
(***************************************************************************)
(* The outbound handshakes of one node (src/handshake_manager.go) against  *)
(* time: StartHandshake, QueuePacket, HandleStage1 and the ticker of Run.  *)
(* randomIndex is not checked for uniqueness in the code, so two           *)
(* handshakes may draw the same index here.  Time is counted in ticks of   *)
(* Run's ticker, 100ms; the ticker is taken not to fall behind.            *)
(***************************************************************************)
EXTENDS HandshakeTable, FiniteSets

CONSTANTS
  retryBase,     \* 500ms: 5 ticks
  retryMax,      \* 30s: 300 ticks
  Lifetime,      \* the claim: no handshake is pending for longer than this
  MaxQueued,     \* bound: packets offered during one handshake
  MaxStarts      \* bound: handshakes started

ASSUME RetryAssumption == retryBase \in Nat \ {0} /\ retryMax \in Nat /\ retryBase <= retryMax
ASSUME LifetimeAssumption == Lifetime \in Nat /\ MaxQueued \in Nat /\ MaxStarts \in Nat

VARIABLES
  t,         \* pending and indexMap
  wait,      \* ticks until nextRetry, per handshake
  queued,    \* history: packets offered to QueuePacket since the handshake began
  sent,      \* history: stage-0 datagrams sent since the handshake began
  age,       \* history: ticks since the handshake began
  started    \* handshakes started so far

vars == <<t, wait, queued, sent, age, started>>

Zero == [p \in Node |-> 0]

Init ==
  /\ t = EmptyTable
  /\ wait = Zero /\ queued = Zero /\ sent = Zero /\ age = Zero
  /\ started = 0

\* StartHandshake draws any index.  nextRetry lies retryBase after a moment
\* between two ticks, so the tick that finds it due may be one tick later.
StartHandshake(p, i) ==
  /\ started < MaxStarts
  /\ ~ InProgress(t, p)
  /\ t' = OpenHandshake(t, p, i)
  /\ \E d \in {retryBase, retryBase + 1} : wait' = [wait EXCEPT ![p] = d]
  /\ queued' = [queued EXCEPT ![p] = 0]
  /\ sent' = [sent EXCEPT ![p] = 1]
  /\ age' = [age EXCEPT ![p] = 0]
  /\ started' = started + 1

\* QueuePacket; packets are numbered in the order in which they are offered.
Queue(p) ==
  /\ InProgress(t, p) /\ queued[p] < MaxQueued
  /\ t' = QueuePacket(t, p, queued[p] + 1)
  /\ queued' = [queued EXCEPT ![p] = @ + 1]
  /\ UNCHANGED <<wait, sent, age, started>>

\* HandleStage1, whatever becomes of the message afterwards.
HandleStage1(i) ==
  /\ t.indexMap[i] # Nobody
  /\ t' = TakeHandshake(t, i)
  /\ UNCHANGED <<wait, queued, sent, age, started>>

\* Mutation: the delay is not capped.
RetryDelayUncapped(attempts) ==
  retryBase * 2 ^ (IF attempts < 6 THEN attempts ELSE 6)

RetryDelay(attempts) ==
  LET delay == retryBase * 2 ^ (IF attempts < 6 THEN attempts ELSE 6)
  IN  IF delay > retryMax THEN retryMax ELSE delay

\* A history counts one step past the bound that a property puts on it.
CountTo(bound, k) == IF k <= bound THEN k + 1 ELSE k

\* A tick passes and retryPending runs.
Tick ==
  LET active == {p \in Node : InProgress(t, p)}
      due == {p \in active : wait[p] <= 1}
      resent == due \ Expired(t, due)
  IN  /\ active # {}
      /\ t' = RetryPending(t, due)
      /\ wait' = [p \in Node |->
                    IF p \in resent THEN RetryDelay(t'.pending[p].attempts)
                    ELSE IF p \in active \ due THEN wait[p] - 1 ELSE wait[p]]
      /\ sent' = [p \in Node |-> IF p \in resent THEN CountTo(maxHandshakeAttempts, sent[p]) ELSE sent[p]]
      /\ age' = [p \in Node |-> IF p \in active THEN CountTo(Lifetime, age[p]) ELSE age[p]]
      /\ UNCHANGED <<queued, started>>

Next ==
  \/ \E p \in Node, i \in Index : StartHandshake(p, i)
  \/ \E p \in Node : Queue(p)
  \/ \E i \in Index : HandleStage1(i)
  \/ Tick

\* Run is a goroutine with a ticker of its own, so ticks keep coming.
Spec == Init /\ [][Next]_vars /\ WF_vars(Tick)

-----------------------------------------------------------------------------
\* An index never leads to a handshake that is over or has another index, even
\* when two handshakes drew the same index: a response is never applied to the
\* state of a handshake that already ended.
IndexMapSound ==
  \A i \in Index : t.indexMap[i] # Nobody =>
    /\ InProgress(t, t.indexMap[i])
    /\ t.pending[t.indexMap[i]].localIndex = i

\* The queue of a handshake holds the newest packets offered since it began, as
\* many as fit, in the order in which they came.
QueueIsNewest ==
  \A p \in Node : InProgress(t, p) =>
    LET q == t.pending[p].pendingPackets
    IN  /\ Len(q) = IF queued[p] < maxPendingPackets THEN queued[p] ELSE maxPendingPackets
        /\ \A j \in 1 .. Len(q) : q[j] = queued[p] - Len(q) + j

\* No handshake stays pending longer than Lifetime ticks, resends included.
LifetimeBounded == \A p \in Node : InProgress(t, p) => age[p] <= Lifetime

\* The ticker gives up on a handshake only after all attempts were sent.
GivesUpAfterAllAttempts ==
  [][\A p \in Node : Tick /\ InProgress(t, p) /\ ~ InProgress(t', p)
                       => sent[p] = maxHandshakeAttempts]_vars

\* Every handshake ends: it is answered or the ticker gives up on it.  Nothing
\* else removes an entry, so a handshake that lost its index still ends.
HandshakeEnds == \A p \in Node : InProgress(t, p) ~> ~ InProgress(t, p)

=============================================================================
