-------------------------------- MODULE Wire --------------------------------
(***************************************************************************)
(* What a node does with a datagram, and what it sends back:               *)
(* consumeOutsidePacket and the handlers under it (src/interface.go), the  *)
(* header (src/header/) and the answers to punches (src/punchy.go).        *)
(*                                                                         *)
(* A datagram is the bytes of its header, a body, and, unseen by the       *)
(* receiver, the header its sender encoded.  A body is a name: Tunnel and  *)
(* LightHouse say what handshakes, messages and queries do to a node, here *)
(* only the sessions they open and close and their answers matter.         *)
(***************************************************************************)
EXTENDS Header

CONSTANTS
  Node,
  Index,        \* indexes that sessions have
  Counter,      \* message counters in use
  Respond,      \* the nodes with punchy.respond
  Known,        \* the nodes whose address is in the lighthouse of each node
  MaxSends      \* bound: datagrams sent that answer nothing

ASSUME RespondAssumption == Respond \subseteq Node /\ Known \in [Node -> SUBSET Node]
ASSUME UintAssumption ==
  /\ \A i \in Index : IsUint(i, IndexBytes)
  /\ \A c \in Counter : IsUint(c, CounterBytes)
ASSUME SendsAssumption == MaxSends \in Nat

VARIABLES
  net,        \* datagrams under way
  byIndex,    \* the indexes that have a session, per node
  sends,      \* datagrams sent so far that answer nothing
  handled     \* the last datagram received: by whom, and what came of it

vars == <<net, byIndex, sends, handled>>

Nothing == [node |-> "none"]

Init ==
  /\ net = {}
  /\ byIndex \in [Node -> {{}, Index}]
  /\ sends = 0
  /\ handled = Nothing

Datagram(n, p, h, body) ==
  [from |-> n, to |-> p, bytes |-> Bytes(h), body |-> body, initiatorIndex |-> 0, sent |-> h]

\* Punch and RespondToPunch: a datagram of length zero.
Empty(n, p) ==
  [from |-> n, to |-> p, bytes |-> << >>, body |-> "none", initiatorIndex |-> 0, sent |-> Nothing]

-----------------------------------------------------------------------------
(* What a node sends of its own accord: sendToRemote, a stage-0, a         *)
(* lighthouse query, a punch; and what only other programs, or other       *)
(* versions of this one, send.                                             *)

Initial(n, p) ==
  {Datagram(n, p, Hdr(TypeMessage, 0, i, c), "packet") : i \in Index, c \in Counter}
  \cup {[Datagram(n, p, Hdr(TypeHandshake, HandshakeInitiation, 0, 0), "noise")
           EXCEPT !.initiatorIndex = i] : i \in Index}
  \cup {Datagram(n, p, Hdr(TypeLightHouse, 0, 0, 0), "query"), Empty(n, p)}

Foreign(n, p) ==
  {Datagram(n, p, Hdr(TypeCloseTunnel, 0, i, 0), "none") : i \in Index}
  \cup {Datagram(n, p, Hdr(TypeTest, 0, 0, 0), "none"),
        Datagram(n, p, Hdr(5, 0, 0, 0), "none"),
        Datagram(n, p, Hdr(TypeHandshake, 2, 0, 0), "noise"),
        Datagram(n, p, [Hdr(TypeTest, 0, 0, 0) EXCEPT !.Version = 2], "none")}

Send(n, p) ==
  /\ n # p /\ sends < MaxSends
  /\ \E d \in Initial(n, p) \cup Foreign(n, p) : net' = net \cup {d}
  /\ sends' = sends + 1
  /\ UNCHANGED <<byIndex, handled>>

-----------------------------------------------------------------------------
(* consumeOutsidePacket: the answers to d and the sessions afterwards.     *)
(* any is an index: one that is drawn, or one that the state left out here *)
(* determines.                                                             *)

RespondToPunch(d) == IF d.to \in Respond THEN {Empty(d.to, d.from)} ELSE {}

handleMessage(d, hdr) ==
  [answers  |-> IF hdr.RemoteIndex \in byIndex[d.to] THEN {} ELSE RespondToPunch(d),
   sessions |-> byIndex[d.to]]

\* A stage-0 names the initiator's index in its body; it is answered, and a
\* session is stored under an index drawn for it.  A stage-1 stores one under
\* the index in its header if that handshake is still pending; the packets that
\* waited for it are sent by Send.
handleHandshake(d, hdr, any) ==
  CASE hdr.SubType = HandshakeInitiation ->
         [answers  |-> {Datagram(d.to, d.from,
                                 Hdr(TypeHandshake, HandshakeResponse, d.initiatorIndex, 0), "noise")},
          sessions |-> byIndex[d.to] \cup {any}]
    [] hdr.SubType = HandshakeResponse ->
         [answers |-> {}, sessions |-> byIndex[d.to] \cup ({hdr.RemoteIndex} \cap {any})]
    [] OTHER -> [answers |-> {}, sessions |-> byIndex[d.to]]

\* The sender is known by the index or by its address; only a query has an answer.
handleLightHouse(d, hdr) ==
  [answers  |-> IF /\ hdr.RemoteIndex \in byIndex[d.to] \/ d.from \in Known[d.to]
                   /\ d.body = "query"
                  THEN {Datagram(d.to, d.from, Hdr(TypeLightHouse, 0, 0, 0), "reply")} ELSE {},
   sessions |-> byIndex[d.to]]

handleTest(d) ==
  [answers  |-> {Datagram(d.to, d.from, Hdr(TypeTest, 0, 0, 0), "none")},
   sessions |-> byIndex[d.to]]

\* The session with that index tells the peer, whose current session, which may
\* be another one, is removed.
handleCloseTunnel(d, hdr, any) ==
  [answers  |-> {},
   sessions |-> IF hdr.RemoteIndex \in byIndex[d.to] THEN byIndex[d.to] \ {any} ELSE byIndex[d.to]]

Ignore(d) == [answers |-> {}, sessions |-> byIndex[d.to]]

dispatch(d, hdr, any) ==
  CASE hdr.Type = TypeMessage     -> handleMessage(d, hdr)
    [] hdr.Type = TypeHandshake   -> handleHandshake(d, hdr, any)
    [] hdr.Type = TypeLightHouse  -> handleLightHouse(d, hdr)
    [] hdr.Type = TypeTest        -> handleTest(d)
    [] hdr.Type = TypeCloseTunnel -> handleCloseTunnel(d, hdr, any)
    [] OTHER                      -> Ignore(d)

\* Mutation: whatever does not parse is answered like a punch.
consumeRespondingToAll(d, any) ==
  IF ParseOK(d.bytes) THEN dispatch(d, Parse(d.bytes), any)
  ELSE [answers |-> RespondToPunch(d), sessions |-> byIndex[d.to]]

consumeOutsidePacket(d, any) ==
  IF ParseOK(d.bytes) THEN dispatch(d, Parse(d.bytes), any) ELSE Ignore(d)

Receive(d, any) ==
  LET outcome == consumeOutsidePacket(d, any)
  IN  /\ net' = (net \ {d}) \cup outcome.answers
      /\ byIndex' = [byIndex EXCEPT ![d.to] = outcome.sessions]
      /\ handled' = [node |-> d.to, sent |-> d.sent,
                     hdr |-> IF ParseOK(d.bytes) THEN Parse(d.bytes) ELSE Nothing]
      /\ UNCHANGED sends

Lose(d) == net' = net \ {d} /\ UNCHANGED <<byIndex, sends, handled>>

Deliver == \E d \in net, any \in Index : Receive(d, any)

Next ==
  \/ \E n, p \in Node : Send(n, p)
  \/ Deliver
  \/ \E d \in net : Lose(d)

\* The UDP readers keep reading.
Spec == Init /\ [][Next]_vars /\ WF_vars(Deliver)

-----------------------------------------------------------------------------
\* A node acts on the header its sender encoded, and on no header of another
\* version: both halves of the first byte, and numbers on either side of a
\* byte boundary, come out as they went in.
ActsOnWhatWasSent ==
  handled # Nothing /\ handled.hdr # Nothing =>
    handled.hdr = handled.sent /\ handled.sent.Version = Version

IsTest(d) == d.bytes # << >> /\ d.sent.Type = TypeTest /\ d.sent.Version = Version

\* Answers do not answer each other for ever: once no Test is under way, the
\* network falls silent, also between two nodes that both answer punches.
\* A Test does go back and forth until it is lost.
Quiesces == <>[](\A d \in net : ~ IsTest(d)) => <>[](net = {})

=============================================================================
