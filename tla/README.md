# neth: a TLA+ verification project

neth is an encrypted overlay network: a daemon on every node reads IP packets
from a TUN device, seals them for the peer they are addressed to and sends them
as UDP datagrams; sessions come from Noise IKpsk0 handshakes, addresses from
lighthouse nodes, and a packet filter decides what may pass. This directory
models it in TLA+ from the bytes of a header to the life of the daemon, checks
the models with TLC on small instances, and proves every safety property of the
passing runs for every instance with TLAPS.

## The system

| Part | State | Operations | What makes it correct |
|---|---|---|---|
| replay window (`hostmap.go`) | `windowEnd`, `window` | `CheckReplay`, `shiftWindow` | accepts every counter at most once, refuses nothing else inside the window |
| host map (`hostmap.go`) | `byVpnIP`, `byIndex` | `Add`, `Remove`, lookups | both lookups agree on the newest session |
| handshake manager (`handshake_manager.go`) | `pending`, `indexMap` | `StartHandshake`, `HandleStage0`, `HandleStage1`, `QueuePacket`, `retryPending` | the maps agree, every handshake ends in bounded time, queues keep the newest packets in order |
| interface (`interface.go`) | peer certificates, the goroutines | `consumeInsidePacket`, `consumeOutsidePacket` and its handlers, `onHandshakeComplete` | no nonce is used twice, no packet is sent or delivered twice, what one side seals the other can open, the cached certificates follow the sessions |
| firewall (`firewall/`) | `conntrack.seen` | `AllowInbound`, `AllowOutbound`, `Track`, `Expire`, `ParseRule` | only what a rule admitted recently passes; nothing is forgotten early; a rule admits what its text says |
| lighthouse (`lighthouse.go`) | `addrStore`, `myAddrs` | query, reply, update, WhoAmI, punch, `Advertise` | nodes find each other; a known address is not lost |
| header, punchy (`header/`, `punchy.go`) | none | `Encode`, `Parse`, `RespondToPunch` | headers arrive as they were sent; answers do not answer each other |
| construction and shutdown (`interface.go`, `pki.go`, `config/`, `tun/`, `udp/`, `cmd/nethd/`) | files, descriptors, the kernel's interface, goroutines | `Load`, `LoadPKI`, `Open`, `NewInterface`, `Run` | keys and certificates belong together; nothing leaks; it comes up and it stops |
| certificates (`cert/`, `cmd/neth-cert/`) | files | `ca`, `sign`, `Verify` | a torn or mixed set of files is never used |

**Interaction.** `Interface.Run` starts five goroutines: the TUN reader, the UDP
reader, the handshake ticker (100 ms), firewall expiry (30 s) and lighthouse
advertising. The TUN reader looks a session up, asks the firewall, and either
sends or starts a handshake and queues the packet. The UDP reader runs every
handler to its end, `onHandshakeComplete` and its flush of queued packets
included. They share the host map, the handshake manager, the connection table
and each session's counter.

**Hard parts.** The two readers and the ticker interleave between any two
critical sections; datagrams are lost, repeated, reordered and damaged; handshakes
are retried, cross each other and are answered twice; a node restarts with
nothing but its certificates, which may be rewritten while it reads them.
`PROJECT.json` lists each hazard at its line.

## Modules

| Module | Models | State and actions |
|---|---|---|
| `ReplayBits` | the bitmap and `shiftWindow` | a word is the set of its 1 bits; `WordBits` and `NumWords` are 64 and 64 in the code |
| `ReplayWindow` | `CheckReplay` | `Advance`, `TooOld`, `Late` are its three branches; `accepts` is a history |
| `ReplayFilter` | what `CheckReplay` promises | remembers every counter; implemented by `ReplayWindow` |
| `ShiftLoops` | `shiftWindow`, its two in-place loops | the array after each iteration, compared with the function of `ReplayBits` |
| `HandshakeTable` | the critical sections of `HandshakeManager` | operators on the two maps, shared by the next two modules |
| `HandshakeManager` | one node's handshakes against time | one step of `Tick` is 100 ms and runs `retryPending` |
| `Tunnel` | nodes, their readers, tickers and the network | one program counter per reader; a step ends where another goroutine may act |
| `HostMap` | `Add`, `Remove`, `handleCloseTunnel` | one step per call, as both hold the mutex |
| `Rules` | `ParseRule`, `matches` | a text is its word, its case and the space around it |
| `Firewall` | the filter and its connection table | time in units of 10 s, an entry is its age |
| `Interface` | one node's readers between host map, firewall and certificate cache | `tun` and `udp` are the places of the two readers; a step is one call on one object |
| `LightHouse` | peer discovery between nodes | `addrStore` per node; one step per handler, as only the UDP reader writes it; loss and restart |
| `Header`, `Wire` | the header's bytes; the dispatch of datagrams and their answers | `net` is the set of datagrams under way; `Receive` is one `consumeOutsidePacket` |
| `CertFiles` | certificates and the files `neth-cert` writes | `Truncate` and `Fill` are the two halves of `os.WriteFile` |
| `Daemon` | `nethd` from `config.Load` to its exit | `stage` is the place of the main goroutine, `open` the descriptors, `device` the kernel's interface |
| `ReplayWindowProofs`, `HandshakeManagerProofs`, `TunnelProofs`, `TunnelTrafficProofs`, `InterfaceProofs`, `LightHouseProofs`, `WireProofs`, `DaemonProofs` | the theorems | |
| `MC...` | | the instances that TLC runs |

Operators whose comment begins with "Mutation" are wrong on purpose. Each states
a plausible bug in the definition that follows it, and breaks a property.

**Abstractions.**

- `Tunnel` takes the indexes a node draws to be all different (32 random bits),
  and names the Noise ephemeral drawn with an index by that index. A cipher is
  named by the two ephemerals and its direction. `HandshakeManager` does without
  this assumption: indexes collide there. `HostMap` makes it.
- All of parsing, certificate verification, HMAC and Noise is one outcome, intact
  or not. A stage-0 that fails changes nothing, so it is the same as a lost one.
  A stage-1 that fails has already ended the handshake, and a message that fails
  has already marked the window: both are in the model.
- Packets the firewall refuses outbound change nothing in `Tunnel` and are left
  out; an inbound refusal is, there, a packet that is not written.
- Whether an address is known is a free choice in `Tunnel` (`TunNoStart`).
- `Tunnel` has no CloseTunnel: nothing in the code sends one. What
  `handleCloseTunnel` does when one arrives is in `HostMap`, `Interface` and `Wire`.
- `Firewall` takes a call as one step: `IsEstablished` and `Track` are two
  critical sections, but nothing another goroutine does in between changes the
  table they leave.
- `LightHouse` identifies a sender by address only. The code first looks for a
  session with the packet's index, 0, which a node draws once in 2^32 times. Its
  instance gives every address one owner: nodes that share one are not covered.
  A session may appear at any time (`onHandshakeComplete`); it lasts until the
  daemon restarts, again because nothing sends a CloseTunnel. `Admitted` and
  `PeersDir` say for which peers `consumeInsidePacket` gets past the firewall and
  the certificate cache to `QueryPeer`.
- All rules allow, so their order is irrelevant and they form a set.
- `Interface` leaves encryption, replay, retries and addresses to `Tunnel` and
  `LightHouse`. A peer's certificates are numbered in the order it was issued
  them, and a peer answers only a stage-0 made for the certificate it then uses.
  `HandleStage0` may take an old one, since nothing tells its age. A packet that a
  peer sealed may have any of the modelled source addresses: like the code,
  `HandleMessage` gives the firewall the address in the packet and the groups of
  the session.
- `Wire` keeps of a session only its index. Where the code's further state decides
  (which session is current, whether a handshake is still pending), any outcome
  may happen. Index and counter have 2 and 3 bytes instead of 4 and 8.
- `Daemon` has the fields of the configuration that later steps depend on.
  `loadPeerCerts` reads its directory in one step. A read that waits on the TUN
  device is not ended by `Close`: the descriptor is in blocking mode.
- In `CertFiles` a key pair is a number. A file holds a whole certificate or key,
  or nothing that parses.

## Runs

States and times are for two workers.

| Run | Checks | Bounds |
|---|---|---|
| `replay_window` | `WindowExact`: a bit is set exactly when its counter was accepted. `AcceptedAtMostOnce`. `ImplementsFilter`: refinement of `ReplayFilter`. `LoopsComputeShiftWindow`: the in-place loops compute the function that the proofs are about | 3 words of 2 bits, counters 0..12: more than twice the window, so it slides, clears and slides again; every distance up to a word beyond the window. 106 497 states |
| `handshakes` | `IndexMapSound`; `QueueIsNewest`; `LifetimeBounded`: a handshake ends by the tick after `Lifetime`, which is tight; `GivesUpAfterAllAttempts`; `HandshakeEnds` (liveness) | two peers, two indexes, three handshakes, so that indexes collide and are used again; three attempts, the last delay capped; a queue of 2 offered 3 packets. 186 241 states, a minute and a half |
| `tunnel` | `NonceUnique`, `SentAtMostOnce`, `WrittenAtMostOnce`, `MapsAgree`, `QueueInOrder`, `InitiatorAnswered`: a session an initiator completed is held by its peer. `TypeOK` | two nodes, two indexes each, so that handshakes cross and repeat; three packets, a window of 2 and a queue of 2, both of which overflow; one restart, which loses sessions and windows; every datagram may be repeated for ever. 649 539 states, 80 seconds |
| `interface` | `CurrentIsNewest`, `RemovedFromBoth`: the lookups agree, also around a CloseTunnel. `AllowedByRecentRule`, `RefusedOnlyWhenStale`. `CacheFollowsSessions`: the cached certificate is the one proved last. `GroupsProven`: no entry rests on a group that was only read from `peers_dir`. `Reconnects` (liveness) | a peer with two certificates, the second without the group, and a peer that is down, whose certificate may be in `peers_dir` and whose address packets of the first may carry; two sessions; a flow to the second peer that needs the group and one to the first that does not; timeouts of 3 and 1, expiry every 2, so that entries outlive their timeout. 297 884 states, three minutes |
| `lighthouse` | `Truthful`: no store holds a wrong address. `RegistryExact`: the lighthouse knows of a node what it was configured with, or exactly what the node advertises. `Discovered` (liveness): a node that opens connections finds its peer, or the peer comes first | a lighthouse and three nodes, one with two addresses and one behind a NAT, whose own update makes the lighthouse forget it; static entries as in `src/e2e/lighthouse_test.go`; one restart of any node. 29 568 states, a minute and a half |
| `wire` | `ActsOnWhatWasSent`: headers come out as they went in. `Quiesces` (liveness): once no Test is under way the network falls silent | two nodes that both answer punches; indexes and counters on either side of the byte boundaries and at the top; two datagrams that answer nothing. 31 245 states, a minute |
| `daemon` | `PKIConsistent`: CA, certificate and key belong together. `NothingLeaks`: a start that fails leaves no descriptor and no interface. `DeviceConfigured`, `RulesSayTheirText`: edges of the prefix mask and of rule texts, in each direction. `ComesUp` (liveness): also with an interval that is zero, negative or overflows. `Stops` (liveness) | six configurations; three key pairs, so that after the first the CA or the node is renewed at any moment of a start; one fault at any system call, read or moment; addresses of 2 bits with prefixes of 0, 1 and 2, durations of 10 bits. 305 890 states, a minute and a half |
| `tunnel_resent_stage0` | `BothWays`, violated | one delivery per datagram: only the code's own retry repeats a stage-0 |
| `lighthouse_readme` | `Registered`, violated | as `lighthouse`, with the configuration files of `src/README.md` |
| `lighthouse_nat` | `StaysIdentified`, violated | as `lighthouse` |
| `firewall_return` | `ReturnTrafficPermitted`, violated | the code's UDP and ICMP timeouts and interval |
| `firewall_active` | `ActiveFlowKept`, violated | as `firewall_return` |

Deadlock is checked for `replay_window`, `interface` and `lighthouse`. The other
passing runs end when their bounds are used up, `daemon` also when the service
has exited and `wire` when the network is silent.

In `interface` the outbound flow that needs the group goes to the peer that is down,
so only an inbound packet can open its connection; an outbound group that was proved
is left to the theorem `GroupsNeedProof`.

Symmetry between the two nodes of `MCTunnel` is sound: they have the same
certificates and no property or action names one of them. No liveness property
is checked under it.

The code's own retry constants are 10 attempts, 500 ms and 30 s. `handshakes`
scales them down, keeping a delay below the cap and one above it.

**Fairness.** `HandshakeManager` has weak fairness of `Tick`. `Run` is a goroutine
with its own `time.Ticker`, and `retryPending` holds a mutex that nobody keeps, so
ticks go on coming. Nothing is assumed about answers.

`LightHouse` has weak fairness of `Advertise`, which `Run` calls on a ticker, and
of `consumeInsidePacket` for a peer whose certificate is cached, that there is no
session with, and that the rules let a packet out to without a group: it assumes
that applications go on sending to such a peer. For any other peer no query is
ever sent. Strong fairness of `Receive` for updates and queries from a node to each
of its lighthouses, and for the replies, says that the network does not lose all
of them for ever. `Restart`, `Lose` and `onHandshakeComplete` have none.

`Daemon` has weak fairness of the daemon's own steps with the restart by the
service manager (`Restart=on-failure` in `src/dist/nethd.service`), and of the UDP
reader's check and error. Nothing says that a packet arrives, that the TUN reader
ever returns from `Read`, or that a fault stays away beyond its bound.

`Wire` has weak fairness of `Deliver` as a whole: the UDP readers go on reading.

`Interface` has weak fairness of each reader's next call and of `GiveUp`, which
the ticker calls after the last attempt. Strong fairness of `TunRead` for the flows
that need no group says that applications go on sending; of `Answer` and
`HandleStage1`, that a handshake tried again and again is at some time answered
and its answer delivered. `Reconnects` says nothing where the cached certificate
is not the one the peer uses.

### Where code and documents disagree

- **A resent stage-0 splits the tunnel** (`tunnel_resent_stage0`). The responder
  makes a new session current for every copy of a stage-0; the initiator
  completes only with the first answer. Afterwards the responder sends on a
  session the initiator does not have, and neither starts another handshake.
- **The README's lighthouse registers nobody** (`lighthouse_readme`). A LightHouse
  packet carries index 0, so its sender is found only through an address that is
  already stored. The README gives the lighthouse no `static_host_map`, so it
  drops every update and query. With static entries for the nodes, as in the
  end-to-end test, `Discovered` holds.
- **A node behind a NAT is forgotten** (`lighthouse_nat`). Its update lists the
  addresses of its own interfaces and replaces the entry of the lighthouse, which
  held the address that the NAT gives it. From then on the lighthouse drops what
  the node sends, and tells others an address that does not reach it.
  `src/README.md:21` says that NAT traversal is supported. For a node that
  advertises the address it sends from, `AdvertisedSourceStays` proves that this
  does not happen.
- **Replies to another port are refused** (`firewall_return`): the connection key
  holds the destination port of the packet itself, not of the flow.
- **Active flows expire** (`firewall_active`): an established packet does not
  refresh its entry.

Six more have no run of their own.

- The length, version and type checks of `consumeOutsidePacket` return before
  `punchy` is asked, although `src/punchy.go:13-14` and `src/README.md:215` say that
  any unrecognised datagram is replied to. Only a Message with an unknown index is. `Quiesces` depends
  on the code here, and its mutant is the comment's version: two nodes that answer
  each other's empty answers never stop.
- `src/README.md:234-235` gives the timeouts of tracked connections as 5 minutes,
  30 and 10 seconds. `IsEstablished` does not look at the age of an entry, so a
  connection lasts until the next `Expire`, up to 30 seconds more: this is the bound
  in `AllowedByRecentRule`.
- `HandleStage0` never reads the timestamp of a stage-0, which `src/neth.proto:73`
  says "limits replay window", so a delayed stage-0 displaces a newer session and
  sets the cached certificate back.
- `HostMap.Add` leaves the index entry of the session it replaces, although
  `src/hostmap.go:118-119` says it is replaced; `InitiatorAnswered` depends on the
  code here, and its mutant is the comment's version.
- `handleCloseTunnel` finds a session by index but removes by VPN IP, so for a
  replaced session it removes the successor.
- Without a session a packet has no groups, so one that only a group rule admits is
  refused and starts no handshake, although `src/README.md` says that `peers_dir`
  lets a node "initiate handshakes immediately on startup". `Reconnects` is
  therefore about flows that need no group.

## Proofs

Each theorem holds for every value of the constants that satisfies the named
assumptions of its module: any number of nodes, indexes, packets, sessions,
restarts. `tlapm` checks each to the last leaf.

| Module | Theorem | Statement |
|---|---|---|
| `ReplayWindowProofs` | `Invariance` | `Spec => []IInv` |
| | `TypeCorrect` | `Spec => []TypeOK`, a part of `IInv` |
| | `BitmapIsExact` | `Spec => []WindowExact` |
| | `NoCounterTwice` | `Spec => []AcceptedAtMostOnce` |
| | `Refinement` | `Spec => ImplementsFilter` |
| | `LoopsCorrect` | `Spec => []LoopsComputeShiftWindow` |
| `HandshakeManagerProofs` | `ManagerSafe` | `Spec => []ManagerInv` |
| | `IndexesSound` | `Spec => []IndexMapSound` |
| | `QueuesNewest` | `Spec => []QueueIsNewest` |
| | `AllAttemptsSent` | `Spec => GivesUpAfterAllAttempts` |
| | `LifetimeHolds` | `Spec => []LifetimeBounded`, for a `Lifetime` that covers all delays |
| | `LifetimeOfCode` | the same with 10 attempts, 500 ms and 30 s: 180.5 s |
| `TunnelProofs` | `TunnelTypes` | `Spec => []TypeOK` |
| | `TunnelMapsAgree` | `Spec => []MapsAgree` |
| | `SessionsGoOn` | `Spec => [][SessionGoesOn]_vars` |
| | `NoncesUnique` | `Spec => []NonceUnique` |
| `TunnelTrafficProofs` | `PlacesSafe` | `Spec => [](PeersInv /\ PlacesInv)` |
| | `PacketsSentOnce` | `Spec => []SentAtMostOnce` |
| | `QueuesInOrder` | `Spec => []QueueInOrder` |
| | `PacketsWrittenOnce` | `Spec => []WrittenAtMostOnce` |
| | `SessionsAnswered` | `Spec => []InitiatorAnswered` |
| `InterfaceProofs` | `SentOnNewest` | `HostMapSpec => []CurrentIsNewest` |
| | `RemovedEntirely` | `HostMapSpec => RemovedFromBoth` |
| | `PassesOnRecentRule` | `FirewallSpec => []AllowedByRecentRule` |
| | `RefusesOnlyStale` | `FirewallSpec => []RefusedOnlyWhenStale` |
| | `InterfaceImplementsHostMap` | `Spec => HostMapSpec` |
| | `InterfaceImplementsFirewall` | `Spec => FirewallSpec` |
| | `InterfaceSafe` | `Spec => [](CurrentIsNewest /\ AllowedByRecentRule /\ RefusedOnlyWhenStale)` |
| | `CacheIsNewest` | `Spec => []CacheFollowsSessions` |
| | `GroupsNeedProof` | `Spec => []GroupsProven` |
| `LightHouseProofs` | `TruthSafe` | `Spec => []TruthInv`, given `HonestAddresses` |
| | `EntriesTruthful` | `Spec => []Truthful`, given `HonestAddresses` |
| | `RegistryIsExact` | `Spec => []RegistryExact`, given `HonestAddresses` and `LighthousesAskNobody` |
| | `AdvertisedSourceStays` | a lighthouse goes on knowing the address that a node sends from and advertises, given the same |
| | `StrangersStayUnknown` | a lighthouse with no static entries keeps an empty store |
| `WireProofs` | `HeadersArriveIntact` | `Spec => []ActsOnWhatWasSent` |
| `DaemonProofs` | `NoDescriptorLeaks` | `Spec => []NothingLeaks` |
| | `PKIFits` | `Spec => []PKIConsistent` |
| | `StartSafe` | `Spec => []StartInv` |
| | `DeviceIsConfigured` | `Spec => []DeviceConfigured`, given `Doubles` |
| | `RulesAdmitTheirText` | `Spec => []RulesSayTheirText`, given `Doubles` |
| | `IPv4Configured` | both, given `AddrBits = 32` |

**Replay window**, for every `WordBits` and `NumWords` greater than zero and every
set of natural numbers `Counters`. `AcceptedAtMostOnce` is not inductive: a step
needs to know that the bit of an accepted counter is set. `IInv` adds
`WindowExact`, which says just that, and `TypeOK`. The argument rests on one lemma
about the code, `ShiftBit`: after `shiftWindow(w, n)` bit p is the old bit p - n,
or 0 below n. It in turn rests on the division lemmas `DivMod`, `DivModUnique` and
`WordInRange`, which locate bit p in its word. `AdvanceIInv`, `LateIInv` and
`TooOldIInv` treat the branches of `CheckReplay`, and `CheckReplayIsFilterStep` maps
each to a step of the filter. `MoveWordsMoves` and `MoveBitsCarries` say what the
array holds after each iteration of the two loops: words not yet reached are as
they were, words passed are final. Counters are unbounded in the proof,
where the code has 64 bits: `CheckReplay` only subtracts the smaller from the
larger, so no operation wraps.

**Handshake manager**, for any peers, indexes (which may collide), attempts, delays
and queue bound. `ManagerInv` adds to `IndexMapSound` and `QueueIsNewest` that every
attempt that is counted was sent, from which `GivesUpAfterAllAttempts` follows.
`LifetimeBounded` needs a budget: `WithinBudget` says that the age of a handshake,
the wait for its next retry and the delays still to come together do not exceed
`Lifetime + 1`. A tick moves one from the wait to the age, a resend turns the next
delay into a wait. `Lifetime` is a constant, so the theorem has as its hypothesis
that it covers the sum of the delays; `Rest` is that sum, attempt by attempt.
`LifetimeOfCode` computes it for the constants of the code.

**Sessions between nodes** (`TunnelProofs`), for any nodes, `peers_dir` contents,
window, bounds and number of restarts, with or without duplication.

- `TypeInv` is `TypeOK` with `LiveSessions`: every index that a map or a reader
  holds belongs to a HostInfo. Without it a step that updates "the session" might
  update nothing.
- `IndexInv` says that indexes of pending handshakes and of sessions are apart, were
  drawn since the last restart, and that handshake datagrams carry only drawn
  indexes. `MapsAgree` follows from it.
- `StepHistory` is what a step may do to a session: keep its peer, indexes and keys,
  never lower its counter, never take back a mark. Only a restart ends one, and a
  spent index never gets another. `SessionsGoOn` states it as an action property.
- `NonceInv`: a session seals with a key that only its end of its split uses, every
  message on the wire names the session that sealed it, and that session's `Counter`
  has reached the message's number or the session is gone for good.
  `NonceUnique` by itself says nothing of the next number.

**Traffic** (`TunnelTrafficProofs`), under the same assumptions.

- `PlacesInv` places every packet: in the TUN reader, in one queue, in a flush, or
  on the wire, never in two of them; queues and flushes are in order; and the packet
  in the TUN reader is newer than every other packet of its node. Hence
  `SentAtMostOnce` and `QueueInOrder`. `PeersInv` says that byVpnIP leads to a
  session with that peer, so that packets reach their destination.
- `WriteInv`: a packet that was written came from a message whose counter is marked
  in its session, or whose session is gone and whose index is spent; with
  `SentAtMostOnce` there is no second message.
- `TrafficInv`: for a stage-1 under way, and for every session of an initiator, the
  responder holds the matching half with the two keys crossed, installed or about to
  be, unless it has restarted since it drew that index.

**Host map**, for any peers, indexes, certificates and number of sessions.
`CurrentIsNewest` alone does not survive `Remove`, which clears the index entry of
the session it takes away: that no other session is reached through that index needs
`IndexOwned`, an index leads only to a session that was added with it. `HostMapInv`
is these two with `HostMapTypeOK`.

**Firewall**, for any flows, rules, memberships, positive timeouts and interval.
The history `made` and the table have to be related: `TableInv` says that a tracked
key was made exactly as long ago as its entry is old, which is less than its timeout
plus the time since `Expire` ran, and that an untracked key was never made or is past
its timeout. `VerdictInv` carries this to the last answer.

**Interface**, for all of the above and any certificates. Every step is shown to be a
step, or a stutter, of the host map and of the firewall (`StepImplements`), so the
theorems about them carry over. `CacheInv` covers the moment between the two calls of
`onHandshakeComplete`, where `CacheFollowsSessions` says nothing; `GroupsProven` is
inductive with the types and the host map's invariant, because the model's history
of sessions only grows and a certificate's groups do not change (`AdmittingStays`). It
ties outbound packets to the certificate of the peer they go to. Inbound ones it ties
to the certificate of whoever sealed them: the code does not compare the source
address of a packet with the session it came through.

**Lighthouse**, for any nodes, addresses and configurations, given what the
theorems name: `HonestAddresses` (static entries, advertised addresses and source
addresses lead to the node they are given for; `Truthful` is false from the start
without it) and `LighthousesAskNobody` (a lighthouse has no `lighthouse.hosts`, so
no reply changes its registry). Nothing is assumed about NATs. `Truthful` is not
inductive, as entries come off the wire: `MailTruthful` says the same of updates and
replies under way, and that an update carries all that its sender advertises and
comes from the sender's own address. `RegistryInv` adds, for `RegistryExact`, that no
reply is on its way to a lighthouse. `AdvertisedSourceStays` follows.
`StrangersStayUnknown` is the general form of the finding `lighthouse_readme`.

**Header**, for every width of the two numbers and any set of them that fits, as
`UintAssumption` says. `UintOfPut` is the heart: reading the bytes of a number back
gives the number. `Parts` finds each field in the encoded sequence, `ParseOfBytes`
puts them together. `Faithful` carries this to every datagram under way.

**Daemon**, for any configurations, certificates, files, faults and renewals.
`HoldsExactly` says which descriptors each stage of a start holds; `LoadedFits` which
checks of `LoadPKI` have been made, as the files may change between them; `StartInv`
what each stage has established of configuration, certificate, rules and device.
`Doubles` says that powers of two double up to `AddrBits`, which the provers know of
literals only: `IPv4Configured` discharges it for the 32 bits of the code.
`ConfigAssumption` and `PrefixAssumption` say that a configuration and a certificate
have their fields, with no prefix longer than an address.

**Induction.** The number of bytes, words and address bits is a parameter, so the
proofs about loops and shifts are by induction. A least counterexample takes its
place (`Least`, from the well-foundedness of `<` on the naturals), and a recursively
defined function is first shown to exist.

**Only model-checked.** Liveness (`HandshakeEnds`, `Discovered`, `Reconnects`, `Quiesces`,
`ComesUp`, `Stops`) is out of the prover's reach and stays with TLC, and so do the
five violations.

## Not modelled

- WhoAmI, its reply and punch notifications of the lighthouse: nothing in the code
  sends them.
- The encodings of X.509, PEM, certificate extensions and protobuf, and the
  cryptography: a file or message is intact or not.
- `neth-cert verify` and `print`, and the logger: they change nothing.
- Memory layouts of the ioctl arguments, and SO_REUSEPORT.
- The generated code in `nethpb/`.

## Plan

1. `LightHouse` with two nodes behind one address.
2. `HostMap` and `Tunnel` with indexes that collide, as in `HandshakeManager`.
