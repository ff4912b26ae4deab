------------------------------- MODULE Daemon -------------------------------
(***************************************************************************)
(* The life of nethd: config.Load (src/config/), NewInterface with         *)
(* LoadPKI, buildFirewall, udp.Listen, tun.Open, buildLightHouse and       *)
(* loadPeerCerts (src/interface.go, src/pki.go, src/udp/, src/tun/), Run   *)
(* with its two readers, the signal that ends it (src/cmd/nethd/main.go)   *)
(* and the restarts of the service (src/dist/nethd.service).               *)
(*                                                                         *)
(* The daemon reads its files one after the other, while neth-cert may be  *)
(* rewriting them; a step is what it does between two such reads or        *)
(* between two system calls that can fail.                                 *)
(***************************************************************************)
EXTENDS CertFiles, Rules

CONSTANTS
  Me,           \* the name of this node's certificate and key files
  Configs,      \* the configuration files the daemon may be given
  Second,       \* nanoseconds of a second, on a Duration of DurationBits bits
  DurationBits,
  MinMTU, MaxMTU,   \* what the kernel accepts in SIOCSIFMTU
  MaxFaults     \* bound: system calls that fail, read errors and kills

Directions == {"in", "out"}

\* paths says that pki.ca, pki.cert and pki.key are all there, hosts that
\* lighthouse.hosts and static_host_map parse, peers that pki.peers_dir is given.
\* rules are firewall.inbound and firewall.outbound.
Settings ==
  [paths : BOOLEAN, port : Int, mtu : Int, interval : Int, hosts : BOOLEAN,
   peers : BOOLEAN, rules : [Directions -> SUBSET RuleTexts]]

ASSUME ConfigAssumption == Configs # {} /\ Configs \subseteq Settings /\ Me \in Nodes
ASSUME PrefixAssumption ==
  \A name \in Nodes : \A ip \in VpnIPs[name] :
    ip \in [addr : Nat, bits : Nat, is4 : BOOLEAN] /\ (ip.is4 => ip.bits <= AddrBits)
ASSUME BoundsAssumption ==
  /\ Second \in Nat \ {0} /\ DurationBits \in Nat \ {0}
  /\ MinMTU \in Nat /\ MaxMTU \in Nat /\ MaxFaults \in Nat

Nil == [type |-> "nil"]

VARIABLES
  conf,        \* the configuration file
  faults,      \* faults so far
  stage,       \* where run() of nethd is
  cfg,         \* the configuration loaded
  pki,         \* the PKI being loaded
  rules,       \* the compiled firewall rules of each direction
  open,        \* descriptors: "udp", "tun", the control socket "ctl"
  device,      \* the TUN interface in the kernel, Nil without one
  peerCerts,   \* Interface.peerCerts after loadPeerCerts
  cancelled,   \* ctx is done
  reader       \* the goroutines readFromTUN and readFromUDP

runVars == <<cancelled, reader>>
vars == <<certVars, conf, faults, stage, cfg, pki, rules, open, device, peerCerts, runVars>>

NoPKI == [CA |-> Nil, NodeCert |-> Nil, Curve25519Key |-> Nil]
NoReaders == [r \in {"tun", "udp"} |-> "none"]

\* A new process.
Fresh ==
  [cfg |-> Nil, pki |-> NoPKI, rules |-> [dir \in Directions |-> {}], open |-> {},
   device |-> Nil, peerCerts |-> {}, cancelled |-> FALSE, reader |-> NoReaders]

Init ==
  /\ CertInit
  /\ conf \in Configs /\ faults = 0
  /\ stage = "config"
  /\ cfg = Fresh.cfg /\ pki = Fresh.pki /\ rules = Fresh.rules /\ open = Fresh.open
  /\ device = Fresh.device /\ peerCerts = Fresh.peerCerts
  /\ cancelled = Fresh.cancelled /\ reader = Fresh.reader

\* The process ends, with everything it held, and the service is in state s.
Ends(s) ==
  /\ stage' = s
  /\ cfg' = Fresh.cfg /\ pki' = Fresh.pki /\ rules' = Fresh.rules /\ open' = Fresh.open
  /\ device' = Fresh.device /\ peerCerts' = Fresh.peerCerts
  /\ cancelled' = Fresh.cancelled /\ reader' = Fresh.reader

Fault == faults < MaxFaults /\ faults' = faults + 1

-----------------------------------------------------------------------------
(* config.Load.                                                            *)

setDefaults(c) ==
  [c EXCEPT !.mtu = IF @ = 0 THEN 1300 ELSE @, !.interval = IF @ = 0 THEN 60 ELSE @]

Validate(c) == c.paths /\ c.port \in 1 .. 65535

Load ==
  /\ stage = "config"
  /\ IF Validate(setDefaults(conf))
       THEN cfg' = setDefaults(conf) /\ stage' = "ca"
       ELSE cfg' = cfg /\ stage' = "failed"
  /\ UNCHANGED <<certVars, conf, faults, pki, rules, open, device, peerCerts, runVars>>

-----------------------------------------------------------------------------
(* NewInterface: LoadPKI, buildFirewall.                                   *)

\* os.ReadFile and the checks on what was read.
LoadPKIStep(at, next, ok, loaded) ==
  /\ stage = at
  /\ IF ok THEN pki' = loaded /\ stage' = next
           ELSE pki' = pki /\ stage' = "failed"
  /\ UNCHANGED <<certVars, conf, faults, cfg, rules, open, device, peerCerts, runVars>>

loadAndParseCA ==
  LET f == files[<<CA, "crt">>]
  IN  LoadPKIStep("ca", "cert", IsCert(f) /\ VerifyCA(f, now), [pki EXCEPT !.CA = f])

loadAndParseNodeCert ==
  LET f == files[<<Me, "crt">>]
  IN  LoadPKIStep("cert", "key", IsCert(f) /\ Verify(f, pki.CA, now),
                  [pki EXCEPT !.NodeCert = f])

\* Mutation: the key is not compared with the certificate.
loadAnyKey ==
  LET f == files[<<Me, "key">>]
  IN  LoadPKIStep("key", "firewall", f.type = "x25519", [pki EXCEPT !.Curve25519Key = f])

loadAndVerifyKey ==
  LET f == files[<<Me, "key">>]
  IN  LoadPKIStep("key", "firewall", f.type = "x25519" /\ f.key = pki.NodeCert.key,
                  [pki EXCEPT !.Curve25519Key = f])

buildFirewall ==
  /\ stage = "firewall"
  /\ IF \A dir \in Directions : \A r \in cfg.rules[dir] : RuleOK(r)
       THEN /\ rules' = [dir \in Directions |-> {ParseRule(r) : r \in cfg.rules[dir]}]
            /\ stage' = "listen"
       ELSE rules' = rules /\ stage' = "failed"
  /\ UNCHANGED <<certVars, conf, faults, cfg, pki, open, device, peerCerts, runVars>>

-----------------------------------------------------------------------------
(* NewInterface: udp.Listen and tun.Open.  A step that fails closes what   *)
(* the code closes there, and NewInterface returns the error.              *)

startVars == <<certVars, conf, cfg, pki, rules, peerCerts, runVars>>

\* The interface is gone with the descriptor that made it.
FailClosing(closed) ==
  /\ stage' = "failed"
  /\ open' = open \ closed
  /\ device' = IF "tun" \in closed THEN Nil ELSE device
  /\ UNCHANGED startVars

\* A system call that opens descriptor d.
Opens(at, next, d, closed) ==
  /\ stage = at
  /\ \/ /\ open' = open \cup {d} /\ stage' = next
        /\ UNCHANGED <<startVars, faults, device>>
     \/ Fault /\ FailClosing(closed)

Listen == Opens("listen", "parse", "udp", {})

\* tun.Open returns an error before it has opened anything: IPv6 in the certificate.
OpenParse ==
  /\ stage = "parse"
  /\ UNCHANGED faults
  /\ IF pki.NodeCert.vpnIP.is4
       THEN stage' = "clone" /\ UNCHANGED <<startVars, open, device>>
       ELSE FailClosing({"udp"})

OpenClone == Opens("clone", "setiff", "tun", {"udp"})

\* TUNSETIFF makes the interface.
OpenSetIff ==
  /\ stage = "setiff"
  /\ \/ /\ device' = [type |-> "tun", addr |-> 0, mask |-> 0, mtu |-> 0, up |-> FALSE]
        /\ stage' = "socket"
        /\ UNCHANGED <<startVars, faults, open>>
     \/ Fault /\ FailClosing({"tun", "udp"})

OpenSocket == Opens("socket", "addr", "ctl", {"tun", "udp"})

\* Mutation: the shift is by the length of the prefix, not by what is left of it.
prefixMask4OfLength(bits) == ((2 ^ AddrBits - 1) * 2 ^ bits) % 2 ^ AddrBits

\* ^uint32(0) << (32 - bits).
prefixMask4(bits) == ((2 ^ AddrBits - 1) * 2 ^ (AddrBits - bits)) % 2 ^ AddrBits

\* Mutation: the control socket is closed, the descriptor of the device is not.
IoctlLeaking(at, next, accepted, dev) ==
  /\ stage = at
  /\ \/ accepted /\ device' = dev /\ stage' = next /\ UNCHANGED <<startVars, faults, open>>
     \/ ~ accepted /\ UNCHANGED faults /\ FailClosing({"ctl", "udp"})
     \/ Fault /\ FailClosing({"ctl", "udp"})

\* An ioctl on the control socket that leaves the interface as dev.  When it
\* fails, the deferred Close takes the control socket, unix.Close the device,
\* and NewInterface the UDP socket.
Ioctl(at, next, accepted, dev) ==
  /\ stage = at
  /\ \/ accepted /\ device' = dev /\ stage' = next /\ UNCHANGED <<startVars, faults, open>>
     \/ ~ accepted /\ UNCHANGED faults /\ FailClosing({"ctl", "tun", "udp"})
     \/ Fault /\ FailClosing({"ctl", "tun", "udp"})

\* setMTU converts to uint32, so a negative MTU is a huge one: refused as well.
Configure ==
  \/ Ioctl("addr", "netmask", TRUE, [device EXCEPT !.addr = pki.NodeCert.vpnIP.addr])
  \/ Ioctl("netmask", "mtu", TRUE, [device EXCEPT !.mask = prefixMask4(pki.NodeCert.vpnIP.bits)])
  \/ Ioctl("mtu", "getflags", cfg.mtu \in MinMTU .. MaxMTU, [device EXCEPT !.mtu = cfg.mtu])
  \/ Ioctl("getflags", "setflags", TRUE, device)
  \/ Ioctl("setflags", "opened", TRUE, [device EXCEPT !.up = TRUE])

\* The write to rp_filter may fail unnoticed; the control socket is closed.
OpenReturn ==
  /\ stage = "opened"
  /\ open' = open \ {"ctl"}
  /\ stage' = "lighthouse"
  /\ UNCHANGED <<startVars, faults, device>>

-----------------------------------------------------------------------------
(* NewInterface: buildLightHouse, loadPeerCerts.                           *)

buildLightHouse ==
  /\ stage = "lighthouse"
  /\ UNCHANGED faults
  /\ IF cfg.hosts THEN stage' = "peers" /\ UNCHANGED <<startVars, open, device>>
                  ELSE FailClosing({"udp", "tun"})

\* A directory or file that cannot be read is an error; a file that does not
\* parse is skipped; nothing is verified.  The directory is the one neth-cert
\* writes to; it is read here in one step.
loadPeerCerts ==
  LET crts == {files[p] : p \in {q \in Paths : q[2] = "crt"}}
  IN  /\ stage = "peers"
      /\ \/ /\ stage' = "run"
            /\ peerCerts' = IF cfg.peers THEN {c \in crts : IsCert(c)} ELSE {}
            /\ UNCHANGED <<certVars, conf, faults, cfg, pki, rules, open, device, runVars>>
         \/ cfg.peers /\ Fault /\ FailClosing({"udp", "tun"})

NewInterface ==
  \/ loadAndParseCA \/ loadAndParseNodeCert \/ loadAndVerifyKey \/ buildFirewall
  \/ Listen \/ OpenParse \/ OpenClone \/ OpenSetIff \/ OpenSocket \/ Configure \/ OpenReturn
  \/ buildLightHouse \/ loadPeerCerts

-----------------------------------------------------------------------------
(* Run, its readers, and the end.                                          *)

\* The product of an int64 wraps around.
Duration(n) ==
  LET half == 2 ^ (DurationBits - 1)
  IN  ((n * Second + half) % 2 ^ DurationBits) - half

\* Mutation: the configured number is tested, not the duration made of it.
tickerOfNumber(n) == IF n <= 0 THEN Duration(60) ELSE Duration(n)

\* if interval <= 0: what the lighthouse's ticker gets instead.
ticker(n) == IF Duration(n) <= 0 THEN Duration(60) ELSE Duration(n)

\* NotifyContext, then Run starts the goroutines.  time.NewTicker panics on a
\* period that is not positive, which ends the process.
RunStart ==
  /\ stage = "run"
  /\ IF ticker(cfg.interval) > 0
       THEN /\ stage' = "running"
            /\ reader' = [r \in {"tun", "udp"} |-> "check"]
            /\ UNCHANGED <<cfg, pki, rules, open, device, peerCerts, cancelled>>
       ELSE Ends("down")
  /\ UNCHANGED <<certVars, conf, faults>>

readerVars == <<certVars, conf, stage, cfg, pki, rules, open, device, peerCerts,
                cancelled>>

\* select on ctx.Done() at the head of the loop.
ReaderCheck(r) ==
  /\ reader[r] = "check"
  /\ reader' = [reader EXCEPT ![r] = IF cancelled THEN "done" ELSE "read"]
  /\ UNCHANGED <<readerVars, faults>>

\* Read returns a packet.  The TUN descriptor is in blocking mode, so a Read
\* that waits when the device is closed still returns the next packet.
ReaderPacket(r) ==
  /\ reader[r] = "read"
  /\ r = "tun" \/ r \in open
  /\ reader' = [reader EXCEPT ![r] = "check"]
  /\ UNCHANGED <<readerVars, faults>>

\* Mutation: after an error the read is tried again without a look at ctx.
ReaderErrorContinue(r) ==
  /\ reader[r] = "read"
  /\ IF r \in open THEN Fault ELSE UNCHANGED faults
  /\ reader' = [reader EXCEPT ![r] = "read"]
  /\ UNCHANGED readerVars

\* Read returns an error: it does once the UDP socket is closed, or when the
\* system call fails.
ReaderError(r) ==
  /\ reader[r] = "read"
  /\ IF r \in open THEN Fault ELSE UNCHANGED faults
  /\ reader' = [reader EXCEPT ![r] = IF cancelled THEN "done" ELSE "check"]
  /\ UNCHANGED readerVars

\* <-ctx.Done(), then Close twice.  A Read that still waits keeps the interface,
\* which is gone with the process at the latest.
RunClose(d, next) ==
  /\ cancelled
  /\ open' = open \ {d}
  /\ stage' = next
  /\ UNCHANGED <<certVars, conf, faults, cfg, pki, rules, device, peerCerts, runVars>>

RunEnd ==
  \/ stage = "running" /\ RunClose("tun", "closing")
  \/ stage = "closing" /\ RunClose("udp", "returned")

\* main returns: status 1 makes the service restart, status 0 does not.
ExitFailure ==
  /\ stage = "failed"
  /\ Ends("down")
  /\ UNCHANGED <<certVars, conf, faults>>

ExitSuccess ==
  /\ stage = "returned"
  /\ Ends("exited")
  /\ UNCHANGED <<certVars, conf, faults>>

Daemon == Load \/ NewInterface \/ RunStart \/ RunEnd \/ ExitFailure

Readers == \E r \in {"tun", "udp"} : ReaderCheck(r) \/ ReaderPacket(r) \/ ReaderError(r)

-----------------------------------------------------------------------------
(* The service manager, neth-cert and the clock.                           *)

\* Restart=on-failure.
Restart ==
  /\ stage = "down"
  /\ stage' = "config"
  /\ UNCHANGED <<certVars, conf, faults, cfg, pki, rules, open, device, peerCerts, runVars>>

\* SIGTERM or SIGINT: until NotifyContext is called it ends the process at
\* once, which counts as success.
Signal ==
  /\ stage \notin {"down", "exited"}
  /\ ~ cancelled
  /\ IF stage = "running"
       THEN /\ cancelled' = TRUE
            /\ UNCHANGED <<stage, cfg, pki, rules, open, device, peerCerts, reader>>
       ELSE Ends("exited")
  /\ UNCHANGED <<certVars, conf, faults>>

\* The process is killed at any moment.
Killed ==
  /\ stage \notin {"down", "exited"}
  /\ Fault
  /\ Ends("down")
  /\ UNCHANGED <<certVars, conf>>

Environment ==
  /\ NethCert \/ Tick
  /\ UNCHANGED <<conf, faults, stage, cfg, pki, rules, open, device, peerCerts, runVars>>

Next == Daemon \/ ExitSuccess \/ Readers \/ Restart \/ Signal \/ Killed \/ Environment

\* The daemon's goroutines are scheduled and the service manager restarts it.
\* A read from the TUN device need not return, and a program that called Run
\* need not exit when it returns.
Fairness ==
  /\ WF_vars(Daemon \/ Restart)
  /\ WF_vars(ReaderCheck("udp") \/ ReaderError("udp"))

Spec == Init /\ [][Next]_vars /\ Fairness

-----------------------------------------------------------------------------
\* The certificates and keys LoadPKI returned belong together: the node
\* certificate is signed by that CA and the key is the certificate's, although
\* the three files are read one after the other while neth-cert replaces them.
PKIConsistent ==
  pki.Curve25519Key # Nil =>
    /\ pki.CA.isCA /\ ~ pki.NodeCert.isCA
    /\ pki.NodeCert.signer = pki.CA.key
    /\ pki.Curve25519Key.key = pki.NodeCert.key

\* A NewInterface that fails, whichever call it was, leaves no descriptor and
\* no interface behind, and one that succeeds holds exactly the socket and the
\* device.
NothingLeaks ==
  /\ stage \in {"failed", "down", "exited"} => open = {} /\ device = Nil
  /\ stage = "running" => open = {"udp", "tun"}

\* Bit i of a number.
BitSet(m, i) == (m \div 2 ^ i) % 2 = 1

\* While the daemon runs the interface is up, with the address and the network
\* of the certificate and an MTU the kernel takes, for every prefix length.
DeviceConfigured ==
  stage = "running" =>
    /\ device.up /\ device.addr = pki.NodeCert.vpnIP.addr
    /\ device.mtu \in MinMTU .. MaxMTU
    /\ \A i \in 0 .. AddrBits - 1 :
         BitSet(device.mask, i) <=> i >= AddrBits - pki.NodeCert.vpnIP.bits

\* What the text of a rule says in the words of src/config/config.go:63-69.
Says(r, remote, groups, port, proto) ==
  /\ r.Proto.word \in {"", "any", proto}
  /\ r.Port.word \in {"", "any"} \/ r.Port.n = port
  /\ r.Group \in groups \/ r.Group.word = "" \/ (r.Group.word = "any" /\ ~ r.Group.upper)
  /\ r.CIDR.word \in {"", "any"}
       \/ \A i \in AddrBits - r.CIDR.bits .. AddrBits - 1 :
            BitSet(r.CIDR.addr, i) <=> BitSet(remote, i)

\* The rules of a running daemon admit, in each direction, what the texts for that
\* direction say and nothing else: a number that does not fit a port and a prefix
\* with host bits included.
RulesSayTheirText ==
  stage = "running" => \A dir \in Directions :
    \A remote \in 0 .. 2 ^ AddrBits - 1, port \in {0, 53, MaxPort},
       proto \in {"tcp", "udp", "icmp"}, groups \in SUBSET {r.Group : r \in cfg.rules[dir]} :
      (\E r \in rules[dir] : matches(r, remote, groups, port, proto))
        <=> \E r \in cfg.rules[dir] : Says(r, remote, groups, port, proto)

\* The files and the configuration are in order.
Good ==
  /\ Validate(conf) /\ conf.hosts /\ (conf.mtu = 0 \/ conf.mtu \in MinMTU .. MaxMTU)
  /\ \A dir \in Directions : \A r \in conf.rules[dir] : RuleOK(r)
  /\ LET ca == files[<<CA, "crt">>]
         crt == files[<<Me, "crt">>]
         key == files[<<Me, "key">>]
     IN  /\ IsCert(ca) /\ VerifyCA(ca, now)
         /\ IsCert(crt) /\ Verify(crt, ca, now) /\ crt.vpnIP.is4
         /\ key.type = "x25519" /\ key.key = crt.key

\* If from some time on the files and the configuration stay in order, the
\* daemon comes up and stays up unless it is told to stop: a start that met
\* half-written files or a failing system call is repeated, and no interval, be
\* it zero, negative or so large that it overflows, makes Run panic each time.
ComesUp == <>[]Good => <>[](stage \in {"running", "closing", "returned", "exited"})

\* Once ctx is cancelled Run returns and the UDP reader ends, also when the
\* socket is closed between its look at ctx and its read, and when no datagram
\* arrives any more.
Stops ==
  cancelled ~> /\ stage \in {"returned", "exited", "down"}
               /\ reader["udp"] \in {"done", "none"}

=============================================================================
