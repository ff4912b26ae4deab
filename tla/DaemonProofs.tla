---------------------------- MODULE DaemonProofs ----------------------------
(***************************************************************************)
(* Proofs about the life of nethd (src/cmd/nethd/main.go), for every       *)
(* configuration, every set of nodes and every interleaving with           *)
(* neth-cert, faults and signals.                                          *)
(***************************************************************************)
EXTENDS Daemon, TLAPS, WellFoundedInduction

-----------------------------------------------------------------------------
(* What the process holds at each stage.                                   *)

\* Descriptors and interface, by the stage run() of nethd has reached.
HoldsExactly ==
  /\ stage \in {"config", "ca", "cert", "key", "firewall", "listen",
                "failed", "down", "exited", "returned"} => open = {}
  /\ stage \in {"parse", "clone", "closing"} => open = {"udp"}
  /\ stage \in {"setiff", "socket", "lighthouse", "peers", "run", "running"}
       => open = {"udp", "tun"}
  /\ stage \in {"addr", "netmask", "mtu", "getflags", "setflags", "opened"}
       => open = {"udp", "tun", "ctl"}
  /\ stage \in {"config", "ca", "cert", "key", "firewall", "listen", "parse", "clone",
                "setiff", "failed", "down", "exited"} => device = Nil

\* The files LoadPKI has read fit together as far as it has come.
LoadedFits ==
  /\ pki = [CA |-> pki.CA, NodeCert |-> pki.NodeCert, Curve25519Key |-> pki.Curve25519Key]
  /\ stage \in {"config", "ca", "cert", "key", "down"} => pki.Curve25519Key = Nil
  /\ stage \in {"cert", "key"} => pki.CA.isCA
  /\ stage = "key" => ~ pki.NodeCert.isCA /\ pki.NodeCert.signer = pki.CA.key

\* An ioctl that fails closes all three descriptors.
LEMMA IoctlHolds ==
  ASSUME HoldsExactly, NEW at, NEW next, NEW accepted, NEW dev, Ioctl(at, next, accepted, dev),
         at \in {"addr", "netmask", "mtu", "getflags", "setflags"},
         next \in {"netmask", "mtu", "getflags", "setflags", "opened"}
  PROVE  HoldsExactly'
<1>1. open = {"udp", "tun", "ctl"}
  BY DEF Ioctl, HoldsExactly
<1>2. CASE FailClosing({"ctl", "tun", "udp"})
  BY <1>1, <1>2 DEF FailClosing, HoldsExactly
<1>3. CASE stage' = next /\ UNCHANGED open
  BY <1>1, <1>3 DEF HoldsExactly
<1> QED
  BY <1>2, <1>3 DEF Ioctl

\* Whatever call fails, NewInterface closes what it has opened so far.
LEMMA NewInterfaceHolds == ASSUME HoldsExactly, NewInterface PROVE HoldsExactly'
<1>1. ASSUME NEW at, NEW next, NEW ok, NEW loaded, LoadPKIStep(at, next, ok, loaded),
             at \in {"ca", "cert", "key"}, next \in {"cert", "key", "firewall"}
      PROVE  HoldsExactly'
  BY <1>1 DEF LoadPKIStep, HoldsExactly
<1>2. CASE loadAndParseCA \/ loadAndParseNodeCert \/ loadAndVerifyKey
  BY <1>1, <1>2 DEF loadAndParseCA, loadAndParseNodeCert, loadAndVerifyKey
<1>3. CASE buildFirewall
  BY <1>3 DEF buildFirewall, HoldsExactly
<1>4. CASE Listen
  BY <1>4 DEF Listen, Opens, FailClosing, HoldsExactly
<1>5. CASE OpenParse
  BY <1>5 DEF OpenParse, FailClosing, HoldsExactly
<1>6. CASE OpenClone
  BY <1>6 DEF OpenClone, Opens, FailClosing, HoldsExactly
<1>7. CASE OpenSetIff
  BY <1>7 DEF OpenSetIff, FailClosing, HoldsExactly
<1>8. CASE OpenSocket
  BY <1>8 DEF OpenSocket, Opens, FailClosing, HoldsExactly
<1>9. CASE Configure
  BY <1>9, IoctlHolds DEF Configure
<1>10. CASE OpenReturn
  BY <1>10 DEF OpenReturn, HoldsExactly
<1>11. CASE buildLightHouse
  BY <1>11 DEF buildLightHouse, FailClosing, HoldsExactly
<1>12. CASE loadPeerCerts
  BY <1>12 DEF loadPeerCerts, FailClosing, HoldsExactly
<1> QED
  BY <1>2, <1>3, <1>4, <1>5, <1>6, <1>7, <1>8, <1>9, <1>10, <1>11, <1>12 DEF NewInterface

\* The process holds nothing when it has ended.
LEMMA EndsHolds ==
  ASSUME NEW s \in {"down", "exited"}, Ends(s)
  PROVE  HoldsExactly'
BY DEF Ends, Fresh, HoldsExactly

\* Every step keeps descriptors and interface to what the stage says.
LEMMA HoldsNext == HoldsExactly /\ [Next]_vars => HoldsExactly'
<1> SUFFICES ASSUME HoldsExactly, [Next]_vars
             PROVE  HoldsExactly'
  OBVIOUS
<1>1. CASE UNCHANGED <<stage, open, device>>
  BY <1>1 DEF HoldsExactly
<1>2. CASE Load
  BY <1>2 DEF Load, HoldsExactly
<1>3. CASE RunStart
  BY <1>3, EndsHolds DEF RunStart, HoldsExactly
<1>4. CASE RunEnd
  BY <1>4 DEF RunEnd, RunClose, HoldsExactly
<1>5. CASE ExitFailure \/ ExitSuccess \/ Killed
  BY <1>5, EndsHolds DEF ExitFailure, ExitSuccess, Killed
<1>6. CASE Readers
  BY <1>1, <1>6 DEF Readers, ReaderCheck, ReaderPacket, ReaderError, readerVars
<1>7. CASE Restart
  BY <1>7 DEF Restart, HoldsExactly
<1>8. CASE Signal
  BY <1>1, <1>8, EndsHolds DEF Signal
<1>9. CASE Environment
  BY <1>1, <1>9 DEF Environment
<1>10. CASE UNCHANGED vars
  BY <1>1, <1>10 DEF vars
<1> QED
  BY <1>2, <1>3, <1>4, <1>5, <1>6, <1>7, <1>8, <1>9, <1>10, NewInterfaceHolds
  DEF Next, Daemon

\* A process that has not started holds nothing.
LEMMA HoldsInit == Init => HoldsExactly
BY DEF Init, Fresh, HoldsExactly

\* A NewInterface that fails leaves no descriptor and no interface behind, one
\* that succeeds holds the socket and the device: no order of failing system
\* calls, signals, kills and restarts leaks one.
THEOREM NoDescriptorLeaks == Spec => []NothingLeaks
<1>1. HoldsExactly => NothingLeaks
  BY DEF HoldsExactly, NothingLeaks
<1> QED
  BY <1>1, HoldsInit, HoldsNext, PTL DEF Spec

-----------------------------------------------------------------------------
(* LoadPKI reads three files that neth-cert may be replacing.              *)

\* PKIConsistent is not inductive: LoadPKI checks one file after the other,
\* and the checks made so far must still hold when it returns.
PKIInv == LoadedFits /\ PKIConsistent

\* An ended process has no keys.
LEMMA EndsFits ==
  ASSUME NEW s \in {"down", "exited"}, Ends(s)
  PROVE  PKIInv' /\ pki'.Curve25519Key = Nil
BY DEF Ends, Fresh, NoPKI, Nil, PKIInv, LoadedFits, PKIConsistent

\* Each of the three reads is checked against those before it, not against the
\* files as they are now.
LEMMA LoadFits ==
  ASSUME PKIInv, loadAndParseCA \/ loadAndParseNodeCert \/ loadAndVerifyKey
  PROVE  PKIInv'
<1>1. CASE UNCHANGED pki /\ stage' = "failed"
  BY <1>1 DEF PKIInv, LoadedFits, PKIConsistent
<1>2. CASE loadAndParseCA
  <2>1. CASE stage' = "failed"
    BY <1>1, <1>2, <2>1 DEF loadAndParseCA, LoadPKIStep
  <2>2. CASE stage' # "failed"
    <3> DEFINE f == files[<<CA, "crt">>]
    <3>1. f.isCA /\ pki' = [pki EXCEPT !.CA = f] /\ stage = "ca" /\ stage' = "cert"
      BY <1>2, <2>2 DEF loadAndParseCA, LoadPKIStep, VerifyCA
    <3> HIDE DEF f
    <3>2. /\ pki'.CA = f /\ pki'.Curve25519Key = pki.Curve25519Key
          /\ pki' = [CA |-> f, NodeCert |-> pki.NodeCert, Curve25519Key |-> pki.Curve25519Key]
      BY <3>1 DEF PKIInv, LoadedFits
    <3> QED
      BY <3>1, <3>2 DEF PKIInv, LoadedFits, PKIConsistent
  <2> QED
    BY <2>1, <2>2
<1>3. CASE loadAndParseNodeCert
  <2>1. CASE stage' = "failed"
    BY <1>1, <1>3, <2>1 DEF loadAndParseNodeCert, LoadPKIStep
  <2>2. CASE stage' # "failed"
    <3> DEFINE f == files[<<Me, "crt">>]
    <3>1. /\ ~ f.isCA /\ f.signer = pki.CA.key /\ pki' = [pki EXCEPT !.NodeCert = f]
          /\ stage = "cert" /\ stage' = "key"
      BY <1>3, <2>2 DEF loadAndParseNodeCert, LoadPKIStep, Verify
    <3> HIDE DEF f
    <3>2. pki' = [CA |-> pki.CA, NodeCert |-> f, Curve25519Key |-> pki.Curve25519Key]
      BY <3>1 DEF PKIInv, LoadedFits
    <3> QED
      BY <3>1, <3>2 DEF PKIInv, LoadedFits, PKIConsistent
  <2> QED
    BY <2>1, <2>2
<1>4. CASE loadAndVerifyKey
  <2>1. CASE stage' = "failed"
    BY <1>1, <1>4, <2>1 DEF loadAndVerifyKey, LoadPKIStep
  <2>2. CASE stage' # "failed"
    <3> DEFINE f == files[<<Me, "key">>]
    <3>1. /\ f.key = pki.NodeCert.key /\ pki' = [pki EXCEPT !.Curve25519Key = f]
          /\ stage = "key" /\ stage' = "firewall"
      BY <1>4, <2>2 DEF loadAndVerifyKey, LoadPKIStep
    <3> HIDE DEF f
    <3>2. pki' = [CA |-> pki.CA, NodeCert |-> pki.NodeCert, Curve25519Key |-> f]
      BY <3>1 DEF PKIInv, LoadedFits
    <3> QED
      BY <3>1, <3>2 DEF PKIInv, LoadedFits, PKIConsistent
  <2> QED
    BY <2>1, <2>2
<1> QED
  BY <1>2, <1>3, <1>4

\* Once it is loaded the PKI stays; only the end of the process takes it.
LEMMA PKINext == PKIInv /\ [Next]_vars => PKIInv'
<1> SUFFICES ASSUME PKIInv, [Next]_vars
             PROVE  PKIInv'
  OBVIOUS
<1>1. CASE UNCHANGED <<stage, pki>>
  BY <1>1 DEF PKIInv, LoadedFits, PKIConsistent
<1>2. CASE UNCHANGED pki /\ stage' \notin {"config", "ca", "cert", "key", "down"}
  BY <1>2 DEF PKIInv, LoadedFits, PKIConsistent
<1>3. CASE Load
  BY <1>2, <1>3 DEF Load, PKIInv, LoadedFits, PKIConsistent
<1>4. CASE buildFirewall \/ Listen \/ OpenParse \/ OpenClone
  BY <1>2, <1>4 DEF buildFirewall, Listen, OpenParse, OpenClone, Opens, FailClosing, startVars
<1>5. CASE OpenSetIff \/ OpenSocket \/ OpenReturn
  BY <1>2, <1>5 DEF OpenSetIff, OpenSocket, OpenReturn, Opens, FailClosing, startVars
<1>6. CASE Configure
  BY <1>2, <1>6 DEF Configure, Ioctl, FailClosing, startVars
<1>7. CASE buildLightHouse \/ loadPeerCerts
  BY <1>2, <1>7 DEF buildLightHouse, loadPeerCerts, FailClosing, startVars
<1>8. CASE RunStart \/ RunEnd
  BY <1>2, <1>8, EndsFits DEF RunStart, RunEnd, RunClose
<1>9. CASE ExitFailure \/ ExitSuccess \/ Killed
  BY <1>9, EndsFits DEF ExitFailure, ExitSuccess, Killed
<1>10. CASE Readers
  BY <1>1, <1>10 DEF Readers, ReaderCheck, ReaderPacket, ReaderError, readerVars
<1>11. CASE Restart
  BY <1>11 DEF Restart, PKIInv, LoadedFits, PKIConsistent
<1>12. CASE Signal
  BY <1>1, <1>12, EndsFits DEF Signal
<1>13. CASE Environment
  BY <1>1, <1>13 DEF Environment
<1>14. CASE UNCHANGED vars
  BY <1>1, <1>14 DEF vars
<1> QED
  BY <1>3, <1>4, <1>5, <1>6, <1>7, <1>8, <1>9, <1>10, <1>11, <1>12, <1>13, <1>14, LoadFits
  DEF Next, Daemon, NewInterface

\* The node certificate a daemon uses is signed by the CA it uses and its key is
\* the certificate's, however LoadPKI's reads fall among neth-cert's writes.
THEOREM PKIFits == Spec => []PKIConsistent
<1>1. Init => PKIInv
  <2> SUFFICES ASSUME Init
               PROVE  PKIInv
    OBVIOUS
  <2>1. pki = [CA |-> Nil, NodeCert |-> Nil, Curve25519Key |-> Nil] /\ stage = "config"
    BY DEF Init, Fresh, NoPKI
  <2> QED
    BY <2>1 DEF PKIInv, LoadedFits, PKIConsistent
<1>2. PKIInv => PKIConsistent
  BY DEF PKIInv
<1> QED
  BY <1>1, <1>2, PKINext, PTL DEF Spec

-----------------------------------------------------------------------------
(* Powers of two and the bits of a number.                                 *)

\* What the provers do not know of powers, up to the width of an address.
Doubles == \A k \in 0 .. AddrBits - 1 : 2 ^ (k + 1) = 2 * 2 ^ k

\* It holds of the 32 bits of an IPv4 address.
LEMMA IPv4Doubles == AddrBits = 32 => Doubles
<1> DEFINE P(k) == 2 ^ (k + 1) = 2 * 2 ^ k
<1>1. P(0) /\ P(1) /\ P(2) /\ P(3) /\ P(4) /\ P(5) /\ P(6) /\ P(7)
  OBVIOUS
<1>2. P(8) /\ P(9) /\ P(10) /\ P(11) /\ P(12) /\ P(13) /\ P(14) /\ P(15)
  OBVIOUS
<1>3. P(16) /\ P(17) /\ P(18) /\ P(19) /\ P(20) /\ P(21) /\ P(22) /\ P(23)
  OBVIOUS
<1>4. P(24) /\ P(25) /\ P(26) /\ P(27) /\ P(28) /\ P(29) /\ P(30) /\ P(31)
  OBVIOUS
<1> HIDE DEF P
<1>5. \A k \in 0 .. 7 : P(k)
  BY <1>1
<1>6. \A k \in 8 .. 15 : P(k)
  BY <1>2
<1>7. \A k \in 16 .. 23 : P(k)
  BY <1>3
<1>8. \A k \in 24 .. 31 : P(k)
  BY <1>4
<1>9. \A k \in 0 .. 31 : P(k)
  BY <1>5, <1>6, <1>7, <1>8
<1>10. AddrBits = 32 => \A k \in 0 .. AddrBits - 1 : P(k)
  BY <1>9
<1> QED
  BY <1>10 DEF P, Doubles

\* A set of natural numbers with a member has a least one: what an induction
\* over numbers comes to here.
LEMMA Least ==
  ASSUME NEW S \in SUBSET Nat, S # {}
  PROVE  \E x \in S : \A y \in S : x <= y
<1>1. IsWellFoundedOn(OpToRel(<, Nat), Nat)
  BY NatLessThanWellFounded, Zenon
<1>2. PICK x \in S : \A y \in S : ~ (<<y, x>> \in OpToRel(<, Nat))
  BY <1>1, WFMin, Zenon
<1>3. \A y \in S : ~ (y < x)
  BY <1>2 DEF OpToRel
<1> QED
  BY <1>3

\* Powers of two are positive.
LEMMA PowerPositive ==
  ASSUME Doubles
  PROVE  \A k \in 0 .. AddrBits : 2 ^ k \in Nat \ {0}
<1> DEFINE Pow(k) == 2 ^ k
           S == {k \in 0 .. AddrBits : Pow(k) \notin Nat \ {0}}
<1>1. Pow(0) = 1 /\ \A k \in 0 .. AddrBits - 1 : Pow(k + 1) = 2 * Pow(k)
  BY DEF Doubles
<1> HIDE DEF Pow
<1>2. S = {}
  <2> SUFFICES ASSUME S # {}
               PROVE  FALSE
    OBVIOUS
  <2>1. S \in SUBSET Nat
    BY AddrAssumption
  <2>2. PICK k \in S : \A j \in S : k <= j
    BY <2>1, Least
  <2>3. k # 0
    BY <1>1
  <2>4. k - 1 \in 0 .. AddrBits - 1 /\ k - 1 \in 0 .. AddrBits /\ (k - 1) + 1 = k
    BY <2>3, AddrAssumption
  <2>5. Pow(k - 1) \in Nat \ {0}
    BY <2>1, <2>2, <2>4
  <2>6. Pow(k) = 2 * Pow(k - 1)
    BY <1>1, <2>4
  <2> QED
    BY <2>5, <2>6
<1>3. \A k \in 0 .. AddrBits : Pow(k) \in Nat \ {0}
  BY <1>2
<1> QED
  BY <1>3 DEF Pow

\* Exponents add up.
LEMMA PowerSplits ==
  ASSUME Doubles, NEW i \in 0 .. AddrBits, NEW j \in 0 .. AddrBits, i + j <= AddrBits
  PROVE  2 ^ (i + j) = 2 ^ i * 2 ^ j
<1> DEFINE Pow(k) == 2 ^ k
           S == {k \in 0 .. AddrBits : i + k <= AddrBits /\ Pow(i + k) # Pow(i) * Pow(k)}
<1>1. /\ Pow(0) = 1 /\ \A k \in 0 .. AddrBits - 1 : Pow(k + 1) = 2 * Pow(k)
      /\ \A k \in 0 .. AddrBits : Pow(k) \in Nat
  BY PowerPositive DEF Doubles
<1> HIDE DEF Pow
<1>2. S = {}
  <2> SUFFICES ASSUME S # {}
               PROVE  FALSE
    OBVIOUS
  <2>1. S \in SUBSET Nat
    BY AddrAssumption
  <2>2. PICK k \in S : \A l \in S : k <= l
    BY <2>1, Least
  <2>3. k \in 0 .. AddrBits /\ i + k <= AddrBits /\ Pow(i + k) # Pow(i) * Pow(k)
    OBVIOUS
  <2>4. k # 0
    <3> SUFFICES ASSUME k = 0
                 PROVE  FALSE
      OBVIOUS
    <3>1. i + k = i /\ Pow(k) = 1 /\ Pow(i) \in Nat
      BY <1>1
    <3> QED
      BY <2>3, <3>1
  <2>5. /\ k - 1 \in 0 .. AddrBits - 1 /\ k - 1 \in 0 .. AddrBits /\ (k - 1) + 1 = k
        /\ i + (k - 1) \in 0 .. AddrBits - 1 /\ (i + (k - 1)) + 1 = i + k
        /\ i + (k - 1) <= AddrBits
    BY <2>3, <2>4, AddrAssumption
  <2>6. Pow(i + (k - 1)) = Pow(i) * Pow(k - 1)
    BY <2>1, <2>2, <2>5
  <2>7. Pow(k) = 2 * Pow(k - 1) /\ Pow(i + k) = 2 * Pow(i + (k - 1))
    <3>1. Pow((k - 1) + 1) = 2 * Pow(k - 1)
      BY <1>1, <2>5
    <3>2. Pow((i + (k - 1)) + 1) = 2 * Pow(i + (k - 1))
      BY <1>1, <2>5
    <3> QED
      BY <2>5, <3>1, <3>2
  <2>8. Pow(k - 1) \in Nat /\ Pow(i) \in Nat
    BY <1>1, <2>5
  <2>9. Pow(i) * (2 * Pow(k - 1)) = 2 * (Pow(i) * Pow(k - 1))
    BY <2>8
  <2> QED
    BY <2>3, <2>6, <2>7, <2>9
<1>3. Pow(i + j) = Pow(i) * Pow(j)
  BY <1>2
<1> QED
  BY <1>3 DEF Pow

\* A quotient and a remainder in range are what \div and % return.
LEMMA QuotRem ==
  ASSUME NEW m \in Nat \ {0}, NEW q \in Int, NEW r \in Nat, r < m
  PROVE  (m * q + r) \div m = q /\ (m * q + r) % m = r
<1> DEFINE x == m * q + r
           d == x \div m
           e == x % m
<1>1. x \in Int /\ d \in Int /\ e \in Nat /\ e < m /\ x = m * d + e
  OBVIOUS
<1> HIDE DEF d, e
<1>2. m * (q - d) = e - r
  BY <1>1
<1>3. ~ (q - d >= 1)
  <2> SUFFICES ASSUME q - d >= 1
               PROVE  FALSE
    OBVIOUS
  <2>1. m * (q - d) >= m
    BY <1>1
  <2> QED
    BY <1>1, <1>2, <2>1
<1>4. ~ (q - d <= -1)
  <2> SUFFICES ASSUME q - d <= -1
               PROVE  FALSE
    OBVIOUS
  <2>1. m * (q - d) <= -m
    BY <1>1
  <2> QED
    BY <1>1, <1>2, <2>1
<1>5. q = d
  BY <1>1, <1>3, <1>4
<1>6. e = r
  BY <1>1, <1>5
<1> QED
  BY <1>5, <1>6 DEF d, e

\* prefixMask4 for a prefix length: all ones but for the host part.
LEMMA MaskValue ==
  ASSUME Doubles, NEW bits \in 0 .. AddrBits
  PROVE  prefixMask4(bits) = 2 ^ AddrBits - 2 ^ (AddrBits - bits)
<1> DEFINE h == AddrBits - bits
           m == 2 ^ AddrBits
           k == 2 ^ h
           c == 2 ^ bits
<1>1. h \in 0 .. AddrBits /\ h + bits = AddrBits /\ AddrBits \in 0 .. AddrBits
  BY AddrAssumption
<1>2. m \in Nat \ {0} /\ k \in Nat \ {0} /\ c \in Nat \ {0}
  BY <1>1, PowerPositive
<1>3. m = k * c
  <2>1. \A x \in 0 .. AddrBits : x + bits <= AddrBits => 2 ^ (x + bits) = 2 ^ x * 2 ^ bits
    BY PowerSplits
  <2>2. 2 ^ (h + bits) = 2 ^ h * 2 ^ bits
    BY <1>1, <2>1
  <2> QED
    BY <1>1, <2>2
<1>4. prefixMask4(bits) = ((m - 1) * k) % m
  BY DEF prefixMask4
<1> HIDE DEF m, k, c
<1>5. k <= m
  BY <1>2, <1>3
<1>6. (m - 1) * k = m * (k - 1) + (m - k)
  BY <1>2
<1>7. m - k \in Nat /\ m - k < m /\ k - 1 \in Int
  BY <1>2, <1>5
<1>8. (m * (k - 1) + (m - k)) % m = m - k
  BY <1>2, <1>7, QuotRem
<1> QED
  BY <1>4, <1>6, <1>8 DEF m, k

\* Bit i of the mask is set exactly in the network part.
LEMMA MaskBits ==
  ASSUME Doubles, NEW bits \in 0 .. AddrBits, NEW i \in 0 .. AddrBits - 1
  PROVE  BitSet(prefixMask4(bits), i) <=> i >= AddrBits - bits
<1> DEFINE h == AddrBits - bits
           m == 2 ^ AddrBits
           k == 2 ^ h
           n == 2 ^ i
           p == 2 ^ (AddrBits - 1 - i)
<1>1. /\ h \in 0 .. AddrBits /\ i \in 0 .. AddrBits /\ AddrBits - 1 - i \in 0 .. AddrBits
      /\ AddrBits \in 0 .. AddrBits /\ i + 1 \in 0 .. AddrBits
      /\ (i + 1) + (AddrBits - 1 - i) = AddrBits
  BY AddrAssumption
<1>2. m \in Nat \ {0} /\ k \in Nat \ {0} /\ n \in Nat \ {0} /\ p \in Nat \ {0}
  BY <1>1, PowerPositive
<1>3. 2 ^ (i + 1) = 2 * n
  BY DEF Doubles
<1>4. m = n * (2 * p)
  <2>1. m = 2 ^ (i + 1) * p
    BY <1>1, PowerSplits
  <2> HIDE DEF m, n, p
  <2> QED
    BY <1>2, <1>3, <2>1
<1>5. prefixMask4(bits) = m - k
  BY MaskValue
<1>6. CASE i >= h
  <2> DEFINE g == 2 ^ (i - h)
  <2>1. i - h \in 0 .. AddrBits /\ h + (i - h) = i /\ h + (i - h) <= AddrBits
    BY <1>1, <1>6
  <2>2. g \in Nat \ {0}
    BY <2>1, PowerPositive
  <2>10. n = k * g
    <3> HIDE DEF h
    <3>1. 2 ^ (h + (i - h)) = 2 ^ h * 2 ^ (i - h)
      BY <1>1, <2>1, PowerSplits
    <3> QED
      BY <2>1, <3>1
  <2> HIDE DEF m, k, n, p, g
  <2>3. k <= n
    BY <1>2, <2>2, <2>10
  <2>4. m - k = n * (2 * p - 1) + (n - k)
    BY <1>2, <1>4
  <2>5. n - k \in Nat /\ n - k < n /\ 2 * p - 1 \in Int
    BY <1>2, <2>3
  <2>6. (m - k) \div n = 2 * p - 1
    BY <1>2, <2>4, <2>5, QuotRem
  <2>7. (2 * p - 1) % 2 = 1
    BY <1>2
  <2>8. BitSet(m - k, i)
    BY <2>6, <2>7 DEF BitSet, n
  <2> QED
    BY <1>5, <1>6, <2>8 DEF k
<1>7. CASE i < h
  <2> DEFINE g == 2 ^ (h - 1 - i)
  <2>1. h - 1 - i \in 0 .. AddrBits /\ (i + 1) + (h - 1 - i) = h /\ (i + 1) + (h - 1 - i) <= AddrBits
    BY <1>1, <1>7
  <2>2. g \in Nat \ {0}
    BY <2>1, PowerPositive
  <2>10. k = 2 ^ (i + 1) * g
    <3> HIDE DEF h
    <3>1. 2 ^ ((i + 1) + (h - 1 - i)) = 2 ^ (i + 1) * 2 ^ (h - 1 - i)
      BY <1>1, <2>1, PowerSplits
    <3> QED
      BY <2>1, <3>1
  <2> HIDE DEF m, k, n, p, g
  <2>3. k = n * (2 * g)
    BY <1>2, <1>3, <2>2, <2>10
  <2>4. m - k = n * (2 * (p - g)) + 0
    BY <1>2, <1>4, <2>2, <2>3
  <2>5. 2 * (p - g) \in Int /\ 0 < n
    BY <1>2, <2>2
  <2>6. (m - k) \div n = 2 * (p - g)
    BY <1>2, <2>4, <2>5, QuotRem
  <2>7. (2 * (p - g)) % 2 = 0
    BY <1>2, <2>2
  <2>8. ~ BitSet(m - k, i)
    BY <2>6, <2>7 DEF BitSet, n
  <2>9. ~ (i >= h)
    BY <1>1, <1>7
  <2> QED
    BY <1>5, <2>8, <2>9
<1> QED
  BY <1>1, <1>6, <1>7

\* Halving: the quotient by a power is twice the next one and a bit.
LEMMA HalfStep ==
  ASSUME Doubles, NEW k \in 0 .. AddrBits - 1, NEW x \in Nat
  PROVE  /\ x \div 2 ^ k \in Nat /\ x \div 2 ^ (k + 1) \in Nat
         /\ x \div 2 ^ k = 2 * (x \div 2 ^ (k + 1)) + (IF BitSet(x, k) THEN 1 ELSE 0)
<1> DEFINE n == 2 ^ k
           q == x \div n
           r == x % n
<1>1. n \in Nat \ {0} /\ 2 ^ (k + 1) = 2 * n
  BY PowerPositive, AddrAssumption DEF Doubles
<1>2. BitSet(x, k) <=> q % 2 = 1
  BY DEF BitSet
<1> HIDE DEF n
<1>3. q \in Nat /\ r \in Nat /\ r < n /\ x = n * q + r
  BY <1>1
<1> HIDE DEF q, r
<1> DEFINE h == q \div 2
           b == q % 2
<1>4. h \in Nat /\ b \in {0, 1} /\ q = 2 * h + b
  BY <1>3
<1> HIDE DEF h
<1>5. x = (2 * n) * h + (n * b + r)
  <2>1. n * q = n * (2 * h + b)
    BY <1>4
  <2> HIDE DEF b
  <2>2. n * (2 * h + b) = (2 * n) * h + n * b
    BY <1>1, <1>4
  <2> QED
    BY <1>1, <1>3, <1>4, <2>1, <2>2
<1>6. n * b + r \in Nat /\ n * b + r < 2 * n
  <2> HIDE DEF b
  <2>1. CASE b = 0
    BY <1>1, <1>3, <2>1
  <2>2. CASE b = 1
    BY <1>1, <1>3, <2>2
  <2> QED
    BY <1>4, <2>1, <2>2
<1>7. x \div (2 * n) = h
  <2> HIDE DEF b
  <2>1. 2 * n \in Nat \ {0} /\ h \in Int
    BY <1>1, <1>4
  <2>2. ((2 * n) * h + (n * b + r)) \div (2 * n) = h
    BY <1>6, <2>1, QuotRem
  <2> QED
    BY <1>5, <2>2
<1>8. BitSet(x, k) <=> b = 1
  BY <1>2 DEF b
<1> HIDE DEF b
<1>9. q = 2 * h + (IF BitSet(x, k) THEN 1 ELSE 0)
  BY <1>4, <1>8
<1> QED
  BY <1>1, <1>3, <1>4, <1>7, <1>9 DEF q, n

\* Two addresses lie in the same network exactly if the bits of its prefix agree.
LEMMA SameNetwork ==
  ASSUME Doubles, NEW x \in 0 .. 2 ^ AddrBits - 1, NEW y \in 0 .. 2 ^ AddrBits - 1,
         NEW bits \in 0 .. AddrBits
  PROVE  x \div 2 ^ (AddrBits - bits) = y \div 2 ^ (AddrBits - bits) <=>
           \A i \in AddrBits - bits .. AddrBits - 1 : BitSet(x, i) <=> BitSet(y, i)
<1> DEFINE X(k) == x \div 2 ^ k
           Y(k) == y \div 2 ^ k
           B(k) == BitSet(x, k) <=> BitSet(y, k)
           Same(j) == X(AddrBits - j) = Y(AddrBits - j) <=>
                        \A i \in AddrBits - j .. AddrBits - 1 : B(i)
           S == {j \in 0 .. AddrBits : ~ Same(j)}
<1>1. 2 ^ AddrBits \in Nat \ {0} /\ x \in Nat /\ y \in Nat
  BY PowerPositive, AddrAssumption
<1>2. X(AddrBits) = 0 /\ Y(AddrBits) = 0
  <2> DEFINE m == 2 ^ AddrBits
  <2>1. m \in Nat \ {0} /\ x < m /\ y < m
    BY <1>1
  <2> HIDE DEF m
  <2>2. \A z \in Nat : z < m => z \div m = 0
    BY <2>1
  <2>3. x \div m = 0 /\ y \div m = 0
    BY <1>1, <2>1, <2>2
  <2> QED
    BY <2>3 DEF m
<1>3. ASSUME NEW k \in 0 .. AddrBits - 1
      PROVE  X(k) = Y(k) <=> X(k + 1) = Y(k + 1) /\ B(k)
  <2>1. /\ X(k + 1) \in Nat /\ X(k) = 2 * X(k + 1) + (IF BitSet(x, k) THEN 1 ELSE 0)
        /\ Y(k + 1) \in Nat /\ Y(k) = 2 * Y(k + 1) + (IF BitSet(y, k) THEN 1 ELSE 0)
    BY <1>1, HalfStep
  <2> HIDE DEF X, Y
  <2>2. CASE BitSet(x, k) /\ BitSet(y, k)
    BY <2>1, <2>2
  <2>3. CASE BitSet(x, k) /\ ~ BitSet(y, k)
    BY <2>1, <2>3
  <2>4. CASE ~ BitSet(x, k) /\ BitSet(y, k)
    BY <2>1, <2>4
  <2>5. CASE ~ BitSet(x, k) /\ ~ BitSet(y, k)
    BY <2>1, <2>5
  <2> QED
    BY <2>2, <2>3, <2>4, <2>5
<1> HIDE DEF X, Y, B
<1>4. S = {}
  <2> SUFFICES ASSUME S # {}
               PROVE  FALSE
    OBVIOUS
  <2>1. S \in SUBSET Nat
    BY AddrAssumption
  <2>2. PICK j \in S : \A l \in S : j <= l
    BY <2>1, Least
  <2>3. Same(0)
    <3>1. AddrBits - 0 = AddrBits /\ \A i \in AddrBits .. AddrBits - 1 : B(i)
      BY AddrAssumption
    <3> QED
      BY <1>2, <3>1
  <2>4. j \in 0 .. AddrBits /\ j # 0 /\ ~ Same(j)
    BY <2>3
  <2> DEFINE k == AddrBits - j
  <2>5. /\ j - 1 \in 0 .. AddrBits /\ AddrBits - (j - 1) = k + 1
        /\ k \in 0 .. AddrBits - 1
    BY <2>4, AddrAssumption
  <2>6. Same(j - 1)
    BY <2>1, <2>2, <2>5
  <2>7. X(k + 1) = Y(k + 1) <=> \A i \in k + 1 .. AddrBits - 1 : B(i)
    BY <2>5, <2>6
  <2>8. (\A i \in k .. AddrBits - 1 : B(i)) <=>
          B(k) /\ \A i \in k + 1 .. AddrBits - 1 : B(i)
    BY <2>5, AddrAssumption
  <2>9. X(k) = Y(k) <=> X(k + 1) = Y(k + 1) /\ B(k)
    BY <1>3, <2>5
  <2>10. X(k) = Y(k) <=> \A i \in k .. AddrBits - 1 : B(i)
    BY <2>7, <2>8, <2>9
  <2> QED
    BY <2>4, <2>10
<1>5. Same(bits)
  BY <1>4
<1> QED
  BY <1>5 DEF X, Y, B

\* Masking an address keeps its network.
LEMMA MaskedNetwork ==
  ASSUME Doubles, NEW a \in Nat, NEW bits \in 0 .. AddrBits
  PROVE  (a - (a % HostSize(bits))) \div HostSize(bits) = a \div HostSize(bits)
<1> DEFINE m == HostSize(bits)
           q == a \div m
           r == a % m
<1>1. m \in Nat \ {0}
  BY PowerPositive, AddrAssumption DEF HostSize
<1> HIDE DEF m
<1>2. q \in Int /\ a = m * q + r /\ r \in Nat
  BY <1>1
<1> HIDE DEF q, r
<1>3. a - r = m * q + 0 /\ 0 < m
  BY <1>1, <1>2
<1>4. (m * q + 0) \div m = q
  BY <1>1, <1>2, <1>3, QuotRem
<1>5. (a - r) \div m = q
  BY <1>3, <1>4
<1> QED
  BY <1>5 DEF q, r, m

\* ParseRule compiles a rule it accepts to one that matches what the text says.
LEMMA RuleSaysText ==
  ASSUME Doubles, NEW r \in RuleTexts, RuleOK(r), NEW remote \in 0 .. 2 ^ AddrBits - 1,
         NEW groups, NEW port \in Nat, NEW proto \in {"tcp", "udp", "icmp"}
  PROVE  matches(ParseRule(r), remote, groups, port, proto)
           <=> Says(r, remote, groups, port, proto)
<1> DEFINE c == ParseRule(r)
<1>1. r.Proto \in Texts /\ r.Port \in Texts /\ r.Group \in Texts /\ r.CIDR \in Texts
  BY DEF RuleTexts
<1>2. /\ c.Proto = IF IsWild(r.Proto) THEN "any" ELSE r.Proto.word
      /\ c.PortAny = IsWild(r.Port)
      /\ c.Port = IF IsWild(r.Port) THEN 0 ELSE r.Port.n % (MaxPort + 1)
      /\ c.GroupAny = IsWildGroup(r.Group)
      /\ c.Group = IF IsWildGroup(r.Group) THEN NoGroup ELSE r.Group
      /\ c.CIDAny = IsWild(r.CIDR)
      /\ c.CIDR = IF IsWild(r.CIDR) THEN NoCIDR ELSE Masked(r.CIDR)
  BY DEF ParseRule
<1> HIDE DEF c
<1>3. (c.Proto = "any" \/ c.Proto = proto) <=> r.Proto.word \in {"", "any", proto}
  BY <1>2 DEF IsWild
<1>4. (c.PortAny \/ c.Port = port) <=> (r.Port.word \in {"", "any"} \/ r.Port.n = port)
  <2>1. CASE IsWild(r.Port)
    BY <1>2, <2>1 DEF IsWild
  <2>2. CASE ~ IsWild(r.Port)
    <3>1. r.Port.word = "number" /\ r.Port.n <= MaxPort
      BY <2>2 DEF RuleOK, PortOK
    <3>2. r.Port.n \in Nat
      BY <1>1, <3>1 DEF Texts
    <3>3. r.Port.n % (MaxPort + 1) = r.Port.n
      BY <3>1, <3>2, AddrAssumption
    <3> QED
      BY <1>2, <2>2, <3>3 DEF IsWild
  <2> QED
    BY <2>1, <2>2
<1>5. (c.GroupAny \/ c.Group \in groups) <=>
        (r.Group \in groups \/ r.Group.word = "" \/ (r.Group.word = "any" /\ ~ r.Group.upper))
  <2>1. CASE IsWildGroup(r.Group)
    BY <1>2, <2>1 DEF IsWildGroup
  <2>2. CASE ~ IsWildGroup(r.Group)
    BY <1>2, <2>2 DEF IsWildGroup
  <2> QED
    BY <2>1, <2>2
<1>6. (c.CIDAny \/ Contains(c.CIDR, remote)) <=>
        (r.CIDR.word \in {"", "any"}
          \/ \A i \in AddrBits - r.CIDR.bits .. AddrBits - 1 :
               BitSet(r.CIDR.addr, i) <=> BitSet(remote, i))
  <2>1. CASE IsWild(r.CIDR)
    BY <1>2, <2>1 DEF IsWild
  <2>2. CASE ~ IsWild(r.CIDR)
    <3>1. r.CIDR.word = "prefix" /\ r.CIDR.bits <= AddrBits
      BY <2>2 DEF RuleOK, CIDROK
    <3>2. r.CIDR.addr \in 0 .. 2 ^ AddrBits - 1 /\ r.CIDR.bits \in Nat
      BY <1>1, <3>1 DEF Texts
    <3>3. r.CIDR.bits \in 0 .. AddrBits /\ r.CIDR.addr \in Nat
      BY <3>1, <3>2, AddrAssumption
    <3>4. Masked(r.CIDR).addr \div HostSize(r.CIDR.bits) = r.CIDR.addr \div HostSize(r.CIDR.bits)
      BY <3>3, MaskedNetwork DEF Masked
    <3>5. Masked(r.CIDR).bits = r.CIDR.bits
      BY DEF Masked
    <3>6. Contains(Masked(r.CIDR), remote) <=>
            r.CIDR.addr \div HostSize(r.CIDR.bits) = remote \div HostSize(r.CIDR.bits)
      BY <3>4, <3>5 DEF Contains
    <3>7. r.CIDR.addr \div HostSize(r.CIDR.bits) = remote \div HostSize(r.CIDR.bits) <=>
            \A i \in AddrBits - r.CIDR.bits .. AddrBits - 1 :
              BitSet(r.CIDR.addr, i) <=> BitSet(remote, i)
      BY <3>2, <3>3, SameNetwork DEF HostSize
    <3> QED
      BY <1>2, <2>2, <3>6, <3>7 DEF IsWild
  <2> QED
    BY <2>1, <2>2
<1>7. matches(c, remote, groups, port, proto) <=>
        /\ c.Proto = "any" \/ c.Proto = proto
        /\ c.PortAny \/ c.Port = port
        /\ c.GroupAny \/ c.Group \in groups
        /\ c.CIDAny \/ Contains(c.CIDR, remote)
  BY DEF matches
<1>8. matches(c, remote, groups, port, proto) <=> Says(r, remote, groups, port, proto)
  BY <1>3, <1>4, <1>5, <1>6, <1>7 DEF Says
<1> QED
  BY <1>8 DEF c

-----------------------------------------------------------------------------
(* The files of neth-cert.                                                 *)

\* The prefixes a certificate may have.
IPs == {NoIP} \cup UNION {VpnIPs[name] : name \in Nodes}

\* What a file may hold: nothing yet, half a write, a key or a certificate.
Contents ==
  {Absent, Torn}
    \cup [type : {"ed25519", "x25519"}, key : Nat]
    \cup [type : {"cert"}, isCA : BOOLEAN, key : Nat, signer : Nat, vpnIP : IPs,
          notBefore : Nat, notAfter : Nat]

\* The files, and the writes a running neth-cert still has to make, are
\* well-formed.
FilesInv ==
  /\ files \in [Paths -> Contents] /\ tool \in Seq([path : Paths, content : Contents])
  /\ keys \in Nat /\ now \in Nat

\* What the two commands write are certificates and keys.
LEMMA WriteType ==
  ASSUME NEW name \in {CA} \cup Nodes, NEW crt \in Contents, NEW key \in Contents
  PROVE  Write(name, crt, key) \in Seq([path : Paths, content : Contents])
<1>1. /\ [path |-> <<name, "crt">>, content |-> crt] \in [path : Paths, content : Contents]
      /\ [path |-> <<name, "key">>, content |-> key] \in [path : Paths, content : Contents]
  BY DEF Paths
<1> QED
  BY <1>1 DEF Write

\* neth-cert and the clock leave the files well formed, whole, empty or absent.
LEMMA FilesNext ==
  ASSUME FilesInv, NethCert \/ Tick
  PROVE  FilesInv'
<1>1. ASSUME NEW d \in Durations, cmdCA(d)
      PROVE  FilesInv'
  <2>1. d \in Nat
    BY DurationsAssumption
  <2>2. GenerateCA(keys + 1, d) \in Contents /\ KeyFile("ed25519", keys + 1) \in Contents
    BY <2>1 DEF FilesInv, GenerateCA, KeyFile, Contents, IPs
  <2>3. tool' \in Seq([path : Paths, content : Contents])
    BY <1>1, <2>2, WriteType DEF cmdCA
  <2>4. keys' = keys + 1 /\ UNCHANGED <<files, now>>
    BY <1>1 DEF cmdCA, NewKey
  <2> QED
    BY <2>3, <2>4 DEF FilesInv
<1>2. ASSUME NEW name \in Nodes, NEW d \in Durations, NEW ip \in VpnIPs[name],
             cmdSign(name, ip, d)
      PROVE  FilesInv'
  <2> DEFINE caKey == files[<<CA, "key">>]
  <2>1. d \in Nat /\ ip \in IPs
    BY DurationsAssumption DEF IPs
  <2>2. caKey.key \in Nat
    <3>1. caKey \in Contents /\ caKey.type = "ed25519"
      BY <1>2 DEF cmdSign, FilesInv, Paths
    <3> QED
      BY <3>1 DEF Contents, Absent, Torn
  <2>3. /\ Sign(caKey.key, keys + 1, ip, d) \in Contents
        /\ KeyFile("x25519", keys + 1) \in Contents
    BY <2>1, <2>2 DEF FilesInv, Sign, KeyFile, Contents
  <2>4. tool' \in Seq([path : Paths, content : Contents])
    BY <1>2, <2>3, WriteType DEF cmdSign
  <2>5. keys' = keys + 1 /\ UNCHANGED <<files, now>>
    BY <1>2 DEF cmdSign, NewKey
  <2> QED
    BY <2>4, <2>5 DEF FilesInv
<1>3. CASE Truncate
  BY <1>3 DEF Truncate, FilesInv, Contents
<1>4. CASE Fill
  <2>1. /\ tool # << >> /\ files' = [files EXCEPT ![Head(tool).path] = Head(tool).content]
        /\ tool' = Tail(tool) /\ UNCHANGED <<keys, now>>
    BY <1>4 DEF Fill, Idle
  <2> DEFINE S == [path : Paths, content : Contents]
  <2>2. tool \in Seq(S) /\ files \in [Paths -> Contents] /\ keys \in Nat /\ now \in Nat
    BY DEF FilesInv
  <2>3. Head(tool) \in S /\ Tail(tool) \in Seq(S)
    <3> HIDE DEF S
    <3> QED
      BY <2>1, <2>2
  <2>4. files' \in [Paths -> Contents]
    BY <2>1, <2>2, <2>3
  <2> QED
    BY <2>1, <2>2, <2>3, <2>4 DEF FilesInv
<1>5. CASE ToolStops
  BY <1>5 DEF ToolStops, FilesInv
<1>6. CASE Tick
  BY <1>6 DEF Tick, FilesInv
<1> QED
  BY <1>1, <1>2, <1>3, <1>4, <1>5, <1>6 DEF NethCert

-----------------------------------------------------------------------------
(* What each stage of a start has established.                             *)

\* The stages of run() from which the device is up.
UpStages == {"opened", "lighthouse", "peers", "run", "running"}
\* From which its MTU is set.
MTUStages == {"getflags", "setflags"} \cup UpStages
\* From which its netmask is set.
MaskStages == {"mtu"} \cup MTUStages
\* From which its address is set.
AddrStages == {"netmask"} \cup MaskStages
\* From which the device exists.
DeviceStages == {"socket", "addr"} \cup AddrStages
\* From which NewTUN knows that the certificate has an IPv4 prefix.
IP4Stages == {"clone", "setiff"} \cup DeviceStages
\* From which the firewall is compiled.
RuleStages == {"listen", "parse"} \cup IP4Stages
\* From which the node certificate is loaded.
CertStages == {"key", "firewall"} \cup RuleStages
\* From which the configuration is loaded.
ConfigStages == {"ca", "cert"} \cup CertStages

\* The configuration, the certificate and the rules that a stage relies on.
LoadedInv ==
  /\ conf \in Configs
  /\ pki = [CA |-> pki.CA, NodeCert |-> pki.NodeCert, Curve25519Key |-> pki.Curve25519Key]
  /\ stage \in ConfigStages => cfg \in Settings
  /\ stage \in CertStages => pki.NodeCert.vpnIP \in IPs
  /\ stage \in RuleStages =>
       /\ \A dir \in Directions : \A r \in cfg.rules[dir] : RuleOK(r)
       /\ rules = [dir \in Directions |-> {ParseRule(r) : r \in cfg.rules[dir]}]
  /\ stage \in IP4Stages => pki.NodeCert.vpnIP.is4

\* A TUN interface, whatever its settings.
IsTun(d) ==
  \E a, k, u, f : d = [type |-> "tun", addr |-> a, mask |-> k, mtu |-> u, up |-> f]

\* How far the TUN interface is configured.
DeviceInv ==
  /\ stage \in DeviceStages => IsTun(device)
  /\ stage \in AddrStages => device.addr = pki.NodeCert.vpnIP.addr
  /\ stage \in MaskStages => device.mask = prefixMask4(pki.NodeCert.vpnIP.bits)
  /\ stage \in MTUStages => device.mtu \in MinMTU .. MaxMTU
  /\ stage \in UpStages => device.up

\* What run() has established, stage by stage.
StartInv == FilesInv /\ LoadedInv /\ DeviceInv

\* setDefaults keeps a configuration a configuration.
LEMMA DefaultsType == ASSUME NEW c \in Settings PROVE setDefaults(c) \in Settings
<1> DEFINE u == IF c.mtu = 0 THEN 1300 ELSE c.mtu
           v == IF c.interval = 0 THEN 60 ELSE c.interval
<1>1. setDefaults(c) = [c EXCEPT !.mtu = u, !.interval = v]
  BY DEF Settings, setDefaults
<1>2. u \in Int /\ v \in Int
  BY DEF Settings
<1> HIDE DEF u, v
<1> QED
  BY <1>1, <1>2 DEF Settings

\* A step that leaves the process alone, or ends it, keeps the invariant.
LEMMA StillStarts ==
  ASSUME LoadedInv, DeviceInv, UNCHANGED <<conf, cfg, pki, rules, device>>,
         stage' = stage \/ stage' \notin ConfigStages
  PROVE  LoadedInv' /\ DeviceInv'
BY DEF LoadedInv, DeviceInv, UpStages, MTUStages, MaskStages, AddrStages, DeviceStages,
       IP4Stages, RuleStages, CertStages, ConfigStages

\* When the process ends, what was established is let go.
LEMMA EndsStarts ==
  ASSUME LoadedInv, NEW s \in {"down", "exited"}, Ends(s), UNCHANGED conf
  PROVE  LoadedInv' /\ DeviceInv'
BY DEF LoadedInv, DeviceInv, Ends, Fresh, NoPKI, UpStages, MTUStages, MaskStages, AddrStages,
       DeviceStages, IP4Stages, RuleStages, CertStages, ConfigStages

\* NewInterface returns an error.
LEMMA FailStarts ==
  ASSUME LoadedInv, NEW closed, FailClosing(closed)
  PROVE  LoadedInv' /\ DeviceInv'
BY DEF LoadedInv, DeviceInv, FailClosing, startVars, runVars, UpStages, MTUStages, MaskStages,
       AddrStages, DeviceStages, IP4Stages, RuleStages, CertStages, ConfigStages

\* A step from one stage of a start to the next that changes nothing else.
LEMMA MoveStarts ==
  ASSUME LoadedInv, DeviceInv, UNCHANGED <<conf, cfg, pki, rules, device>>,
         \/ stage = "listen" /\ stage' = "parse"
         \/ stage = "clone" /\ stage' = "setiff"
         \/ stage = "socket" /\ stage' = "addr"
         \/ stage = "getflags" /\ stage' = "setflags"
         \/ stage = "opened" /\ stage' = "lighthouse"
         \/ stage = "lighthouse" /\ stage' = "peers"
         \/ stage = "peers" /\ stage' = "run"
  PROVE  LoadedInv' /\ DeviceInv'
BY DEF LoadedInv, DeviceInv, UpStages, MTUStages, MaskStages, AddrStages, DeviceStages,
       IP4Stages, RuleStages, CertStages, ConfigStages

\* Load and LoadPKI.
LEMMA LoadStarts ==
  ASSUME FilesInv, LoadedInv, DeviceInv,
         Load \/ loadAndParseCA \/ loadAndParseNodeCert \/ loadAndVerifyKey
  PROVE  LoadedInv' /\ DeviceInv'
<1>1. CASE stage' = "failed"
  <2>1. UNCHANGED <<conf, cfg, pki, rules, device>>
    BY <1>1 DEF Load, loadAndParseCA, loadAndParseNodeCert, loadAndVerifyKey, LoadPKIStep, runVars
  <2> QED
    BY <1>1, <2>1, StillStarts DEF UpStages, MTUStages, MaskStages, AddrStages, DeviceStages,
       IP4Stages, RuleStages, CertStages, ConfigStages
<1>2. CASE Load /\ stage' # "failed"
  <2>1. /\ stage' = "ca" /\ cfg' = setDefaults(conf) /\ UNCHANGED <<conf, pki>>
    BY <1>2 DEF Load
  <2>2. cfg' \in Settings
    BY <2>1, DefaultsType, ConfigAssumption DEF LoadedInv
  <2> QED
    BY <2>1, <2>2 DEF LoadedInv, DeviceInv, UpStages, MTUStages, MaskStages, AddrStages,
       DeviceStages, IP4Stages, RuleStages, CertStages
<1>3. CASE loadAndParseCA /\ stage' # "failed"
  <2>1. /\ stage = "ca" /\ stage' = "cert" /\ UNCHANGED <<conf, cfg>>
        /\ pki' = [pki EXCEPT !.CA = files[<<CA, "crt">>]]
    BY <1>3 DEF loadAndParseCA, LoadPKIStep
  <2>2. pki' = [CA |-> pki'.CA, NodeCert |-> pki'.NodeCert, Curve25519Key |-> pki'.Curve25519Key]
    BY <2>1 DEF LoadedInv
  <2>3. cfg' \in Settings
    BY <2>1 DEF LoadedInv, ConfigStages
  <2> QED
    BY <2>1, <2>2, <2>3 DEF LoadedInv, DeviceInv, UpStages, MTUStages, MaskStages, AddrStages,
       DeviceStages, IP4Stages, RuleStages, CertStages
<1>4. CASE loadAndParseNodeCert /\ stage' # "failed"
  <2> DEFINE f == files[<<Me, "crt">>]
  <2>1. /\ stage = "cert" /\ stage' = "key" /\ UNCHANGED <<conf, cfg>> /\ IsCert(f)
        /\ pki' = [pki EXCEPT !.NodeCert = f]
    BY <1>4 DEF loadAndParseNodeCert, LoadPKIStep
  <2>2. f \in Contents /\ f.type = "cert"
    BY <2>1, ConfigAssumption DEF FilesInv, Paths, IsCert
  <2>3. f.vpnIP \in IPs
    BY <2>2 DEF Contents, Absent, Torn
  <2> HIDE DEF f
  <2>4. /\ pki' = [CA |-> pki'.CA, NodeCert |-> pki'.NodeCert, Curve25519Key |-> pki'.Curve25519Key]
        /\ pki'.NodeCert = f
    BY <2>1 DEF LoadedInv
  <2>5. cfg' \in Settings
    BY <2>1 DEF LoadedInv, ConfigStages
  <2> QED
    BY <2>1, <2>3, <2>4, <2>5 DEF LoadedInv, DeviceInv, UpStages, MTUStages, MaskStages,
       AddrStages, DeviceStages, IP4Stages, RuleStages
<1>5. CASE loadAndVerifyKey /\ stage' # "failed"
  <2>1. /\ stage = "key" /\ stage' = "firewall" /\ UNCHANGED <<conf, cfg>>
        /\ pki' = [pki EXCEPT !.Curve25519Key = files[<<Me, "key">>]]
    BY <1>5 DEF loadAndVerifyKey, LoadPKIStep
  <2>2. /\ pki' = [CA |-> pki'.CA, NodeCert |-> pki'.NodeCert, Curve25519Key |-> pki'.Curve25519Key]
        /\ pki'.NodeCert = pki.NodeCert
    BY <2>1 DEF LoadedInv
  <2>3. cfg' \in Settings /\ pki'.NodeCert.vpnIP \in IPs
    BY <2>1, <2>2 DEF LoadedInv, ConfigStages, CertStages
  <2> QED
    BY <2>1, <2>2, <2>3 DEF LoadedInv, DeviceInv, UpStages, MTUStages, MaskStages,
       AddrStages, DeviceStages, IP4Stages, RuleStages
<1> QED
  BY <1>1, <1>2, <1>3, <1>4, <1>5

\* buildFirewall keeps only rules it could compile.
LEMMA FirewallStarts ==
  ASSUME LoadedInv, DeviceInv, buildFirewall
  PROVE  LoadedInv' /\ DeviceInv'
<1>1. UNCHANGED <<conf, cfg, pki, device>> /\ stage = "firewall"
  BY DEF buildFirewall, runVars
<1>2. CASE stage' = "failed"
  <2>1. UNCHANGED rules
    BY <1>2 DEF buildFirewall
  <2> QED
    BY <1>1, <1>2, <2>1, StillStarts DEF UpStages, MTUStages, MaskStages, AddrStages, DeviceStages,
       IP4Stages, RuleStages, CertStages, ConfigStages
<1>3. CASE stage' # "failed"
  <2>1. /\ stage' = "listen"
        /\ \A dir \in Directions : \A r \in cfg.rules[dir] : RuleOK(r)
        /\ rules' = [dir \in Directions |-> {ParseRule(r) : r \in cfg.rules[dir]}]
    BY <1>3 DEF buildFirewall
  <2>2. cfg \in Settings /\ pki.NodeCert.vpnIP \in IPs
    BY <1>1 DEF LoadedInv, ConfigStages, CertStages
  <2> QED
    BY <1>1, <2>1, <2>2 DEF LoadedInv, DeviceInv, UpStages, MTUStages, MaskStages,
       AddrStages, DeviceStages, IP4Stages
<1> QED
  BY <1>2, <1>3

\* The calls that open a descriptor change nothing of what was established.
LEMMA OpenStarts ==
  ASSUME LoadedInv, DeviceInv,
         Listen \/ OpenClone \/ OpenSocket \/ OpenReturn \/ buildLightHouse \/ loadPeerCerts
  PROVE  LoadedInv' /\ DeviceInv'
<1>1. CASE \E closed : FailClosing(closed)
  BY <1>1, FailStarts
<1>2. CASE ~ \E closed : FailClosing(closed)
  <2>1. UNCHANGED <<conf, cfg, pki, rules, device>>
    BY <1>2 DEF Listen, OpenClone, OpenSocket, OpenReturn, buildLightHouse, loadPeerCerts, Opens,
       startVars, runVars
  <2>2. \/ stage = "listen" /\ stage' = "parse"
        \/ stage = "clone" /\ stage' = "setiff"
        \/ stage = "socket" /\ stage' = "addr"
        \/ stage = "opened" /\ stage' = "lighthouse"
        \/ stage = "lighthouse" /\ stage' = "peers"
        \/ stage = "peers" /\ stage' = "run"
    BY <1>2 DEF Listen, OpenClone, OpenSocket, OpenReturn, buildLightHouse, loadPeerCerts, Opens
  <2> QED
    BY <2>1, <2>2, MoveStarts
<1> QED
  BY <1>1, <1>2

\* tun.Open goes on only with an IPv4 prefix, and makes the interface.
LEMMA MakeStarts ==
  ASSUME LoadedInv, DeviceInv, OpenParse \/ OpenSetIff
  PROVE  LoadedInv' /\ DeviceInv'
<1>1. CASE \E closed : FailClosing(closed)
  BY <1>1, FailStarts
<1>2. CASE OpenParse /\ ~ \E closed : FailClosing(closed)
  <2>1. /\ stage = "parse" /\ stage' = "clone" /\ pki.NodeCert.vpnIP.is4
        /\ UNCHANGED <<conf, cfg, pki, rules, device>>
    BY <1>2 DEF OpenParse, startVars, runVars
  <2> QED
    BY <2>1 DEF LoadedInv, DeviceInv, UpStages, MTUStages, MaskStages, AddrStages, DeviceStages,
       IP4Stages, RuleStages, CertStages, ConfigStages
<1>3. CASE OpenSetIff /\ ~ \E closed : FailClosing(closed)
  <2>1. /\ stage = "setiff" /\ stage' = "socket"
        /\ device' = [type |-> "tun", addr |-> 0, mask |-> 0, mtu |-> 0, up |-> FALSE]
        /\ UNCHANGED <<conf, cfg, pki, rules>>
    BY <1>3 DEF OpenSetIff, startVars, runVars
  <2>2. LoadedInv'
    BY <2>1 DEF LoadedInv, UpStages, MTUStages, MaskStages, AddrStages, DeviceStages,
       IP4Stages, RuleStages, CertStages, ConfigStages
  <2>3. IsTun(device')
    BY <2>1 DEF IsTun
  <2>4. DeviceInv'
    BY <2>1, <2>3 DEF DeviceInv, UpStages, MTUStages, MaskStages, AddrStages
  <2> QED
    BY <2>2, <2>4
<1> QED
  BY <1>1, <1>2, <1>3

\* The ioctls set the address, the mask, the MTU and the flags, one by one.
LEMMA ConfigureStarts ==
  ASSUME LoadedInv, DeviceInv, Configure
  PROVE  LoadedInv' /\ DeviceInv'
<1>1. CASE \E closed : FailClosing(closed)
  BY <1>1, FailStarts
<1>2. ASSUME ~ \E closed : FailClosing(closed)
      PROVE  LoadedInv' /\ DeviceInv'
  <2>1. UNCHANGED <<conf, cfg, pki, rules>>
    BY <1>2 DEF Configure, Ioctl, startVars, runVars
  <2>2. \/ /\ stage = "addr" /\ stage' = "netmask"
           /\ device' = [device EXCEPT !.addr = pki.NodeCert.vpnIP.addr]
        \/ /\ stage = "netmask" /\ stage' = "mtu"
           /\ device' = [device EXCEPT !.mask = prefixMask4(pki.NodeCert.vpnIP.bits)]
        \/ /\ stage = "mtu" /\ stage' = "getflags" /\ cfg.mtu \in MinMTU .. MaxMTU
           /\ device' = [device EXCEPT !.mtu = cfg.mtu]
        \/ stage = "getflags" /\ stage' = "setflags" /\ device' = device
        \/ stage = "setflags" /\ stage' = "opened" /\ device' = [device EXCEPT !.up = TRUE]
    BY <1>2 DEF Configure, Ioctl
  <2>3. LoadedInv'
    BY <2>1, <2>2 DEF LoadedInv, UpStages, MTUStages, MaskStages, AddrStages, DeviceStages,
       IP4Stages, RuleStages, CertStages, ConfigStages
  <2>4. PICK a, k, u, f :
          device = [type |-> "tun", addr |-> a, mask |-> k, mtu |-> u, up |-> f]
    BY <2>2 DEF DeviceInv, IsTun, DeviceStages, AddrStages, MaskStages, MTUStages
  <2>5. CASE /\ stage = "addr" /\ stage' = "netmask"
             /\ device' = [device EXCEPT !.addr = pki.NodeCert.vpnIP.addr]
    <3>1. device' = [type |-> "tun", addr |-> pki.NodeCert.vpnIP.addr, mask |-> k, mtu |-> u,
                     up |-> f]
      BY <2>4, <2>5
    <3>2. IsTun(device') /\ device'.addr = pki'.NodeCert.vpnIP.addr
      BY <2>1, <3>1 DEF IsTun
    <3> QED
      BY <2>3, <2>5, <3>2 DEF DeviceInv, UpStages, MTUStages, MaskStages
  <2>6. CASE /\ stage = "netmask" /\ stage' = "mtu"
             /\ device' = [device EXCEPT !.mask = prefixMask4(pki.NodeCert.vpnIP.bits)]
    <3>1. a = pki.NodeCert.vpnIP.addr
      BY <2>4, <2>6 DEF DeviceInv, AddrStages
    <3>2. device' = [type |-> "tun", addr |-> a, mask |-> prefixMask4(pki.NodeCert.vpnIP.bits),
                     mtu |-> u, up |-> f]
      BY <2>4, <2>6
    <3>3. /\ IsTun(device') /\ device'.addr = pki'.NodeCert.vpnIP.addr
          /\ device'.mask = prefixMask4(pki'.NodeCert.vpnIP.bits)
      BY <2>1, <3>1, <3>2 DEF IsTun
    <3> QED
      BY <2>3, <2>6, <3>3 DEF DeviceInv, UpStages, MTUStages
  <2>7. CASE /\ stage = "mtu" /\ stage' = "getflags" /\ cfg.mtu \in MinMTU .. MaxMTU
             /\ device' = [device EXCEPT !.mtu = cfg.mtu]
    <3>1. a = pki.NodeCert.vpnIP.addr /\ k = prefixMask4(pki.NodeCert.vpnIP.bits)
      BY <2>4, <2>7 DEF DeviceInv, AddrStages, MaskStages
    <3>2. device' = [type |-> "tun", addr |-> a, mask |-> k, mtu |-> cfg.mtu, up |-> f]
      BY <2>4, <2>7
    <3>3. /\ IsTun(device') /\ device'.addr = pki'.NodeCert.vpnIP.addr
          /\ device'.mask = prefixMask4(pki'.NodeCert.vpnIP.bits)
      BY <2>1, <3>1, <3>2 DEF IsTun
    <3>4. device'.mtu = cfg.mtu
      BY <3>2
    <3>5. device'.mtu \in MinMTU .. MaxMTU
      BY <2>7, <3>4
    <3> QED
      BY <2>3, <2>7, <3>3, <3>5 DEF DeviceInv, UpStages
  <2>8. CASE stage = "getflags" /\ stage' = "setflags" /\ device' = device
    BY <2>1, <2>8, MoveStarts
  <2>9. CASE stage = "setflags" /\ stage' = "opened" /\ device' = [device EXCEPT !.up = TRUE]
    <3>1. /\ a = pki.NodeCert.vpnIP.addr /\ k = prefixMask4(pki.NodeCert.vpnIP.bits)
          /\ u \in MinMTU .. MaxMTU
      BY <2>4, <2>9 DEF DeviceInv, AddrStages, MaskStages, MTUStages
    <3>2. device' = [type |-> "tun", addr |-> a, mask |-> k, mtu |-> u, up |-> TRUE]
      BY <2>4, <2>9
    <3>3. /\ IsTun(device') /\ device'.addr = pki'.NodeCert.vpnIP.addr
          /\ device'.mask = prefixMask4(pki'.NodeCert.vpnIP.bits)
      BY <2>1, <3>1, <3>2 DEF IsTun
    <3>4. device'.mtu = u /\ device'.up
      BY <3>2
    <3> QED
      BY <2>3, <2>9, <3>1, <3>3, <3>4 DEF DeviceInv
  <2> QED
    BY <2>2, <2>5, <2>6, <2>7, <2>8, <2>9
<1> QED
  BY <1>1, <1>2

\* Run changes nothing of what was established, unless it panics.
LEMMA RunStarts ==
  ASSUME LoadedInv, DeviceInv, RunStart
  PROVE  LoadedInv' /\ DeviceInv'
<1>1. CASE Ends("down")
  BY <1>1, EndsStarts DEF RunStart
<1>2. CASE ~ Ends("down")
  <2>1. /\ stage = "run" /\ stage' = "running"
        /\ UNCHANGED <<conf, cfg, pki, rules, device>>
    BY <1>2 DEF RunStart
  <2>2. LoadedInv'
    BY <2>1 DEF LoadedInv, ConfigStages, CertStages, RuleStages, IP4Stages, DeviceStages,
       AddrStages, MaskStages, MTUStages, UpStages
  <2>3. DeviceInv'
    BY <2>1 DEF DeviceInv, DeviceStages, AddrStages, MaskStages, MTUStages, UpStages
  <2> QED
    BY <2>2, <2>3
<1> QED
  BY <1>1, <1>2

\* Every step keeps what its stage has established.
LEMMA StartNext == StartInv /\ [Next]_vars => StartInv'
<1> SUFFICES ASSUME FilesInv, LoadedInv, DeviceInv, [Next]_vars
             PROVE  FilesInv' /\ LoadedInv' /\ DeviceInv'
  BY DEF StartInv
<1>1. CASE UNCHANGED vars
  <2>1. UNCHANGED certVars /\ UNCHANGED <<conf, cfg, pki, rules, device, stage>>
    BY <1>1 DEF vars, runVars
  <2> QED
    BY <2>1, StillStarts DEF FilesInv, certVars
<1>2. CASE Environment
  <2>1. UNCHANGED <<conf, cfg, pki, rules, device, stage>> /\ (NethCert \/ Tick)
    BY <1>2 DEF Environment, runVars
  <2> QED
    BY <2>1, StillStarts, FilesNext
<1>3. ASSUME Daemon \/ ExitSuccess \/ Readers \/ Restart \/ Signal \/ Killed
      PROVE  FilesInv'
  <2>1. UNCHANGED certVars
    <3>1. CASE Load \/ RunStart \/ RunEnd \/ ExitFailure
      BY <3>1 DEF Load, RunStart, RunEnd, RunClose, ExitFailure
    <3>2. CASE NewInterface
      BY <3>2 DEF NewInterface, loadAndParseCA, loadAndParseNodeCert, loadAndVerifyKey,
         LoadPKIStep, buildFirewall, Listen, OpenParse, OpenClone, OpenSetIff, OpenSocket,
         Configure, OpenReturn, buildLightHouse, loadPeerCerts, Opens, Ioctl, FailClosing,
         startVars
    <3>3. CASE Readers
      BY <3>3 DEF Readers, ReaderCheck, ReaderPacket, ReaderError, readerVars
    <3>4. CASE ExitSuccess \/ Restart \/ Signal \/ Killed
      BY <3>4 DEF ExitSuccess, Restart, Signal, Killed
    <3> QED
      BY <1>3, <3>1, <3>2, <3>3, <3>4 DEF Daemon
  <2> QED
    BY <2>1 DEF FilesInv, certVars
<1>4. CASE RunEnd \/ Restart
  <2>1. UNCHANGED <<conf, cfg, pki, rules, device>>
    BY <1>4 DEF RunEnd, RunClose, Restart, runVars
  <2>2. stage' \in {"closing", "returned", "config"}
    BY <1>4 DEF RunEnd, RunClose, Restart
  <2>3. stage' \notin ConfigStages
    BY <2>2 DEF ConfigStages, CertStages, RuleStages, IP4Stages, DeviceStages, AddrStages,
       MaskStages, MTUStages, UpStages
  <2> QED
    BY <1>3, <1>4, <2>1, <2>3, StillStarts DEF Daemon
<1>5. CASE ExitFailure \/ ExitSuccess \/ Killed
  BY <1>3, <1>5, EndsStarts DEF ExitFailure, ExitSuccess, Killed, Daemon
<1>6. CASE Readers
  <2>1. UNCHANGED <<conf, cfg, pki, rules, device, stage>>
    BY <1>6 DEF Readers, ReaderCheck, ReaderPacket, ReaderError, readerVars
  <2> QED
    BY <1>3, <1>6, <2>1, StillStarts
<1>7. CASE Signal
  <2>1. CASE stage = "running"
    <3>1. UNCHANGED <<conf, cfg, pki, rules, device, stage>>
      BY <1>7, <2>1 DEF Signal
    <3> QED
      BY <1>3, <1>7, <3>1, StillStarts
  <2>2. CASE stage # "running"
    BY <1>3, <1>7, <2>2, EndsStarts DEF Signal
  <2> QED
    BY <2>1, <2>2
<1>8. CASE RunStart
  BY <1>3, <1>8, RunStarts DEF Daemon
<1>9. CASE Load \/ NewInterface
  BY <1>3, <1>9, LoadStarts, FirewallStarts, OpenStarts, MakeStarts, ConfigureStarts
  DEF Daemon, NewInterface
<1> QED
  BY <1>1, <1>2, <1>4, <1>5, <1>6, <1>7, <1>8, <1>9 DEF Next, Daemon

\* Nothing is established before the start.
LEMMA StartInit == Init => StartInv
<1> SUFFICES ASSUME Init
             PROVE  StartInv
  OBVIOUS
<1>1. FilesInv
  BY DEF Init, CertInit, FilesInv, Contents
<1>2. LoadedInv /\ DeviceInv
  BY DEF Init, Fresh, NoPKI, LoadedInv, DeviceInv, ConfigStages, CertStages, RuleStages,
     IP4Stages, DeviceStages, AddrStages, MaskStages, MTUStages, UpStages
<1> QED
  BY <1>1, <1>2 DEF StartInv

\* At every stage of run() what the earlier stages loaded, compiled and set is
\* still in place, whatever neth-cert, faults and signals do in between.
THEOREM StartSafe == Spec => []StartInv
BY StartInit, StartNext, PTL DEF Spec

\* A running daemon's interface is up, with the certificate's address, an MTU
\* the kernel takes and, for every prefix length, exactly the network bits set
\* in its mask.
THEOREM DeviceIsConfigured ==
  ASSUME Doubles
  PROVE  Spec => []DeviceConfigured
<1>1. StartInv => DeviceConfigured
  <2> SUFFICES ASSUME StartInv, stage = "running"
               PROVE  /\ device.up /\ device.addr = pki.NodeCert.vpnIP.addr
                      /\ device.mtu \in MinMTU .. MaxMTU
                      /\ \A i \in 0 .. AddrBits - 1 :
                           BitSet(device.mask, i) <=> i >= AddrBits - pki.NodeCert.vpnIP.bits
    BY DEF DeviceConfigured
  <2>1. /\ device.up /\ device.addr = pki.NodeCert.vpnIP.addr
        /\ device.mtu \in MinMTU .. MaxMTU
        /\ device.mask = prefixMask4(pki.NodeCert.vpnIP.bits)
    BY DEF StartInv, DeviceInv, AddrStages, MaskStages, MTUStages, UpStages
  <2>2. pki.NodeCert.vpnIP \in IPs /\ pki.NodeCert.vpnIP.is4
    BY DEF StartInv, LoadedInv, CertStages, RuleStages, IP4Stages, DeviceStages, AddrStages,
       MaskStages, MTUStages, UpStages
  <2>3. pki.NodeCert.vpnIP.bits \in 0 .. AddrBits
    BY <2>2, PrefixAssumption, AddrAssumption DEF IPs, NoIP
  <2> QED
    BY <2>1, <2>3, MaskBits
<1> QED
  BY <1>1, StartSafe, PTL

\* The compiled rules of a running daemon admit exactly what their texts say.
THEOREM RulesAdmitTheirText ==
  ASSUME Doubles
  PROVE  Spec => []RulesSayTheirText
<1>1. StartInv => RulesSayTheirText
  <2> SUFFICES ASSUME StartInv, stage = "running", NEW dir \in Directions,
                      NEW remote \in 0 .. 2 ^ AddrBits - 1, NEW port \in {0, 53, MaxPort},
                      NEW proto \in {"tcp", "udp", "icmp"},
                      NEW groups \in SUBSET {r.Group : r \in cfg.rules[dir]}
               PROVE  (\E r \in rules[dir] : matches(r, remote, groups, port, proto))
                        <=> \E r \in cfg.rules[dir] : Says(r, remote, groups, port, proto)
    BY DEF RulesSayTheirText
  <2>1. /\ cfg \in Settings /\ \A r \in cfg.rules[dir] : RuleOK(r)
        /\ rules[dir] = {ParseRule(r) : r \in cfg.rules[dir]}
    BY DEF StartInv, LoadedInv, ConfigStages, CertStages, RuleStages, IP4Stages, DeviceStages,
       AddrStages, MaskStages, MTUStages, UpStages
  <2>2. port \in Nat
    BY AddrAssumption
  <2>3. \A r \in cfg.rules[dir] : r \in RuleTexts
    BY <2>1 DEF Settings
  <2>4. \A r \in cfg.rules[dir] : matches(ParseRule(r), remote, groups, port, proto)
                               <=> Says(r, remote, groups, port, proto)
    BY <2>1, <2>2, <2>3, RuleSaysText
  <2> QED
    BY <2>1, <2>4
<1> QED
  BY <1>1, StartSafe, PTL

\* In particular for IPv4, whose addresses have 32 bits.
THEOREM IPv4Configured ==
  ASSUME AddrBits = 32
  PROVE  Spec => [](DeviceConfigured /\ RulesSayTheirText)
<1>1. Doubles
  BY IPv4Doubles
<1> QED
  BY <1>1, DeviceIsConfigured, RulesAdmitTheirText, PTL
=============================================================================
