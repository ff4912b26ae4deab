----------------------------- MODULE WireProofs -----------------------------
(***************************************************************************)
(* The headers of neth, for every width of their fields and every bound:   *)
(* what Parse reads is what Encode was given, whatever the nodes and other *)
(* programs send, lose and answer.                                         *)
(***************************************************************************)
EXTENDS Wire, TLAPS, WellFoundedInduction

\* A set of natural numbers that is not empty has a least element.
LEMMA Least ==
  ASSUME NEW S \in SUBSET Nat, S # {}
  PROVE  \E x \in S : \A y \in S : x <= y
<1>1. IsWellFoundedOn(OpToRel(<, Nat), Nat)
  BY NatLessThanWellFounded, Zenon
<1>2. PICK x \in S : \A y \in S : ~ (<<y, x>> \in OpToRel(<, Nat))
  BY <1>1, WFMin, Zenon
<1>3. \A y \in S : ~ (y < x)
  BY <1>2 DEF OpToRel
<1> QED
  BY <1>3

-----------------------------------------------------------------------------
(* Numbers and their bytes.                                                *)

\* The numbers v, v >> 8, v >> 16, ... up to n shifts.
Shifting(v, n, f) == f = [k \in 0 .. n |-> IF k = 0 THEN v ELSE f[k - 1] \div 256]

\* The shifts are there for every n.
LEMMA ShiftingExists ==
  ASSUME NEW v \in Nat
  PROVE  \A n \in Nat : \E f : Shifting(v, n, f)
<1> DEFINE Bad == {n \in Nat : ~ \E f : Shifting(v, n, f)}
<1> SUFFICES ASSUME Bad # {}
             PROVE  FALSE
  OBVIOUS
<1>1. PICK n \in Bad : \A m \in Bad : n <= m
  <2>1. Bad \in SUBSET Nat
    OBVIOUS
  <2> QED
    BY <2>1, Least
<1>2. n # 0
  <2>1. Shifting(v, 0, [k \in 0 .. 0 |-> v])
    BY DEF Shifting
  <2> QED
    BY <2>1
<1>3. n - 1 \in Nat /\ n \in Nat
  BY <1>2
<1>4. PICK f : Shifting(v, n - 1, f)
  BY <1>1, <1>3
<1> DEFINE g == [k \in 0 .. n |-> IF k = n THEN f[n - 1] \div 256 ELSE f[k]]
<1>5. \A k \in 0 .. n - 1 : g[k] = f[k] /\ f[k] = IF k = 0 THEN v ELSE f[k - 1] \div 256
  BY <1>3, <1>4 DEF Shifting
<1>6. \A k \in 0 .. n : g[k] = IF k = 0 THEN v ELSE g[k - 1] \div 256
  <2> SUFFICES ASSUME NEW k \in 0 .. n
               PROVE  g[k] = IF k = 0 THEN v ELSE g[k - 1] \div 256
    OBVIOUS
  <2>1. CASE k = n
    <3>1. n - 1 \in 0 .. n - 1 /\ g[n] = f[n - 1] \div 256
      BY <1>3
    <3> HIDE DEF g
    <3> QED
      BY <1>2, <1>5, <2>1, <3>1
  <2>2. CASE k = 0
    <3> HIDE DEF g
    <3> QED
      BY <1>3, <1>5, <2>2
  <2>3. CASE k # n /\ k # 0
    <3>1. k \in 0 .. n - 1 /\ k - 1 \in 0 .. n - 1
      BY <1>3, <2>3
    <3> HIDE DEF g
    <3> QED
      BY <1>5, <2>3, <3>1
  <2> QED
    BY <2>1, <2>2, <2>3
<1>7. Shifting(v, n, g)
  BY <1>6 DEF Shifting
<1> HIDE DEF g
<1> QED
  BY <1>1, <1>7

\* They do not depend on how many more follow.
LEMMA ShiftingUnique ==
  ASSUME NEW v \in Nat, NEW n \in Nat, NEW m \in Nat, n <= m,
         NEW f, Shifting(v, n, f), NEW g, Shifting(v, m, g)
  PROVE  \A k \in 0 .. n : f[k] = g[k] /\ f[k] \in Nat
<1> DEFINE Bad == {k \in 0 .. n : ~ (f[k] = g[k] /\ f[k] \in Nat)}
<1> SUFFICES ASSUME Bad # {}
             PROVE  FALSE
  OBVIOUS
<1>1. PICK k \in Bad : \A j \in Bad : k <= j
  <2>1. Bad \in SUBSET Nat
    OBVIOUS
  <2> QED
    BY <2>1, Least
<1>2. /\ \A j \in 0 .. n : f[j] = IF j = 0 THEN v ELSE f[j - 1] \div 256
      /\ \A j \in 0 .. m : g[j] = IF j = 0 THEN v ELSE g[j - 1] \div 256
  BY DEF Shifting
<1>3. k \in 0 .. n /\ k \in 0 .. m
  OBVIOUS
<1>4. k # 0
  BY <1>2, <1>3
<1>5. k - 1 \in 0 .. n /\ k - 1 \in 0 .. m /\ k - 1 \notin Bad
  BY <1>1, <1>3, <1>4
<1>6. f[k - 1] = g[k - 1] /\ f[k - 1] \in Nat
  BY <1>5
<1>7. f[k] = f[k - 1] \div 256 /\ g[k] = g[k - 1] \div 256
  BY <1>2, <1>3, <1>4
<1> QED
  BY <1>6, <1>7

\* ShiftBytes shifts by one more byte at a time.
LEMMA ShiftBytesStep ==
  ASSUME NEW v \in Nat, NEW n \in Nat
  PROVE  /\ ShiftBytes(v, 0) = v
         /\ ShiftBytes(v, n) \in Nat
         /\ ShiftBytes(v, n + 1) = ShiftBytes(v, n) \div 256
<1> DEFINE F(k) == CHOOSE f : Shifting(v, k, f)
<1>1. \A k \in Nat : ShiftBytes(v, k) = F(k)[k]
  BY DEF ShiftBytes, Shifting
<1>2. \A k \in Nat : Shifting(v, k, F(k))
  BY ShiftingExists
<1> HIDE DEF F
<1>3. F(0)[0] = v
  BY <1>2 DEF Shifting
<1>4. F(n)[n] \in Nat /\ F(n)[n] = F(n + 1)[n]
  BY <1>2, ShiftingUnique
<1>5. F(n + 1)[n + 1] = F(n + 1)[n] \div 256
  <2>1. Shifting(v, n + 1, F(n + 1))
    BY <1>2
  <2>2. n + 1 \in 0 .. n + 1 /\ n + 1 # 0 /\ (n + 1) - 1 = n
    OBVIOUS
  <2> QED
    BY <2>1, <2>2 DEF Shifting
<1> QED
  BY <1>1, <1>3, <1>4, <1>5

\* Reading the bytes of a number, highest first, gives the number back.
LEMMA UintOfPut ==
  ASSUME NEW width \in Nat, NEW v, IsUint(v, width)
  PROVE  Uint(PutUint(v, width)) = v
<1> DEFINE bytes == PutUint(v, width)
           Loop(f) == [k \in 0 .. width |-> IF k = 0 THEN 0 ELSE 256 * f[k - 1] + bytes[k]]
           first == CHOOSE f : f = Loop(f)
           done == [k \in 0 .. width |-> ShiftBytes(v, width - k)]
<1>1. v \in Nat /\ ShiftBytes(v, width) = 0
  BY DEF IsUint
<1>2. Len(bytes) = width
  BY DEF PutUint
<1>3. Uint(bytes) = first[width]
  <2> HIDE DEF bytes
  <2> QED
    BY <1>2 DEF Uint
<1>4. \A k \in 1 .. width :
        ShiftBytes(v, width - k) = 256 * ShiftBytes(v, width - (k - 1)) + bytes[k]
  <2> SUFFICES ASSUME NEW k \in 1 .. width
               PROVE  ShiftBytes(v, width - k) = 256 * ShiftBytes(v, width - (k - 1)) + bytes[k]
    OBVIOUS
  <2>1. /\ width - k \in Nat /\ width - (k - 1) = (width - k) + 1
        /\ bytes[k] = ShiftBytes(v, width - k) % 256
    BY DEF PutUint
  <2> HIDE DEF bytes
  <2>2. /\ ShiftBytes(v, width - k) \in Nat
        /\ ShiftBytes(v, (width - k) + 1) = ShiftBytes(v, width - k) \div 256
    BY <1>1, <2>1, ShiftBytesStep
  <2>3. \A x \in Nat : x = 256 * (x \div 256) + (x % 256)
    OBVIOUS
  <2> QED
    BY <2>1, <2>2, <2>3
<1> HIDE DEF bytes
<1>5. done = Loop(done)
  <2>1. \A k \in 0 .. width : k # 0 => k \in 1 .. width /\ k - 1 \in 0 .. width
    OBVIOUS
  <2>2. \A k \in 0 .. width : done[k] = IF k = 0 THEN 0 ELSE 256 * done[k - 1] + bytes[k]
    BY <1>1, <1>4, <2>1
  <2> QED
    BY <2>2
<1>6. first = Loop(first)
  <2> HIDE DEF done
  <2>1. \E f : f = Loop(f)
    BY <1>5
  <2> HIDE DEF Loop
  <2> QED
    BY <2>1
<1>7. \A k \in 0 .. width : first[k] = ShiftBytes(v, width - k)
  <2> HIDE DEF first
  <2>1. first[0] = 0 /\ \A k \in 1 .. width : first[k] = 256 * first[k - 1] + bytes[k]
    BY <1>6
  <2> DEFINE Bad == {k \in 0 .. width : first[k] # ShiftBytes(v, width - k)}
  <2> SUFFICES ASSUME Bad # {}
               PROVE  FALSE
    OBVIOUS
  <2>2. PICK k \in Bad : \A j \in Bad : k <= j
    <3>1. Bad \in SUBSET Nat
      OBVIOUS
    <3> QED
      BY <3>1, Least
  <2>3. k # 0
    BY <1>1, <2>1
  <2>4. k \in 1 .. width /\ k - 1 \in 0 .. width /\ k - 1 \notin Bad
    BY <2>2, <2>3
  <2>5. first[k - 1] = ShiftBytes(v, width - (k - 1))
    BY <2>4
  <2> QED
    BY <1>4, <2>1, <2>4, <2>5
<1>8. first[width] = ShiftBytes(v, 0)
  <2> HIDE DEF first
  <2> QED
    BY <1>7
<1> QED
  BY <1>1, <1>3, <1>8, ShiftBytesStep DEF bytes

-----------------------------------------------------------------------------
(* Headers.                                                                *)

\* The headers a program of any version can encode.
Headers ==
  {h \in [Version : 0 .. 15, Type : 0 .. 15, SubType : 0 .. 255, RemoteIndex : Nat, MessageCounter : Nat] :
     IsUint(h.RemoteIndex, IndexBytes) /\ IsUint(h.MessageCounter, CounterBytes)}

\* PutUint fills its width.
LEMMA PutUintType ==
  ASSUME NEW v \in Nat, NEW width \in Nat
  PROVE  PutUint(v, width) \in Seq(Nat) /\ Len(PutUint(v, width)) = width
<1>1. \A i \in 1 .. width : ShiftBytes(v, width - i) % 256 \in Nat
  <2> SUFFICES ASSUME NEW i \in 1 .. width
               PROVE  ShiftBytes(v, width - i) % 256 \in Nat
    OBVIOUS
  <2>1. width - i \in Nat
    OBVIOUS
  <2>2. ShiftBytes(v, width - i) \in Nat
    BY <2>1, ShiftBytesStep
  <2> QED
    BY <2>2
<1> QED
  BY <1>1 DEF PutUint

\* Two sequences put together.
LEMMA Joined ==
  ASSUME NEW a \in Seq(Nat), NEW b \in Seq(Nat)
  PROVE  /\ a \o b \in Seq(Nat) /\ Len(a \o b) = Len(a) + Len(b)
         /\ \A i \in 1 .. Len(a) : (a \o b)[i] = a[i]
         /\ \A i \in 1 .. Len(b) : (a \o b)[Len(a) + i] = b[i]
OBVIOUS

\* A part of a sequence, by its elements.
LEMMA SubSeqIs ==
  ASSUME NEW s \in Seq(Nat), NEW b \in Seq(Nat), NEW l \in Nat, NEW n \in Nat, l > 0,
         n + 1 = l + Len(b), n <= Len(s), \A i \in 1 .. Len(b) : s[(l + i) - 1] = b[i]
  PROVE  SubSeq(s, l, n) = b
<1>1. /\ SubSeq(s, l, n) \in Seq(Nat) /\ Len(SubSeq(s, l, n)) = Len(b)
      /\ \A i \in 1 .. Len(b) : SubSeq(s, l, n)[i] = s[(l + i) - 1]
  OBVIOUS
<1> QED
  BY <1>1

\* The parts of three sequences put together are found at their places.
LEMMA Parts ==
  ASSUME NEW a \in Seq(Nat), NEW b \in Seq(Nat), NEW c \in Seq(Nat), Len(a) = 4
  PROVE  /\ Len(a \o b \o c) = 4 + Len(b) + Len(c)
         /\ (a \o b \o c)[1] = a[1] /\ (a \o b \o c)[2] = a[2]
         /\ SubSeq(a \o b \o c, 5, 4 + Len(b)) = b
         /\ SubSeq(a \o b \o c, 5 + Len(b), 4 + Len(b) + Len(c)) = c
<1> DEFINE t == a \o b
           s == t \o c
<1>1. Len(b) \in Nat /\ Len(c) \in Nat
  OBVIOUS
<1>2. /\ t \in Seq(Nat) /\ Len(t) = 4 + Len(b)
      /\ \A i \in 1 .. 4 : t[i] = a[i]
      /\ \A i \in 1 .. Len(b) : t[4 + i] = b[i]
  <2>1. /\ t \in Seq(Nat) /\ Len(t) = Len(a) + Len(b)
        /\ \A i \in 1 .. Len(a) : t[i] = a[i]
        /\ \A i \in 1 .. Len(b) : t[Len(a) + i] = b[i]
    BY Joined
  <2> HIDE DEF t
  <2> QED
    BY <2>1
<1> HIDE DEF t
<1>3. /\ s \in Seq(Nat) /\ Len(s) = Len(t) + Len(c)
      /\ \A i \in 1 .. Len(t) : s[i] = t[i]
      /\ \A i \in 1 .. Len(c) : s[Len(t) + i] = c[i]
  BY <1>2, Joined
<1> HIDE DEF s
<1>4. s[1] = a[1] /\ s[2] = a[2]
  <2>1. 1 \in 1 .. Len(t) /\ 2 \in 1 .. Len(t) /\ 1 \in 1 .. 4 /\ 2 \in 1 .. 4
    BY <1>1, <1>2
  <2> QED
    BY <1>2, <1>3, <2>1
<1>5. \A i \in 1 .. Len(b) : s[4 + i] = b[i]
  <2> TAKE i \in 1 .. Len(b)
  <2>1. 4 + i \in 1 .. Len(t)
    BY <1>1, <1>2
  <2> QED
    BY <1>2, <1>3, <2>1
<1>6. SubSeq(s, 5, 4 + Len(b)) = b
  <2>1. /\ (4 + Len(b)) + 1 = 5 + Len(b) /\ 4 + Len(b) <= Len(s) /\ 4 + Len(b) \in Nat
        /\ \A i \in 1 .. Len(b) : (5 + i) - 1 = 4 + i
    BY <1>1, <1>2, <1>3
  <2>2. \A i \in 1 .. Len(b) : s[(5 + i) - 1] = b[i]
    BY <1>5, <2>1
  <2> QED
    BY <1>3, <2>1, <2>2, SubSeqIs
<1>7. SubSeq(s, 5 + Len(b), 4 + Len(b) + Len(c)) = c
  <2> DEFINE l == 5 + Len(b)
             n == 4 + Len(b) + Len(c)
  <2>1. /\ l \in Nat /\ n \in Nat /\ l > 0 /\ n + 1 = l + Len(c) /\ n <= Len(s)
        /\ \A i \in 1 .. Len(c) : (l + i) - 1 = Len(t) + i
    BY <1>1, <1>2, <1>3
  <2>2. \A i \in 1 .. Len(c) : s[(l + i) - 1] = c[i]
    BY <1>3, <2>1
  <2> HIDE DEF l, n
  <2>3. SubSeq(s, l, n) = c
    BY <1>3, <2>1, <2>2, SubSeqIs
  <2> QED
    BY <2>3 DEF l, n
<1> QED
  BY <1>2, <1>3, <1>4, <1>6, <1>7 DEF s, t

\* Parse undoes Bytes, and refuses exactly the headers of another version.
LEMMA ParseOfBytes ==
  ASSUME NEW h \in Headers
  PROVE  /\ Parse(Bytes(h)) = h
         /\ ParseOK(Bytes(h)) <=> h.Version = Version
<1> DEFINE a == <<((h.Version * 16) % 256) + (h.Type % 16), h.SubType, 0, 0>>
           b == PutUint(h.RemoteIndex, IndexBytes)
           c == PutUint(h.MessageCounter, CounterBytes)
<1>1. /\ h.Version \in 0 .. 15 /\ h.Type \in 0 .. 15 /\ h.SubType \in Nat
      /\ h.RemoteIndex \in Nat /\ h.MessageCounter \in Nat
      /\ IsUint(h.RemoteIndex, IndexBytes) /\ IsUint(h.MessageCounter, CounterBytes)
      /\ h = [Version |-> h.Version, Type |-> h.Type, SubType |-> h.SubType,
              RemoteIndex |-> h.RemoteIndex, MessageCounter |-> h.MessageCounter]
  BY DEF Headers
<1>2. a \in Seq(Nat) /\ Len(a) = 4 /\ a[1] = 16 * h.Version + h.Type /\ a[2] = h.SubType
  BY <1>1
<1>3. a[1] \div 16 = h.Version /\ a[1] % 16 = h.Type
  BY <1>1, <1>2
<1>4. /\ b \in Seq(Nat) /\ Len(b) = IndexBytes
      /\ c \in Seq(Nat) /\ Len(c) = CounterBytes
  BY <1>1, WidthAssumption, PutUintType
<1>5. Uint(b) = h.RemoteIndex /\ Uint(c) = h.MessageCounter
  BY <1>1, WidthAssumption, UintOfPut
<1>6. Bytes(h) = a \o b \o c
  BY DEF Bytes
<1> HIDE DEF a, b, c
<1>7. /\ Len(Bytes(h)) = HeaderLen
      /\ Bytes(h)[1] = a[1] /\ Bytes(h)[2] = a[2]
      /\ SubSeq(Bytes(h), 5, 4 + IndexBytes) = b
      /\ SubSeq(Bytes(h), 5 + IndexBytes, HeaderLen) = c
  <2>1. /\ Len(a \o b \o c) = 4 + Len(b) + Len(c)
        /\ (a \o b \o c)[1] = a[1] /\ (a \o b \o c)[2] = a[2]
        /\ SubSeq(a \o b \o c, 5, 4 + Len(b)) = b
        /\ SubSeq(a \o b \o c, 5 + Len(b), 4 + Len(b) + Len(c)) = c
    BY <1>2, <1>4, Parts
  <2> DEFINE s == a \o b \o c
  <2> HIDE DEF s
  <2> QED
    BY <1>4, <1>6, <2>1 DEF HeaderLen, s
<1>8. Parse(Bytes(h)) = h
  BY <1>1, <1>2, <1>3, <1>5, <1>7 DEF Parse
<1>9. HeaderLen >= HeaderLen
  BY WidthAssumption DEF HeaderLen
<1> QED
  BY <1>3, <1>7, <1>8, <1>9 DEF ParseOK

\* Zero is a number of every width.
LEMMA ZeroIsUint == ASSUME NEW width \in Nat PROVE IsUint(0, width)
<1> DEFINE Bad == {m \in Nat : ShiftBytes(0, m) # 0}
<1>1. Bad = {}
  <2> SUFFICES ASSUME Bad # {}
               PROVE  FALSE
    OBVIOUS
  <2>1. PICK k \in Bad : \A j \in Bad : k <= j
    <3>1. Bad \in SUBSET Nat
      OBVIOUS
    <3> QED
      BY <3>1, Least
  <2>2. k # 0
    BY ShiftBytesStep
  <2>3. k - 1 \in Nat /\ k - 1 \notin Bad /\ (k - 1) + 1 = k
    BY <2>1, <2>2
  <2>4. ShiftBytes(0, k - 1) = 0
    BY <2>3
  <2>5. ShiftBytes(0, (k - 1) + 1) = ShiftBytes(0, k - 1) \div 256
    BY <2>3, ShiftBytesStep
  <2> QED
    BY <2>3, <2>4, <2>5
<1> QED
  BY <1>1 DEF IsUint

\* The header literals of the code are headers.
LEMMA HdrType ==
  \A type \in 0 .. 15, subType \in 0 .. 255 : \A index, counter :
    IsUint(index, IndexBytes) /\ IsUint(counter, CounterBytes)
      => Hdr(type, subType, index, counter) \in Headers
<1> TAKE type \in 0 .. 15, subType \in 0 .. 255
<1> TAKE index, counter
<1> HAVE IsUint(index, IndexBytes) /\ IsUint(counter, CounterBytes)
<1>1. index \in Nat /\ counter \in Nat
  BY DEF IsUint
<1> QED
  BY <1>1 DEF Hdr, Headers, Version

-----------------------------------------------------------------------------
(* Datagrams.                                                              *)

\* A datagram carries the bytes of the header its sender encoded, or none, and
\* the index in a stage-0 has the width of an index.
Faithful(d) ==
  /\ d.bytes = << >> \/ (d.sent \in Headers /\ d.bytes = Bytes(d.sent))
  /\ IsUint(d.initiatorIndex, IndexBytes)

\* ActsOnWhatWasSent is not inductive: it follows from what travels.
WireInv == (\A d \in net : Faithful(d)) /\ ActsOnWhatWasSent

\* Datagrams that Datagram and Empty build.
LEMMA DatagramFaithful ==
  ASSUME NEW n, NEW p, NEW body
  PROVE  /\ Faithful(Empty(n, p))
         /\ \A h \in Headers : Faithful(Datagram(n, p, h, body))
         /\ \A h \in Headers : \A i : IsUint(i, IndexBytes) =>
              Faithful([Datagram(n, p, h, body) EXCEPT !.initiatorIndex = i])
<1>1. IsUint(0, IndexBytes)
  BY ZeroIsUint, WidthAssumption
<1> QED
  BY <1>1 DEF Faithful, Empty, Datagram

\* Whatever a node sends of its own accord, and what other programs send.
LEMMA SendFaithful ==
  ASSUME NEW n, NEW p, NEW d \in Initial(n, p) \cup Foreign(n, p)
  PROVE  Faithful(d)
<1>0. /\ {TypeHandshake, TypeMessage, TypeLightHouse, TypeTest, TypeCloseTunnel, 5} \subseteq 0 .. 15
      /\ {HandshakeInitiation, HandshakeResponse, 0, 2} \subseteq 0 .. 255
  BY DEF TypeHandshake, TypeMessage, TypeLightHouse, TypeTest, TypeCloseTunnel,
         HandshakeInitiation, HandshakeResponse
<1>1. IsUint(0, IndexBytes) /\ IsUint(0, CounterBytes)
  BY ZeroIsUint, WidthAssumption
<1>2. /\ \A i \in Index, c \in Counter : Hdr(TypeMessage, 0, i, c) \in Headers
      /\ Hdr(TypeHandshake, HandshakeInitiation, 0, 0) \in Headers
      /\ Hdr(TypeLightHouse, 0, 0, 0) \in Headers
  BY <1>0, <1>1, UintAssumption, HdrType
<1>3. /\ \A i \in Index : Hdr(TypeCloseTunnel, 0, i, 0) \in Headers
      /\ Hdr(TypeTest, 0, 0, 0) \in Headers /\ Hdr(5, 0, 0, 0) \in Headers
      /\ Hdr(TypeHandshake, 2, 0, 0) \in Headers
  BY <1>0, <1>1, UintAssumption, HdrType
<1>4. [Hdr(TypeTest, 0, 0, 0) EXCEPT !.Version = 2] \in Headers
  BY <1>3 DEF Headers
<1>5. CASE d \in Initial(n, p)
  BY <1>2, <1>5, UintAssumption, DatagramFaithful DEF Initial
<1>6. CASE d \in Foreign(n, p)
  BY <1>3, <1>4, <1>6, DatagramFaithful DEF Foreign
<1> QED
  BY <1>5, <1>6

\* Every answer that consumeOutsidePacket sends.
LEMMA AnswersFaithful ==
  ASSUME NEW d, Faithful(d), NEW any
  PROVE  \A a \in consumeOutsidePacket(d, any).answers : Faithful(a)
<1>0. /\ {TypeHandshake, TypeMessage, TypeLightHouse, TypeTest, TypeCloseTunnel, 5} \subseteq 0 .. 15
      /\ {HandshakeInitiation, HandshakeResponse, 0, 2} \subseteq 0 .. 255
  BY DEF TypeHandshake, TypeMessage, TypeLightHouse, TypeTest, TypeCloseTunnel,
         HandshakeInitiation, HandshakeResponse
<1>1. IsUint(0, IndexBytes) /\ IsUint(0, CounterBytes) /\ IsUint(d.initiatorIndex, IndexBytes)
  BY ZeroIsUint, WidthAssumption DEF Faithful
<1>2. /\ Hdr(TypeHandshake, HandshakeResponse, d.initiatorIndex, 0) \in Headers
      /\ Hdr(TypeLightHouse, 0, 0, 0) \in Headers
      /\ Hdr(TypeTest, 0, 0, 0) \in Headers
  BY <1>0, <1>1, HdrType
<1>3. ASSUME NEW hdr
      PROVE  /\ \A a \in handleMessage(d, hdr).answers : Faithful(a)
             /\ \A a \in handleHandshake(d, hdr, any).answers : Faithful(a)
             /\ \A a \in handleLightHouse(d, hdr).answers : Faithful(a)
             /\ \A a \in handleTest(d).answers : Faithful(a)
             /\ \A a \in handleCloseTunnel(d, hdr, any).answers : Faithful(a)
             /\ \A a \in Ignore(d).answers : Faithful(a)
  <2>1. \A a \in handleMessage(d, hdr).answers : Faithful(a)
    BY DatagramFaithful DEF handleMessage, RespondToPunch
  <2>2. \A a \in handleHandshake(d, hdr, any).answers : Faithful(a)
    BY <1>2, DatagramFaithful DEF handleHandshake
  <2>3. \A a \in handleLightHouse(d, hdr).answers : Faithful(a)
    BY <1>2, DatagramFaithful DEF handleLightHouse
  <2>4. \A a \in handleTest(d).answers : Faithful(a)
    BY <1>2, DatagramFaithful DEF handleTest
  <2> QED
    BY <2>1, <2>2, <2>3, <2>4 DEF handleCloseTunnel, Ignore
<1>4. ASSUME NEW hdr
      PROVE  \A a \in dispatch(d, hdr, any).answers : Faithful(a)
  BY <1>3 DEF dispatch, TypeMessage, TypeHandshake, TypeLightHouse, TypeTest, TypeCloseTunnel
<1> QED
  BY <1>3, <1>4 DEF consumeOutsidePacket

\* What a node takes a datagram for is what its sender encoded.
LEMMA ReceivedHeader ==
  ASSUME NEW d, Faithful(d), ParseOK(d.bytes)
  PROVE  Parse(d.bytes) = d.sent /\ d.sent.Version = Version
<1>1. d.bytes # << >>
  BY WidthAssumption DEF ParseOK, HeaderLen
<1> QED
  BY <1>1, ParseOfBytes DEF Faithful

\* WireInv is inductive.
LEMMA WireNext == WireInv /\ [Next]_vars => WireInv'
<1> SUFFICES ASSUME WireInv, [Next]_vars
             PROVE  WireInv'
  OBVIOUS
<1>1. CASE UNCHANGED vars
  BY <1>1 DEF vars, WireInv, ActsOnWhatWasSent
<1>2. ASSUME NEW n \in Node, NEW p \in Node, Send(n, p)
      PROVE  WireInv'
  BY <1>2, SendFaithful DEF Send, WireInv, ActsOnWhatWasSent
<1>3. ASSUME NEW d \in net, NEW any \in Index, Receive(d, any)
      PROVE  WireInv'
  <2>1. Faithful(d)
    BY DEF WireInv
  <2>2. net' = (net \ {d}) \cup consumeOutsidePacket(d, any).answers
    BY <1>3 DEF Receive
  <2>3. \A x \in net' : Faithful(x)
    BY <2>1, <2>2, AnswersFaithful DEF WireInv
  <2>4. /\ handled'.sent = d.sent
        /\ handled'.hdr = IF ParseOK(d.bytes) THEN Parse(d.bytes) ELSE Nothing
    BY <1>3 DEF Receive
  <2>5. ActsOnWhatWasSent'
    BY <2>1, <2>4, ReceivedHeader DEF ActsOnWhatWasSent
  <2> QED
    BY <2>3, <2>5 DEF WireInv
<1>4. ASSUME NEW d \in net, Lose(d)
      PROVE  WireInv'
  BY <1>4 DEF Lose, WireInv, ActsOnWhatWasSent
<1> QED
  BY <1>1, <1>2, <1>3, <1>4 DEF Next, Deliver

\* For every width of the two numbers, every set of indexes and counters and
\* every exchange of datagrams, a node that acts on a header acts on the one
\* that Bytes was given: Parse undoes Encode, byte by byte, whatever answers
\* answers, and no header of another version gets through.
THEOREM HeadersArriveIntact == Spec => []ActsOnWhatWasSent
<1>1. Init => WireInv
  BY DEF Init, WireInv, ActsOnWhatWasSent
<1>2. WireInv => ActsOnWhatWasSent
  BY DEF WireInv
<1> QED
  BY <1>1, <1>2, WireNext, PTL DEF Spec

=============================================================================
