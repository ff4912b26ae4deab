------------------------------- MODULE Header -------------------------------
(***************************************************************************)
(* The packet header of src/header/header.go: one byte with the version    *)
(* and the type in its two halves, the subtype, two reserved bytes and two *)
(* big-endian numbers, of 4 and 8 bytes in the code.                       *)
(***************************************************************************)
EXTENDS Integers, Sequences

CONSTANTS
  IndexBytes,     \* bytes of RemoteIndex: 4
  CounterBytes    \* bytes of MessageCounter: 8

ASSUME WidthAssumption == IndexBytes \in Nat \ {0} /\ CounterBytes \in Nat \ {0}

Version == 1
HeaderLen == 4 + IndexBytes + CounterBytes

TypeHandshake == 0
TypeMessage == 1
TypeLightHouse == 2
TypeTest == 3
TypeCloseTunnel == 4

HandshakeInitiation == 0
HandshakeResponse == 1

\* A header literal: the fields it does not name are zero.
Hdr(type, subType, index, counter) ==
  [Version |-> Version, Type |-> type, SubType |-> subType,
   RemoteIndex |-> index, MessageCounter |-> counter]

\* v >> (8 * n), a byte at a time.
ShiftBytes(v, n) ==
  LET rest[k \in 0 .. n] == IF k = 0 THEN v ELSE rest[k - 1] \div 256
  IN  rest[n]

\* The numbers of a width in bytes: uint32 and uint64.
IsUint(v, width) == v \in Nat /\ ShiftBytes(v, width) = 0

\* binary.BigEndian.PutUint32 and PutUint64.
PutUint(v, width) == [i \in 1 .. width |-> ShiftBytes(v, width - i) % 256]

\* Mutation: the bytes are read in the other order.
UintLittle(bytes) ==
  LET first[k \in 0 .. Len(bytes)] ==
        IF k = 0 THEN 0 ELSE 256 * first[k - 1] + bytes[Len(bytes) + 1 - k]
  IN  first[Len(bytes)]

\* binary.BigEndian.Uint32 and Uint64: the number in the first k bytes.
Uint(bytes) ==
  LET first[k \in 0 .. Len(bytes)] == IF k = 0 THEN 0 ELSE 256 * first[k - 1] + bytes[k]
  IN  first[Len(bytes)]

\* Bytes, with Encode.
Bytes(h) ==
  <<((h.Version * 16) % 256) + (h.Type % 16), h.SubType, 0, 0>>
    \o PutUint(h.RemoteIndex, IndexBytes) \o PutUint(h.MessageCounter, CounterBytes)

\* Parse returns no error.
ParseOK(buf) == Len(buf) >= HeaderLen /\ buf[1] \div 16 = Version

Parse(buf) ==
  [Version |-> buf[1] \div 16, Type |-> buf[1] % 16, SubType |-> buf[2],
   RemoteIndex |-> Uint(SubSeq(buf, 5, 4 + IndexBytes)),
   MessageCounter |-> Uint(SubSeq(buf, 5 + IndexBytes, HeaderLen))]

=============================================================================
