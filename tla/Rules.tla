-------------------------------- MODULE Rules --------------------------------
(***************************************************************************)
(* Firewall rules: the text of a rule in the configuration, ParseRule      *)
(* (src/firewall/rule.go) and matches (src/firewall/firewall.go).          *)
(*                                                                         *)
(* A text is the word in it, whether it is in upper case and whether there *)
(* is space around it; the word "number" carries a number n, the word      *)
(* "prefix" an address and a length.  Addresses have AddrBits bits, 32 in  *)
(* the code.                                                               *)
(***************************************************************************)
EXTENDS Integers

CONSTANTS
  AddrBits,    \* bits of an IPv4 address: 32
  MaxPort      \* the largest uint16: 65535

ASSUME AddrAssumption == AddrBits \in Nat \ {0} /\ MaxPort \in Nat

Word(w) == [word |-> w, upper |-> FALSE, pad |-> FALSE]
Number(n) == [word |-> "number", upper |-> FALSE, pad |-> FALSE, n |-> n]
Prefix(addr, bits) ==
  [word |-> "prefix", upper |-> FALSE, pad |-> FALSE, addr |-> addr, bits |-> bits]

\* The texts and the rules a configuration may have.
Texts ==
  [word : STRING \ {"number", "prefix"}, upper : BOOLEAN, pad : BOOLEAN]
    \cup [word : {"number"}, upper : BOOLEAN, pad : BOOLEAN, n : Nat]
    \cup [word : {"prefix"}, upper : BOOLEAN, pad : BOOLEAN,
          addr : 0 .. 2 ^ AddrBits - 1, bits : Nat]
RuleTexts == [Proto : Texts, Port : Texts, Group : Texts, CIDR : Texts]

\* The zero value of the compiled rule's fields.
NoGroup == Word("")
NoCIDR == [addr |-> 0, bits |-> 0]

\* "" or "any" after TrimSpace and ToLower.
IsWild(t) == t.word \in {"", "any"}

\* The group is trimmed for the comparison only, and "ANY" names a group.
IsWildGroup(t) == t.word = "" \/ (t.word = "any" /\ ~ t.upper)

ProtoOK(t) == IsWild(t) \/ t.word \in {"tcp", "udp", "icmp"}

\* Mutation: the port is read with 32 bits and converted to uint16.
PortOKWide(t) == IsWild(t) \/ (t.word = "number" /\ ~ t.pad)

\* ParseUint(r.Port, 10, 16) reads the text as it stands.
PortOK(t) == IsWild(t) \/ (t.word = "number" /\ ~ t.pad /\ t.n <= MaxPort)

\* ParsePrefix too.
CIDROK(t) == IsWild(t) \/ (t.word = "prefix" /\ ~ t.pad /\ t.bits <= AddrBits)

\* ParseRule returns no error.
RuleOK(r) == ProtoOK(r.Proto) /\ PortOK(r.Port) /\ CIDROK(r.CIDR)

\* What shifting an address right by these bits leaves is its network.
HostSize(bits) == 2 ^ (AddrBits - bits)

Masked(p) == [addr |-> p.addr - (p.addr % HostSize(p.bits)), bits |-> p.bits]

ParseRule(r) ==
  [Proto    |-> IF IsWild(r.Proto) THEN "any" ELSE r.Proto.word,
   PortAny  |-> IsWild(r.Port),
   Port     |-> IF IsWild(r.Port) THEN 0 ELSE r.Port.n % (MaxPort + 1),
   GroupAny |-> IsWildGroup(r.Group),
   Group    |-> IF IsWildGroup(r.Group) THEN NoGroup ELSE r.Group,
   CIDAny   |-> IsWild(r.CIDR),
   CIDR     |-> IF IsWild(r.CIDR) THEN NoCIDR ELSE Masked(r.CIDR)]

Contains(p, addr) == p.addr \div HostSize(p.bits) = addr \div HostSize(p.bits)

\* groups are the texts in the remote's certificate.
matches(r, remote, groups, port, proto) ==
  /\ r.Proto = "any" \/ r.Proto = proto
  /\ r.PortAny \/ r.Port = port
  /\ r.GroupAny \/ r.Group \in groups
  /\ r.CIDAny \/ Contains(r.CIDR, remote)

=============================================================================
