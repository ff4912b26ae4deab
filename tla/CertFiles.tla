------------------------------ MODULE CertFiles ------------------------------
(***************************************************************************)
(* Certificates (src/cert/) and the files neth-cert keeps them in          *)
(* (src/cmd/neth-cert/main.go).  A command writes a certificate and then   *)
(* its key, each with os.WriteFile: the file is emptied first, and whoever *)
(* reads it before the write is complete, or after the command was         *)
(* stopped, finds no PEM block.                                            *)
(*                                                                         *)
(* A key pair is a number, which stands for the public and the private     *)
(* half.  A certificate names its own key and the key that signed it.      *)
(***************************************************************************)
EXTENDS Integers, Sequences

CONSTANTS
  Nodes,        \* the names given to neth-cert sign
  VpnIPs,       \* the prefixes given to neth-cert sign for each: [addr, bits, is4]
  Durations,    \* the durations given to neth-cert
  MaxKeys,      \* bound: key pairs generated
  MaxTime       \* bound: the clock

ASSUME VpnIPsAssumption == DOMAIN VpnIPs = Nodes
ASSUME DurationsAssumption == Durations \subseteq Nat
ASSUME KeysAssumption == MaxKeys \in Nat /\ MaxTime \in Nat

CA == "ca"
ASSUME NamesAssumption == CA \notin Nodes

Paths == ({CA} \cup Nodes) \X {"crt", "key"}

VARIABLES
  files,   \* the content of each file
  tool,    \* what the running command has yet to write; none runs when empty
  keys,    \* key pairs generated so far
  now

certVars == <<files, tool, keys, now>>

Absent == [type |-> "absent"]
Torn == [type |-> "torn"]

NoIP == [addr |-> 0, bits |-> 0, is4 |-> FALSE]

\* MarshalEd25519PrivateKey and MarshalX25519PrivateKey; the Parse functions
\* refuse the other kind.
KeyFile(type, k) == [type |-> type, key |-> k]

\* GenerateCA.
GenerateCA(k, duration) ==
  [type |-> "cert", isCA |-> TRUE, key |-> k, signer |-> k,
   vpnIP |-> NoIP, notBefore |-> now, notAfter |-> now + duration]

\* Certificate.Sign.
Sign(caKey, k, ip, duration) ==
  [type |-> "cert", isCA |-> FALSE, key |-> k, signer |-> caKey,
   vpnIP |-> ip, notBefore |-> now, notAfter |-> now + duration]

\* Parse succeeds.
IsCert(content) == content.type = "cert"

InTime(c, t) == c.notBefore <= t /\ t <= c.notAfter

\* VerifyCA.
VerifyCA(ca, t) == ca.isCA /\ InTime(ca, t)

\* Verify with one CA: x509 checks the signature and both validities.
Verify(c, ca, t) ==
  /\ ~ c.isCA
  /\ c.signer = ca.key
  /\ InTime(c, t) /\ InTime(ca, t)

CertInit ==
  /\ files = [p \in Paths |-> Absent]
  /\ tool = << >>
  /\ keys = 0
  /\ now = 0

-----------------------------------------------------------------------------
Idle == tool = << >>

\* The two writeFile calls of cmdCA and of cmdSign, still to be made.
Write(name, crt, key) ==
  << [path |-> <<name, "crt">>, content |-> crt], [path |-> <<name, "key">>, content |-> key] >>

NewKey == keys < MaxKeys /\ keys' = keys + 1

cmdCA(duration) ==
  /\ Idle /\ NewKey
  /\ tool' = Write(CA, GenerateCA(keys + 1, duration), KeyFile("ed25519", keys + 1))
  /\ UNCHANGED <<files, now>>

\* cmdSign.  A command that stops with an error before it writes changes
\* nothing; the validity of the CA certificate is not looked at.
cmdSign(name, ip, duration) ==
  LET ca == files[<<CA, "crt">>]
      caKey == files[<<CA, "key">>]
  IN  /\ Idle /\ NewKey
      /\ IsCert(ca) /\ ca.isCA
      /\ caKey.type = "ed25519" /\ caKey.key = ca.key
      /\ tool' = Write(name, Sign(caKey.key, keys + 1, ip, duration), KeyFile("x25519", keys + 1))
      /\ UNCHANGED <<files, now>>

\* os.WriteFile opens the file with O_TRUNC ...
Truncate ==
  /\ ~ Idle /\ files[Head(tool).path] # Torn
  /\ files' = [files EXCEPT ![Head(tool).path] = Torn]
  /\ UNCHANGED <<tool, keys, now>>

\* ... and then writes.
Fill ==
  /\ ~ Idle /\ files[Head(tool).path] = Torn
  /\ files' = [files EXCEPT ![Head(tool).path] = Head(tool).content]
  /\ tool' = Tail(tool)
  /\ UNCHANGED <<keys, now>>

\* A write fails, or the command is interrupted.
ToolStops ==
  /\ ~ Idle
  /\ tool' = << >>
  /\ UNCHANGED <<files, keys, now>>

Tick ==
  /\ now < MaxTime
  /\ now' = now + 1
  /\ UNCHANGED <<files, tool, keys>>

NethCert ==
  \/ \E d \in Durations : cmdCA(d)
  \/ \E name \in Nodes, d \in Durations : \E ip \in VpnIPs[name] : cmdSign(name, ip, d)
  \/ Truncate \/ Fill \/ ToolStops

=============================================================================
