------------------------------ MODULE MCTunnel ------------------------------
(***************************************************************************)
(* Two nodes that have each other's certificates, over a network that      *)
(* loses, reorders and, when Duplicates, repeats datagrams.                *)
(***************************************************************************)
EXTENDS Tunnel, TLC

CONSTANTS a, b

MCNode == {a, b}
MCPeerCerts == [n \in MCNode |-> MCNode \ {n}]
MCSymmetry == Permutations(MCNode)

=============================================================================
