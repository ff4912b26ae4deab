------------------------- MODULE MCHandshakeManager -------------------------
(***************************************************************************)
(* HandshakeManager for two peers, with two indexes so that they collide,  *)
(* and delays of 1, 4 and 5 ticks, the last of them capped.                *)
(***************************************************************************)
EXTENDS HandshakeManager

CONSTANTS a, b

TwoPeers == {a, b}

=============================================================================
