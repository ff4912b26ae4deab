------------------------------- MODULE MCWire -------------------------------
(***************************************************************************)
(* Two nodes, indexes of 2 bytes and counters of 3, with values on either  *)
(* side of the byte boundaries and at the top; a knows the address of b.   *)
(***************************************************************************)
EXTENDS Wire

MCKnown == [a |-> {"b"}, b |-> {}]

=============================================================================
