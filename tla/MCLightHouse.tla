---------------------------- MODULE MCLightHouse ----------------------------
(***************************************************************************)
(* A lighthouse and three nodes.  b has two addresses and sends from one   *)
(* of them; c is behind a NAT, so that others see an address which it does *)
(* not advertise.  The nodes know the lighthouse; it knows the address     *)
(* each of them sends from, as in src/e2e/lighthouse_test.go, or none, as  *)
(* in src/README.md:109-150.  a opens connections to b, and c to a.        *)
(***************************************************************************)
EXTENDS LightHouse

CONSTANTS lh, a, b, c

MCNode == {lh, a, b, c}
MCAddr == {"lh1", "a1", "b1", "b2", "c1", "c2"}
MCOwner ==
  [x \in MCAddr |-> CASE x = "lh1" -> lh [] x = "a1" -> a [] x \in {"b1", "b2"} -> b [] OTHER -> c]
MCPrivate == {"c2"}
MCSource == [n \in MCNode |-> CASE n = lh -> "lh1" [] n = a -> "a1" [] n = b -> "b1" [] n = c -> "c1"]
MCLocal ==
  [n \in MCNode |-> CASE n = b -> <<"b2", "b1">> [] n = c -> <<"c2">> [] OTHER -> <<MCSource[n]>>]
MCLighthouses == {lh}
MCHosts == [n \in MCNode |-> IF n = lh THEN << >> ELSE <<lh>>]
MCPeersDir == [n \in MCNode |-> CASE n = a -> {b} [] n = c -> {a} [] OTHER -> {}]
MCAdmitted == {<<a, b>>, <<c, a>>}

StaticBothWays ==
  [n \in MCNode |-> [p \in MCNode |->
     IF n # p /\ (n = lh \/ p = lh) THEN <<MCSource[p]>> ELSE << >>]]

StaticOfNodesOnly ==
  [n \in MCNode |-> [p \in MCNode |->
     IF n # lh /\ p = lh THEN <<MCSource[p]>> ELSE << >>]]

=============================================================================
