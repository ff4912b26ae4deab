---------------------------- MODULE ReplayFilter ----------------------------
(***************************************************************************)
(* What the replay check of a session promises: it remembers every counter *)
(* it has let through, lets a counter through exactly when it is new and   *)
(* no more than WindowSize - 1 behind the highest one, and answers replay  *)
(* otherwise.  ReplayWindow implements this with a bitmap of fixed size.   *)
(***************************************************************************)
EXTENDS Integers

CONSTANTS
  Counters,     \* the message counters that may arrive
  WindowSize    \* how far behind the highest counter one may lag

VARIABLES
  highest,      \* highest counter let through, 0 before the first
  passed,       \* the counters let through so far
  reply         \* the last call: its counter and its answer

filterVars == <<highest, passed, reply>>

NoReply == [counter |-> -1, replay |-> FALSE]

Init ==
  /\ highest = 0
  /\ passed = {}
  /\ reply = NoReply

Fresh(counter) ==
  \/ counter > highest
  \/ highest - counter < WindowSize /\ counter \notin passed

Pass(counter) ==
  /\ Fresh(counter)
  /\ highest' = IF counter > highest THEN counter ELSE highest
  /\ passed' = passed \cup {counter}
  /\ reply' = [counter |-> counter, replay |-> FALSE]

Refuse(counter) ==
  /\ ~ Fresh(counter)
  /\ reply' = [counter |-> counter, replay |-> TRUE]
  /\ UNCHANGED <<highest, passed>>

Next == \E counter \in Counters : Pass(counter) \/ Refuse(counter)

Spec == Init /\ [][Next]_filterVars

=============================================================================
