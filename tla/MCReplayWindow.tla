--------------------------- MODULE MCReplayWindow ---------------------------
(***************************************************************************)
(* ReplayWindow with 3 words of 2 bits, a window of 6 counters.  Counters  *)
(* up to 12 give jumps of every length from 1 to twice the window:         *)
(* shifts inside a word, across words, by whole words, and clears.         *)
(***************************************************************************)
EXTENDS ShiftLoops

MCCounters == 0 .. 12

=============================================================================
