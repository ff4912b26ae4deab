----------------------------- MODULE ShiftLoops -----------------------------
(***************************************************************************)
(* shiftWindow (src/hostmap.go) loop by loop: two loops rewrite the array  *)
(* in place, both from the last word down.  A word read by an iteration    *)
(* must not have been overwritten by an earlier one.                       *)
(***************************************************************************)
EXTENDS ReplayWindow

\* for i := 63; i >= 0; i--: the array after each of its iterations, the k-th
\* of which writes word NumWords - k.
MoveWords(w, wordShift) ==
  LET after[k \in 0 .. NumWords] ==
        IF k = 0 THEN w
        ELSE LET v == after[k - 1]
                 i == NumWords - k
             IN  [v EXCEPT ![i] = IF i < wordShift THEN {} ELSE v[i - wordShift]]
  IN  after[NumWords]

\* for i := 63; i > 0; i--, and the final window[0] <<= bitShift.
MoveBits(w, bitShift) ==
  LET after[k \in 0 .. NumWords - 1] ==
        IF k = 0 THEN w
        ELSE LET v == after[k - 1]
                 i == NumWords - k
             IN  [v EXCEPT ![i] = ShiftLeft(v[i], bitShift)
                                    \cup ShiftRight(v[i - 1], WordBits - bitShift)]
      carried == after[NumWords - 1]
  IN  [carried EXCEPT ![0] = ShiftLeft(carried[0], bitShift)]

\* Mutation: the first loop runs upwards and reads words it already wrote.
MoveWordsUpwards(w, n) ==
  LET wordShift == n \div WordBits
      after[k \in 0 .. NumWords] ==
        IF k = 0 THEN w
        ELSE LET v == after[k - 1]
                 i == k - 1
             IN  [v EXCEPT ![i] = IF i < wordShift THEN {} ELSE v[i - wordShift]]
  IN  IF wordShift >= NumWords THEN ZeroWindow
      ELSE IF n % WordBits > 0 THEN MoveBits(after[NumWords], n % WordBits)
      ELSE after[NumWords]

shiftWindowLoops(w, n) ==
  LET moved == MoveWords(w, n \div WordBits)
  IN  IF n \div WordBits >= NumWords THEN ZeroWindow
      ELSE IF n % WordBits > 0 THEN MoveBits(moved, n % WordBits) ELSE moved

\* On every window CheckReplay can build and for every distance, the in-place
\* loops compute the function shiftWindow of ReplayBits, which the
\* specification of CheckReplay uses and the proofs are about.
LoopsComputeShiftWindow ==
  \A n \in 0 .. replayWindowSize + WordBits :
    shiftWindowLoops(window, n) = shiftWindow(window, n)

=============================================================================
