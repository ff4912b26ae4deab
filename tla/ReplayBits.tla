----------------------------- MODULE ReplayBits -----------------------------
(***************************************************************************)
(* The replay bitmap of HostInfo (src/hostmap.go): NumWords words of       *)
(* WordBits bits, 64 and 64 in the code.  A word is the set of its bits    *)
(* that are 1, so |, <<, >> and & are set operations and a bit shifted out *)
(* of the word is gone, as in a uint64.  Bit p of the bitmap is bit        *)
(* p % WordBits of word p / WordBits and stands for counter windowEnd - p. *)
(***************************************************************************)
EXTENDS Integers

CONSTANTS
  WordBits,   \* bits of one word: 64 for uint64
  NumWords    \* words of the bitmap: 64 in [64]uint64

ASSUME WordBitsAssumption == WordBits \in Nat \ {0}
ASSUME NumWordsAssumption == NumWords \in Nat \ {0}

Positions == 0 .. WordBits - 1
Words == 0 .. NumWords - 1
Bitmaps == [Words -> SUBSET Positions]

replayWindowSize == NumWords * WordBits

ZeroWindow == [i \in Words |-> {}]

Bit(w, p) == (p % WordBits) \in w[p \div WordBits]

SetBit(w, p) == [w EXCEPT ![p \div WordBits] = @ \cup {p % WordBits}]

ShiftLeft(word, k) == {b \in Positions : b - k \in word}

ShiftRight(word, k) == {b \in Positions : b + k \in word}

(***************************************************************************)
(* The first loop of shiftWindow moves whole words, the second one moves   *)
(* bits and carries the high bits of word i-1 into word i.  Both loops run *)
(* from the last word down in place; ShiftLoops runs them one after the  *)
(* other in place, and they compute these functions.                       *)
(***************************************************************************)
ShiftWords(w, wordShift) ==
  [i \in Words |-> IF i < wordShift THEN {} ELSE w[i - wordShift]]

CarryBits(w, bitShift) ==
  [i \in Words |->
     ShiftLeft(w[i], bitShift)
       \cup (IF i = 0 THEN {} ELSE ShiftRight(w[i - 1], WordBits - bitShift))]

\* Mutation: the second loop forgets the bits carried from the word below.
ShiftWindowNoCarry(w, n) ==
  LET shifted == ShiftWords(w, n \div WordBits)
  IN  [i \in Words |-> ShiftLeft(shifted[i], n % WordBits)]

shiftWindow(w, n) ==
  LET wordShift == n \div WordBits
      bitShift  == n % WordBits
      shifted   == ShiftWords(w, wordShift)
  IN  IF wordShift >= NumWords THEN ZeroWindow
      ELSE IF bitShift > 0 THEN CarryBits(shifted, bitShift)
      ELSE shifted

=============================================================================
