------------------------- MODULE ReplayWindowProofs -------------------------
(***************************************************************************)
(* Proofs about HostInfo.CheckReplay for every word size, every number of  *)
(* words and every set of counters, and about the loops of shiftWindow.    *)
(***************************************************************************)
EXTENDS ShiftLoops, TLAPS, WellFoundedInduction

USE WordBitsAssumption, NumWordsAssumption

\* A position is its word times the word size plus its bit in that word.
LEMMA DivMod ==
  ASSUME NEW p \in Nat
  PROVE  /\ p \div WordBits \in Nat
         /\ p % WordBits \in Positions
         /\ p = WordBits * (p \div WordBits) + (p % WordBits)
  BY DEF Positions

\* The word and the bit of a position are determined by that equation.
LEMMA DivModUnique ==
  ASSUME NEW q \in Nat, NEW r \in Positions
  PROVE  /\ (WordBits * q + r) \div WordBits = q
         /\ (WordBits * q + r) % WordBits = r
  BY DEF Positions

\* A position inside the window lies in one of its words.
LEMMA WordInRange ==
  ASSUME NEW p \in 0 .. replayWindowSize - 1
  PROVE  p \div WordBits \in Words
<1> DEFINE q == p \div WordBits
<1>1. p \in Nat /\ p < NumWords * WordBits
  BY DEF replayWindowSize
<1>2. q \in Nat /\ WordBits * q <= p
  BY <1>1, DivMod DEF Positions
<1>3. ~ q >= NumWords
  <2> SUFFICES ASSUME q >= NumWords
               PROVE  FALSE
    OBVIOUS
  <2> HIDE DEF q
  <2>1. WordBits * q >= WordBits * NumWords
    BY <1>2
  <2> QED
    BY <1>1, <1>2, <2>1
<1> QED
  BY <1>2, <1>3 DEF Words

\* The difference of two positions, by word and bit: without a borrow when the
\* bit of the larger one is not smaller, with a borrow otherwise.
LEMMA Difference ==
  ASSUME NEW p \in Nat, NEW n \in Nat
  PROVE  LET q == p \div WordBits  r == p % WordBits
             ws == n \div WordBits bs == n % WordBits
         IN  /\ r >= bs => /\ p >= n <=> q >= ws
                           /\ q >= ws => /\ (p - n) \div WordBits = q - ws
                                         /\ (p - n) % WordBits = r - bs
             /\ r < bs  => /\ p >= n <=> q >= ws + 1
                           /\ q >= ws + 1 =>
                                /\ (p - n) \div WordBits = q - ws - 1
                                /\ (p - n) % WordBits = WordBits + r - bs
<1> DEFINE q == p \div WordBits
           r == p % WordBits
           ws == n \div WordBits
           bs == n % WordBits
<1>1. /\ q \in Nat /\ ws \in Nat /\ r \in Positions /\ bs \in Positions
      /\ p = WordBits * q + r /\ n = WordBits * ws + bs
  BY DivMod
<1> SUFFICES /\ r >= bs => /\ p >= n <=> q >= ws
                           /\ q >= ws => /\ (p - n) \div WordBits = q - ws
                                         /\ (p - n) % WordBits = r - bs
             /\ r < bs  => /\ p >= n <=> q >= ws + 1
                           /\ q >= ws + 1 =>
                                /\ (p - n) \div WordBits = q - ws - 1
                                /\ (p - n) % WordBits = WordBits + r - bs
  OBVIOUS
<1> HIDE DEF q, r, ws, bs
<1>2. ASSUME NEW d \in Nat, q = ws + d
      PROVE  WordBits * q = WordBits * ws + WordBits * d /\ WordBits * d \in Nat
  BY <1>1, <1>2
<1>3. ASSUME q < ws PROVE WordBits * q + WordBits <= WordBits * ws
  <2>1. WordBits * (q + 1) <= WordBits * ws
    BY <1>1, <1>3
  <2> QED
    BY <1>1, <2>1
<1>4. WordBits * q \in Nat /\ WordBits * ws \in Nat
  BY <1>1
<1>5. CASE r >= bs
  <2>1. ASSUME q >= ws
        PROVE  p >= n /\ (p - n) \div WordBits = q - ws /\ (p - n) % WordBits = r - bs
    <3>1. q - ws \in Nat /\ r - bs \in Positions /\ q = ws + (q - ws)
      BY <1>1, <1>5, <2>1 DEF Positions
    <3>2. WordBits * q = WordBits * ws + WordBits * (q - ws) /\ WordBits * (q - ws) \in Nat
      BY <1>2, <3>1
    <3>3. p >= n /\ p - n = WordBits * (q - ws) + (r - bs)
      BY <1>1, <1>4, <1>5, <3>2 DEF Positions
    <3> QED
      BY <3>1, <3>3, DivModUnique
  <2>2. ASSUME q < ws PROVE ~ p >= n
    BY <1>1, <1>3, <1>4, <2>2 DEF Positions
  <2> QED
    BY <1>1, <1>5, <2>1, <2>2 DEF Positions
<1>6. CASE r < bs
  <2>1. ASSUME q >= ws + 1
        PROVE  /\ p >= n /\ (p - n) \div WordBits = q - ws - 1
               /\ (p - n) % WordBits = WordBits + r - bs
    <3>1. /\ q - ws - 1 \in Nat /\ WordBits + r - bs \in Positions
          /\ q - ws \in Nat /\ q = ws + (q - ws) /\ q - ws = 1 + (q - ws - 1)
      BY <1>1, <1>6, <2>1 DEF Positions
    <3>2. WordBits * q = WordBits * ws + WordBits * (q - ws)
      BY <1>2, <3>1
    <3>3. WordBits * (q - ws) = WordBits + WordBits * (q - ws - 1)
          /\ WordBits * (q - ws - 1) \in Nat
      BY <3>1
    <3>4. p >= n /\ p - n = WordBits * (q - ws - 1) + (WordBits + r - bs)
      BY <1>1, <1>4, <1>6, <3>2, <3>3 DEF Positions
    <3> QED
      BY <3>1, <3>4, DivModUnique
  <2>2. ASSUME q < ws PROVE ~ p >= n
    BY <1>1, <1>3, <1>4, <2>2 DEF Positions
  <2>3. ASSUME q = ws PROVE ~ p >= n
    BY <1>1, <1>4, <1>6, <2>3 DEF Positions
  <2> QED
    BY <1>1, <1>6, <2>1, <2>2, <2>3 DEF Positions
<1> QED
  BY <1>1, <1>5, <1>6 DEF Positions

-----------------------------------------------------------------------------
(* What the operations on the bitmap do, position by position.             *)

\* Setting a bit changes that position and no other.
LEMMA SetBitBit ==
  ASSUME NEW w \in Bitmaps,
         NEW p \in 0 .. replayWindowSize - 1, NEW q \in 0 .. replayWindowSize - 1
  PROVE  /\ SetBit(w, q) \in Bitmaps
         /\ Bit(SetBit(w, q), p) <=> p = q \/ Bit(w, p)
<1>1. p \in Nat /\ q \in Nat
  BY DEF replayWindowSize
<1>2. p \div WordBits \in Words /\ q \div WordBits \in Words
  BY WordInRange
<1>3. p % WordBits \in Positions /\ q % WordBits \in Positions
  BY <1>1, DivMod
<1>4. p \div WordBits = q \div WordBits /\ p % WordBits = q % WordBits => p = q
  <2>1. /\ p = WordBits * (p \div WordBits) + (p % WordBits)
        /\ q = WordBits * (q \div WordBits) + (q % WordBits)
    BY <1>1, DivMod
  <2> QED
    BY <2>1
<1> DEFINE pw == p \div WordBits
           pb == p % WordBits
           qw == q \div WordBits
           qb == q % WordBits
<1>5. p = q => pw = qw /\ pb = qb
  OBVIOUS
<1> HIDE DEF pw, pb, qw, qb
<1>6. [w EXCEPT ![qw] = @ \cup {qb}] \in Bitmaps
  BY <1>2, <1>3 DEF Bitmaps, qw, qb
<1>7. pb \in [w EXCEPT ![qw] = @ \cup {qb}][pw] <=> (pw = qw /\ pb = qb) \/ pb \in w[pw]
  BY <1>2 DEF Bitmaps, pw, qw
<1> QED
  BY <1>4, <1>5, <1>6, <1>7 DEF Bit, SetBit, pw, pb, qw, qb

\* The cleared bitmap has no bit set.
LEMMA ZeroBit ==
  ASSUME NEW p \in 0 .. replayWindowSize - 1
  PROVE  ZeroWindow \in Bitmaps /\ ~ Bit(ZeroWindow, p)
  BY WordInRange DEF ZeroWindow, Bit, Bitmaps

\* shiftWindow moves every bit n positions towards older counters: position p
\* holds what position p - n held, and the n youngest positions are empty.
LEMMA ShiftBit ==
  ASSUME NEW w \in Bitmaps,
         NEW n \in 0 .. replayWindowSize - 1, NEW p \in 0 .. replayWindowSize - 1
  PROVE  /\ shiftWindow(w, n) \in Bitmaps
         /\ Bit(shiftWindow(w, n), p) <=> p >= n /\ Bit(w, p - n)
<1> DEFINE q == p \div WordBits
           r == p % WordBits
           ws == n \div WordBits
           bs == n % WordBits
           moved == ShiftWords(w, ws)
<1>1. p \in Nat /\ n \in Nat
  BY DEF replayWindowSize
<1>2. q \in Words /\ ws \in Words /\ q \in Nat /\ ws \in Nat
  BY <1>1, WordInRange, DivMod
<1>3. /\ r \in Positions /\ bs \in Positions
      /\ p = WordBits * q + r /\ n = WordBits * ws + bs
  BY <1>1, DivMod
<1>4. shiftWindow(w, n) = IF bs > 0 THEN CarryBits(moved, bs) ELSE moved
  BY <1>2 DEF shiftWindow, Words
<1>5. Bit(shiftWindow(w, n), p) <=> r \in shiftWindow(w, n)[q]
  BY DEF Bit
<1>6. Bit(w, p - n) <=> ((p - n) % WordBits) \in w[(p - n) \div WordBits]
  BY DEF Bit
<1>D. /\ r >= bs => /\ p >= n <=> q >= ws
                    /\ q >= ws => /\ (p - n) \div WordBits = q - ws
                                  /\ (p - n) % WordBits = r - bs
      /\ r < bs  => /\ p >= n <=> q >= ws + 1
                    /\ q >= ws + 1 =>
                         /\ (p - n) \div WordBits = q - ws - 1
                         /\ (p - n) % WordBits = WordBits + r - bs
  BY <1>1, Difference
<1> HIDE DEF q, r, ws, bs
<1>7. moved \in Bitmaps
  BY <1>2 DEF ShiftWords, Bitmaps, Words
<1>8. \A i \in Words : moved[i] = IF i < ws THEN {} ELSE w[i - ws]
  BY DEF ShiftWords
<1> HIDE DEF moved
<1>9. shiftWindow(w, n) \in Bitmaps
  <2>1. CarryBits(moved, bs) \in Bitmaps
    BY DEF CarryBits, Bitmaps, ShiftLeft, ShiftRight
  <2> QED
    BY <1>4, <1>7, <2>1
<1>10. r \in shiftWindow(w, n)[q] <=>
         \/ r - bs \in moved[q]
         \/ bs > 0 /\ q > 0 /\ r + (WordBits - bs) \in moved[q - 1]
  <2>1. CASE bs > 0
    <3>1. shiftWindow(w, n)[q] =
            ShiftLeft(moved[q], bs)
              \cup (IF q = 0 THEN {} ELSE ShiftRight(moved[q - 1], WordBits - bs))
      BY <1>2, <1>4, <2>1 DEF CarryBits
    <3>2. r \in ShiftLeft(moved[q], bs) <=> r - bs \in moved[q]
      BY <1>3 DEF ShiftLeft
    <3>3. r \in ShiftRight(moved[q - 1], WordBits - bs)
            <=> r + (WordBits - bs) \in moved[q - 1]
      BY <1>3 DEF ShiftRight
    <3>4. q = 0 \/ q > 0
      BY <1>2
    <3> QED
      BY <1>2, <2>1, <3>1, <3>2, <3>3, <3>4
  <2>2. CASE bs = 0
    <3>1. shiftWindow(w, n)[q] = moved[q]
      BY <1>4, <2>2
    <3>2. r - bs = r
      BY <1>3, <2>2 DEF Positions
    <3> QED
      BY <2>2, <3>1, <3>2
  <2> QED
    BY <1>3, <2>1, <2>2 DEF Positions
<1>11. CASE r >= bs
  <2>1. r - bs \in Positions /\ r + (WordBits - bs) \notin Positions
    BY <1>3, <1>11 DEF Positions
  <2>2. q > 0 => q - 1 \in Words
    BY <1>2 DEF Words
  <2>3. r \in shiftWindow(w, n)[q] <=> q >= ws /\ r - bs \in w[q - ws]
    <3>1. q > 0 => r + (WordBits - bs) \notin moved[q - 1]
      BY <1>7, <2>1, <2>2 DEF Bitmaps
    <3>2. r \in shiftWindow(w, n)[q] <=> r - bs \in moved[q]
      BY <1>10, <3>1
    <3>3. moved[q] = IF q < ws THEN {} ELSE w[q - ws]
      BY <1>2, <1>8
    <3>4. q < ws <=> ~ (q >= ws)
      BY <1>2
    <3> QED
      BY <3>2, <3>3, <3>4
  <2> QED
    BY <1>5, <1>6, <1>9, <1>D, <1>11, <2>3
<1>12. CASE r < bs
  <2>1. WordBits + r - bs \in Positions /\ r - bs \notin Positions /\ bs > 0
        /\ r + (WordBits - bs) = WordBits + r - bs
    BY <1>3, <1>12 DEF Positions
  <2>2. q > 0 => q - 1 \in Words /\ q - 1 - ws = q - ws - 1
    BY <1>2 DEF Words
  <2>3. r \in shiftWindow(w, n)[q] <=> q >= ws + 1 /\ WordBits + r - bs \in w[q - ws - 1]
    <3>1. r - bs \notin moved[q]
      BY <1>2, <1>7, <2>1 DEF Bitmaps
    <3>2. r \in shiftWindow(w, n)[q] <=> q > 0 /\ WordBits + r - bs \in moved[q - 1]
      BY <1>10, <2>1, <3>1
    <3>3. q > 0 => moved[q - 1] = IF q - 1 < ws THEN {} ELSE w[q - ws - 1]
      BY <1>8, <2>2
    <3>4. /\ q > 0 => (q - 1 < ws <=> ~ (q >= ws + 1))
          /\ q >= ws + 1 => q > 0
      BY <1>2
    <3> QED
      BY <3>2, <3>3, <3>4
  <2> QED
    BY <1>5, <1>6, <1>9, <1>D, <1>12, <2>3
<1> QED
  BY <1>3, <1>11, <1>12 DEF Positions

-----------------------------------------------------------------------------
(* The inductive invariant: the bitmap tells exactly which counters were   *)
(* accepted, and none was accepted twice.                                  *)

IInv == TypeOK /\ WindowExact /\ AcceptedAtMostOnce

\* The empty window and the zero counts satisfy the invariant.
LEMMA InitIInv == Init => IInv
<1> SUFFICES ASSUME Init PROVE IInv
  OBVIOUS
<1>1. TypeOK
  BY DEF Init, TypeOK, Replies, NoReply, ZeroWindow, Bitmaps
<1>2. WindowExact
  BY ZeroBit DEF Init, WindowExact
<1>3. AcceptedAtMostOnce
  BY DEF Init, AcceptedAtMostOnce
<1> QED
  BY <1>1, <1>2, <1>3 DEF IInv

\* A counter above the window slides it; every older bit keeps its counter.
LEMMA AdvanceIInv ==
  ASSUME IInv, NEW counter \in Counters, Advance(counter)
  PROVE  IInv'
<1> DEFINE diff == counter - windowEnd
           base == IF diff >= replayWindowSize THEN ZeroWindow ELSE shiftWindow(window, diff)
<1>1. /\ counter \in Nat /\ windowEnd \in Nat /\ windowEnd < counter
      /\ diff \in Nat /\ diff > 0 /\ replayWindowSize \in Nat /\ replayWindowSize > 0
      /\ window \in Bitmaps /\ accepts \in [Counters -> Nat]
  BY CountersAssumption DEF IInv, TypeOK, Advance, replayWindowSize
<1>2. /\ windowEnd' = counter
      /\ window' = SetBit(base, 0)
      /\ reply' = [counter |-> counter, replay |-> FALSE]
      /\ accepts' = [accepts EXCEPT ![counter] = @ + 1]
  BY DEF Advance, Return
<1>3. accepts[counter] = 0
  BY <1>1, CountersAssumption DEF IInv, WindowExact
<1>4. \A c \in Counters : accepts'[c] > 0 <=> c = counter \/ accepts[c] > 0
  BY <1>1, <1>2
<1>5. \A p \in 0 .. replayWindowSize - 1 :
        /\ base \in Bitmaps
        /\ Bit(base, p) <=> \E c \in Counters : accepts[c] > 0 /\ c = counter - p
  <2> SUFFICES ASSUME NEW p \in 0 .. replayWindowSize - 1
               PROVE  /\ base \in Bitmaps
                      /\ Bit(base, p) <=> \E c \in Counters : accepts[c] > 0 /\ c = counter - p
    OBVIOUS
  <2>1. \A c \in Counters : accepts[c] > 0 => c \in Nat /\ c <= windowEnd
    BY CountersAssumption DEF IInv, WindowExact
  <2>2. CASE diff >= replayWindowSize
    BY <1>1, <2>1, <2>2, ZeroBit
  <2>3. CASE diff < replayWindowSize
    <3>1. diff \in 0 .. replayWindowSize - 1 /\ base = shiftWindow(window, diff)
      BY <1>1, <2>3
    <3>2. base \in Bitmaps /\ (Bit(base, p) <=> p >= diff /\ Bit(window, p - diff))
      BY <1>1, <3>1, ShiftBit
    <3>3. CASE p >= diff
      <4>1. p - diff \in 0 .. replayWindowSize - 1 /\ windowEnd - (p - diff) = counter - p
        BY <1>1, <3>3
      <4>2. Bit(window, p - diff) <=>
              \E c \in Counters : accepts[c] > 0 /\ c = windowEnd - (p - diff)
        BY <4>1 DEF IInv, WindowExact
      <4> QED
        BY <3>2, <3>3, <4>1, <4>2
    <3>4. CASE p < diff
      BY <1>1, <2>1, <3>2, <3>4
    <3> QED
      BY <1>1, <3>3, <3>4
  <2> QED
    BY <1>1, <2>2, <2>3
<1>6. 0 \in 0 .. replayWindowSize - 1
  BY <1>1
<1> HIDE DEF base
<1>7. TypeOK'
  BY <1>1, <1>2, <1>5, <1>6, SetBitBit DEF TypeOK, Replies
<1>8. WindowExact'
  <2>1. \A c \in Counters : accepts'[c] > 0 => c <= windowEnd'
    BY <1>1, <1>2, <1>4, CountersAssumption DEF IInv, WindowExact
  <2>2. ASSUME NEW p \in 0 .. replayWindowSize - 1
        PROVE  Bit(window', p) <=>
                 \E c \in Counters : accepts'[c] > 0 /\ c = windowEnd' - p
    <3>1. Bit(window', p) <=> p = 0 \/ Bit(base, p)
      BY <1>2, <1>5, <1>6, SetBitBit
    <3>2. p \in Nat /\ (p = 0 <=> counter = counter - p)
      BY <1>1
    <3> QED
      BY <1>2, <1>4, <1>5, <3>1, <3>2
  <2> QED
    BY <2>1, <2>2 DEF WindowExact
<1>9. AcceptedAtMostOnce'
  BY <1>1, <1>2, <1>3 DEF IInv, AcceptedAtMostOnce
<1> QED
  BY <1>7, <1>8, <1>9 DEF IInv

\* A counter inside the window is answered by its bit.
LEMMA LateIInv ==
  ASSUME IInv, NEW counter \in Counters, Late(counter)
  PROVE  IInv'
<1> DEFINE pos == windowEnd - counter
<1>1. /\ counter \in Nat /\ windowEnd \in Nat /\ pos \in 0 .. replayWindowSize - 1
      /\ window \in Bitmaps /\ accepts \in [Counters -> Nat] /\ counter = windowEnd - pos
  BY CountersAssumption DEF IInv, TypeOK, Late, replayWindowSize
<1>2. Bit(window, pos) <=> accepts[counter] > 0
  BY <1>1 DEF IInv, WindowExact
<1>3. CASE Bit(window, pos)
  <2>1. /\ window' = window /\ windowEnd' = windowEnd /\ accepts' = accepts
        /\ reply' = [counter |-> counter, replay |-> TRUE]
    BY <1>3 DEF Late, Return
  <2> QED
    BY <2>1 DEF IInv, TypeOK, Replies, WindowExact, AcceptedAtMostOnce
<1>4. CASE ~ Bit(window, pos)
  <2>1. /\ window' = SetBit(window, pos) /\ windowEnd' = windowEnd
        /\ accepts' = [accepts EXCEPT ![counter] = @ + 1]
        /\ reply' = [counter |-> counter, replay |-> FALSE]
    <3>1. Bit(window, pos) = FALSE
      BY <1>4 DEF Bit
    <3> QED
      BY <1>4, <3>1 DEF Late, Return
  <2>2. accepts[counter] = 0
    BY <1>1, <1>2, <1>4
  <2>3. \A c \in Counters : accepts'[c] > 0 <=> c = counter \/ accepts[c] > 0
    BY <1>1, <2>1
  <2>4. TypeOK'
    BY <1>1, <2>1, SetBitBit DEF IInv, TypeOK, Replies
  <2>5. WindowExact'
    <3>1. \A c \in Counters : accepts'[c] > 0 => c <= windowEnd'
      BY <1>1, <2>1, <2>3 DEF IInv, WindowExact
    <3>2. ASSUME NEW p \in 0 .. replayWindowSize - 1
          PROVE  Bit(window', p) <=>
                   \E c \in Counters : accepts'[c] > 0 /\ c = windowEnd' - p
      <4>1. Bit(window', p) <=> p = pos \/ Bit(window, p)
        BY <1>1, <2>1, SetBitBit
      <4>2. Bit(window, p) <=> \E c \in Counters : accepts[c] > 0 /\ c = windowEnd - p
        BY DEF IInv, WindowExact
      <4>3. p = pos <=> counter = windowEnd - p
        BY <1>1
      <4> HIDE DEF pos
      <4> QED
        BY <2>1, <2>3, <4>1, <4>2, <4>3
    <3> QED
      BY <3>1, <3>2 DEF WindowExact
  <2>6. AcceptedAtMostOnce'
    BY <1>1, <2>1, <2>2 DEF IInv, AcceptedAtMostOnce
  <2> QED
    BY <2>4, <2>5, <2>6 DEF IInv
<1> QED
  BY <1>3, <1>4

\* A counter behind the window changes nothing but the answer.
LEMMA TooOldIInv ==
  ASSUME IInv, NEW counter \in Counters, TooOld(counter)
  PROVE  IInv'
  BY DEF IInv, TooOld, Return, TypeOK, Replies, WindowExact, AcceptedAtMostOnce

\* Every reachable state of CheckReplay satisfies the invariant.
THEOREM Invariance == Spec => []IInv
<1>1. IInv /\ [Next]_vars => IInv'
  <2> SUFFICES ASSUME IInv, [Next]_vars PROVE IInv'
    OBVIOUS
  <2>1. CASE UNCHANGED vars
    BY <2>1 DEF vars, IInv, TypeOK, WindowExact, AcceptedAtMostOnce
  <2>2. ASSUME NEW counter \in Counters, CheckReplay(counter) PROVE IInv'
    BY <2>2, AdvanceIInv, TooOldIInv, LateIInv DEF CheckReplay
  <2> QED
    BY <2>1, <2>2 DEF Next
<1> QED
  BY InitIInv, <1>1, PTL DEF Spec

\* The fields of HostInfo keep their types.
THEOREM TypeCorrect == Spec => []TypeOK
  BY Invariance, PTL DEF IInv

\* For every window size and every sequence of calls, the bitmap is exact.
THEOREM BitmapIsExact == Spec => []WindowExact
  BY Invariance, PTL DEF IInv

\* For every window size and every sequence of calls, CheckReplay answers "not
\* a replay" at most once per counter.
THEOREM NoCounterTwice == Spec => []AcceptedAtMostOnce
  BY Invariance, PTL DEF IInv

-----------------------------------------------------------------------------
(* CheckReplay implements ReplayFilter, with the counters accepted so far  *)
(* as the filter's memory.                                                 *)

\* One call of CheckReplay is one step of the filter.
LEMMA CheckReplayIsFilterStep ==
  ASSUME IInv, NEW counter \in Counters, CheckReplay(counter)
  PROVE  Filter!Pass(counter) \/ Filter!Refuse(counter)
<1> DEFINE passed == {c \in Counters : accepts[c] > 0}
<1>1. /\ counter \in Nat /\ windowEnd \in Nat /\ replayWindowSize \in Nat
      /\ accepts \in [Counters -> Nat]
  BY CountersAssumption DEF IInv, TypeOK, replayWindowSize
<1>2. ASSUME accepts' = [accepts EXCEPT ![counter] = @ + 1]
      PROVE  {c \in Counters : accepts'[c] > 0} = passed \cup {counter}
  BY <1>1, <1>2
<1>3. CASE Advance(counter)
  <2>1. /\ windowEnd' = counter /\ counter > windowEnd
        /\ reply' = [counter |-> counter, replay |-> FALSE]
        /\ accepts' = [accepts EXCEPT ![counter] = @ + 1]
    BY <1>3 DEF Advance, Return
  <2> QED
    BY <1>2, <2>1 DEF Filter!Pass, Filter!Fresh
<1>4. CASE TooOld(counter)
  <2>1. /\ counter <= windowEnd /\ windowEnd - counter >= replayWindowSize
        /\ windowEnd' = windowEnd /\ accepts' = accepts
        /\ reply' = [counter |-> counter, replay |-> TRUE]
    BY <1>4 DEF TooOld, Return
  <2> QED
    BY <1>1, <2>1 DEF Filter!Refuse, Filter!Fresh
<1>5. CASE Late(counter)
  <2> DEFINE pos == windowEnd - counter
  <2>1. counter <= windowEnd /\ pos < replayWindowSize /\ windowEnd' = windowEnd
    BY <1>5 DEF Late
  <2>2. Bit(window, pos) <=> counter \in passed
    BY <1>1, <2>1 DEF IInv, WindowExact
  <2>3. CASE Bit(window, pos)
    <3>1. accepts' = accepts /\ reply' = [counter |-> counter, replay |-> TRUE]
      BY <1>5, <2>3 DEF Late, Return
    <3> QED
      BY <1>1, <2>1, <2>2, <2>3, <3>1 DEF Filter!Refuse, Filter!Fresh
  <2>4. CASE ~ Bit(window, pos)
    <3>1. Bit(window, pos) = FALSE
      BY <2>4 DEF Bit
    <3>2. /\ accepts' = [accepts EXCEPT ![counter] = @ + 1]
          /\ reply' = [counter |-> counter, replay |-> FALSE]
      BY <1>5, <2>4, <3>1 DEF Late, Return
    <3> QED
      BY <1>1, <1>2, <2>1, <2>2, <2>4, <3>2 DEF Filter!Pass, Filter!Fresh
  <2> QED
    BY <2>3, <2>4
<1> QED
  BY <1>3, <1>4, <1>5 DEF CheckReplay

\* The bitmap of CheckReplay behaves as the filter that remembers every counter:
\* it refuses what was accepted before and what is too old, and nothing else.
THEOREM Refinement == Spec => ImplementsFilter
<1>1. Init => Filter!Init
  <2> SUFFICES ASSUME Init PROVE Filter!Init
    OBVIOUS
  <2>1. {c \in Counters : accepts[c] > 0} = {}
    BY DEF Init
  <2> QED
    BY <2>1 DEF Init, Filter!Init, NoReply, Filter!NoReply
<1>2. IInv /\ [Next]_vars => [Filter!Next]_(Filter!filterVars)
  <2> SUFFICES ASSUME IInv, [Next]_vars
               PROVE  [Filter!Next]_(Filter!filterVars)
    OBVIOUS
  <2>1. CASE UNCHANGED vars
    BY <2>1 DEF vars, Filter!filterVars
  <2>2. ASSUME NEW counter \in Counters, CheckReplay(counter)
        PROVE  Filter!Next
    BY <2>2, CheckReplayIsFilterStep DEF Filter!Next
  <2> QED
    BY <2>1, <2>2 DEF Next
<1> QED
  BY <1>1, <1>2, Invariance, PTL DEF Spec, ImplementsFilter, Filter!Spec

-----------------------------------------------------------------------------
(* The loops of shiftWindow.                                               *)

\* A set of natural numbers that is not empty has a least element.
LEMMA Least ==
  ASSUME NEW S \in SUBSET Nat, S # {}
  PROVE  \E x \in S : \A y \in S : x <= y
<1>1. IsWellFoundedOn(OpToRel(<, Nat), Nat)
  BY NatLessThanWellFounded, Zenon
<1>2. PICK x \in S : \A y \in S : ~ (<<y, x>> \in OpToRel(<, Nat))
  BY <1>1, WFMin, Zenon
<1>3. \A y \in S : ~ (y < x)
  BY <1>2 DEF OpToRel
<1> QED
  BY <1>3

\* The first loop moves whole words, whatever the distance: a word is read
\* before an iteration overwrites it.
LEMMA MoveWordsMoves ==
  ASSUME NEW w \in Bitmaps, NEW d \in Nat
  PROVE  MoveWords(w, d) = ShiftWords(w, d)
<1> DEFINE Step(v, i) == [v EXCEPT ![i] = IF i < d THEN {} ELSE v[i - d]]
           Loop(f) == [k \in 0 .. NumWords |-> IF k = 0 THEN w ELSE Step(f[k - 1], NumWords - k)]
           after == CHOOSE f : f = Loop(f)
           Done(k) == [i \in Words |-> IF i < NumWords - k THEN w[i]
                                       ELSE IF i < d THEN {} ELSE w[i - d]]
           done == [k \in 0 .. NumWords |-> Done(k)]
<1>1. MoveWords(w, d) = after[NumWords]
  BY DEF MoveWords
<1>2. \A k \in 1 .. NumWords : Step(Done(k - 1), NumWords - k) = Done(k)
  <2> SUFFICES ASSUME NEW k \in 1 .. NumWords
               PROVE  Step(Done(k - 1), NumWords - k) = Done(k)
    OBVIOUS
  <2>1. NumWords - k \in Words
    BY NumWordsAssumption DEF Words
  <2> DEFINE j == NumWords - k
  <2>2. \A i \in Words : Step(Done(k - 1), j)[i] = IF i # j THEN Done(k - 1)[i]
                                                  ELSE IF j < d THEN {} ELSE Done(k - 1)[j - d]
    <3>1. DOMAIN Done(k - 1) = Words
      OBVIOUS
    <3> HIDE DEF Done, j
    <3> QED
      BY <2>1, <3>1 DEF j
  <2>3. \A i \in Words : i # j => Done(k - 1)[i] = Done(k)[i]
    BY NumWordsAssumption DEF Words
  <2>4. ~ (j < d) => j - d \in Words /\ j - d < NumWords - (k - 1)
    BY <2>1, NumWordsAssumption DEF Words
  <2>5. ~ (j < d) => Done(k - 1)[j - d] = w[j - d]
    BY <2>4
  <2>6. Done(k)[j] = IF j < d THEN {} ELSE w[j - d]
    BY <2>1 DEF Words
  <2>7. \A i \in Words : Step(Done(k - 1), j)[i] = Done(k)[i]
    <3> HIDE DEF Step, Done, j
    <3> QED
      BY <2>2, <2>3, <2>5, <2>6
  <2> QED
    BY <2>7
<1>3. Done(0) = w
  BY NumWordsAssumption DEF Bitmaps, Words
<1>4. done = Loop(done)
  <2> HIDE DEF Done, Step
  <2>1. \A k \in 0 .. NumWords : k # 0 => k \in 1 .. NumWords /\ k - 1 \in 0 .. NumWords
    BY NumWordsAssumption
  <2> QED
    BY <1>2, <1>3, <2>1
<1>5. after = Loop(after)
  <2> HIDE DEF done
  <2>1. \E f : f = Loop(f)
    BY <1>4
  <2> HIDE DEF Loop
  <2> QED
    BY <2>1
<1>6. \A k \in 0 .. NumWords : after[k] = Done(k)
  <2> HIDE DEF after, Done, Step
  <2>1. after[0] = w /\ \A k \in 1 .. NumWords : after[k] = Step(after[k - 1], NumWords - k)
    BY <1>5, NumWordsAssumption
  <2> DEFINE Bad == {k \in 0 .. NumWords : after[k] # Done(k)}
  <2> SUFFICES ASSUME Bad # {} PROVE FALSE
    OBVIOUS
  <2>2. PICK k \in Bad : \A m \in Bad : k <= m
    <3>1. Bad \in SUBSET Nat
      OBVIOUS
    <3> QED
      BY <3>1, Least
  <2>3. k \in 1 .. NumWords /\ k - 1 \in 0 .. NumWords
    BY <1>3, <2>1, NumWordsAssumption
  <2>4. after[k - 1] = Done(k - 1)
    BY <2>2, <2>3
  <2> QED
    BY <1>2, <2>1, <2>3, <2>4
<1>7. Done(NumWords) = ShiftWords(w, d)
  BY NumWordsAssumption DEF ShiftWords, Words
<1> HIDE DEF after, Done
<1> QED
  BY <1>1, <1>6, <1>7, NumWordsAssumption

\* The second loop carries bits upwards, whatever the distance: the word below
\* is read before it is shifted itself.
LEMMA MoveBitsCarries ==
  ASSUME NEW w \in Bitmaps, NEW d \in Nat
  PROVE  MoveBits(w, d) = CarryBits(w, d)
<1> DEFINE Carry(v, i) == ShiftLeft(v[i], d) \cup ShiftRight(v[i - 1], WordBits - d)
           Step(v, i) == [v EXCEPT ![i] = Carry(v, i)]
           Loop(f) == [k \in 0 .. NumWords - 1 |->
                         IF k = 0 THEN w ELSE Step(f[k - 1], NumWords - k)]
           after == CHOOSE f : f = Loop(f)
           Done(k) == [i \in Words |-> IF i < NumWords - k THEN w[i] ELSE Carry(w, i)]
           done == [k \in 0 .. NumWords - 1 |-> Done(k)]
<1>1. MoveBits(w, d) = [after[NumWords - 1] EXCEPT ![0] = ShiftLeft(after[NumWords - 1][0], d)]
  BY DEF MoveBits
<1>2. \A k \in 1 .. NumWords - 1 : Step(Done(k - 1), NumWords - k) = Done(k)
  <2> SUFFICES ASSUME NEW k \in 1 .. NumWords - 1
               PROVE  Step(Done(k - 1), NumWords - k) = Done(k)
    OBVIOUS
  <2> DEFINE j == NumWords - k
  <2>1. j \in Words /\ j - 1 \in Words /\ j < NumWords - (k - 1) /\ j - 1 < NumWords - (k - 1)
    BY NumWordsAssumption DEF Words
  <2>2. Done(k - 1)[j] = w[j] /\ Done(k - 1)[j - 1] = w[j - 1] /\ DOMAIN Done(k - 1) = Words
    BY <2>1
  <2>3. \A i \in Words : i # j => Done(k - 1)[i] = Done(k)[i]
    BY NumWordsAssumption DEF Words
  <2>4. Done(k)[j] = Carry(w, j) /\ Done(k) = [i \in Words |-> Done(k)[i]]
    <3> HIDE DEF Carry
    <3> QED
      BY <2>1 DEF Words
  <2>5. Carry(Done(k - 1), j) = Carry(w, j)
    BY <2>2
  <2> HIDE DEF Done, Carry, j
  <2>6. \A i \in Words : Step(Done(k - 1), j)[i] = Done(k)[i]
    BY <2>1, <2>2, <2>3, <2>4, <2>5
  <2>7. Step(Done(k - 1), j) = [i \in Words |-> Step(Done(k - 1), j)[i]]
    BY <2>2
  <2>8. Step(Done(k - 1), j) = Done(k)
    <3> HIDE DEF Step
    <3> QED
      BY <2>4, <2>6, <2>7
  <2> QED
    BY <2>8 DEF j
<1>3. Done(0) = w
  <2> HIDE DEF Carry
  <2> QED
    BY NumWordsAssumption DEF Bitmaps, Words
<1>4. done = Loop(done)
  <2> HIDE DEF Done, Step
  <2>1. \A k \in 0 .. NumWords - 1 : k # 0 => k \in 1 .. NumWords - 1 /\ k - 1 \in 0 .. NumWords - 1
    BY NumWordsAssumption
  <2> QED
    BY <1>2, <1>3, <2>1
<1>5. after = Loop(after)
  <2> HIDE DEF done
  <2>1. \E f : f = Loop(f)
    BY <1>4
  <2> HIDE DEF Loop
  <2> QED
    BY <2>1
<1>6. \A k \in 0 .. NumWords - 1 : after[k] = Done(k)
  <2> HIDE DEF after, Done, Step
  <2>1. after[0] = w /\ \A k \in 1 .. NumWords - 1 : after[k] = Step(after[k - 1], NumWords - k)
    BY <1>5, NumWordsAssumption
  <2> DEFINE Bad == {k \in 0 .. NumWords - 1 : after[k] # Done(k)}
  <2> SUFFICES ASSUME Bad # {} PROVE FALSE
    OBVIOUS
  <2>2. PICK k \in Bad : \A m \in Bad : k <= m
    <3>1. Bad \in SUBSET Nat
      OBVIOUS
    <3> QED
      BY <3>1, Least
  <2>3. k \in 1 .. NumWords - 1 /\ k - 1 \in 0 .. NumWords - 1
    BY <1>3, <2>1, NumWordsAssumption
  <2>4. after[k - 1] = Done(k - 1)
    BY <2>2, <2>3
  <2> QED
    BY <1>2, <2>1, <2>3, <2>4
<1>7. after[NumWords - 1] = Done(NumWords - 1)
  <2> HIDE DEF after, Done
  <2> QED
    BY <1>6, NumWordsAssumption
<1> DEFINE last == Done(NumWords - 1)
<1>8. /\ DOMAIN last = Words /\ 0 \in Words /\ last[0] = w[0]
      /\ \A i \in Words : i # 0 => last[i] = Carry(w, i)
  <2> HIDE DEF Carry
  <2> QED
    BY NumWordsAssumption DEF Words
<1>9. \A i \in Words : CarryBits(w, d)[i] = IF i = 0 THEN ShiftLeft(w[0], d) ELSE Carry(w, i)
  BY DEF CarryBits
<1>10. MoveBits(w, d) = [last EXCEPT ![0] = ShiftLeft(last[0], d)]
  <2> HIDE DEF after, Done
  <2> QED
    BY <1>1, <1>7
<1> HIDE DEF last, Carry
<1>11. DOMAIN CarryBits(w, d) = Words /\ DOMAIN MoveBits(w, d) = Words
  BY <1>8, <1>10 DEF CarryBits
<1>12. \A i \in Words : MoveBits(w, d)[i] = CarryBits(w, d)[i]
  BY <1>8, <1>9, <1>10
<1>13. CarryBits(w, d) = [i \in Words |-> CarryBits(w, d)[i]]
  BY DEF CarryBits
<1>14. MoveBits(w, d) = [i \in Words |-> MoveBits(w, d)[i]]
  BY <1>8, <1>10
<1> QED
  BY <1>12, <1>13, <1>14

\* The two loops of shiftWindow, run in place, compute what the specification
\* of CheckReplay says, for every bitmap and every distance.
LEMMA LoopsShift ==
  ASSUME NEW w \in Bitmaps, NEW n \in Nat
  PROVE  shiftWindowLoops(w, n) = shiftWindow(w, n)
<1>1. n \div WordBits \in Nat /\ n % WordBits \in Nat
  BY WordBitsAssumption
<1>2. MoveWords(w, n \div WordBits) = ShiftWords(w, n \div WordBits)
  BY <1>1, MoveWordsMoves
<1>3. CASE n \div WordBits >= NumWords
  BY <1>3 DEF shiftWindowLoops, shiftWindow
<1>4. CASE ~ (n \div WordBits >= NumWords)
  <2>1. ShiftWords(w, n \div WordBits) \in Bitmaps
    BY <1>1, NumWordsAssumption DEF ShiftWords, Bitmaps, Words
  <2>2. MoveBits(ShiftWords(w, n \div WordBits), n % WordBits)
          = CarryBits(ShiftWords(w, n \div WordBits), n % WordBits)
    BY <1>1, <2>1, MoveBitsCarries
  <2> QED
    BY <1>2, <1>4, <2>2 DEF shiftWindowLoops, shiftWindow
<1> QED
  BY <1>3, <1>4

\* On every window that CheckReplay builds, the loops of shiftWindow, which
\* rewrite the array in place, compute the shift that CheckReplay is proved
\* with.
THEOREM LoopsCorrect == Spec => []LoopsComputeShiftWindow
<1>1. TypeOK => LoopsComputeShiftWindow
  <2> SUFFICES ASSUME TypeOK, NEW n \in 0 .. replayWindowSize + WordBits
               PROVE  shiftWindowLoops(window, n) = shiftWindow(window, n)
    BY DEF LoopsComputeShiftWindow
  <2>1. window \in Bitmaps
    BY DEF TypeOK
  <2>2. n \in Nat
    BY DEF replayWindowSize
  <2> QED
    BY <2>1, <2>2, LoopsShift
<1> QED
  BY <1>1, TypeCorrect, PTL

=============================================================================
