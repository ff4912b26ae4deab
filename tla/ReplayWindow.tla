---------------------------- MODULE ReplayWindow ----------------------------
(***************************************************************************)
(* HostInfo.CheckReplay (src/hostmap.go): the sliding window over the      *)
(* message counters of one session.  Every call holds windowMu from        *)
(* beginning to end, so one call is one step whichever goroutine makes it. *)
(***************************************************************************)
EXTENDS ReplayBits

CONSTANT
  Counters      \* the counters that arrive: any subset of the uint64 range

ASSUME CountersAssumption == Counters \subseteq Nat

VARIABLES
  windowEnd,    \* highest counter accepted
  window,       \* the bitmap
  reply,        \* the last call: its counter and what it returned
  accepts       \* history: how often each counter was answered "not a replay"

vars == <<windowEnd, window, reply, accepts>>

NoReply == [counter |-> -1, replay |-> FALSE]

Init ==
  /\ windowEnd = 0
  /\ window = ZeroWindow
  /\ reply = NoReply
  /\ accepts = [c \in Counters |-> 0]

Return(counter, replay) ==
  /\ reply' = [counter |-> counter, replay |-> replay]
  /\ accepts' = IF replay THEN accepts ELSE [accepts EXCEPT ![counter] = @ + 1]

-----------------------------------------------------------------------------
\* Mutation: a large jump keeps the old bitmap instead of clearing it.
AdvanceKeepingWindow(counter) ==
  /\ counter > windowEnd
  /\ LET diff == counter - windowEnd
     IN  window' = SetBit(IF diff >= replayWindowSize
                            THEN window ELSE shiftWindow(window, diff), 0)
  /\ windowEnd' = counter
  /\ Return(counter, FALSE)

\* counter > end: slide the window so that bit 0 is the new counter.
Advance(counter) ==
  /\ counter > windowEnd
  /\ LET diff == counter - windowEnd
     IN  window' = SetBit(IF diff >= replayWindowSize
                            THEN ZeroWindow ELSE shiftWindow(window, diff), 0)
  /\ windowEnd' = counter
  /\ Return(counter, FALSE)

TooOld(counter) ==
  /\ counter <= windowEnd
  /\ windowEnd - counter >= replayWindowSize
  /\ Return(counter, TRUE)
  /\ UNCHANGED <<windowEnd, window>>

\* Mutation: a late counter is accepted but its bit is not set.
LateWithoutMark(counter) ==
  /\ counter <= windowEnd
  /\ windowEnd - counter < replayWindowSize
  /\ Return(counter, Bit(window, windowEnd - counter))
  /\ UNCHANGED <<windowEnd, window>>

\* counter <= end and inside the window: test and set its bit.
Late(counter) ==
  /\ counter <= windowEnd
  /\ windowEnd - counter < replayWindowSize
  /\ LET pos  == windowEnd - counter
         seen == Bit(window, pos)
     IN  /\ window' = IF seen THEN window ELSE SetBit(window, pos)
         /\ Return(counter, seen)
  /\ UNCHANGED windowEnd

CheckReplay(counter) == Advance(counter) \/ TooOld(counter) \/ Late(counter)

Next == \E counter \in Counters : CheckReplay(counter)

Spec == Init /\ [][Next]_vars

-----------------------------------------------------------------------------
Replies == [counter : Counters \cup {-1}, replay : BOOLEAN]

\* The variables have the types of HostInfo's fields.
TypeOK ==
  /\ windowEnd \in Counters \cup {0}
  /\ window \in Bitmaps
  /\ reply \in Replies
  /\ accepts \in [Counters -> Nat]

\* No counter is ever let through twice, whatever the order in which counters
\* arrive, repeat and jump: CheckReplay "returns true if counter was already
\* received", also after the window slid, was cleared and slid again.
AcceptedAtMostOnce == \A c \in Counters : accepts[c] <= 1

\* The bitmap is exact: bit p is set if and only if counter windowEnd - p was
\* accepted, and nothing above windowEnd was.  A shift that loses or invents a
\* bit breaks it even before any counter is answered wrongly.
WindowExact ==
  /\ \A c \in Counters : accepts[c] > 0 => c <= windowEnd
  /\ \A p \in 0 .. replayWindowSize - 1 :
       Bit(window, p) <=> \E c \in Counters : accepts[c] > 0 /\ c = windowEnd - p

Filter == INSTANCE ReplayFilter WITH
            WindowSize <- replayWindowSize,
            highest <- windowEnd,
            passed <- {c \in Counters : accepts[c] > 0}

\* CheckReplay implements the unbounded-memory filter: it refuses only what was
\* accepted before or lies outside the window, and accepts everything else.
ImplementsFilter == Filter!Spec

=============================================================================
