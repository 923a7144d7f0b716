------------------------- MODULE AudioBufferProofs -------------------------
(***************************************************************************)
(* The frame ring, proved for a ring of any size, any number of frames and *)
(* any number of sessions: its slots are full exactly between its indexes, *)
(* and it implements FrameQueue.                                           *)
(*                                                                         *)
(* The indexes are compared by their distance around the ring.  A start    *)
(* resets them and leaves the slots: they are empty then, because the RTP  *)
(* thread that waits for its first packet has written none.  So are those  *)
(* of a ring that a refused SETUP left behind.                             *)
(***************************************************************************)
EXTENDS AudioBuffer, TLAPS

N == BUFFER_FRAMES

\* How far slot i lies ahead of slot r, and the k-th slot from r on.
Ahead(r, i) == IF i >= r THEN i - r ELSE i + N - r
At(r, k) == IF r + k - 1 < N THEN r + k - 1 ELSE r + k - 1 - N
Next1(i) == IF i + 1 = N THEN 0 ELSE i + 1

Ready(r, w, s) == \A i \in Slots : (s[i] # 0) <=> Ahead(r, i) < Ahead(r, w)
Held(r, w, s) == [k \in 1 .. Ahead(r, w) |-> s[At(r, k)]]

\* Nobody has written since the ring was made or flushed, and a session that has ended
\* has left nothing in it.
EmptyInv ==
  /\ writer = "waits" \/ ~frames => \A i \in Slots : slot[i] = 0
  /\ writer = "gone" /\ stop["rtsp"] = "no" /\ update # "gone" => \A i \in Slots : slot[i] = 0

\* A frame being written has its number.
SentInv == writer = "writes" => sent \in Frame

Inv == TypeOK /\ ReadyInWindow /\ EmptyInv /\ SentInv

-----------------------------------------------------------------------------
(* Distances *)

LEMMA Size == N \in Nat /\ N > 1 /\ Slots = 0 .. N - 1
BY BufferAssumption DEF N, Slots

\* A remainder of less than two turns.
LEMMA Remainder ==
    ASSUME NEW x \in Nat, x < N + N
    PROVE  x % N = IF x < N THEN x ELSE x - N
<1>1. N \in Nat /\ N > 1
  BY Size
<1>2. CASE x < N
  BY <1>1, <1>2
<1>3. CASE x >= N
  <2>1. x = N * 1 + (x - N) /\ x - N \in 0 .. N - 1
    BY <1>1, <1>3
  <2>2. x % N = x - N
    BY <1>1, <2>1
  <2>3. QED
    BY <1>1, <1>3, <2>2
<1>4. QED
  BY <1>1, <1>2, <1>3

\* The operators of the module, by distances.
LEMMA ByDistance ==
    ASSUME TypeOK
    PROVE  /\ Filled = Ahead(readIdx, writeIdx)
           /\ \A i \in Slots : InWindow(i) <=> Ahead(readIdx, i) < Ahead(readIdx, writeIdx)
           /\ \A i \in Slots : After(i) = Next1(i)
           /\ Queue = Held(readIdx, writeIdx, slot)
<1>1. N \in Nat /\ N > 1 /\ readIdx \in 0 .. N - 1 /\ writeIdx \in 0 .. N - 1
  BY Size DEF TypeOK
<1>2. \A i \in Slots : (i + N - readIdx) % N = Ahead(readIdx, i)
  <2> SUFFICES ASSUME NEW i \in Slots PROVE (i + N - readIdx) % N = Ahead(readIdx, i)
    OBVIOUS
  <2>1. i \in 0 .. N - 1
    BY Size
  <2> DEFINE x == i + N - readIdx
  <2>2. x \in Nat /\ x < N + N
    BY <1>1, <2>1
  <2> HIDE DEF x
  <2>3. x % N = IF x < N THEN x ELSE x - N
    BY <2>2, Remainder
  <2>4. QED
    BY <1>1, <2>1, <2>3 DEF Ahead, x
<1>3. writeIdx \in Slots
  BY DEF TypeOK
<1>4. Filled = Ahead(readIdx, writeIdx)
  BY <1>2, <1>3 DEF Filled, N
<1>5. \A i \in Slots : InWindow(i) <=> Ahead(readIdx, i) < Ahead(readIdx, writeIdx)
  BY <1>2, <1>4 DEF InWindow, N
<1>6. ASSUME NEW i \in Slots PROVE After(i) = Next1(i)
  <2>1. i \in 0 .. N - 1
    BY Size
  <2> DEFINE x == i + 1
  <2>2. x \in Nat /\ x < N + N
    BY <1>1, <2>1
  <2> HIDE DEF x
  <2>3. x % N = IF x < N THEN x ELSE x - N
    BY <2>2, Remainder
  <2>4. QED
    BY <1>1, <2>1, <2>3 DEF After, Next1, N, x
<1>7. Queue = Held(readIdx, writeIdx, slot)
  <2>1. Ahead(readIdx, writeIdx) \in 0 .. N - 1
    BY <1>1 DEF Ahead
  <2>2. ASSUME NEW k \in 1 .. Ahead(readIdx, writeIdx)
        PROVE  (readIdx + k - 1) % N = At(readIdx, k)
    <3>1. k \in Nat /\ k >= 1 /\ k <= N - 1
      BY <1>1, <2>1
    <3> DEFINE x == readIdx + k - 1
    <3>2. x \in Nat /\ x < N + N
      BY <1>1, <3>1
    <3> HIDE DEF x
    <3>3. x % N = IF x < N THEN x ELSE x - N
      BY <3>2, Remainder
    <3>4. QED
      BY <1>1, <3>1, <3>3 DEF At, x
  <2>3. QED
    BY <1>4, <2>2 DEF Queue, Held, N
<1>8. QED
  BY <1>4, <1>5, <1>6, <1>7

\* The window of a ring whose indexes are equal is empty.
LEMMA EmptyWindow ==
    ASSUME NEW s \in [Slots -> Frame \cup {0}], \A i \in Slots : s[i] = 0
    PROVE  Ready(0, 0, s) /\ Held(0, 0, s) = <<>>
<1>1. N \in Nat /\ N > 1 /\ Slots = 0 .. N - 1 /\ Ahead(0, 0) = 0
  BY Size DEF Ahead
<1>2. \A i \in Slots : ~(Ahead(0, i) < 0)
  BY <1>1 DEF Ahead
<1>3. QED
  BY <1>1, <1>2 DEF Ready, Held

\* One frame more at the write index.
LEMMA OneMore ==
    ASSUME NEW r \in Slots, NEW w \in Slots, NEW s \in [Slots -> Frame \cup {0}],
           NEW f \in Frame, Next1(w) # r
    PROVE  LET t == [s EXCEPT ![w] = f]
           IN /\ Next1(w) \in Slots
              /\ Ready(r, w, s) => Ready(r, Next1(w), t)
              /\ Held(r, Next1(w), t) = Append(Held(r, w, s), f)
              /\ Len(Held(r, w, s)) < N - 1
<1> DEFINE t == [s EXCEPT ![w] = f]
<1>1. N \in Nat /\ N > 1 /\ Slots = 0 .. N - 1 /\ r \in 0 .. N - 1 /\ w \in 0 .. N - 1
  BY Size
<1>2. Next1(w) \in Slots /\ Ahead(r, Next1(w)) = Ahead(r, w) + 1 /\ Ahead(r, w) \in 0 .. N - 2
  BY <1>1 DEF Next1, Ahead
<1>3. f # 0
  BY BufferAssumption DEF Frame
<1>4. \A i \in Slots : Ahead(r, i) < Ahead(r, w) + 1 <=> Ahead(r, i) < Ahead(r, w) \/ i = w
  BY <1>1 DEF Ahead
<1>5. ASSUME Ready(r, w, s) PROVE Ready(r, Next1(w), t)
  <2>1. \A i \in Slots : (t[i] # 0) <=> (s[i] # 0 \/ i = w)
    BY <1>3
  <2>2. QED
    BY <1>2, <1>4, <1>5, <2>1 DEF Ready
<1>6. Held(r, w, s) \in Seq(Frame \cup {0}) /\ Len(Held(r, w, s)) = Ahead(r, w)
  <2>1. \A k \in 1 .. Ahead(r, w) : At(r, k) \in Slots
    BY <1>1, <1>2 DEF At
  <2>2. Held(r, w, s) \in [1 .. Ahead(r, w) -> Frame \cup {0}]
    BY <2>1 DEF Held
  <2>3. QED
    BY <1>2, <2>2
<1>7. Held(r, Next1(w), t) = Append(Held(r, w, s), f)
  <2>1. \A k \in 1 .. Ahead(r, w) : At(r, k) \in Slots /\ At(r, k) # w
    BY <1>1, <1>2 DEF At, Ahead
  <2>2. At(r, Ahead(r, w) + 1) = w
    BY <1>1 DEF At, Ahead
  <2>3. \A k \in 1 .. Ahead(r, w) + 1 :
           t[At(r, k)] = IF k = Ahead(r, w) + 1 THEN f ELSE s[At(r, k)]
    BY <1>2, <2>1, <2>2
  <2>4. Append(Held(r, w, s), f)
          = [k \in 1 .. Ahead(r, w) + 1 |-> IF k = Ahead(r, w) + 1 THEN f ELSE s[At(r, k)]]
    BY <1>2, <1>6 DEF Held
  <2>5. QED
    BY <1>2, <2>3, <2>4 DEF Held
<1>8. Len(Held(r, w, s)) < N - 1
  BY <1>1, <1>2, <1>6
<1>9. QED
  BY <1>2, <1>5, <1>7, <1>8

\* One frame less at the read index.
LEMMA OneLess ==
    ASSUME NEW r \in Slots, NEW w \in Slots, NEW s \in [Slots -> Frame \cup {0}], r # w
    PROVE  LET t == [s EXCEPT ![r] = 0]
           IN /\ Next1(r) \in Slots
              /\ Ready(r, w, s) => Ready(Next1(r), w, t)
              /\ Held(r, w, s) # <<>> /\ Head(Held(r, w, s)) = s[r]
              /\ Held(Next1(r), w, t) = Tail(Held(r, w, s))
<1> DEFINE t == [s EXCEPT ![r] = 0]
<1>1. N \in Nat /\ N > 1 /\ Slots = 0 .. N - 1 /\ r \in 0 .. N - 1 /\ w \in 0 .. N - 1
  BY Size
<1>2. Next1(r) \in Slots /\ Ahead(Next1(r), w) = Ahead(r, w) - 1 /\ Ahead(r, w) \in 1 .. N - 1
  BY <1>1 DEF Next1, Ahead
<1>3. \A i \in Slots : Ahead(Next1(r), i) < Ahead(r, w) - 1 <=> Ahead(r, i) < Ahead(r, w) /\ i # r
  BY <1>1 DEF Next1, Ahead
<1>4. ASSUME Ready(r, w, s) PROVE Ready(Next1(r), w, t)
  <2>1. \A i \in Slots : (t[i] # 0) <=> (s[i] # 0 /\ i # r)
    OBVIOUS
  <2>2. QED
    BY <1>2, <1>3, <1>4, <2>1 DEF Ready
<1>5. Held(r, w, s) \in Seq(Frame \cup {0}) /\ Len(Held(r, w, s)) = Ahead(r, w)
  <2>1. \A k \in 1 .. Ahead(r, w) : At(r, k) \in Slots
    BY <1>1, <1>2 DEF At
  <2>2. Held(r, w, s) \in [1 .. Ahead(r, w) -> Frame \cup {0}]
    BY <2>1 DEF Held
  <2>3. QED
    BY <1>2, <2>2
<1>6. Held(r, w, s) # <<>> /\ Head(Held(r, w, s)) = s[r]
  <2>1. At(r, 1) = r
    BY <1>1 DEF At
  <2>2. QED
    BY <1>2, <1>5, <2>1 DEF Held
<1>7. Held(Next1(r), w, t) = Tail(Held(r, w, s))
  <2>1. \A k \in 1 .. Ahead(r, w) - 1 :
           At(Next1(r), k) = At(r, k + 1) /\ At(r, k + 1) \in Slots /\ At(r, k + 1) # r
    BY <1>1, <1>2 DEF At, Next1
  <2>2. Tail(Held(r, w, s)) = [k \in 1 .. Ahead(r, w) - 1 |-> s[At(r, k + 1)]]
    BY <1>2, <1>5 DEF Held
  <2>3. QED
    BY <1>2, <2>1, <2>2 DEF Held
<1>8. QED
  BY <1>2, <1>4, <1>6, <1>7

-----------------------------------------------------------------------------
(* The inductive invariant *)

\* ReadyInWindow, by distances.
LEMMA WindowByDistance == TypeOK => (ReadyInWindow <=> Ready(readIdx, writeIdx, slot))
BY ByDistance DEF ReadyInWindow, Ready

LEMMA Initially == Init => Inv
<1> SUFFICES ASSUME Init PROVE Inv
  OBVIOUS
<1>1. TypeOK
  BY Size, BufferAssumption DEF Init, TypeOK
<1>2. Ready(readIdx, writeIdx, slot)
  BY <1>1, EmptyWindow DEF Init, TypeOK
<1>3. QED
  BY <1>1, <1>2, WindowByDistance DEF Init, Inv, EmptyInv, SentInv

\* A step that leaves the ring alone.
LEMMA RingKept ==
    ASSUME Inv, UNCHANGED ringVars
    PROVE  ReadyInWindow'
BY DEF Inv, ReadyInWindow, InWindow, Filled, ringVars

\* A step that empties the ring and resets its indexes.
LEMMA RingEmptied ==
    ASSUME TypeOK', readIdx' = 0, writeIdx' = 0, \A i \in Slots : slot'[i] = 0
    PROVE  ReadyInWindow'
<1>1. Ready(0, 0, slot')
  BY EmptyWindow DEF TypeOK
<1>2. (TypeOK => (ReadyInWindow <=> Ready(readIdx, writeIdx, slot)))'
  BY WindowByDistance, PTL
<1>3. QED
  BY <1>1, <1>2 DEF Ready

\* ByDistance, as a formula that can be primed.
LEMMA QueueByDistance == TypeOK => Queue = Held(readIdx, writeIdx, slot)
BY ByDistance

\* What each step does to what waits: it stays, it is lost, the newest joins it, or
\* the oldest leaves for the sink.
Kept == Queue' = Queue /\ heard' = heard
Cleared == Queue' = <<>> /\ heard' = heard
Joined == /\ Len(Queue) < BUFFER_FRAMES - 1
          /\ \E f \in Frame : Queue' = Append(Queue, f)
          /\ heard' = heard
Left == Queue # <<>> /\ heard' = <<Head(Queue)>> /\ Queue' = Tail(Queue)

LEMMA QueueKept ==
    ASSUME UNCHANGED ringVars
    PROVE  Queue' = Queue
BY DEF Queue, Filled, ringVars

LEMMA QueueEmptied ==
    ASSUME TypeOK', readIdx' = 0, writeIdx' = 0, \A i \in Slots : slot'[i] = 0
    PROVE  Queue' = <<>>
<1>1. Held(0, 0, slot') = <<>>
  BY EmptyWindow DEF TypeOK
<1>2. (TypeOK => Queue = Held(readIdx, writeIdx, slot))'
  BY QueueByDistance, PTL
<1>3. QED
  BY <1>1, <1>2 DEF Held

\* A step that leaves the ring alone, or empties it.
LEMMA QuietStep ==
    ASSUME Inv, TypeOK', EmptyInv', SentInv', UNCHANGED <<ringVars, heard>>
    PROVE  Inv' /\ Kept
BY RingKept, QueueKept DEF Inv, Kept

LEMMA EmptyingStep ==
    ASSUME Inv, TypeOK', EmptyInv', SentInv',
           readIdx' = 0, writeIdx' = 0, heard' = heard, \A i \in Slots : slot'[i] = 0
    PROVE  Inv' /\ Cleared
BY RingEmptied, QueueEmptied DEF Inv, Cleared

LEMMA FreeStep ==
    ASSUME Inv, NEW t \in Freers, BufferFree(t)
    PROVE  Inv' /\ (Kept \/ Cleared)
<1> USE DEF Inv, TypeOK, EmptyInv, SentInv, ringVars, lifeVars, taskVars, rtpVars, freeVars
<1>0. "rtsp" \in Freers
  BY DEF Freers
<1>1. CASE StopWaits(t)
  <2>1. /\ stop' \in [Freers -> {"no", "waits", "mutex", "frames"}]
        /\ stop'["rtsp"] = "no" => stop["rtsp"] = "no"
    BY <1>0, <1>1 DEF StopWaits
  <2>2. TypeOK'
    BY <1>1, <2>1, Zenon DEF StopWaits
  <2>3. EmptyInv' /\ SentInv' /\ UNCHANGED <<ringVars, heard>>
    BY <1>1, <2>1 DEF StopWaits
  <2>4. QED
    BY <2>2, <2>3, QuietStep
<1>2. CASE DeleteMutex(t)
  <2>1. /\ stop' \in [Freers -> {"no", "waits", "mutex", "frames"}]
        /\ stop'["rtsp"] = "no" => stop["rtsp"] = "no"
    BY <1>0, <1>2 DEF DeleteMutex
  <2>2. TypeOK'
    BY <1>2, <2>1, Zenon DEF DeleteMutex
  <2>3. EmptyInv' /\ SentInv' /\ UNCHANGED <<ringVars, heard>>
    BY <1>2, <2>1 DEF DeleteMutex
  <2>4. QED
    BY <2>2, <2>3, QuietStep
<1>3. CASE FreeFrames(t)
  <2>1. 0 \in Slots
    BY Size
  <2>2. /\ TypeOK' /\ EmptyInv' /\ SentInv'
        /\ readIdx' = 0 /\ writeIdx' = 0 /\ heard' = heard /\ \A i \in Slots : slot'[i] = 0
    BY <1>3, <2>1 DEF FreeFrames
  <2>3. QED
    BY <2>2, EmptyingStep
<1>4. QED
  BY <1>1, <1>2, <1>3 DEF BufferFree

LEMMA RtspStep ==
    ASSUME Inv, RtspNext
    PROVE  Inv' /\ (Kept \/ Cleared)
<1>1. 0 \in Slots
  BY Size
<1>2. CASE BufferFree("rtsp")
  BY <1>2, FreeStep DEF Freers
<1>3. CASE EndSession
  <2>1. TypeOK' /\ EmptyInv' /\ SentInv' /\ UNCHANGED <<ringVars, heard>>
    BY <1>3 DEF EndSession, RtspMay, JoinRtp, BeginDeinit, Inv, TypeOK, EmptyInv, SentInv,
       ringVars, taskVars, Freers
  <2>2. QED
    BY <2>1, QuietStep
<1>4. CASE BufferStart
  <2>1. /\ TypeOK' /\ EmptyInv' /\ SentInv'
        /\ readIdx' = 0 /\ writeIdx' = 0 /\ heard' = heard /\ \A i \in Slots : slot'[i] = 0
    BY <1>1, <1>4 DEF BufferStart, RtspMay, Alive, Inv, TypeOK, EmptyInv, SentInv,
       rtpVars, freeVars
  <2>2. QED
    BY <2>1, EmptyingStep
<1>5. CASE BufferFlush
  <2>1. /\ TypeOK' /\ EmptyInv' /\ SentInv'
        /\ readIdx' = 0 /\ writeIdx' = 0 /\ heard' = heard /\ \A i \in Slots : slot'[i] = 0
    BY <1>1, <1>5 DEF BufferFlush, RtspMay, Alive, Inv, TypeOK, EmptyInv, SentInv,
       lifeVars, taskVars, freeVars
  <2>2. QED
    BY <2>1, EmptyingStep
<1>6. CASE BufferInit
  <2>1. /\ sessions' \in 0 .. MaxSessions /\ writer' \in {"gone", "waits"} /\ heard' = heard
        /\ \A i \in Slots : slot[i] = 0
    BY <1>6, BufferAssumption DEF BufferInit, RtspMay, Inv, TypeOK, EmptyInv, taskVars
  <2>2. CASE Alive
    <3>1. TypeOK' /\ EmptyInv' /\ SentInv' /\ UNCHANGED <<ringVars, heard>>
      BY <1>6, <2>1, <2>2 DEF BufferInit, Inv, TypeOK, EmptyInv, SentInv, ringVars, lifeVars,
         taskVars, freeVars
    <3>2. QED
      BY <3>1, QuietStep
  <2>3. CASE ~Alive
    <3>1. /\ readIdx' = 0 /\ writeIdx' = 0 /\ slot' = [i \in Slots |-> 0]
          /\ running' = FALSE /\ started' = FALSE /\ frames' \in BOOLEAN /\ mutex' \in BOOLEAN
          /\ UNCHANGED <<taskVars, sent, freeVars>>
      BY <1>6, <2>3, Zenon DEF BufferInit
    <3>2. TypeOK' /\ EmptyInv' /\ SentInv' /\ \A i \in Slots : slot'[i] = 0
      BY <1>1, <2>1, <3>1 DEF Inv, TypeOK, EmptyInv, SentInv, taskVars, freeVars
    <3>3. QED
      BY <2>1, <3>1, <3>2, EmptyingStep
  <2>4. QED
    BY <2>2, <2>3
<1>7. QED
  BY <1>2, <1>3, <1>4, <1>5, <1>6 DEF RtspNext

LEMMA UpdateStep ==
    ASSUME Inv, UpdateNext
    PROVE  Inv' /\ (Kept \/ Cleared)
<1>1. CASE BufferFree("updater")
  BY <1>1, FreeStep DEF Freers
<1>2. CASE Deinit
  <2>1. TypeOK' /\ EmptyInv' /\ SentInv' /\ UNCHANGED <<ringVars, heard>>
    BY <1>2 DEF Deinit, BeginDeinit, Inv, TypeOK, EmptyInv, SentInv, ringVars, taskVars,
       rtpVars, Freers
  <2>2. QED
    BY <2>1, QuietStep
<1>3. CASE DeleteReceiver
  <2>1. TypeOK' /\ EmptyInv' /\ SentInv' /\ UNCHANGED <<ringVars, heard>>
    BY <1>3 DEF DeleteReceiver, RtspMay, JoinRtp, BeginDeinit, Inv, TypeOK, EmptyInv, SentInv,
       ringVars, taskVars, Freers
  <2>2. QED
    BY <2>1, QuietStep
<1>4. QED
  BY <1>1, <1>2, <1>3 DEF UpdateNext

LEMMA BufferWriteStep ==
    ASSUME Inv, BufferWrite
    PROVE  Inv' /\ (Kept \/ Joined)
<1>1. TypeOK /\ sent \in Frame /\ readIdx \in Slots /\ writeIdx \in Slots
      /\ slot \in [Slots -> Frame \cup {0}] /\ sent' = sent /\ writer' = "plays"
  BY DEF Inv, TypeOK, SentInv, BufferWrite
<1>2. EmptyInv' /\ SentInv'
  BY DEF Inv, EmptyInv, SentInv, BufferWrite, Alive, lifeVars
<1>3. CASE After(writeIdx) # readIdx
  <2>1. After(writeIdx) = Next1(writeIdx) /\ Next1(writeIdx) # readIdx
    BY <1>1, <1>3, ByDistance
  <2>2. /\ writeIdx' = Next1(writeIdx) /\ slot' = [slot EXCEPT ![writeIdx] = sent]
        /\ readIdx' = readIdx /\ heard' = heard
    BY <1>3, <2>1 DEF BufferWrite, taskVars
  <2>3. /\ Next1(writeIdx) \in Slots
        /\ Ready(readIdx, writeIdx, slot) => Ready(readIdx, writeIdx', slot')
        /\ Held(readIdx, writeIdx', slot') = Append(Held(readIdx, writeIdx, slot), sent)
        /\ Len(Held(readIdx, writeIdx, slot)) < N - 1
    BY <1>1, <2>1, <2>2, OneMore
  <2>4. TypeOK'
    BY <1>1, <2>2, <2>3 DEF TypeOK, BufferWrite, lifeVars, taskVars, freeVars
  <2>5. (TypeOK => (ReadyInWindow <=> Ready(readIdx, writeIdx, slot)))'
    BY WindowByDistance, PTL
  <2>6. ReadyInWindow'
    BY <1>1, <2>2, <2>3, <2>4, <2>5, WindowByDistance DEF Inv, Ready
  <2>7. (TypeOK => Queue = Held(readIdx, writeIdx, slot))'
    BY QueueByDistance, PTL
  <2>8. Queue' = Append(Queue, sent) /\ Len(Queue) < BUFFER_FRAMES - 1
    BY <1>1, <2>2, <2>3, <2>4, <2>7, QueueByDistance DEF Held, N
  <2>9. QED
    BY <1>1, <1>2, <2>2, <2>4, <2>6, <2>8 DEF Inv, Joined
<1>4. CASE After(writeIdx) = readIdx
  <2>1. UNCHANGED <<ringVars, heard>>
    BY <1>4 DEF BufferWrite, ringVars, taskVars
  <2>2. TypeOK'
    BY <1>1, <2>1 DEF TypeOK, BufferWrite, ringVars, lifeVars, taskVars, freeVars
  <2>3. QED
    BY <1>2, <2>1, <2>2, QuietStep
<1>5. QED
  BY <1>3, <1>4

LEMMA RtpStep ==
    ASSUME Inv, RtpNext
    PROVE  Inv' /\ (Kept \/ Joined)
<1>1. CASE SetStartTime
  <2>1. TypeOK' /\ EmptyInv' /\ SentInv' /\ UNCHANGED <<ringVars, heard>>
    <3>1. started' \in BOOLEAN
      BY <1>1, Zenon DEF SetStartTime, Inv, TypeOK
    <3>2. QED
      BY <1>1, <3>1 DEF SetStartTime, Inv, TypeOK, EmptyInv, SentInv, ringVars, taskVars, freeVars
  <2>2. QED
    BY <2>1, QuietStep
<1>2. CASE WriteBegins
  <2>1. TypeOK' /\ EmptyInv' /\ SentInv' /\ UNCHANGED <<ringVars, heard>>
    BY <1>2, BufferAssumption DEF WriteBegins, Alive, Inv, TypeOK, EmptyInv, SentInv, Frame, ringVars,
       lifeVars, taskVars, freeVars
  <2>2. QED
    BY <2>1, QuietStep
<1>3. CASE BufferWrite
  BY <1>3, BufferWriteStep
<1>4. QED
  BY <1>1, <1>2, <1>3 DEF RtpNext

LEMMA PlayFrameStep ==
    ASSUME Inv, PlayFrame
    PROVE  Inv' /\ Left
<1>1. TypeOK /\ readIdx \in Slots /\ writeIdx \in Slots
      /\ slot \in [Slots -> Frame \cup {0}] /\ readIdx # writeIdx /\ slot[readIdx] \in Frame
  BY DEF Inv, TypeOK, PlayFrame
<1>2. EmptyInv' /\ SentInv'
  BY <1>1 DEF Inv, EmptyInv, SentInv, PlayFrame, Alive, lifeVars, rtpVars, freeVars
<1>3. After(readIdx) = Next1(readIdx)
  BY <1>1, ByDistance
<1>4. /\ readIdx' = Next1(readIdx) /\ slot' = [slot EXCEPT ![readIdx] = 0]
      /\ writeIdx' = writeIdx /\ heard' = <<slot[readIdx]>>
  BY <1>3 DEF PlayFrame
<1>5. /\ Next1(readIdx) \in Slots
      /\ Ready(readIdx, writeIdx, slot) => Ready(readIdx', writeIdx, slot')
      /\ Held(readIdx, writeIdx, slot) # <<>>
      /\ Head(Held(readIdx, writeIdx, slot)) = slot[readIdx]
      /\ Held(readIdx', writeIdx, slot') = Tail(Held(readIdx, writeIdx, slot))
  BY <1>1, <1>4, OneLess
<1>6. TypeOK'
  BY <1>1, <1>4, <1>5 DEF TypeOK, PlayFrame, TaskAt, lifeVars, rtpVars, freeVars
<1>7. (TypeOK => (ReadyInWindow <=> Ready(readIdx, writeIdx, slot)))'
  BY WindowByDistance, PTL
<1>8. ReadyInWindow'
  BY <1>1, <1>4, <1>5, <1>6, <1>7, WindowByDistance DEF Inv, Ready
<1>9. (TypeOK => Queue = Held(readIdx, writeIdx, slot))'
  BY QueueByDistance, PTL
<1>10. Queue # <<>> /\ Head(Queue) = slot[readIdx] /\ Queue' = Tail(Queue)
  BY <1>1, <1>4, <1>5, <1>6, <1>9, QueueByDistance DEF Held
<1>11. QED
  BY <1>2, <1>4, <1>6, <1>8, <1>10 DEF Inv, Left

LEMMA OutputStep ==
    ASSUME Inv, OutputNext
    PROVE  Inv' /\ (Kept \/ Left)
<1>1. CASE PlayFrame
  BY <1>1, PlayFrameStep
<1>2. CASE ConfirmIdle \/ Enter \/ NotYet \/ SinkReturns
  <2>1. TypeOK' /\ EmptyInv' /\ SentInv' /\ UNCHANGED <<ringVars, heard>>
    BY <1>2 DEF ConfirmIdle, Enter, NotYet, SinkReturns, TaskAt, Inv, TypeOK, EmptyInv, SentInv,
       ringVars, lifeVars, rtpVars, freeVars
  <2>2. QED
    BY <2>1, QuietStep
<1>3. QED
  BY <1>1, <1>2 DEF OutputNext

\* Every step keeps the invariant and is one of the queue's, or leaves it alone.
LEMMA Step ==
    ASSUME Inv, [Next]_vars
    PROVE  Inv' /\ (Kept \/ Cleared \/ Joined \/ Left)
<1>1. CASE RtspNext
  BY <1>1, RtspStep
<1>2. CASE UpdateNext
  BY <1>2, UpdateStep
<1>3. CASE RtpNext
  BY <1>3, RtpStep
<1>4. CASE OutputNext
  BY <1>4, OutputStep
<1>5. CASE UNCHANGED vars
  <2>1. TypeOK' /\ EmptyInv' /\ SentInv' /\ UNCHANGED <<ringVars, heard>>
    BY <1>5 DEF vars, Inv, TypeOK, EmptyInv, SentInv, ringVars, lifeVars, taskVars, rtpVars, freeVars
  <2>2. QED
    BY <2>1, QuietStep
<1>6. QED
  BY <1>1, <1>2, <1>3, <1>4, <1>5 DEF Next

\* The inductive invariant holds of the ring (audio_buffer.c), for any size, any
\* number of frames and any number of sessions.
THEOREM Invariance == Spec => []Inv
<1>1. Inv /\ [Next]_vars => Inv'
  BY Step
<1>2. QED
  BY Initially, <1>1, PTL DEF Spec

-----------------------------------------------------------------------------
(* What the project claims of the ring *)

\* Whatever is written, played, flushed, stopped and freed, a slot has its ready flag
\* up exactly between the indexes (audio_buffer.c, write and flush).
THEOREM FlagsAgree == Spec => []ReadyInWindow
<1>1. Inv => ReadyInWindow
  BY DEF Inv
<1>2. QED
  BY <1>1, Invariance, PTL

\* The ring implements the queue: what the sink hears is what was written, in order,
\* without repetition, and nothing is lost but to a flush or an end (audio_buffer.c
\* against FrameQueue).
THEOREM RingIsQueue == Spec => Implements
<1>1. Init => AbstractQueue!Init
  <2> SUFFICES ASSUME Init PROVE AbstractQueue!Init
    OBVIOUS
  <2>1. TypeOK /\ Queue = Held(0, 0, slot)
    BY Initially, QueueByDistance DEF Inv, Init
  <2>2. Held(0, 0, slot) = <<>>
    BY <2>1, EmptyWindow DEF Init, TypeOK
  <2>3. QED
    BY <2>1, <2>2 DEF AbstractQueue!Init, Init
<1>2. Inv /\ [Next]_vars => [AbstractQueue!Next]_<<Queue, heard>>
  <2> SUFFICES ASSUME Inv, [Next]_vars PROVE [AbstractQueue!Next]_<<Queue, heard>>
    OBVIOUS
  <2>1. CASE Kept
    BY <2>1 DEF Kept
  <2>2. CASE Cleared
    BY <2>2 DEF Cleared, AbstractQueue!Next, AbstractQueue!Clear
  <2>3. CASE Joined
    BY <2>3 DEF Joined, AbstractQueue!Next, AbstractQueue!Put
  <2>4. CASE Left
    BY <2>4 DEF Left, AbstractQueue!Next, AbstractQueue!Take
  <2>5. QED
    BY <2>1, <2>2, <2>3, <2>4, Step
<1>3. QED
  BY <1>1, <1>2, Invariance, PTL DEF Implements, AbstractQueue!Spec, Spec
=============================================================================
