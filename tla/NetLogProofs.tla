---------------------------- MODULE NetLogProofs ----------------------------
(***************************************************************************)
(* The log ring and the task that sends it, proved for any capacity, any   *)
(* lines and any number of clients.  Until a length prefix is read past    *)
(* the end of the storage: what is sent is one line, whole up to that end, *)
(* every line that got the mutex is kept or counted, and a client hears    *)
(* the lines in order with nothing missing but what was evicted or         *)
(* skipped.                                                                *)
(*                                                                         *)
(* The invariant is about the bytes between the oldest and the newest      *)
(* position: each belongs to a frame that lies there whole, and the lines  *)
(* of the frames grow with the position.  The send cursor stands at the    *)
(* start of a frame, behind the newest or before the oldest, also while    *)
(* lines are evicted under it, and the lines from it on are those that the *)
(* client has not heard.                                                   *)
(***************************************************************************)
EXTENDS NetLog, FiniteSetTheorems, SequenceTheorems, WellFoundedInduction,
        NaturalsInduction, TLAPS

-----------------------------------------------------------------------------
(* Remainders *)

LEMMA NatWellFounded == IsWellFoundedOn({ss \in Nat \X Nat : ss[1] < ss[2]}, Nat)
BY NatLessThanWellFounded, Zenon DEF OpToRel

\* Every set of naturals that is not empty has a least element.
LEMMA Least ==
    ASSUME NEW S \in SUBSET Nat, S # {}
    PROVE  \E m \in S : \A k \in S : m <= k
<1> DEFINE R == {ss \in Nat \X Nat : ss[1] < ss[2]}
<1>1. PICK m \in S : \A k \in S : ~ (<<k, m>> \in R)
  <2>1. IsWellFoundedOn(R, Nat) /\ S \subseteq Nat
    BY NatWellFounded
  <2> HIDE DEF R
  <2>2. QED
    BY <2>1, WFMin, Zenon
<1>2. \A a, b \in Nat : a < b => <<a, b>> \in R
  <2> SUFFICES ASSUME NEW a \in Nat, NEW b \in Nat, a < b PROVE <<a, b>> \in R
    OBVIOUS
  <2>1. <<a, b>> \in Nat \X Nat /\ <<a, b>>[1] = a /\ <<a, b>>[2] = b
    OBVIOUS
  <2>2. QED
    BY <2>1
<1>3. \A k \in S : ~(k < m)
  <2> HIDE DEF R
  <2>1. QED
    BY <1>1, <1>2
<1>4. QED
  BY <1>3

\* A remainder is what is left of x in [0, c) by a multiple of c.
LEMMA RemainderIs ==
    ASSUME NEW c \in Nat, c > 0, NEW q \in Int, NEW r \in 0 .. c - 1,
           NEW x \in Int, x = q * c + r
    PROVE x % c = r
OBVIOUS

LEMMA Divides ==
    ASSUME NEW c \in Nat, c > 0, NEW x \in Int
    PROVE \E q \in Int, r \in 0 .. c - 1 : x = q * c + r /\ x % c = r
<1> DEFINE S == {r \in Nat : \E q \in Int : x = q * c + r}
<1>1. S # {}
  <2>1. CASE x >= 0
    <3>1. x = 0 * c + x
      OBVIOUS
    <3>2. \E q \in Int : x = q * c + x
      <4>1. 0 \in Int
        OBVIOUS
      <4>2. QED
        BY <3>1, <4>1, Zenon
    <3>3. x \in Nat
      BY <2>1
    <3>4. x \in S
      BY <3>2, <3>3, Zenon
    <3>5. QED
      BY <3>4, Zenon
  <2>2. CASE x < 0
    <3>1. PICK y \in Nat : y = -x
      BY <2>2
    <3>2. PICK d \in Nat : d = c - 1
      OBVIOUS
    <3>3. y * d \in Nat
      OBVIOUS
    <3>4. y * d = y * c - y
      BY <3>2
    <3>5. x = x * c + y * d
      BY <3>1, <3>4
    <3>6. y * d \in S
      BY <3>3, <3>5, Zenon
    <3>7. QED
      BY <3>6, Zenon
  <2>3. x >= 0 \/ x < 0
    OBVIOUS
  <2>4. QED
    BY <2>1, <2>2, <2>3, Zenon
<1>2. PICK r \in S : \A k \in S : r <= k
  <2>1. S \in SUBSET Nat
    BY Zenon
  <2> HIDE DEF S
  <2>2. QED
    BY <1>1, <2>1, Least
<1>3. PICK q \in Int : x = q * c + r
  BY <1>2
<1>4. r < c
  <2> SUFFICES ASSUME r >= c PROVE FALSE
    BY <1>2
  <2>1. r \in Nat
    BY <1>2, Zenon
  <2>2. r - c \in Nat /\ q + 1 \in Int /\ x = (q + 1) * c + (r - c)
    BY <1>3, <2>1
  <2>3. r - c \in S
    BY <2>2, Zenon
  <2>4. r <= r - c
    BY <1>2, <2>3, Zenon
  <2>5. QED
    BY <2>1, <2>4
<1>5. r \in Nat
  BY <1>2, Zenon
<1>6. x % c = r
  BY <1>3, <1>4, <1>5
<1>7. r \in 0 .. c - 1
  BY <1>4, <1>5
<1>8. QED
  BY <1>3, <1>6, <1>7, Zenon

\* A remainder grows with x until it comes to c.
LEMMA RemainderPlus ==
    ASSUME NEW c \in Nat, c > 0, NEW x \in Int, NEW j \in Nat, (x % c) + j < c
    PROVE  (x + j) % c = (x % c) + j
<1>1. PICK q \in Int, r \in 0 .. c - 1 : x = q * c + r /\ x % c = r
  BY Divides
<1>2. PICK u \in Int : u = q * c
  OBVIOUS
<1>3. PICK s \in 0 .. c - 1 : s = r + j
  BY <1>1
<1>4. PICK y \in Int : y = x + j
  OBVIOUS
<1>5. y = u + s
  BY <1>1, <1>2, <1>3, <1>4
<1>6. y = q * c + s
  BY <1>2, <1>5, Zenon
<1>7. y % c = s
  BY <1>6, RemainderIs
<1>8. QED
  BY <1>1, <1>3, <1>4, <1>7

\* A position x that lies y bytes behind t but for whole turns of the ring has its
\* cell y cells behind that of t.
LEMMA Turns ==
    ASSUME NEW c \in Nat, c > 0, NEW x \in Int, NEW t \in Int, NEW y \in 0 .. c - 1,
           NEW j \in Int, x = t + y + j * c
    PROVE  ((x % c) - t) % c = y
<1>1. PICK d \in Int, r \in 0 .. c - 1 : x = d * c + r /\ x % c = r
  BY Divides
<1>2. PICK q \in Int : q = j - d
  BY <1>1
<1>3. PICK u \in Int, v \in Int, w \in Int : u = j * c /\ v = d * c /\ w = q * c
  OBVIOUS
<1>4. w = u - v
  BY <1>2, <1>3
<1>5. x = t + y + u /\ x = v + r
  BY <1>1, <1>3, Zenon
<1>6. r - t = w + y
  BY <1>4, <1>5
<1>7. r - t = q * c + y
  BY <1>3, <1>6, Zenon
<1>8. r - t \in Int
  OBVIOUS
<1>9. (r - t) % c = y
  BY <1>7, <1>8, RemainderIs
<1>10. QED
  BY <1>1, <1>9, Zenon
-----------------------------------------------------------------------------
(* The ring *)

Window == Oldest .. total_written - 1
Line(p) == Byte(p)[1]
Part(p) == Byte(p)[2]

Typed ==
    /\ total_written \in Nat /\ buffered \in 0 .. Capacity /\ buffered <= total_written
    /\ dropped_lines \in Nat
    /\ logged \in 0 .. Len(Length) /\ pushing \in 0 .. logged /\ heard \in 0 .. logged
    /\ skipped \subseteq 1 .. logged
    /\ client \in Nat /\ accepted \in Nat /\ client <= accepted
    /\ cursor \in Nat /\ before \in Nat
    /\ sender \in {"select", "drain", "send"}

\* The frame that the byte at p belongs to, at f: whole, and its line is one that got
\* the mutex, before the line being pushed.
FrameOf(p, f) ==
    /\ Line(p) \in 1 .. logged /\ Line(p) \notin skipped
    /\ pushing # 0 => Line(p) < pushing
    /\ Part(p) \in 0 .. Frame(Line(p)) - 1
    /\ f = p - Part(p)
    /\ f >= Oldest /\ f + Frame(Line(p)) <= total_written
    /\ \A k \in 0 .. Frame(Line(p)) - 1 : Byte(f + k) = <<Line(p), k>>

FramesInv ==
    /\ \A p \in Window : FrameOf(p, p - Part(p))
    /\ \A p, q \in Window : /\ p <= q => Line(p) <= Line(q)
                            /\ Line(p) = Line(q) => p - Part(p) = q - Part(q)

\* A line is pushed while those logged after it are skipped.
PushInv ==
    pushing # 0 => /\ pushing \notin skipped /\ heard < pushing
                   /\ pushing + 1 .. logged \subseteq skipped

LEMMA Frames ==
    ASSUME NEW i \in Lines
    PROVE  /\ Length[i] \in Nat \ {0} /\ Prefix \in Nat \ {0}
           /\ Frame(i) \in Nat /\ Frame(i) > Prefix
BY NetLogAssumption DEF Lines, Frame

LEMMA Sizes == Capacity \in Nat /\ Capacity > 0 /\ Len(Length) \in Nat
BY NetLogAssumption

LEMMA CellOf == ASSUME NEW p \in Int PROVE p % Capacity \in Cells
BY Sizes DEF Cells

\* A byte that is kept stays as it is when a line is written, ...
LEMMA KeptByte ==
    ASSUME Typed, WriteLine, NEW p \in Window
    PROVE  Byte(p)' = Byte(p)
<1>1. /\ pushing \in Lines /\ buffered + Frame(pushing) <= Capacity
      /\ storage' = Written(pushing)
  BY DEF Typed, WriteLine, Lines
<1>2. Capacity \in Nat /\ Capacity > 0 /\ Frame(pushing) \in Nat
  BY <1>1, Sizes, Frames
<1>3. p \in Int /\ total_written \in Nat /\ p % Capacity \in Cells
  BY CellOf DEF Typed, Window, Oldest
<1>4. PICK y \in 0 .. Capacity - 1 : y = p - total_written + Capacity /\ y >= Frame(pushing)
  BY <1>1, <1>2 DEF Typed, Window, Oldest
<1>5. \E j \in Int : p = total_written + y + j * Capacity
  <2>1. PICK j \in Int : j = -1
    OBVIOUS
  <2>2. p = total_written + y + j * Capacity
    BY <1>2, <1>3, <1>4, <2>1
  <2>3. QED
    BY <2>2, Zenon
<1>6. ((p % Capacity) - total_written) % Capacity = y
  <2>1. total_written \in Int
    BY <1>3
  <2>2. QED
    BY <1>2, <1>3, <1>5, <2>1, Turns, Zenon
<1>7. Written(pushing)[p % Capacity] = storage[p % Capacity]
  <2> DEFINE c == p % Capacity
  <2>1. c \in Cells /\ (c - total_written) % Capacity = y /\ ~(y < Frame(pushing))
    BY <1>2, <1>3, <1>4, <1>6
  <2> HIDE DEF c
  <2>2. Written(pushing)[c] = storage[c]
    BY <2>1 DEF Written
  <2>3. QED
    BY <2>2 DEF c
<1>8. QED
  BY <1>1, <1>7, Zenon DEF Byte

\* ... and the bytes of the line lie behind the newest.
LEMMA WrittenByte ==
    ASSUME Typed, WriteLine, NEW k \in 0 .. Frame(pushing) - 1,
           NEW p \in Int, p = total_written + k
    PROVE  Byte(p)' = <<pushing, k>>
<1>1. /\ pushing \in Lines /\ buffered + Frame(pushing) <= Capacity
      /\ storage' = Written(pushing)
  BY DEF Typed, WriteLine, Lines
<1>2. Capacity \in Nat /\ Capacity > 0 /\ Frame(pushing) \in Nat
  BY <1>1, Sizes, Frames
<1>3. total_written \in Int /\ p % Capacity \in Cells /\ k \in 0 .. Capacity - 1 /\ 0 \in Int
  BY <1>1, <1>2, CellOf DEF Typed
<1>4. p = total_written + k + 0 * Capacity
  BY <1>2, <1>3
<1>5. ((p % Capacity) - total_written) % Capacity = k
  BY <1>2, <1>3, <1>4, Turns, Zenon
<1>6. Written(pushing)[p % Capacity] = <<pushing, k>>
  <2> DEFINE c == p % Capacity
  <2>1. c \in Cells /\ (c - total_written) % Capacity = k /\ k < Frame(pushing)
    BY <1>2, <1>3, <1>5
  <2> HIDE DEF c
  <2>2. Written(pushing)[c] = <<pushing, k>>
    BY <2>1 DEF Written
  <2>3. QED
    BY <2>2 DEF c
<1>7. QED
  BY <1>1, <1>6, Zenon DEF Byte

LEMMA RetainedIs == Typed => Retained = {Line(p) : p \in Window}
<1> SUFFICES ASSUME Typed PROVE Retained = {Line(p) : p \in Window}
  OBVIOUS
<1>1. total_written \in Int /\ buffered \in Int
  BY DEF Typed
<1>2. \A k \in 0 .. buffered - 1 : Oldest + k \in Window
  BY <1>1 DEF Oldest, Window
<1>3. \A p \in Window : \E k \in 0 .. buffered - 1 : p = Oldest + k
  <2> SUFFICES ASSUME NEW p \in Window PROVE \E k \in 0 .. buffered - 1 : p = Oldest + k
    OBVIOUS
  <2>1. p - Oldest \in 0 .. buffered - 1 /\ p = Oldest + (p - Oldest)
    BY <1>1 DEF Oldest, Window
  <2>2. QED
    BY <2>1
<1>4. QED
  BY <1>2, <1>3 DEF Retained, Line

LEMMA RetainedThen == (Typed => Retained = {Line(p) : p \in Window})'
BY RetainedIs, PTL

\* A frame that starts at p: its line has its bytes there, the lines before it are
\* older and those behind it newer, and behind it starts another frame or nothing.
LEMMA FrameStartsAt ==
    ASSUME Typed, FramesInv, NEW p \in Window, Part(p) = 0, NEW e, e = p + Frame(Line(p))
    PROVE  /\ Line(p) \in 1 .. logged /\ Line(p) \in Lines
           /\ e \in Int /\ e > p /\ e <= total_written
           /\ \A k \in 0 .. Frame(Line(p)) - 1 : Byte(p + k) = <<Line(p), k>>
           /\ \A q \in Window : /\ q \in p .. e - 1 => Line(q) = Line(p)
                                /\ q < p => Line(q) < Line(p)
                                /\ q >= e => Line(q) > Line(p)
           /\ e \in Window => Part(e) = 0
<1>1. /\ FrameOf(p, p) /\ \A q \in Window : FrameOf(q, q - Part(q))
      /\ \A q, r \in Window : /\ q <= r => Line(q) <= Line(r)
                              /\ Line(q) = Line(r) => q - Part(q) = r - Part(r)
  <2>1. p \in Int /\ p - Part(p) = p
    BY DEF Window, Typed, Oldest
  <2>2. QED
    BY <2>1 DEF FramesInv
<1>2. Line(p) \in 1 .. logged /\ Line(p) \in Lines
  BY <1>1 DEF FrameOf, Typed, Lines
<1>3. p \in Int /\ Frame(Line(p)) \in Nat /\ Frame(Line(p)) > 0 /\ Window \subseteq Int
  BY <1>2, Frames DEF Window, Typed, Oldest
<1>4. e \in Int /\ e > p /\ e <= total_written
  BY <1>1, <1>3 DEF FrameOf
<1>5. \A k \in 0 .. Frame(Line(p)) - 1 : Byte(p + k) = <<Line(p), k>>
  BY <1>1 DEF FrameOf
<1>6. ASSUME NEW q \in Window, q \in p .. e - 1
      PROVE  Line(q) = Line(p)
  <2>1. PICK k \in 0 .. Frame(Line(p)) - 1 : q = p + k
    <3>1. q - p \in 0 .. Frame(Line(p)) - 1 /\ q = p + (q - p)
      BY <1>3, <1>6
    <3>2. QED
      BY <3>1
  <2>2. Byte(q) = <<Line(p), k>>
    BY <1>5, <2>1
  <2>3. QED
    BY <2>2 DEF Line
<1>7. ASSUME NEW q \in Window, Line(q) = Line(p)
      PROVE  q \in p .. e - 1
  <2>1. q - Part(q) = p - Part(p) /\ Part(q) \in 0 .. Frame(Line(p)) - 1
    BY <1>1, <1>7 DEF FrameOf
  <2>2. QED
    BY <1>3, <2>1
<1>8. ASSUME NEW q \in Window
      PROVE  (q < p => Line(q) < Line(p)) /\ (q >= e => Line(q) > Line(p))
  <2>1. Line(q) \in Int /\ Line(p) \in Int /\ q \in Int
    BY <1>1, <1>2, <1>3 DEF FrameOf
  <2>2. (q <= p => Line(q) <= Line(p)) /\ (p <= q => Line(p) <= Line(q))
    BY <1>1
  <2>3. Line(q) = Line(p) => q \in p .. e - 1
    BY <1>7
  <2>4. QED
    BY <1>3, <1>4, <2>1, <2>2, <2>3
<1>9. ASSUME e \in Window
      PROVE  Part(e) = 0
  <2>1. FrameOf(e, e - Part(e))
    BY <1>1, <1>9
  <2>2. Part(e) \in Nat /\ Part(e) <= Frame(Line(e)) - 1 /\ Frame(Line(e)) \in Nat
    BY <2>1, Frames DEF FrameOf, Lines, Typed
  <2>3. ASSUME Part(e) > 0
        PROVE  FALSE
    <3>1. PICK k \in 0 .. Frame(Line(e)) - 1 : k = Part(e) - 1
      BY <2>2, <2>3
    <3>2. Byte((e - Part(e)) + k) = <<Line(e), k>>
      BY <2>1 DEF FrameOf
    <3>3. (e - Part(e)) + k = e - 1
      BY <1>4, <2>2, <3>1
    <3>4. Line(e - 1) = Line(e)
      BY <3>2, <3>3 DEF Line
    <3>5. e - 1 \in Window /\ e - 1 \in p .. e - 1
      BY <1>3, <1>4, <1>9 DEF Window, Typed, Oldest
    <3>6. Line(e) = Line(p)
      BY <1>6, <3>4, <3>5
    <3>7. Line(e) > Line(p) /\ Line(p) \in Int
      BY <1>2, <1>4, <1>8, <1>9
    <3>8. QED
      BY <3>6, <3>7
  <2>4. QED
    BY <2>2, <2>3
<1>10. QED
  BY <1>2, <1>4, <1>5, <1>6, <1>8, <1>9

\* The oldest position is the start of a frame.
LEMMA OldestStarts ==
    ASSUME Typed, FramesInv, buffered > 0
    PROVE  Oldest \in Window /\ Part(Oldest) = 0
<1>1. Oldest \in Window /\ Oldest \in Int
  BY DEF Oldest, Window, Typed
<1>2. FrameOf(Oldest, Oldest - Part(Oldest))
  BY <1>1 DEF FramesInv
<1>3. Part(Oldest) \in Nat /\ Oldest - Part(Oldest) >= Oldest
  <2>1. Line(Oldest) \in Lines
    BY <1>2 DEF FrameOf, Lines, Typed
  <2>2. Frame(Line(Oldest)) \in Nat
    BY <2>1, Frames
  <2>3. QED
    BY <1>2, <2>2 DEF FrameOf
<1>4. QED
  BY <1>1, <1>3

\* What does not touch the ring leaves its frames, if it skips no line of theirs and
\* pushes none before them.
LEMMA FramesKept ==
    ASSUME Typed, FramesInv, UNCHANGED <<storage, total_written, buffered>>,
           logged' \in Int, logged' >= logged,
           \A l \in 1 .. logged : l \in skipped' => l \in skipped,
           \A l \in 1 .. logged : pushing' # 0 /\ (pushing # 0 => l < pushing) => l < pushing'
    PROVE  /\ FramesInv' /\ Oldest' = Oldest /\ Window' = Window
           /\ \A p : Byte(p)' = Byte(p) /\ Line(p)' = Line(p) /\ Part(p)' = Part(p)
<1>1. UNCHANGED <<storage, total_written, buffered>>
  OBVIOUS
<1>2. Oldest' = Oldest /\ Window' = Window /\ \A p : Byte(p)' = Byte(p)
  BY <1>1 DEF Oldest, Window, Byte
<1>3. \A p : Line(p)' = Line(p) /\ Part(p)' = Part(p)
  BY <1>2 DEF Line, Part
<1>4. ASSUME NEW p \in Window
      PROVE  FrameOf(p, p - Part(p))'
  <2>1. FrameOf(p, p - Part(p))
    BY <1>4 DEF FramesInv
  <2>2. Line(p) \in 1 .. logged' /\ Line(p) \notin skipped'
    BY <2>1 DEF FrameOf, Typed
  <2>3. pushing' # 0 => Line(p) < pushing'
    BY <2>1 DEF FrameOf
  <2>4. QED
    BY <1>1, <1>2, <1>3, <2>1, <2>2, <2>3 DEF FrameOf, Frame
<1>5. \A p, q \in Window : /\ p <= q => Line(p) <= Line(q)
                           /\ Line(p) = Line(q) => p - Part(p) = q - Part(q)
  BY DEF FramesInv
<1>6. QED
  BY <1>2, <1>3, <1>4, <1>5 DEF FramesInv

\* An eviction takes the oldest frame out of the ring and no other.
LEMMA EvictFrames ==
    ASSUME Typed, FramesInv, EvictLine
    PROVE  /\ Typed' /\ FramesInv' /\ Window' \subseteq Window
           /\ Oldest \in Window /\ Part(Oldest) = 0
           /\ Oldest' = Oldest + Frame(Line(Oldest)) /\ total_written' = total_written
           /\ \A p : Byte(p)' = Byte(p) /\ Line(p)' = Line(p) /\ Part(p)' = Part(p)
<1>1. /\ pushing \in Lines /\ Frame(pushing) <= Capacity
      /\ buffered + Frame(pushing) > Capacity
      /\ buffered' = buffered - FrameAt(Oldest) /\ dropped_lines' = dropped_lines + 1
      /\ UNCHANGED <<storage, total_written, logged, pushing, sending, skipped>>
  BY DEF EvictLine, Typed, Lines
<1>2. buffered > 0
  BY <1>1, Sizes, Frames DEF Typed
<1>3. Oldest \in Window /\ Part(Oldest) = 0
  BY <1>2, OldestStarts
<1> DEFINE l == Line(Oldest)
           e == Oldest + Frame(l)
<1>4. /\ l \in 1 .. logged /\ l \in Lines /\ e \in Int /\ e > Oldest /\ e <= total_written
      /\ \A q \in Window : /\ q \in Oldest .. e - 1 => Line(q) = l
                           /\ q >= e => Line(q) > l
  BY <1>3, FrameStartsAt
<1>5. Frame(l) \in Nat /\ FrameAt(Oldest) = Frame(l)
  BY <1>4, Frames DEF FrameAt, Line
<1>6. /\ Oldest \in Nat /\ total_written \in Nat /\ Oldest' = e
      /\ buffered' \in 0 .. Capacity /\ buffered' <= total_written
  BY <1>1, <1>4, <1>5, Sizes DEF Typed, Oldest
<1>7. \A p : Byte(p)' = Byte(p) /\ Line(p)' = Line(p) /\ Part(p)' = Part(p)
  BY <1>1 DEF Byte, Line, Part
<1>8. Window' = e .. total_written - 1 /\ Window' \subseteq Window
  BY <1>1, <1>4, <1>6 DEF Window
<1>9. ASSUME NEW q \in Window'
      PROVE  FrameOf(q, q - Part(q))'
  <2>1. q \in Window /\ FrameOf(q, q - Part(q)) /\ Line(q) > l
    BY <1>4, <1>8, <1>9 DEF FramesInv
  <2>2. PICK f \in Int : f = q - Part(q)
    <3>1. Frame(Line(q)) \in Nat
      BY <2>1, Frames DEF FrameOf, Lines, Typed
    <3>2. Part(q) \in Int /\ q \in Int
      BY <2>1, <3>1, <1>6 DEF FrameOf, Window, Typed
    <3>3. QED
      BY <3>2
  <2>3. f >= e
    <3>1. f >= Oldest /\ Line(q) \in Lines
      BY <2>1, <2>2 DEF FrameOf, Lines, Typed
    <3>2. 0 \in 0 .. Frame(Line(q)) - 1 /\ f + 0 = f
      BY <2>2, <3>1, Frames, NetLogAssumption
    <3>3. Byte(f) = <<Line(q), 0>>
      BY <2>1, <2>2, <3>2 DEF FrameOf
    <3>4. Line(f) = Line(q)
      BY <3>3 DEF Line
    <3>5. f \in Window
      BY <1>6, <2>1, <2>2, <3>1, <3>2, Frames DEF FrameOf, Window
    <3>6. ~(f \in Oldest .. e - 1)
      BY <1>4, <2>1, <3>4, <3>5
    <3>7. QED
      BY <1>4, <1>6, <2>2, <3>1, <3>6
  <2>4. QED
    BY <1>1, <1>6, <1>7, <2>1, <2>2, <2>3 DEF FrameOf, Frame
<1>10. FramesInv'
  <2>1. \A p, q \in Window : /\ p <= q => Line(p) <= Line(q)
                             /\ Line(p) = Line(q) => p - Part(p) = q - Part(q)
    BY DEF FramesInv
  <2>2. QED
    BY <1>7, <1>8, <1>9, <2>1 DEF FramesInv
<1>11. Typed'
  BY <1>1, <1>6 DEF Typed, sending
<1>12. QED
  BY <1>1, <1>3, <1>6, <1>7, <1>8, <1>10, <1>11

\* A line that is written becomes the newest frame and leaves the others alone.
LEMMA WriteFrames ==
    ASSUME Typed, FramesInv, PushInv, WriteLine
    PROVE  /\ Typed' /\ FramesInv'
           /\ Oldest' = Oldest /\ total_written' = total_written + Frame(pushing)
           /\ Frame(pushing) \in Nat /\ Frame(pushing) > 0 /\ Oldest \in Nat
           /\ \A p \in Window : /\ p \in Window' /\ Line(p) < pushing
                                /\ Line(p)' = Line(p) /\ Part(p)' = Part(p)
           /\ \A p \in Window' \ Window :
                /\ p >= total_written /\ Line(p)' = pushing /\ Part(p)' = p - total_written
<1>1. /\ pushing \in Lines /\ pushing # 0 /\ buffered + Frame(pushing) <= Capacity
      /\ total_written' = total_written + Frame(pushing)
      /\ buffered' = buffered + Frame(pushing) /\ pushing' = 0
      /\ UNCHANGED <<dropped_lines, logged, sending, skipped>>
  BY DEF WriteLine, Typed, Lines
<1>2. Frame(pushing) \in Nat /\ Frame(pushing) > 0
  BY <1>1, Frames, NetLogAssumption
<1>3. Typed'
  BY <1>1, <1>2, Sizes DEF Typed, sending
<1>4. /\ Oldest' = Oldest /\ Oldest \in Nat /\ total_written \in Nat /\ Window \subseteq Int
      /\ Window \subseteq Window'
  BY <1>1, <1>2 DEF Typed, Oldest, Window
<1>5. \A p \in Window : FrameOf(p, p - Part(p)) /\ Line(p) < pushing
  BY <1>1 DEF FramesInv, FrameOf
<1>6. \A p \in Window : Byte(p)' = Byte(p) /\ Line(p)' = Line(p) /\ Part(p)' = Part(p)
  BY KeptByte DEF Line, Part
<1>7. ASSUME NEW p \in Window', p \notin Window
      PROVE  /\ p >= total_written
             /\ Line(p)' = pushing /\ Part(p)' = p - total_written
             /\ Part(p)' \in 0 .. Frame(pushing) - 1 /\ p \in Int
  <2>1. p \in Int /\ p >= total_written /\ p < total_written + Frame(pushing)
    BY <1>1, <1>2, <1>4, <1>7 DEF Window
  <2>2. PICK k \in 0 .. Frame(pushing) - 1 : k = p - total_written
    BY <1>2, <1>4, <2>1
  <2>3. p = total_written + k
    BY <1>4, <2>1, <2>2
  <2>4. Byte(p)' = <<pushing, k>>
    BY <2>1, <2>3, WrittenByte
  <2>5. QED
    BY <2>1, <2>2, <2>4 DEF Line, Part
<1>8. ASSUME NEW p \in Window
      PROVE  FrameOf(p, p - Part(p))'
  <2>1. FrameOf(p, p - Part(p))
    BY <1>5
  <2>2. PICK f : f = p - Part(p)
    OBVIOUS
  <2>3. \A k \in 0 .. Frame(Line(p)) - 1 : f + k \in Window
    <3>1. Line(p) \in Lines
      BY <2>1 DEF FrameOf, Lines, Typed
    <3>2. f \in Int /\ Frame(Line(p)) \in Nat
      BY <1>4, <2>1, <2>2, <3>1, Frames DEF FrameOf
    <3>3. QED
      BY <1>4, <2>1, <2>2, <3>2 DEF FrameOf, Window
  <2>4. \A k \in 0 .. Frame(Line(p)) - 1 : Byte(f + k)' = <<Line(p), k>>
    BY <1>6, <2>1, <2>2, <2>3 DEF FrameOf
  <2>5. f + Frame(Line(p)) <= total_written'
    <3>1. Line(p) \in Lines
      BY <2>1 DEF FrameOf, Lines, Typed
    <3>2. f \in Int /\ Frame(Line(p)) \in Nat
      BY <1>4, <2>1, <2>2, <3>1, Frames DEF FrameOf
    <3>3. QED
      BY <1>1, <1>2, <1>4, <2>1, <2>2, <3>2 DEF FrameOf
  <2>6. QED
    BY <1>1, <1>4, <1>6, <2>1, <2>2, <2>4, <2>5 DEF FrameOf, Frame
<1>9. ASSUME NEW p \in Window', p \notin Window
      PROVE  FrameOf(p, p - Part(p))' /\ p - Part(p)' = total_written
  <2>1. PICK t \in Nat, l \in Lines : t = total_written /\ l = pushing
    BY <1>1, <1>4
  <2>2. /\ Line(p)' = l /\ Part(p)' \in 0 .. Frame(l) - 1 /\ p - Part(p)' = t
        /\ l \in 1 .. logged /\ l \notin skipped
    BY <1>1, <1>4, <1>7, <1>9, <2>1 DEF PushInv, Typed
  <2>3. ASSUME NEW k \in 0 .. Frame(l) - 1
        PROVE  Byte(t + k)' = <<l, k>>
    <3>1. PICK q \in Int : q = t + k
      BY <1>2, <2>1
    <3>2. Byte(q)' = <<l, k>>
      BY <2>1, <3>1, WrittenByte
    <3>3. QED
      BY <3>1, <3>2
  <2>4. t >= Oldest' /\ t + Frame(l) <= total_written'
    BY <1>1, <1>2, <1>4, <2>1 DEF Oldest, Typed
  <2>5. FrameOf(p, t)'
    BY <1>1, <2>2, <2>3, <2>4 DEF FrameOf, Frame
  <2>6. QED
    BY <2>1, <2>2, <2>5
<1>10. FramesInv'
  <2>1. \A p \in Window' : FrameOf(p, p - Part(p))'
    BY <1>8, <1>9
  <2>2. ASSUME NEW p \in Window', NEW q \in Window'
        PROVE  /\ p <= q => Line(p)' <= Line(q)'
               /\ Line(p)' = Line(q)' => p - Part(p)' = q - Part(q)'
    <3>1. CASE p \in Window /\ q \in Window
      BY <1>6, <3>1 DEF FramesInv
    <3>2. CASE p \in Window /\ q \notin Window
      BY <1>1, <1>5, <1>6, <1>7, <3>2 DEF FrameOf, Typed
    <3>3. CASE p \notin Window /\ q \in Window
      <4>1. ~(p <= q)
        BY <1>4, <1>7, <3>3 DEF Window
      <4>2. QED
        BY <1>1, <1>5, <1>6, <1>7, <3>3, <4>1 DEF FrameOf, Typed
    <3>4. CASE p \notin Window /\ q \notin Window
      BY <1>1, <1>7, <1>9, <3>4 DEF Typed
    <3>5. QED
      BY <3>1, <3>2, <3>3, <3>4
  <2>3. QED
    BY <2>1, <2>2 DEF FramesInv
<1>11. QED
  BY <1>1, <1>2, <1>3, <1>4, <1>5, <1>6, <1>7, <1>10

-----------------------------------------------------------------------------
(* What is counted *)

Counted ==
    Cardinality(Retained) + dropped_lines + (IF pushing = 0 THEN 0 ELSE 1)
      = logged - Cardinality(skipped)

LEMMA Finite ==
    ASSUME Typed, FramesInv
    PROVE  /\ Retained \subseteq 1 .. logged
           /\ IsFiniteSet(Retained) /\ Cardinality(Retained) \in Nat
           /\ IsFiniteSet(skipped) /\ Cardinality(skipped) \in Nat
<1>1. Retained \subseteq 1 .. logged
  BY RetainedIs DEF FramesInv, FrameOf
<1>2. IsFiniteSet(1 .. logged) /\ skipped \subseteq 1 .. logged
  BY FS_Interval, Sizes DEF Typed
<1>3. IsFiniteSet(Retained) /\ IsFiniteSet(skipped)
  BY <1>1, <1>2, FS_Subset
<1>4. QED
  BY <1>1, <1>3, FS_CardinalityType

LEMMA RetainedKept == UNCHANGED ring => Retained' = Retained
BY DEF ring, Retained, Oldest, Byte

LEMMA LogCounts ==
    ASSUME Typed, FramesInv, PushInv, Counted, Log \/ LogContended
    PROVE  Typed' /\ FramesInv' /\ PushInv' /\ Counted'
<1>1. UNCHANGED <<ring, sending>> /\ logged' = logged + 1 /\ logged < Len(Length)
  BY DEF Log, LogContended
<1>2. Retained' = Retained
  BY <1>1, RetainedKept
<1>3. logged \in Nat /\ logged' \in 0 .. Len(Length) /\ logged' >= logged
  BY <1>1, Sizes DEF Typed
<1>4. CASE Log
  <2>1. pushing = 0 /\ pushing' = logged + 1 /\ UNCHANGED skipped
    BY <1>4 DEF Log
  <2>2. Typed'
    BY <1>1, <1>3, <2>1 DEF Typed, ring, sending
  <2>3. FramesInv'
    BY <1>1, <1>3, <2>1, FramesKept DEF ring
  <2>4. PushInv'
    BY <1>1, <1>3, <2>1 DEF PushInv, Typed, sending
  <2>5. Counted'
    BY <1>1, <1>2, <1>3, <2>1, Finite DEF Counted, ring, Typed
  <2>6. QED
    BY <2>2, <2>3, <2>4, <2>5
<1>5. CASE LogContended
  <2>1. skipped' = skipped \cup {logged + 1} /\ UNCHANGED pushing
    BY <1>5 DEF LogContended
  <2>2. Typed'
    BY <1>1, <1>3, <2>1 DEF Typed, ring, sending
  <2>3. FramesInv'
    BY <1>1, <1>3, <2>1, FramesKept DEF ring
  <2>4. PushInv'
    BY <1>1, <1>3, <2>1 DEF PushInv, Typed, sending
  <2>5. Cardinality(skipped') = Cardinality(skipped) + 1
    <3>1. logged + 1 \notin skipped
      BY <1>3 DEF Typed
    <3>2. QED
      BY <2>1, <3>1, Finite, FS_AddElement
  <2>6. Counted'
    BY <1>1, <1>2, <1>3, <2>1, <2>5, Finite DEF Counted, ring, Typed
  <2>7. QED
    BY <2>2, <2>3, <2>4, <2>6
<1>6. QED
  BY <1>4, <1>5

LEMMA PushCounts ==
    ASSUME Typed, FramesInv, PushInv, Counted, Push
    PROVE  Typed' /\ FramesInv' /\ PushInv' /\ Counted'
<1>1. CASE DropLine
  <2>1. /\ pushing # 0 /\ pushing' = 0 /\ dropped_lines' = dropped_lines + 1
        /\ UNCHANGED <<storage, total_written, buffered, logged, sending, skipped>>
    BY <1>1 DEF DropLine
  <2>2. Typed' /\ PushInv'
    BY <2>1 DEF Typed, PushInv, sending
  <2>3. Retained' = Retained
    BY <2>1 DEF Retained, Oldest, Byte
  <2>4. FramesInv'
    BY <2>1, FramesKept DEF Typed
  <2>5. Counted'
    BY <2>1, <2>3, Finite DEF Counted, Typed
  <2>6. QED
    BY <2>2, <2>4, <2>5
<1>2. CASE EvictLine
  <2>1. /\ Typed' /\ FramesInv' /\ Window' \subseteq Window
        /\ Oldest \in Window /\ Part(Oldest) = 0
        /\ Oldest' = Oldest + Frame(Line(Oldest)) /\ total_written' = total_written
        /\ \A p : Line(p)' = Line(p)
    BY <1>2, EvictFrames
  <2> DEFINE l == Line(Oldest)
  <2>2. /\ l \in 1 .. logged /\ Oldest' \in Int
        /\ \A q \in Window : /\ q \in Oldest .. Oldest' - 1 => Line(q) = l
                             /\ q >= Oldest' => Line(q) > l
    BY <2>1, FrameStartsAt
  <2>3. Retained' = {Line(p) : p \in Window'}
    <3>1. Retained' = {Line(p)' : p \in Window'}
      BY <2>1, RetainedThen
    <3>2. QED
      BY <2>1, <3>1
  <2>4. Retained' = Retained \ {l} /\ l \in Retained
    <3>1. Retained = {Line(p) : p \in Window}
      BY RetainedIs
    <3>2. \A p \in Window : p \in Window' <=> Line(p) # l
      <4> SUFFICES ASSUME NEW p \in Window PROVE p \in Window' <=> Line(p) # l
        OBVIOUS
      <4>1. /\ p \in Int /\ Oldest \in Int /\ Oldest' \in Int
            /\ p >= Oldest /\ p <= total_written - 1
        BY <2>2 DEF Window, Typed, Oldest
      <4>2. CASE p < Oldest'
        <5>1. p \in Oldest .. Oldest' - 1
          <6>1. \A x, a, b \in Int : x >= a /\ x < b => x \in a .. b - 1
            OBVIOUS
          <6>2. QED
            BY <4>1, <4>2, <6>1, Zenon
        <5>2. Line(p) = l
          BY <2>2, <5>1
        <5>3. p \notin Window'
          BY <4>1, <4>2 DEF Window
        <5>4. QED
          BY <5>2, <5>3
      <4>3. CASE p >= Oldest'
        <5>1. Line(p) > l /\ l \in Int
          BY <2>2, <4>3
        <5>2. p \in Window'
          BY <2>1, <4>1, <4>3 DEF Window
        <5>3. Line(p) # l
          BY <5>1
        <5>4. QED
          BY <5>2, <5>3
      <4>4. QED
        BY <4>1, <4>2, <4>3
    <3>3. QED
      BY <2>1, <2>3, <3>1, <3>2
  <2>5. Cardinality(Retained') = Cardinality(Retained) - 1
    BY <2>4, Finite, FS_RemoveElement
  <2>6. /\ dropped_lines' = dropped_lines + 1
        /\ UNCHANGED <<logged, pushing, sending, skipped>>
    BY <1>2 DEF EvictLine
  <2>7. PushInv' /\ Counted'
    BY <2>5, <2>6, Finite DEF PushInv, Counted, Typed, sending
  <2>8. QED
    BY <2>1, <2>7
<1>3. CASE WriteLine
  <2>1. /\ Typed' /\ FramesInv'
        /\ Oldest' = Oldest /\ total_written' = total_written + Frame(pushing)
        /\ Frame(pushing) \in Nat /\ Frame(pushing) > 0 /\ Oldest \in Nat
        /\ \A p \in Window : p \in Window' /\ Line(p) < pushing /\ Line(p)' = Line(p)
        /\ \A p \in Window' \ Window : Line(p)' = pushing
    BY <1>3, WriteFrames
  <2>2. Retained' = {Line(p)' : p \in Window'} /\ Retained = {Line(p) : p \in Window}
    BY <2>1, RetainedIs, RetainedThen
  <2>3. total_written \in Window' \ Window
    <3>1. total_written \in Nat /\ Oldest <= total_written
      BY DEF Typed, Oldest
    <3>2. QED
      BY <2>1, <3>1 DEF Window
  <2>4. Retained' = Retained \cup {pushing} /\ pushing \notin Retained
    <3>1. pushing \in Int
      BY DEF Typed
    <3>2. pushing \notin Retained
      BY <2>1, <2>2, <3>1
    <3>3. QED
      BY <2>1, <2>2, <2>3, <3>2
  <2>5. Cardinality(Retained') = Cardinality(Retained) + 1
    BY <2>4, Finite, FS_AddElement
  <2>6. /\ pushing # 0 /\ pushing' = 0
        /\ UNCHANGED <<dropped_lines, logged, sending, skipped>>
    BY <1>3 DEF WriteLine
  <2>7. PushInv' /\ Counted'
    BY <2>5, <2>6, Finite DEF PushInv, Counted, Typed, sending
  <2>8. QED
    BY <2>1, <2>7
<1>4. QED
  BY <1>1, <1>2, <1>3 DEF Push

-----------------------------------------------------------------------------
(* The sender *)

\* Where read_line() may be asked to read: before the oldest byte, behind the newest,
\* or at the start of a frame.
Boundary(p) == p < Oldest \/ p = total_written \/ (p \in Window /\ Part(p) = 0)

\* The lines from p on are those after l.
Reached(p, l) == \A q \in Window : q >= p <=> Line(q) > l

\* The bytes in the sender's hand are those of h, up to the end of the storage.
InHand(h) ==
    /\ Len(hand) = Length[h]
    /\ \A k \in 1 .. Length[h] :
         ((cursor - Length[h]) % Capacity) + k <= Capacity => hand[k] = <<h, Prefix + k - 1>>

\* The line in the sender's hand, and what lies between it and the last one heard.
Held(h) ==
    /\ h \in 1 .. logged /\ h > heard
    /\ InHand(h)
    /\ pushing # 0 => h < pushing
    /\ \A l \in heard + 1 .. h - 1 : l \notin Retained /\ l # pushing
    /\ Reached(cursor, h)

SendInv ==
    /\ Boundary(cursor) /\ Boundary(before)
    /\ sender # "select" => client # 0
    /\ client # 0 /\ sender # "send" => Reached(cursor, heard)
    /\ sender = "send" => Reached(before, heard) /\ \E h \in Lines : Held(h)

LEMMA Positions ==
    ASSUME Typed
    PROVE  /\ Oldest \in Nat /\ total_written \in Nat /\ Oldest <= total_written
           /\ Window = Oldest .. total_written - 1 /\ Window \subseteq Int
           /\ buffered = total_written - Oldest
BY DEF Typed, Oldest, Window

LEMMA BoundaryOfRing ==
    ASSUME Typed, NEW p \in Int, Boundary(p)
    PROVE  p <= total_written
BY Positions DEF Boundary

LEMMA BoundaryKept ==
    ASSUME Typed, UNCHANGED <<storage, total_written, buffered>>, NEW p, NEW l
    PROVE  (Boundary(p) => Boundary(p)') /\ (Reached(p, l) => Reached(p, l)')
<1>1. Oldest' = Oldest /\ Window' = Window /\ \A q : Line(q)' = Line(q) /\ Part(q)' = Part(q)
  BY DEF Oldest, Window, Byte, Line, Part
<1>2. Boundary(p) => Boundary(p)'
  BY <1>1 DEF Boundary
<1>3. Reached(p, l) => Reached(p, l)'
  BY <1>1 DEF Reached
<1>4. QED
  BY <1>2, <1>3

LEMMA BoundaryEvicted ==
    ASSUME Typed, FramesInv, EvictLine, NEW p \in Int, NEW l
    PROVE  (Boundary(p) => Boundary(p)') /\ (Reached(p, l) => Reached(p, l)')
<1>1. /\ Typed' /\ Window' \subseteq Window /\ Oldest \in Window /\ Part(Oldest) = 0
      /\ Oldest' = Oldest + Frame(Line(Oldest)) /\ total_written' = total_written
      /\ \A q : Line(q)' = Line(q) /\ Part(q)' = Part(q)
  BY EvictFrames
<1>2. Oldest' > Oldest /\ Oldest' \in Int
  BY <1>1, FrameStartsAt
<1>3. ASSUME Boundary(p)
      PROVE  Boundary(p)'
  <2>1. CASE p < Oldest
    BY <1>2, <2>1, Positions DEF Boundary
  <2>2. CASE p = total_written
    BY <1>1, <2>2 DEF Boundary
  <2>3. CASE p \in Window /\ Part(p) = 0
    <3>1. p \in Oldest .. total_written - 1
      BY <2>3, Positions
    <3>2. p < Oldest' \/ p \in Window'
      BY <1>1, <1>2, <3>1, Positions DEF Window
    <3>3. QED
      BY <1>1, <2>3, <3>2 DEF Boundary
  <2>4. QED
    BY <1>3, <2>1, <2>2, <2>3 DEF Boundary
<1>4. Reached(p, l) => Reached(p, l)'
  BY <1>1 DEF Reached
<1>5. QED
  BY <1>3, <1>4

LEMMA BoundaryWritten ==
    ASSUME Typed, FramesInv, PushInv, WriteLine, NEW p \in Int, NEW l \in Int, Boundary(p)
    PROVE  Boundary(p)' /\ (l < pushing /\ Reached(p, l) => Reached(p, l)')
<1>1. /\ Oldest' = Oldest /\ total_written' = total_written + Frame(pushing)
      /\ Frame(pushing) \in Nat /\ Frame(pushing) > 0
      /\ \A q \in Window : /\ q \in Window' /\ Line(q)' = Line(q) /\ Part(q)' = Part(q)
      /\ \A q \in Window' \ Window :
           /\ q >= total_written /\ Line(q)' = pushing /\ Part(q)' = q - total_written
  BY WriteFrames
<1>2. total_written \in Window' \ Window
  BY <1>1, Positions DEF Window
<1>3. Boundary(p)'
  <2>1. CASE p < Oldest
    BY <1>1, <2>1 DEF Boundary
  <2>2. CASE p = total_written
    <3>1. Part(p)' = 0 /\ p \in Window'
      BY <1>1, <1>2, <2>2, Positions
    <3>2. QED
      BY <3>1 DEF Boundary
  <2>3. CASE p \in Window /\ Part(p) = 0
    BY <1>1, <2>3 DEF Boundary
  <2>4. QED
    BY <2>1, <2>2, <2>3 DEF Boundary
<1>4. ASSUME l < pushing, Reached(p, l), NEW q \in Window'
      PROVE  q >= p <=> Line(q)' > l
  <2>1. CASE q \in Window
    BY <1>1, <1>4, <2>1 DEF Reached
  <2>2. CASE q \notin Window
    <3>1. q >= total_written /\ Line(q)' = pushing /\ pushing \in Int
      BY <1>1, <2>2 DEF Typed
    <3>2. p <= total_written /\ total_written \in Int
      BY BoundaryOfRing, Positions
    <3>3. q \in Int
      BY <1>1, Positions DEF Window
    <3>4. QED
      BY <1>4, <3>1, <3>2, <3>3
  <2>3. QED
    BY <2>1, <2>2
<1>5. QED
  BY <1>3, <1>4 DEF Reached

Inv == Typed /\ FramesInv /\ PushInv /\ Counted /\ SendInv

\* What the loggers do leaves the sender where it stands, and the line in its hand
\* the next one to hear.
LEMMA LogSends ==
    ASSUME Inv, Log \/ LogContended \/ Push
    PROVE  Inv'
<1>1. Typed' /\ FramesInv' /\ PushInv' /\ Counted'
  BY LogCounts, PushCounts DEF Inv
<1>2. /\ UNCHANGED sending
      /\ logged \in Int /\ logged' \in Int /\ logged' >= logged
      /\ pushing' \in {pushing, 0} \/ (pushing = 0 /\ pushing' = logged + 1)
      /\ pushing \in 0 .. logged
  <2>1. CASE Log \/ LogContended
    BY <2>1 DEF Log, LogContended, Inv, Typed
  <2>2. CASE Push
    BY <2>2 DEF Push, DropLine, EvictLine, WriteLine, Inv, Typed
  <2>3. QED
    BY <2>1, <2>2
<1>3. \A l \in 1 .. logged : l \notin Retained /\ l # pushing => l \notin Retained' /\ l # pushing'
  <2>1. \A l \in 1 .. logged : l # pushing => l # pushing'
    BY <1>2
  <2>2. Retained' \subseteq Retained \cup {pushing}
    <3>1. CASE UNCHANGED <<storage, total_written, buffered>>
      BY <3>1 DEF Retained, Oldest, Byte
    <3>2. CASE EvictLine
      <4>1. Typed' /\ Window' \subseteq Window /\ \A p : Line(p)' = Line(p)
        BY <3>2, EvictFrames DEF Inv
      <4>2. QED
        BY <4>1, RetainedIs, RetainedThen DEF Inv
    <3>3. CASE WriteLine
      <4>1. /\ Typed' /\ \A p \in Window : Line(p)' = Line(p)
            /\ \A p \in Window' \ Window : Line(p)' = pushing
        BY <3>3, WriteFrames DEF Inv
      <4>2. QED
        BY <4>1, RetainedIs, RetainedThen DEF Inv
    <3>4. QED
      BY <3>1, <3>2, <3>3 DEF Log, LogContended, Push, DropLine, ring
  <2>3. QED
    BY <2>1, <2>2
<1>4. \A p \in Int, l \in 0 .. logged :
        Boundary(p) => /\ Boundary(p)'
                       /\ (pushing # 0 => l < pushing) /\ Reached(p, l) => Reached(p, l)'
  <2>1. CASE UNCHANGED <<storage, total_written, buffered>>
    BY <2>1, BoundaryKept DEF Inv
  <2>2. CASE EvictLine
    BY <2>2, BoundaryEvicted DEF Inv
  <2>3. CASE WriteLine
    <3>1. pushing # 0
      BY <2>3 DEF WriteLine
    <3>2. \A l \in 0 .. logged : l \in Int
      OBVIOUS
    <3>3. QED
      BY <2>3, <3>1, <3>2, BoundaryWritten DEF Inv
  <2>4. QED
    BY <2>1, <2>2, <2>3 DEF Log, LogContended, Push, DropLine, ring
<1>5. /\ UNCHANGED <<client, sender, cursor, before, hand, heard>>
      /\ cursor \in Int /\ before \in Int /\ heard \in 0 .. logged
      /\ pushing # 0 => heard < pushing
  BY <1>2 DEF Inv, Typed, PushInv, sending
<1>6. PICK c \in Int, b \in Int, m \in 0 .. logged : c = cursor /\ b = before /\ m = heard
  BY <1>5
<1>7. Boundary(c)' /\ Boundary(b)'
  BY <1>4, <1>6 DEF Inv, SendInv
<1>8. client # 0 /\ sender # "send" => Reached(c, m)'
  BY <1>4, <1>5, <1>6 DEF Inv, SendInv
<1>9. ASSUME sender = "send"
      PROVE  Reached(b, m)' /\ \E h \in Lines : Held(h)'
  <2>1. Reached(b, m)'
    BY <1>4, <1>5, <1>6, <1>9 DEF Inv, SendInv
  <2>2. PICK h \in Lines : Held(h)
    BY <1>9 DEF Inv, SendInv
  <2>3. h \in 1 .. logged /\ h > heard /\ (pushing # 0 => h < pushing) /\ h \in 0 .. logged
    BY <2>2 DEF Held, Lines
  <2>4. h \in 1 .. logged' /\ h > heard' /\ (pushing' # 0 => h < pushing')
    BY <1>2, <1>5, <2>3
  <2>5. \A l \in heard' + 1 .. h - 1 : l \notin Retained' /\ l # pushing'
    <3>1. \A l \in heard + 1 .. h - 1 : l \in 1 .. logged /\ l \notin Retained /\ l # pushing
      BY <1>2, <1>5, <2>2, <2>3 DEF Held
    <3>2. QED
      BY <1>3, <1>5, <3>1
  <2>6. Reached(c, h)'
    BY <1>4, <1>6, <2>2, <2>3 DEF Held, Inv, SendInv
  <2>7. InHand(h)'
    BY <1>5, <2>2 DEF Held, InHand
  <2>8. Held(h)'
    BY <1>5, <1>6, <2>4, <2>5, <2>6, <2>7 DEF Held, Reached
  <2>9. QED
    BY <2>1, <2>8
<1>10. SendInv'
  <2>1. c = cursor' /\ b = before' /\ m = heard'
    BY <1>5, <1>6
  <2>2. Boundary(cursor)' /\ Boundary(before)'
    BY <1>7, <2>1 DEF Boundary
  <2>3. (sender # "select" => client # 0)'
    BY <1>5 DEF Inv, SendInv
  <2>4. (client # 0 /\ sender # "send" => Reached(cursor, heard))'
    BY <1>5, <1>8, <2>1 DEF Reached
  <2>5. (sender = "send" => Reached(before, heard))'
    BY <1>5, <1>9, <2>1 DEF Reached
  <2>6. (sender = "send" => \E h \in Lines : Held(h))'
    BY <1>5, <1>9 DEF Lines
  <2>7. QED
    BY <2>2, <2>3, <2>4, <2>5, <2>6 DEF SendInv
<1>11. QED
  BY <1>1, <1>10 DEF Inv

\* A step of the sender or of a client leaves what the loggers see alone.
LEMMA SenderKeeps ==
    ASSUME Inv, UNCHANGED logger
    PROVE  /\ heard' \in 0 .. logged /\ (pushing # 0 => heard' < pushing) => PushInv'
           /\ FramesInv' /\ Counted' /\ Retained' = Retained
           /\ \A p, l : (Boundary(p) => Boundary(p)') /\ (Reached(p, l) => Reached(p, l)')
           /\ total_written' = total_written
<1>1. UNCHANGED <<storage, total_written, buffered, dropped_lines, logged, pushing, skipped>>
  BY DEF logger, ring
<1>2. heard' \in 0 .. logged /\ (pushing # 0 => heard' < pushing) => PushInv'
  BY <1>1 DEF Inv, PushInv
<1>3. Retained' = Retained
  BY <1>1 DEF Retained, Oldest, Byte
<1>4. FramesInv'
  BY <1>1, FramesKept DEF Inv, Typed
<1>5. Counted'
  BY <1>1, <1>3 DEF Inv, Counted
<1>6. \A p, l : (Boundary(p) => Boundary(p)') /\ (Reached(p, l) => Reached(p, l)')
  BY <1>1, BoundaryKept DEF Inv
<1>7. QED
  BY <1>1, <1>2, <1>3, <1>4, <1>5, <1>6

\* The start of what the ring holds can always be asked for, and has everything behind
\* it.
LEMMA FromTheStart ==
    ASSUME Inv
    PROVE  Boundary(0) /\ Reached(0, 0)
<1>1. Boundary(0)
  <2>1. CASE buffered = 0
    BY <2>1, Positions DEF Inv, Boundary
  <2>2. CASE buffered > 0
    <3>1. Oldest \in Window /\ Part(Oldest) = 0
      BY <2>2, OldestStarts DEF Inv
    <3>2. QED
      BY <3>1, Positions DEF Inv, Boundary
  <2>3. QED
    BY <2>1, <2>2 DEF Inv, Typed
<1>2. \A q \in Window : q >= 0 /\ Line(q) > 0
  BY Positions DEF Inv, FramesInv, FrameOf
<1>3. QED
  BY <1>1, <1>2 DEF Reached

LEMMA AcceptInv ==
    ASSUME Inv, Accept
    PROVE  Inv'
<1>1. /\ UNCHANGED <<logger, before, hand>>
      /\ client' = accepted + 1 /\ accepted' = accepted + 1
      /\ cursor' = 0 /\ heard' = 0 /\ sender' = "drain"
  BY DEF Accept
<1>2. Typed'
  BY <1>1 DEF Inv, Typed, logger, ring
<1>3. heard' \in 0 .. logged /\ (pushing # 0 => heard' < pushing)
  BY <1>1 DEF Inv, Typed
<1>4. Boundary(0)' /\ Reached(0, 0)'
  BY <1>1, FromTheStart, SenderKeeps
<1>5. PICK b : b = before
  OBVIOUS
<1>6. Boundary(b)'
  BY <1>1, <1>5, SenderKeeps DEF Inv, SendInv
<1>7. Boundary(cursor)' /\ Boundary(before)' /\ Reached(cursor, heard)'
  BY <1>1, <1>4, <1>5, <1>6 DEF Boundary, Reached
<1>8. client' # 0
  BY <1>1 DEF Inv, Typed
<1>9. SendInv'
  BY <1>1, <1>7, <1>8 DEF SendInv
<1>10. QED
  BY <1>1, <1>2, <1>3, <1>9, SenderKeeps DEF Inv

\* The sender goes back to select() or looks for a line, with the client it has.
LEMMA WaitsInv ==
    ASSUME Inv, UNCHANGED <<logger, cursor, before, hand, heard>>, accepted' = accepted,
           sender # "send", sender' \in {"select", "drain"}, client' \in {client, 0},
           sender' = "drain" => client' # 0
    PROVE  Inv'
<1>1. Typed'
  BY DEF Inv, Typed, logger, ring
<1>2. heard' \in 0 .. logged /\ (pushing # 0 => heard' < pushing)
  BY DEF Inv, Typed, PushInv
<1>3. PICK c, b, m : c = cursor /\ b = before /\ m = heard
  OBVIOUS
<1>4. Boundary(c)' /\ Boundary(b)' /\ (client # 0 => Reached(c, m)')
  BY <1>3, SenderKeeps DEF Inv, SendInv
<1>5. Boundary(cursor)' /\ Boundary(before)' /\ (client # 0 => Reached(cursor, heard)')
  BY <1>3, <1>4 DEF Boundary, Reached
<1>6. SendInv'
  BY <1>5 DEF SendInv
<1>7. QED
  BY <1>1, <1>2, <1>6, SenderKeeps DEF Inv

\* What is read before the end of the storage is what lies there.
LEMMA ReadInPlace ==
    ASSUME NEW p \in Int, NEW j \in Nat, (p % Capacity) + j < Capacity
    PROVE  ReadByte(p, j) = Byte(p + j)
<1>1. (p + j) % Capacity = (p % Capacity) + j
  BY Sizes, RemainderPlus
<1>2. QED
  BY <1>1 DEF ReadByte, Byte

\* The first byte always is.
LEMMA FirstByte == ASSUME NEW p \in Int PROVE (p % Capacity) + 1 <= Capacity
BY CellOf, Sizes DEF Cells

LEMMA LengthOf ==
    ASSUME NEW n \in Nat, NEW f, f = [k \in 1 .. n |-> f[k]]
    PROVE  Len(f) = n
<1> DEFINE S == {f[k] : k \in 1 .. n}
<1>1. f \in [1 .. n -> S]
  OBVIOUS
<1>2. f \in Seq(S)
  BY <1>1, SeqDef
<1>3. Len(f) \in Nat /\ DOMAIN f = 1 .. Len(f) /\ DOMAIN f = 1 .. n
  BY <1>1, <1>2, LenProperties
<1>4. QED
  BY <1>3

LEMMA ReadInv ==
    ASSUME Inv, ReadLine
    PROVE  Inv'
<1> DEFINE at == Clamped(cursor)
           h == Line(at)
           e == at + Frame(h)
<1>1. /\ sender = "drain" /\ pushing = 0 /\ before' = cursor
      /\ UNCHANGED <<logger, client, accepted, heard>>
      /\ IF at >= total_written
         THEN cursor' = at /\ sender' = "select" /\ UNCHANGED hand
         ELSE /\ hand' = [k \in 1 .. FrameAt(at) - Prefix |-> ReadByte(at + Prefix, k - 1)]
              /\ cursor' = at + FrameAt(at) /\ sender' = "send"
  BY DEF ReadLine
<1>2. /\ cursor \in Int /\ heard \in 0 .. logged /\ client # 0
      /\ Boundary(cursor) /\ Reached(cursor, heard) /\ cursor <= total_written
  BY <1>1, BoundaryOfRing DEF Inv, Typed, SendInv
<1>3. /\ at \in Nat /\ at >= cursor /\ at >= Oldest /\ at <= total_written
      /\ at = cursor \/ at = Oldest
      /\ Oldest \in Nat /\ total_written \in Nat
  BY <1>2, Positions DEF Clamped, Inv, Typed
<1>4. \A q \in Window : q >= cursor => q >= at
  BY <1>2, <1>3, Positions DEF Clamped, Inv
<1>5. heard' \in 0 .. logged /\ (pushing # 0 => heard' < pushing)
  BY <1>1, <1>2
<1>6. PICK c, m : c = cursor /\ m = heard
  OBVIOUS
<1>7. Boundary(c)' /\ Reached(c, m)'
  BY <1>1, <1>2, <1>6, SenderKeeps
<1>8. Boundary(before)' /\ Reached(before, heard)'
  BY <1>1, <1>6, <1>7 DEF Boundary, Reached
<1> HIDE DEF at
<1>9. CASE at >= total_written
  <2>1. cursor' = total_written /\ sender' = "select"
    BY <1>1, <1>3, <1>9
  <2>2. Typed'
    BY <1>1, <1>3, <2>1 DEF Inv, Typed, logger, ring
  <2>3. total_written' = total_written
    BY <1>1, SenderKeeps
  <2>4. Boundary(cursor)'
    BY <2>1, <2>3 DEF Boundary
  <2>5. \A q \in Window : ~(q >= total_written) /\ ~(q >= cursor)
    BY <1>3, <1>4, <1>9, Positions DEF Inv
  <2>6. Reached(total_written, heard)
    BY <1>2, <2>5 DEF Reached
  <2>7. PICK t : t = total_written
    OBVIOUS
  <2>8. Reached(t, m)'
    BY <1>1, <1>6, <2>6, <2>7, SenderKeeps
  <2>9. Reached(cursor, heard)'
    BY <1>1, <1>6, <2>1, <2>7, <2>8 DEF Reached
  <2>10. SendInv'
    BY <1>1, <1>2, <1>8, <2>1, <2>4, <2>9 DEF SendInv
  <2>11. QED
    BY <1>1, <1>5, <2>2, <2>10, SenderKeeps DEF Inv
<1>10. CASE ~(at >= total_written)
  <2>1. at \in Window
    BY <1>3, <1>10 DEF Window
  <2>2. Part(at) = 0
    <3>1. CASE at = Oldest
      <4>1. buffered > 0
        BY <1>3, <1>10, <3>1, Positions DEF Inv
      <4>2. QED
        BY <3>1, <4>1, OldestStarts DEF Inv
    <3>2. CASE at = cursor
      BY <1>2, <1>3, <1>10, <3>2 DEF Boundary
    <3>3. QED
      BY <1>3, <3>1, <3>2
  <2>3. /\ h \in 1 .. logged /\ h \in Lines
        /\ e \in Int /\ e > at /\ e <= total_written
        /\ \A k \in 0 .. Frame(h) - 1 : Byte(at + k) = <<h, k>>
        /\ \A q \in Window : /\ q \in at .. e - 1 => Line(q) = h
                             /\ q < at => Line(q) < h
                             /\ q >= e => Line(q) > h
        /\ e \in Window => Part(e) = 0
    BY <2>1, <2>2, FrameStartsAt DEF Inv
  <2>4. FrameAt(at) = Frame(h)
    BY DEF FrameAt, Line
  <2>5. Length[h] \in Nat /\ Prefix \in Nat /\ Frame(h) = Prefix + Length[h]
    BY <2>3, Frames DEF Frame
  <2>6. PICK g \in Lines, f \in Int : g = h /\ f = e
    BY <2>3
  <2>7. InHand(g)'
    <3>1. FrameAt(at) - Prefix = Length[g]
      BY <2>4, <2>5, <2>6
    <3>2. hand' = [k \in 1 .. Length[g] |-> ReadByte(at + Prefix, k - 1)]
      BY <1>1, <1>10, <3>1
    <3>3. cursor' - Length[g] = at + Prefix
      BY <1>1, <1>3, <1>10, <2>4, <2>5, <2>6
    <3>4. Len(hand') = Length[g]
      BY <2>5, <2>6, <3>2, LengthOf
    <3>5. ASSUME NEW k \in 1 .. Length[g], ((at + Prefix) % Capacity) + k <= Capacity
          PROVE  hand'[k] = <<g, Prefix + k - 1>>
      <4>1. PICK j \in 0 .. Frame(g) - 1 : j = Prefix + k - 1
        BY <2>5, <2>6
      <4>2. PICK i \in Nat : i = k - 1
        BY <2>5, <2>6
      <4>3. PICK p \in Int : p = at + Prefix
        BY <1>3, <2>5
      <4>4. p % Capacity \in Int /\ (p % Capacity) + i < Capacity /\ p + i = at + j
        BY <1>3, <2>5, <2>6, <3>5, <4>1, <4>2, <4>3, CellOf, Sizes DEF Cells
      <4>5. ReadByte(p, i) = Byte(at + j)
        BY <4>4, ReadInPlace
      <4>6. hand'[k] = ReadByte(p, i)
        BY <3>2, <4>2, <4>3
      <4>7. QED
        BY <2>3, <2>6, <4>1, <4>5, <4>6
    <3>6. QED
      BY <3>3, <3>4, <3>5 DEF InHand
  <2>8. cursor' = e /\ sender' = "send"
    BY <1>1, <1>10, <2>4
  <2>9. Reached(e, h)
    <3> SUFFICES ASSUME NEW q \in Window PROVE q >= e <=> Line(q) > h
      BY DEF Reached
    <3>1. q \in Int /\ h \in Int /\ at \in Int
      BY <1>3, <2>3, Positions DEF Inv
    <3>2. CASE q >= e
      BY <2>3, <3>2
    <3>3. CASE q < at
      BY <2>3, <3>1, <3>3, Positions DEF Inv, FramesInv, FrameOf
    <3>4. CASE q \in at .. e - 1
      BY <2>3, <3>1, <3>4
    <3>5. QED
      BY <2>3, <3>1, <3>2, <3>3, <3>4
  <2>10. Boundary(e)
    BY <1>3, <2>3 DEF Boundary, Window
  <2>11. h > heard
    BY <1>2, <1>3, <2>1 DEF Reached
  <2>12. \A l \in heard + 1 .. h - 1 : l \notin Retained /\ l # pushing
    <3> SUFFICES ASSUME NEW l \in heard + 1 .. h - 1, l \in Retained \/ l = pushing PROVE FALSE
      OBVIOUS
    <3>1. l \in Int /\ l > heard /\ l < h /\ l >= 1
      BY <1>2, <2>3
    <3>2. PICK q \in Window : Line(q) = l
      BY <1>1, <3>1, RetainedIs DEF Inv
    <3>3. q >= at
      BY <1>2, <1>4, <3>1, <3>2 DEF Reached
    <3>4. q \in at .. e - 1 \/ q >= e
      BY <1>3, <2>3, <3>3, Positions DEF Inv
    <3>5. QED
      BY <2>3, <3>1, <3>2, <3>4
  <2>13. Boundary(f)' /\ Reached(f, g)'
    BY <1>1, <2>9, <2>10, <2>6, SenderKeeps
  <2>14. Boundary(cursor)' /\ Reached(cursor, g)'
    BY <2>8, <2>6, <2>13 DEF Boundary, Reached
  <2>15. UNCHANGED <<logged, pushing>> /\ Retained' = Retained
    BY <1>1, SenderKeeps DEF logger
  <2>16. Held(g)'
    BY <1>1, <2>3, <2>7, <2>11, <2>12, <2>6, <2>14, <2>15 DEF Held
  <2>17. Typed'
    BY <1>1, <1>3, <2>3, <2>8 DEF Inv, Typed, logger, ring
  <2>18. SendInv'
    BY <1>1, <1>2, <1>8, <2>8, <2>14, <2>16 DEF SendInv, Lines
  <2>19. QED
    BY <1>1, <1>5, <2>17, <2>18, SenderKeeps DEF Inv
<1>11. QED
  BY <1>9, <1>10

\* What a client is sent is the line after the last one heard, but for lines that the
\* ring has not.
LEMMA SentHears ==
    ASSUME Inv, Sent
    PROVE  /\ heard' \in 1 .. logged /\ heard' > heard /\ (pushing # 0 => heard' < pushing)
           /\ \A l \in heard + 1 .. heard' - 1 : l \notin Retained /\ l # pushing
           /\ Reached(cursor, heard')
<1>1. sender = "send" /\ heard' = hand[1][1]
  BY DEF Sent, Send
<1>2. PICK h \in Lines : Held(h)
  BY <1>1 DEF Inv, SendInv
<1>3. Length[h] \in Nat \ {0}
  BY Frames
<1>4. 1 \in 1 .. Length[h]
  BY <1>3
<1>5. hand[1] = <<h, Prefix + 1 - 1>>
  <2>1. PICK p \in Int : p = cursor - Length[h]
    BY <1>3 DEF Inv, Typed
  <2>2. QED
    BY <1>2, <1>4, <2>1, FirstByte DEF Held, InHand
<1>6. heard' = h
  BY <1>1, <1>5
<1>7. QED
  BY <1>2, <1>6 DEF Held

LEMMA SentInv ==
    ASSUME Inv, Sent
    PROVE  Inv'
<1>1. /\ sender = "send" /\ sender' = "drain"
      /\ UNCHANGED <<logger, client, accepted, cursor, before>>
  BY DEF Sent, Send
<1>2. heard' \in 0 .. logged /\ (pushing # 0 => heard' < pushing)
  BY SentHears
<1>3. Typed'
  BY <1>1, <1>2 DEF Inv, Typed, logger, ring
<1>4. PICK c, b, m : c = cursor /\ b = before /\ m = heard'
  OBVIOUS
<1>5. Boundary(c)' /\ Boundary(b)' /\ Reached(c, m)'
  BY <1>1, <1>4, SentHears, SenderKeeps DEF Inv, SendInv
<1>6. Boundary(cursor)' /\ Boundary(before)' /\ Reached(cursor, heard)'
  BY <1>1, <1>4, <1>5 DEF Boundary, Reached
<1>7. SendInv'
  BY <1>1, <1>6 DEF Inv, SendInv
<1>8. QED
  BY <1>1, <1>2, <1>3, <1>7, SenderKeeps DEF Inv

\* A stalled line is asked for again, a client that is gone is forgotten.
LEMMA SendEndsInv ==
    ASSUME Inv, SendStalls \/ SendFails
    PROVE  Inv'
<1>1. /\ sender = "send" /\ sender' = "select"
      /\ UNCHANGED <<logger, accepted, before, heard>>
      /\ \/ client' = client /\ cursor' = before
         \/ client' = 0 /\ cursor' = cursor
  BY DEF SendStalls, SendFails, Send
<1>2. heard' \in 0 .. logged /\ (pushing # 0 => heard' < pushing)
  BY <1>1 DEF Inv, Typed, PushInv
<1>3. Typed'
  BY <1>1 DEF Inv, Typed, logger, ring
<1>4. PICK c, b, m : c = cursor /\ b = before /\ m = heard
  OBVIOUS
<1>5. Boundary(c)' /\ Boundary(b)' /\ Reached(b, m)'
  BY <1>1, <1>4, SenderKeeps DEF Inv, SendInv
<1>6. Boundary(cursor)' /\ Boundary(before)' /\ (client' # 0 => Reached(cursor, heard)')
  BY <1>1, <1>4, <1>5 DEF Boundary, Reached
<1>7. SendInv'
  BY <1>1, <1>6 DEF SendInv
<1>8. QED
  BY <1>1, <1>2, <1>3, <1>7, SenderKeeps DEF Inv

LEMMA Initially == Init => Inv
<1> SUFFICES ASSUME Init PROVE Inv
  OBVIOUS
<1>1. Typed /\ Window = {}
  BY Sizes DEF Init, Typed, Window, Oldest
<1>2. FramesInv
  BY <1>1 DEF FramesInv
<1>3. Retained = {}
  BY <1>1, RetainedIs
<1>4. Counted
  BY <1>3, FS_EmptySet DEF Init, Counted
<1>5. PushInv /\ SendInv
  BY <1>1 DEF Init, PushInv, SendInv, Boundary, Reached
<1>6. QED
  BY <1>1, <1>2, <1>4, <1>5 DEF Inv

\* A prefix that was misread stays misread.
LEMMA MisreadStays == [Next]_vars => misread' = misread \/ misread' = TRUE
BY DEF Next, Log, LogContended, Push, DropLine, EvictLine, WriteLine, MisreadPrefix, Connect,
       HangUp, SenderTask, Accept, ClientClosed, SelectTimesOut, ReadLine, Sent, SendStalls,
       SendFails, Send, vars, logger

LEMMA Step == Inv /\ [Next]_vars /\ ~misread' => Inv'
<1> SUFFICES ASSUME Inv, [Next]_vars, ~misread' PROVE Inv'
  OBVIOUS
<1>1. CASE Log \/ LogContended \/ Push
  BY <1>1, LogSends
<1>2. CASE Accept
  BY <1>2, AcceptInv
<1>3. CASE ClientClosed \/ SelectTimesOut
  <2>1. /\ UNCHANGED <<logger, cursor, before, hand, heard>> /\ accepted' = accepted
        /\ sender = "select" /\ sender' \in {"select", "drain"} /\ client' \in {client, 0}
        /\ sender' = "drain" => client' # 0
    BY <1>3 DEF ClientClosed, SelectTimesOut
  <2>2. QED
    BY <2>1, WaitsInv
<1>4. CASE ReadLine
  BY <1>4, ReadInv
<1>5. CASE Sent
  BY <1>5, SentInv
<1>6. CASE SendStalls \/ SendFails
  BY <1>6, SendEndsInv
<1>7. CASE Connect \/ HangUp \/ UNCHANGED vars
  <2>1. UNCHANGED <<logger, client, accepted, sender, cursor, before, hand, heard>>
    BY <1>7 DEF Connect, HangUp, vars, sending
  <2>2. PICK c, b, m : c = cursor /\ b = before /\ m = heard
    OBVIOUS
  <2>3. /\ Boundary(c)' /\ Boundary(b)'
        /\ client # 0 /\ sender # "send" => Reached(c, m)'
        /\ sender = "send" => Reached(b, m)'
    BY <2>1, <2>2, SenderKeeps DEF Inv, SendInv
  <2>4. \A h : Held(h) => Held(h)'
    <3>1. \A h : Reached(c, h) => Reached(c, h)'
      BY <2>1, SenderKeeps
    <3>2. Retained' = Retained /\ UNCHANGED <<logged, pushing>>
      BY <2>1, SenderKeeps DEF logger
    <3>3. QED
      BY <2>1, <2>2, <3>1, <3>2 DEF Held, InHand, Reached
  <2>5. /\ Boundary(cursor)' /\ Boundary(before)'
        /\ client # 0 /\ sender # "send" => Reached(cursor, heard)'
        /\ sender = "send" => Reached(before, heard)'
    BY <2>1, <2>2, <2>3 DEF Boundary, Reached
  <2>6. SendInv'
    BY <2>1, <2>4, <2>5 DEF Inv, SendInv, Lines
  <2>7. Typed' /\ heard' \in 0 .. logged /\ (pushing # 0 => heard' < pushing)
    BY <2>1 DEF Inv, Typed, PushInv, logger, ring
  <2>8. QED
    BY <2>1, <2>6, <2>7, SenderKeeps DEF Inv
<1>8. ~MisreadPrefix
  BY DEF MisreadPrefix
<1>9. QED
  BY <1>1, <1>2, <1>3, <1>4, <1>5, <1>6, <1>7, <1>8 DEF Next, SenderTask

\* The invariant holds as long as no prefix is misread.
Sound == ~misread => Inv

\* Until a length prefix is read past the end of the storage, the ring holds whole
\* frames in the order they were logged, and the sender stands at the start of one
\* (net_log_ring.cpp and sender_task in net_log.cpp).
THEOREM Invariance == Spec => []Sound
<1>1. Init => Sound
  BY Initially DEF Sound
<1>2. Sound /\ [Next]_vars => Sound'
  BY Step, MisreadStays DEF Sound
<1>3. QED
  BY <1>1, <1>2, PTL DEF Spec

\* What send() is given is one line, whole up to the end of the storage, though lines
\* are evicted under the cursor, the ring wraps and a stalled send rewinds
\* (net_log_ring.cpp, read_line).
THEOREM LinesAreWholeUpToTheEnd == Spec => []LinesUpToTheEnd
<1>1. Sound => LinesUpToTheEnd
  BY DEF Sound, Inv, SendInv, Held, InHand, LinesUpToTheEnd
<1>2. QED
  BY <1>1, Invariance, PTL

\* Every line that got the mutex is in the ring, counted as dropped, or being pushed
\* (net_log_ring.cpp, push).
THEOREM LinesAreCounted == Spec => []EveryLineCounted
<1>1. Sound => EveryLineCounted
  BY DEF Sound, Inv, Counted, EveryLineCounted, Accounted
<1>2. QED
  BY <1>1, Invariance, PTL

\* Each send to one client is of a later line than the one before, and it misses only
\* what was evicted, too long or logged while the mutex was taken (net_log.cpp,
\* send_cursor over accept, stall and retry).
THEOREM LinesAreHeardWithoutGap == Spec => HeardWithoutGap
<1>1. Sound /\ [Next]_vars =>
        [client' = client /\ (SendsLine \/ heard' # heard) /\ ~misread =>
           /\ heard' > heard
           /\ heard + 1 .. heard' - 1 \subseteq Evicted' \cup TooLong \cup skipped]_vars
  <2> SUFFICES ASSUME Inv, Next, client' = client, SendsLine \/ heard' # heard
               PROVE  /\ heard' > heard
                      /\ heard + 1 .. heard' - 1 \subseteq Evicted' \cup TooLong \cup skipped
    BY DEF vars, sending, Sound, SendsLine
  <2>1. Sent
    <3>1. ~Accept
      <4>1. client \in Nat /\ accepted \in Nat /\ client <= accepted
        BY DEF Inv, Typed
      <4>2. Accept => client' = accepted + 1
        BY DEF Accept
      <4>3. QED
        BY <4>1, <4>2
    <3>2. QED
      BY <3>1 DEF Next, Log, LogContended, Push, DropLine, EvictLine, WriteLine,
                  MisreadPrefix, Connect, HangUp, SenderTask, ClientClosed, SelectTimesOut, ReadLine, SendStalls,
                  SendFails, Send, SendsLine, sending
  <2>2. /\ heard' \in 1 .. logged /\ heard' > heard /\ heard \in 0 .. logged
        /\ \A l \in heard + 1 .. heard' - 1 : l \notin Retained /\ l # pushing
    BY <2>1, SentHears DEF Inv, Typed
  <2>3. /\ Retained' = Retained
        /\ UNCHANGED <<logged, pushing, skipped>>
    BY <2>1, RetainedKept DEF Sent, logger
  <2>4. TooLong' = TooLong
    BY <2>3 DEF TooLong, Frame
  <2>5. \A l \in heard + 1 .. heard' - 1 : l \in 1 .. logged
    <3>1. \A n \in Nat : \A a \in 0 .. n, b \in 1 .. n :
             \A l \in a + 1 .. b - 1 : l \in 1 .. n
      OBVIOUS
    <3>2. logged \in Nat
      BY Sizes DEF Inv, Typed
    <3>3. QED
      BY <2>2, <3>1, <3>2, Zenon
  <2>6. QED
    BY <2>2, <2>3, <2>4, <2>5 DEF Evicted
<1>2. QED
  BY <1>1, Invariance, PTL DEF Spec, HeardWithoutGap
=============================================================================
