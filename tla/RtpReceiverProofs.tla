------------------------- MODULE RtpReceiverProofs -------------------------
(***************************************************************************)
(* The jitter buffer, proved for any ring, any sequence numbers and any    *)
(* packets: reading never passes writing, and a frame is read for the      *)
(* number it came with.                                                    *)
(*                                                                         *)
(* While no frames have shared a slot and no gap has left ready frames     *)
(* behind, the ring is empty with reading one ahead of writing, or the     *)
(* packets that are ready lie between the two, each in the slot of its     *)
(* number.                                                                 *)
(***************************************************************************)
EXTENDS RtpReceiver, FiniteSetTheorems, WellFoundedInduction, NaturalsInduction, TLAPS

-----------------------------------------------------------------------------
(* Remainders *)

LEMMA NatWellFounded == IsWellFoundedOn({ss \in Nat \X Nat : ss[1] < ss[2]}, Nat)
BY NatLessThanWellFounded, Zenon DEF OpToRel

\* Every set of naturals that is not empty has a least element.
LEMMA Least ==
    ASSUME NEW S \in SUBSET Nat, S # {}
    PROVE  \E m \in S : \A k \in S : m <= k
<1> DEFINE R == {ss \in Nat \X Nat : ss[1] < ss[2]}
<1>1. PICK m \in S : \A k \in S : ~ (<<k, m>> \in R)
  <2>1. IsWellFoundedOn(R, Nat) /\ S \subseteq Nat
    BY NatWellFounded
  <2> HIDE DEF R
  <2>2. QED
    BY <2>1, WFMin, Zenon
<1>2. \A a, b \in Nat : a < b => <<a, b>> \in R
  <2> SUFFICES ASSUME NEW a \in Nat, NEW b \in Nat, a < b PROVE <<a, b>> \in R
    OBVIOUS
  <2>1. <<a, b>> \in Nat \X Nat /\ <<a, b>>[1] = a /\ <<a, b>>[2] = b
    OBVIOUS
  <2>2. QED
    BY <2>1
<1>3. \A k \in S : ~(k < m)
  <2> HIDE DEF R
  <2>1. QED
    BY <1>1, <1>2
<1>4. QED
  BY <1>3

\* A remainder is what is left of x in [0, c) by a multiple of c.
LEMMA RemainderIs ==
    ASSUME NEW c \in Nat, c > 0, NEW q \in Int, NEW r \in 0 .. c - 1,
           NEW x \in Int, x = q * c + r
    PROVE x % c = r
OBVIOUS

LEMMA Divides ==
    ASSUME NEW c \in Nat, c > 0, NEW x \in Int
    PROVE \E q \in Int, r \in 0 .. c - 1 : x = q * c + r /\ x % c = r
<1> DEFINE S == {r \in Nat : \E q \in Int : x = q * c + r}
<1>1. S # {}
  <2>1. CASE x >= 0
    <3>1. x = 0 * c + x
      OBVIOUS
    <3>2. \E q \in Int : x = q * c + x
      <4>1. 0 \in Int
        OBVIOUS
      <4>2. QED
        BY <3>1, <4>1, Zenon
    <3>3. x \in Nat
      BY <2>1
    <3>4. x \in S
      BY <3>2, <3>3, Zenon
    <3>5. QED
      BY <3>4, Zenon
  <2>2. CASE x < 0
    <3>1. PICK y \in Nat : y = -x
      BY <2>2
    <3>2. PICK d \in Nat : d = c - 1
      OBVIOUS
    <3>3. y * d \in Nat
      OBVIOUS
    <3>4. y * d = y * c - y
      BY <3>2
    <3>5. x = x * c + y * d
      BY <3>1, <3>4
    <3>6. y * d \in S
      BY <3>3, <3>5, Zenon
    <3>7. QED
      BY <3>6, Zenon
  <2>3. x >= 0 \/ x < 0
    OBVIOUS
  <2>4. QED
    BY <2>1, <2>2, <2>3, Zenon
<1>2. PICK r \in S : \A k \in S : r <= k
  <2>1. S \in SUBSET Nat
    BY Zenon
  <2> HIDE DEF S
  <2>2. QED
    BY <1>1, <2>1, Least
<1>3. PICK q \in Int : x = q * c + r
  BY <1>2
<1>4. r < c
  <2> SUFFICES ASSUME r >= c PROVE FALSE
    BY <1>2
  <2>1. r \in Nat
    BY <1>2, Zenon
  <2>2. r - c \in Nat /\ q + 1 \in Int /\ x = (q + 1) * c + (r - c)
    BY <1>3, <2>1
  <2>3. r - c \in S
    BY <2>2, Zenon
  <2>4. r <= r - c
    BY <1>2, <2>3, Zenon
  <2>5. QED
    BY <2>1, <2>4
<1>5. r \in Nat
  BY <1>2, Zenon
<1>6. x % c = r
  BY <1>3, <1>4, <1>5
<1>7. r \in 0 .. c - 1
  BY <1>4, <1>5
<1>8. QED
  BY <1>3, <1>6, <1>7, Zenon

-----------------------------------------------------------------------------
(* Sequence numbers *)

LEMMA Space == /\ SeqSpace \in Nat /\ SeqSpace > 0 /\ BufferFrames \in Nat /\ BufferFrames > 0
               /\ SeqSpace >= 2 * BufferFrames /\ SeqSpace >= 2
BY RtpAssumption

LEMMA Wraps ==
    ASSUME NEW x \in Int, NEW e \in 0 .. SeqSpace
    PROVE  /\ x % SeqSpace \in seq_t
           /\ (x + e) % SeqSpace = IF (x % SeqSpace) + e < SeqSpace
                                   THEN (x % SeqSpace) + e ELSE (x % SeqSpace) + e - SeqSpace
<1>1. PICK S \in Nat : S = SeqSpace /\ S > 0
  BY Space
<1>2. PICK q \in Int, r \in 0 .. S - 1 : x = q * S + r /\ x % S = r
  BY <1>1, Divides
<1>3. CASE r + e < S
  <2>1. x + e = q * S + (r + e) /\ r + e \in 0 .. S - 1 /\ x + e \in Int
    BY <1>1, <1>2, <1>3
  <2>2. (x + e) % S = r + e
    <3> DEFINE y == x + e
    <3>1. y = q * S + (r + e) /\ r + e \in 0 .. S - 1 /\ y \in Int
      BY <2>1
    <3> HIDE DEF y
    <3>2. y % S = r + e
      BY <1>1, <3>1, RemainderIs
    <3>3. QED
      BY <3>2 DEF y
  <2>3. QED
    BY <1>1, <1>2, <1>3, <2>2 DEF seq_t
<1>4. CASE r + e >= S
  <2>1. x + e = (q + 1) * S + (r + e - S) /\ r + e - S \in 0 .. S - 1 /\ x + e \in Int /\ q + 1 \in Int
    BY <1>1, <1>2, <1>4
  <2>2. (x + e) % S = r + e - S
    BY <1>1, <2>1, RemainderIs
  <2>3. QED
    BY <1>1, <1>2, <1>4, <2>2 DEF seq_t
<1>5. QED
  BY <1>1, <1>3, <1>4

LEMMA Small == ASSUME NEW x \in seq_t PROVE x % SeqSpace = x
<1>1. x = 0 * SeqSpace + x /\ 0 \in Int /\ x \in Int /\ x \in 0 .. SeqSpace - 1
  BY Space DEF seq_t
<1>2. QED
  BY <1>1, Space, RemainderIs

\* The number k after r.
After(r, k) == (r + k) % SeqSpace

LEMMA AfterIs ==
    ASSUME NEW r \in seq_t, NEW k \in seq_t
    PROVE  /\ After(r, k) \in seq_t
           /\ After(r, k) = IF r + k < SeqSpace THEN r + k ELSE r + k - SeqSpace
<1>1. r \in Int /\ k \in 0 .. SeqSpace /\ r % SeqSpace = r
  BY Space, Small DEF seq_t
<1>2. After(r, k) = IF r + k < SeqSpace THEN r + k ELSE r + k - SeqSpace
  BY <1>1, Wraps DEF After
<1>3. QED
  BY <1>2, Space DEF seq_t

LEMMA DistanceIs ==
    ASSUME NEW a \in seq_t, NEW b \in seq_t
    PROVE  /\ Distance(a, b) \in seq_t
           /\ Distance(a, b) = IF b >= a THEN b - a ELSE b + SeqSpace - a
<1>1. b \in Int /\ SeqSpace - a \in 0 .. SeqSpace /\ b % SeqSpace = b
      /\ b + SeqSpace - a = b + (SeqSpace - a)
  BY Space, Small DEF seq_t
<1>2. Distance(a, b) = IF b + (SeqSpace - a) < SeqSpace
                       THEN b + (SeqSpace - a) ELSE b + (SeqSpace - a) - SeqSpace
  BY <1>1, Wraps DEF Distance
<1>3. QED
  BY <1>2, Space DEF seq_t

LEMMA NextIs ==
    ASSUME NEW s \in seq_t
    PROVE  Next_(s) \in seq_t /\ Next_(s) = IF s + 1 < SeqSpace THEN s + 1 ELSE 0
<1>1. Next_(s) = After(s, 1) /\ 1 \in seq_t
  BY Space DEF Next_, After, seq_t
<1>2. After(s, 1) \in seq_t /\ After(s, 1) = IF s + 1 < SeqSpace THEN s + 1 ELSE s + 1 - SeqSpace
  BY <1>1, AfterIs
<1>3. s + 1 < SeqSpace \/ s + 1 = SeqSpace
  BY Space DEF seq_t
<1>4. QED
  BY <1>1, <1>2, <1>3, Space DEF seq_t

\* Each number is its distance after any other.
LEMMA AfterDistance ==
    ASSUME NEW r \in seq_t, NEW s \in seq_t
    PROVE  After(r, Distance(r, s)) = s
<1> DEFINE d == Distance(r, s)
<1>1. d \in seq_t /\ d = IF s >= r THEN s - r ELSE s + SeqSpace - r
  BY DistanceIs
<1> HIDE DEF d
<1>2. After(r, d) = IF r + d < SeqSpace THEN r + d ELSE r + d - SeqSpace
  BY <1>1, AfterIs
<1>3. After(r, d) = s
  BY <1>1, <1>2, Space DEF seq_t
<1>4. QED
  BY <1>3 DEF d

LEMMA DistanceAfter ==
    ASSUME NEW r \in seq_t, NEW k \in seq_t
    PROVE  Distance(r, After(r, k)) = k
<1> DEFINE s == After(r, k)
<1>1. s \in seq_t /\ s = IF r + k < SeqSpace THEN r + k ELSE r + k - SeqSpace
  BY AfterIs
<1> HIDE DEF s
<1>2. Distance(r, s) = IF s >= r THEN s - r ELSE s + SeqSpace - r
  BY <1>1, DistanceIs
<1>3. Distance(r, s) = k
  BY <1>1, <1>2, Space DEF seq_t
<1>4. QED
  BY <1>3 DEF s

LEMMA SeqOfIsSeq == ASSUME NEW n \in Int PROVE SeqOf(n) \in seq_t
<1>1. FirstSeq + n \in Int /\ 0 \in 0 .. SeqSpace
  BY RtpAssumption
<1>2. QED
  BY <1>1, Wraps DEF SeqOf

\* Packets that are fewer than all numbers apart.
LEMMA SeqOfLater ==
    ASSUME NEW a \in Int, NEW e \in seq_t
    PROVE  SeqOf(a + e) = After(SeqOf(a), e) /\ Distance(SeqOf(a), SeqOf(a + e)) = e
<1>1. FirstSeq + a \in Int /\ e \in 0 .. SeqSpace /\ FirstSeq + (a + e) = (FirstSeq + a) + e
  BY RtpAssumption, Space DEF seq_t
<1>2. SeqOf(a) \in seq_t
  BY SeqOfIsSeq
<1>3. SeqOf(a + e) = After(SeqOf(a), e)
  BY <1>1, <1>2, Wraps, AfterIs DEF SeqOf
<1>4. QED
  BY <1>2, <1>3, DistanceAfter

LEMMA NextSeq == ASSUME NEW n \in Int PROVE Next_(SeqOf(n)) = SeqOf(n + 1)
<1>1. 1 \in seq_t
  BY Space DEF seq_t
<1>2. SeqOf(n + 1) = After(SeqOf(n), 1)
  BY <1>1, SeqOfLater
<1>3. QED
  BY <1>2 DEF After, Next_

-----------------------------------------------------------------------------
(* The ring *)

LEMMA SlotOf == ASSUME NEW s \in seq_t PROVE BUFIDX(s) \in Slots
<1>1. s \in Int
  BY Space DEF seq_t
<1>2. \E q \in Int, r \in 0 .. BufferFrames - 1 : s = q * BufferFrames + r /\ s % BufferFrames = r
  BY <1>1, Space, Divides
<1>3. QED
  BY <1>2 DEF BUFIDX, Slots

\* The numbers from r to w have slots of their own.
Distinct(r, w) ==
    \A j, k \in 0 .. Distance(r, w) : BUFIDX(After(r, j)) = BUFIDX(After(r, k)) => j = k

NothingReady(rd) == \A i \in Slots : rd[i] = 0

\* What is ready lies between r and w, in the slots of its numbers.
ReadyBetween(r, w, rd) ==
    \A i \in Slots : rd[i] # 0 =>
        BUFIDX(SeqOf(rd[i])) = i /\ Distance(r, SeqOf(rd[i])) <= Distance(r, w)

Ring(r, w, rd) ==
    Distance(r, w) < BufferFrames /\ Distinct(r, w) /\ ReadyBetween(r, w, rd)

\* There are no more numbers than slots for them.
LEMMA DistinctFits ==
    ASSUME NEW r \in seq_t, NEW w \in seq_t, Distinct(r, w)
    PROVE  Distance(r, w) < BufferFrames
<1>1. PICK d \in seq_t : d = Distance(r, w)
  BY DistanceIs
<1>2. d \in Nat /\ 0 .. d \subseteq seq_t
  BY Space DEF seq_t
<1> SUFFICES ASSUME d >= BufferFrames PROVE FALSE
  BY <1>1, <1>2, Space
<1> DEFINE f == [k \in 0 .. d |-> BUFIDX(After(r, k))]
<1>3. f \in [0 .. d -> Slots]
  <2>1. \A k \in 0 .. d : BUFIDX(After(r, k)) \in Slots
    BY <1>2, AfterIs, SlotOf
  <2>2. QED
    BY <2>1
<1>4. IsFiniteSet(0 .. d) /\ Cardinality(0 .. d) = d + 1
  BY <1>2, FS_Interval
<1>5. IsFiniteSet(Slots) /\ Cardinality(Slots) = BufferFrames
  <2>1. 0 \in Int /\ BufferFrames - 1 \in Int /\ ~(0 > BufferFrames - 1)
    BY Space
  <2>2. Cardinality(0 .. BufferFrames - 1) = (BufferFrames - 1) - 0 + 1
    BY <2>1, FS_Interval
  <2>3. QED
    BY <2>1, <2>2, FS_Interval, Space DEF Slots
<1>6. Cardinality(Slots) < Cardinality(0 .. d)
  BY <1>2, <1>4, <1>5, Space
<1>7. \E x, y \in 0 .. d : x # y /\ f[x] = f[y]
  <2> HIDE DEF f
  <2>1. QED
    BY <1>3, <1>4, <1>5, <1>6, FS_PigeonHole
<1>8. QED
  BY <1>1, <1>7 DEF Distinct

LEMMA SharesSlotIs == ASSUME NEW s, ~SharesSlot(s) PROVE Distinct(ab_read, s)
BY DEF SharesSlot, Distinct, After

\* One number less.
LEMMA ReadOn ==
    ASSUME NEW r \in seq_t, NEW w \in seq_t, r # w
    PROVE  /\ Next_(r) \in seq_t
           /\ Distance(Next_(r), w) = Distance(r, w) - 1
           /\ \A s \in seq_t : s # r => Distance(Next_(r), s) = Distance(r, s) - 1
           /\ Distinct(r, w) => Distinct(Next_(r), w)
<1>1. Next_(r) \in seq_t /\ Next_(r) = IF r + 1 < SeqSpace THEN r + 1 ELSE 0
  BY NextIs
<1>2. ASSUME NEW s \in seq_t, s # r PROVE Distance(Next_(r), s) = Distance(r, s) - 1
  <2>1. Distance(r, s) = IF s >= r THEN s - r ELSE s + SeqSpace - r
    BY DistanceIs
  <2>2. PICK n \in seq_t : n = Next_(r)
    BY <1>1
  <2>3. Distance(n, s) = IF s >= n THEN s - n ELSE s + SeqSpace - n
    BY DistanceIs
  <2>4. QED
    BY <1>1, <1>2, <2>1, <2>2, <2>3, Space DEF seq_t
<1>3. ASSUME Distinct(r, w) PROVE Distinct(Next_(r), w)
  <2>1. PICK d \in seq_t : d = Distance(r, w) /\ d - 1 = Distance(Next_(r), w)
    BY <1>2, DistanceIs
  <2>2. ASSUME NEW j \in 0 .. d - 1 PROVE After(Next_(r), j) = After(r, j + 1)
    <3>1. PICK n \in seq_t : n = Next_(r)
      BY <1>1
    <3>2. j \in seq_t /\ j + 1 \in seq_t
      BY <2>1, <2>2, Space DEF seq_t
    <3>3. After(n, j) = IF n + j < SeqSpace THEN n + j ELSE n + j - SeqSpace
      BY <3>2, AfterIs
    <3>4. After(r, j + 1) = IF r + (j + 1) < SeqSpace THEN r + (j + 1) ELSE r + (j + 1) - SeqSpace
      BY <3>2, AfterIs
    <3>5. QED
      BY <1>1, <3>1, <3>2, <3>3, <3>4, Space DEF seq_t
  <2>3. ASSUME NEW j \in 0 .. d - 1, NEW k \in 0 .. d - 1,
               BUFIDX(After(Next_(r), j)) = BUFIDX(After(Next_(r), k))
        PROVE  j = k
    <3>1. BUFIDX(After(r, j + 1)) = BUFIDX(After(r, k + 1))
      BY <2>2, <2>3
    <3>2. d \in Int /\ j + 1 \in 0 .. d /\ k + 1 \in 0 .. d
      BY <2>1, Space DEF seq_t
    <3>3. j + 1 = k + 1
      BY <1>3, <2>1, <3>1, <3>2, Zenon DEF Distinct
    <3>4. QED
      BY <3>2, <3>3
  <2>4. QED
    BY <2>1, <2>3 DEF Distinct
<1>4. QED
  BY <1>1, <1>2, <1>3

\* A frame is read out of its slot.
LEMMA ReadOne ==
    ASSUME NEW r \in seq_t, NEW w \in seq_t, NEW rd \in [Slots -> Packet \cup {0}],
           Ring(r, w, rd), NEW rd2, rd2 = [rd EXCEPT ![BUFIDX(r)] = 0]
    PROVE  /\ rd2 \in [Slots -> Packet \cup {0}]
           /\ r # w => Ring(Next_(r), w, rd2)
           /\ r = w => NothingReady(rd2)
<1>1. /\ rd2 \in [Slots -> Packet \cup {0}]
      /\ \A i \in Slots : rd2[i] # 0 => rd2[i] = rd[i] /\ i # BUFIDX(r)
  BY SlotOf
<1>2. \A i \in Slots : rd[i] # 0 => SeqOf(rd[i]) \in seq_t
  BY SeqOfIsSeq DEF Packet
<1>3. \A i \in Slots : rd2[i] # 0 => SeqOf(rd2[i]) # r
  BY <1>1 DEF Ring, ReadyBetween
<1>4. ASSUME r # w PROVE Ring(Next_(r), w, rd2)
  <2>1. /\ Distance(Next_(r), w) = Distance(r, w) - 1
        /\ \A s \in seq_t : s # r => Distance(Next_(r), s) = Distance(r, s) - 1
        /\ Distinct(Next_(r), w)
    BY <1>4, ReadOn DEF Ring
  <2>2. Distance(r, w) \in Int /\ Distance(r, w) < BufferFrames
        /\ \A s \in seq_t : Distance(r, s) \in Int
    BY DistanceIs, Space DEF Ring, seq_t
  <2>3. Distance(Next_(r), w) < BufferFrames
    BY <2>1, <2>2, Space
  <2>4. ReadyBetween(Next_(r), w, rd2)
    <3> SUFFICES ASSUME NEW i \in Slots, rd2[i] # 0
                 PROVE  /\ BUFIDX(SeqOf(rd2[i])) = i
                        /\ Distance(Next_(r), SeqOf(rd2[i])) <= Distance(Next_(r), w)
      BY DEF ReadyBetween
    <3>1. PICK s \in seq_t : s = SeqOf(rd[i]) /\ s = SeqOf(rd2[i]) /\ s # r
      BY <1>1, <1>2, <1>3
    <3>2. BUFIDX(s) = i /\ Distance(r, s) <= Distance(r, w)
      BY <1>1, <3>1 DEF Ring, ReadyBetween
    <3>3. Distance(Next_(r), s) <= Distance(Next_(r), w)
      BY <2>1, <2>2, <3>1, <3>2
    <3>4. QED
      BY <3>1, <3>2, <3>3
  <2>5. QED
    BY <2>1, <2>3, <2>4 DEF Ring
<1>5. ASSUME r = w PROVE NothingReady(rd2)
  <2> SUFFICES ASSUME NEW i \in Slots, rd2[i] # 0 PROVE FALSE
    BY DEF NothingReady
  <2>1. PICK s \in seq_t : s = SeqOf(rd[i]) /\ s # r
    BY <1>1, <1>2, <1>3
  <2>2. Distance(r, s) <= Distance(r, r)
    BY <1>1, <1>5, <2>1 DEF Ring, ReadyBetween
  <2>3. Distance(r, r) = 0 /\ Distance(r, s) = IF s >= r THEN s - r ELSE s + SeqSpace - r
    <3>1. Distance(r, r) = IF r >= r THEN r - r ELSE r + SeqSpace - r
      BY DistanceIs
    <3>2. Distance(r, r) = 0
      BY <3>1, Space DEF seq_t
    <3>3. QED
      BY <3>2, DistanceIs
  <2>4. QED
    BY <2>1, <2>2, <2>3, Space DEF seq_t
<1>6. QED
  BY <1>1, <1>4, <1>5

\* A packet is stored between r and t.
LEMMA StoreOne ==
    ASSUME NEW r \in seq_t, NEW t \in seq_t, NEW rd \in [Slots -> Packet \cup {0}],
           NEW n \in Packet, NEW s \in seq_t, s = SeqOf(n),
           Distance(r, s) <= Distance(r, t), Distinct(r, t), ReadyBetween(r, t, rd)
    PROVE  Ring(r, t, [rd EXCEPT ![BUFIDX(s)] = n])
<1>1. Distance(r, t) < BufferFrames
  BY DistinctFits
<1>2. ReadyBetween(r, t, [rd EXCEPT ![BUFIDX(s)] = n])
  BY SlotOf DEF ReadyBetween
<1>3. QED
  BY <1>1, <1>2 DEF Ring

\* A ring of one frame.
LEMMA OneFits ==
    ASSUME NEW s \in seq_t, NEW rd, NEW n, SeqOf(n) = s,
           \A i \in Slots : rd[i] # 0 => i = BUFIDX(s) /\ rd[i] = n
    PROVE  Ring(s, s, rd)
<1>1. Distance(s, s) = 0
  <2>1. Distance(s, s) = IF s >= s THEN s - s ELSE s + SeqSpace - s
    BY DistanceIs
  <2>2. QED
    BY <2>1, Space DEF seq_t
<1>2. Distinct(s, s)
  BY <1>1 DEF Distinct
<1>3. ReadyBetween(s, s, rd)
  BY <1>1 DEF ReadyBetween
<1>4. QED
  BY <1>1, <1>2, <1>3, Space DEF Ring

\* Where writing and reading may stand to each other.
LEMMA NotPassed ==
    ASSUME NEW r \in seq_t, NEW w \in seq_t
    PROVE  /\ Distance(r, w) < BufferFrames =>
                ~seq_order(w, r) /\ ~seq_order(Next_(w), r) /\ r # Next_(w)
           /\ r = Next_(w) => ~seq_order(Next_(w), r)
           /\ seq_order(r, w) => r # Next_(w)
<1>1. PICK n \in seq_t : n = Next_(w) /\ n = IF w + 1 < SeqSpace THEN w + 1 ELSE 0
  BY NextIs
<1>2. PICK h \in Int : h = SeqSpace \div 2 /\ 2 * h <= SeqSpace /\ SeqSpace <= 2 * h + 1
  BY Space
<1>3. /\ Distance(r, w) = IF w >= r THEN w - r ELSE w + SeqSpace - r
      /\ Distance(w, r) = IF r >= w THEN r - w ELSE r + SeqSpace - w
      /\ Distance(n, r) = IF r >= n THEN r - n ELSE r + SeqSpace - n
  BY DistanceIs
<1>4. ASSUME Distance(r, w) < BufferFrames
      PROVE  ~seq_order(w, r) /\ ~seq_order(n, r) /\ r # n
  <2>1. r # n
    BY <1>1, <1>3, <1>4, Space DEF seq_t
  <2>2. ~(Distance(w, r) \in 1 .. h - 1)
    BY <1>2, <1>3, <1>4, Space DEF seq_t
  <2>3. ~(Distance(n, r) \in 1 .. h - 1)
    BY <1>1, <1>2, <1>3, <1>4, Space DEF seq_t
  <2>4. QED
    BY <1>2, <2>1, <2>2, <2>3 DEF seq_order
<1>5. ASSUME r = n PROVE ~seq_order(n, r)
  <2>1. ~(Distance(n, r) \in 1 .. h - 1)
    BY <1>3, <1>5, Space DEF seq_t
  <2>2. QED
    BY <1>2, <2>1 DEF seq_order
<1>6. ASSUME seq_order(r, w) PROVE r # n
  <2>1. Distance(r, w) \in 1 .. h - 1
    BY <1>2, <1>6 DEF seq_order
  <2>2. QED
    BY <1>1, <1>2, <1>3, <2>1, Space DEF seq_t
<1>7. QED
  BY <1>1, <1>4, <1>5, <1>6

\* A newer packet lies farther on, ...
LEMMA NewerIsAhead ==
    ASSUME NEW r \in seq_t, NEW w \in seq_t, NEW s \in seq_t,
           Distance(r, w) < BufferFrames, s = Next_(w) \/ seq_order(w, s)
    PROVE  Distance(r, w) <= Distance(r, s)
<1>1. PICK n \in seq_t : n = Next_(w) /\ n = IF w + 1 < SeqSpace THEN w + 1 ELSE 0
  BY NextIs
<1>2. PICK h \in Int : h = SeqSpace \div 2 /\ 2 * h <= SeqSpace /\ SeqSpace <= 2 * h + 1
  BY Space
<1>3. PICK d \in seq_t, e \in seq_t, f \in seq_t :
        /\ d = Distance(r, w) /\ d = IF w >= r THEN w - r ELSE w + SeqSpace - r
        /\ e = Distance(w, s) /\ e = IF s >= w THEN s - w ELSE s + SeqSpace - w
        /\ f = Distance(r, s) /\ f = IF s >= r THEN s - r ELSE s + SeqSpace - r
  BY DistanceIs
<1>4. s = n \/ e \in 1 .. h - 1
  BY <1>1, <1>2, <1>3 DEF seq_order
<1>5. PICK B \in Int : B = BufferFrames /\ B <= h /\ B > 0 /\ d < B
  BY <1>2, <1>3, Space
<1>6. h \in Int /\ SeqSpace \in Int /\ 2 * h <= SeqSpace
  BY <1>2, Space
<1>7. CASE s = n
  <2>1. d <= f
    BY <1>1, <1>3, <1>5, <1>6, <1>7 DEF seq_t
  <2>2. QED
    BY <1>3, <2>1
<1>8. CASE e \in 1 .. h - 1
  <2>1. d <= f
    BY <1>3, <1>5, <1>6, <1>8 DEF seq_t
  <2>2. QED
    BY <1>3, <2>1
<1>9. QED
  BY <1>4, <1>7, <1>8

\* ... and a recovered one between the two.
LEMMA RecoveredIsBetween ==
    ASSUME NEW r \in seq_t, NEW w \in seq_t, NEW s \in seq_t,
           s # Next_(w), ~seq_order(w, s), seq_order(r, Next_(s))
    PROVE  /\ Distance(r, w) < BufferFrames => Distance(r, s) <= Distance(r, w)
           /\ r # Next_(w)
<1>1. PICK n \in seq_t : n = Next_(w) /\ n = IF w + 1 < SeqSpace THEN w + 1 ELSE 0
  BY NextIs
<1>2. PICK m \in seq_t : m = Next_(s) /\ m = IF s + 1 < SeqSpace THEN s + 1 ELSE 0
  BY NextIs
<1>3. PICK h \in Int : h = SeqSpace \div 2 /\ 2 * h <= SeqSpace /\ SeqSpace <= 2 * h + 1
  BY Space
<1>4. /\ Distance(r, w) = IF w >= r THEN w - r ELSE w + SeqSpace - r
      /\ Distance(w, s) = IF s >= w THEN s - w ELSE s + SeqSpace - w
      /\ Distance(r, s) = IF s >= r THEN s - r ELSE s + SeqSpace - r
      /\ Distance(r, m) = IF m >= r THEN m - r ELSE m + SeqSpace - r
  BY DistanceIs
<1>5. s # n /\ ~(Distance(w, s) \in 1 .. h - 1) /\ Distance(r, m) \in 1 .. h - 1
  BY <1>1, <1>2, <1>3 DEF seq_order
<1>6. BufferFrames <= h /\ BufferFrames > 0 /\ SeqSpace \in Int
  BY <1>3, Space
<1>7. Distance(r, s) = Distance(r, m) - 1
  BY <1>2, <1>3, <1>4, <1>5, <1>6 DEF seq_t
<1>8. Distance(r, w) < BufferFrames => Distance(r, s) <= Distance(r, w)
  BY <1>3, <1>4, <1>5, <1>6, <1>7 DEF seq_t
<1>9. r # n
  BY <1>1, <1>3, <1>4, <1>5, <1>6, <1>7 DEF seq_t
<1>10. QED
  BY <1>1, <1>8, <1>9

-----------------------------------------------------------------------------
(* The invariant *)

\* Each state of the session, and each place the RTP thread is in, with what it needs.
ThreadInv ==
    /\ state = "WAIT" => thread = "select" /\ NothingReady(ready)
    /\ ~recorded => state = "WAIT"
    /\ thread = "discard" => state = "STREAM"
    /\ thread = "push" /\ ~overrun /\ ~stale => ab_read # Next_(ab_write)
    /\ thread # "select" => packet \in Packet

\* The discarding has thrown everything away and does not end.
Lost == thread = "discard" /\ NothingReady(ready)

RingInv ==
    ~overrun /\ ~stale /\ state # "WAIT" /\ ~Lost =>
        \/ ab_read = Next_(ab_write) /\ NothingReady(ready)
        \/ Ring(ab_read, ab_write, ready)

IInv == TypeOK /\ ThreadInv /\ RingInv

LEMMA Initially == Init => IInv
<1> SUFFICES ASSUME Init PROVE IInv
  OBVIOUS
<1>1. TypeOK
  <2>1. 0 \in seq_t /\ 0 \in 0 .. MaxPacket + Jump
    BY RtpAssumption, Space DEF seq_t
  <2>2. NoneReady \in [Slots -> Packet \cup {0}]
    BY DEF NoneReady
  <2>3. QED
    BY <2>1, <2>2 DEF Init, TypeOK
<1>2. ThreadInv
  BY DEF Init, ThreadInv, NoneReady, NothingReady
<1>3. RingInv
  BY DEF Init, RingInv
<1>4. QED
  BY <1>1, <1>2, <1>3 DEF IInv

LEMMA RecordKeeps == ASSUME IInv, rtp_record PROVE IInv'
<1>1. TypeOK'
  <2>1. 1 \in Int /\ 1 \in 0 .. MaxPacket + Jump
    BY RtpAssumption
  <2>2. SeqOf(1) \in seq_t
    BY <2>1, SeqOfIsSeq
  <2>3. QED
    BY <2>1, <2>2 DEF IInv, TypeOK, rtp_record
<1>2. ThreadInv'
  BY DEF IInv, ThreadInv, rtp_record, NothingReady
<1>3. RingInv'
  BY DEF RingInv, rtp_record
<1>4. QED
  BY <1>1, <1>2, <1>3 DEF IInv

LEMMA FlushKeeps == ASSUME IInv, NEW n \in 1 .. MaxPacket + Jump, rtp_flush(n) PROVE IInv'
<1>1. TypeOK'
  <2>1. n \in Int /\ n \in 0 .. MaxPacket + Jump
    BY RtpAssumption
  <2>2. SeqOf(n) \in seq_t
    BY <2>1, SeqOfIsSeq
  <2>3. QED
    BY <2>1, <2>2 DEF IInv, TypeOK, rtp_flush, NoneReady
<1>2. ThreadInv'
  BY DEF IInv, ThreadInv, rtp_flush, NoneReady, NothingReady
<1>3. RingInv'
  BY DEF IInv, RingInv, rtp_flush, Ring, ReadyBetween, NothingReady, Lost
<1>4. QED
  BY <1>1, <1>2, <1>3 DEF IInv

LEMMA SynchroniseKeeps == ASSUME IInv, Synchronise PROVE IInv'
BY DEF IInv, TypeOK, ThreadInv, RingInv, Synchronise, Lost, NothingReady, Ring, ReadyBetween

LEMMA IgnoreKeeps == ASSUME IInv, NEW n \in Packet, IgnorePacket(n) PROVE IInv'
BY DEF IInv, TypeOK, ThreadInv, RingInv, IgnorePacket, Arrives, Lost, NothingReady, Ring, ReadyBetween

\* The first packet starts a ring with nothing in it.
LEMMA StartKeeps == ASSUME IInv, NEW n \in Packet, StartRing(n) PROVE IInv'
<1>1. n \in Int /\ n - 1 \in Int
  BY DEF Packet
<1>2. SeqOf(n) \in seq_t /\ SeqOf(n - 1) \in seq_t /\ Next_(SeqOf(n - 1)) = SeqOf(n)
  <2>1. Next_(SeqOf(n - 1)) = SeqOf((n - 1) + 1) /\ (n - 1) + 1 = n
    BY <1>1, NextSeq
  <2>2. QED
    BY <1>1, <2>1, SeqOfIsSeq
<1>3. TypeOK'
  BY <1>2 DEF IInv, TypeOK, StartRing, Arrives
<1>4. ThreadInv'
  BY DEF IInv, ThreadInv, StartRing, Arrives
<1>5. RingInv'
  BY <1>2 DEF IInv, ThreadInv, RingInv, StartRing, NothingReady
<1>6. QED
  BY <1>3, <1>4, <1>5 DEF IInv

LEMMA TakeKeeps == ASSUME IInv, NEW n \in Packet, TakePacket(n) PROVE IInv'
<1>1. TypeOK'
  BY DEF IInv, TypeOK, TakePacket, Arrives
<1>2. ThreadInv'
  BY DEF IInv, TypeOK, ThreadInv, TakePacket, Arrives
<1>3. RingInv'
  BY DEF IInv, RingInv, TakePacket, Arrives, Lost, NothingReady, Ring, ReadyBetween
<1>4. QED
  BY <1>1, <1>2, <1>3 DEF IInv

\* Discarding reads on in the ring, until a wanted frame or for good.
LEMMA DiscardKeeps == ASSUME IInv, Discard PROVE IInv'
<1>1. /\ TypeOK /\ ThreadInv /\ RingInv
      /\ thread = "discard" /\ state = "STREAM" /\ packet \in Packet
  BY DEF IInv, ThreadInv, Discard
<1>2. BUFIDX(ab_read) \in Slots /\ Next_(ab_read) \in seq_t
  BY <1>1, SlotOf, NextIs DEF TypeOK
<1>3. CASE seq_order(ab_read, first_seqno) \/ ready[BUFIDX(ab_read)] = 0
  <2>1. /\ ready' = [ready EXCEPT ![BUFIDX(ab_read)] = 0] /\ ab_read' = Next_(ab_read)
        /\ UNCHANGED <<state, first_seqno, thread, ab_write, synced, packet, recorded, newest,
                       heard, first, overrun, stale>>
    BY <1>3 DEF Discard
  <2>2. TypeOK'
    BY <1>1, <1>2, <2>1 DEF TypeOK
  <2>3. ThreadInv'
    BY <1>1, <2>1 DEF ThreadInv
  <2>4. RingInv'
    <3> SUFFICES ASSUME ~overrun, ~stale, ~NothingReady(ready')
                 PROVE  Ring(ab_read', ab_write', ready')
      BY <1>1, <2>1 DEF RingInv, Lost
    <3>1. ~NothingReady(ready)
      BY <1>1, <1>2, <2>1 DEF NothingReady, TypeOK
    <3>2. Ring(ab_read, ab_write, ready)
      BY <1>1, <3>1 DEF RingInv, Lost
    <3>3. QED
      BY <1>1, <2>1, <3>2, ReadOne DEF TypeOK
  <2>5. QED
    BY <2>2, <2>3, <2>4 DEF IInv
<1>4. CASE ~(seq_order(ab_read, first_seqno) \/ ready[BUFIDX(ab_read)] = 0)
  <2>1. /\ state' = "PLAY" /\ first_seqno' = -1 /\ thread' = "store"
        /\ UNCHANGED <<ready, ab_read, ab_write, synced, packet, recorded, newest, heard, first,
                       overrun, stale>>
    BY <1>4 DEF Discard
  <2>2. TypeOK'
    BY <1>1, <2>1 DEF TypeOK
  <2>3. ThreadInv'
    BY <1>1, <2>1 DEF ThreadInv
  <2>4. RingInv'
    <3>1. ~NothingReady(ready)
      BY <1>2, <1>4 DEF NothingReady
    <3>2. ~overrun /\ ~stale => Ring(ab_read, ab_write, ready)
      BY <1>1, <3>1 DEF RingInv, Lost
    <3>3. QED
      BY <2>1, <3>2 DEF RingInv
  <2>5. QED
    BY <2>2, <2>3, <2>4 DEF IInv
<1>5. QED
  BY <1>3, <1>4

\* A packet is stored between reading and writing, or writing goes on to it.
LEMMA StoreKeeps == ASSUME IInv, StorePacket PROVE IInv'
<1> DEFINE s == SeqOf(packet)
<1>1. /\ TypeOK /\ ThreadInv /\ RingInv
      /\ thread = "store" /\ thread' = "push" /\ state # "WAIT" /\ packet \in Packet
      /\ recorded
  BY DEF IInv, ThreadInv, StorePacket, ThreadAt, TypeOK
<1>2. s \in seq_t /\ BUFIDX(s) \in Slots
  <2>1. s \in seq_t
    BY <1>1, SeqOfIsSeq DEF Packet
  <2>2. QED
    BY <2>1, SlotOf
<1>3. /\ ab_write' = IF Recovered THEN ab_write ELSE s
      /\ ab_read' = IF TooManyMissing THEN s ELSE ab_read
      /\ ready' = [ready EXCEPT ![BUFIDX(s)] = packet]
      /\ overrun' = (overrun \/ (~Recovered /\ ~TooManyMissing /\ ~Passed /\ SharesSlot(s)))
      /\ stale' = (stale \/ (TooManyMissing /\ OthersReady(s)))
      /\ UNCHANGED <<state, first_seqno, synced, packet, recorded, newest, heard, first>>
      /\ Expected \/ Newer \/ Recovered
  BY DEF StorePacket
<1> HIDE DEF s
<1>4. TypeOK'
  <2>1. overrun' \in BOOLEAN /\ stale' \in BOOLEAN
    BY <1>3
  <2>2. QED
    BY <1>1, <1>2, <1>3, <2>1 DEF TypeOK
<1>5. ASSUME ~overrun', ~stale', TooManyMissing PROVE Ring(ab_read', ab_write', ready')
  <2>1. ab_read' = s /\ ab_write' = s
    BY <1>3, <1>5 DEF TooManyMissing, Recovered
  <2>2. \A i \in Slots : ready'[i] # 0 => i = BUFIDX(s) /\ ready'[i] = packet
    BY <1>1, <1>2, <1>3, <1>5 DEF OthersReady, TypeOK
  <2>3. SeqOf(packet) = s
    BY DEF s
  <2>4. QED
    BY <1>2, <2>1, <2>2, <2>3, OneFits
<1>6. ASSUME ~overrun', ~stale', ~TooManyMissing PROVE Ring(ab_read', ab_write', ready')
  <2>1. /\ ~overrun /\ ~stale /\ ab_read' = ab_read
        /\ Recovered \/ Passed \/ ~SharesSlot(s)
    BY <1>3, <1>6
  <2>2. \/ ab_read = Next_(ab_write) /\ NothingReady(ready)
        \/ Ring(ab_read, ab_write, ready)
    BY <1>1, <2>1 DEF RingInv, Lost
  <2>3. ab_read \in seq_t /\ ab_write \in seq_t /\ ready \in [Slots -> Packet \cup {0}]
    BY <1>1 DEF TypeOK
  <2>4. ~Passed
    BY <2>2, <2>3, NotPassed DEF Passed, Ring
  <2>5. CASE Recovered
    <3>1. s # Next_(ab_write) /\ ~seq_order(ab_write, s) /\ seq_order(ab_read, Next_(s))
      BY <2>5 DEF Recovered, Newer, Expected, s
    <3>2. Ring(ab_read, ab_write, ready)
      BY <1>2, <2>2, <2>3, <3>1, RecoveredIsBetween
    <3>3. Distance(ab_read, s) <= Distance(ab_read, ab_write)
      BY <1>2, <2>3, <3>1, <3>2, RecoveredIsBetween DEF Ring
    <3>4. Ring(ab_read, ab_write, [ready EXCEPT ![BUFIDX(s)] = packet])
      BY <1>1, <1>2, <2>3, <3>2, <3>3, StoreOne DEF Ring, s
    <3>5. QED
      BY <1>3, <2>1, <2>5, <3>4
  <2>6. CASE ~Recovered
    <3>1. s = Next_(ab_write) \/ seq_order(ab_write, s)
      BY <1>3, <2>6 DEF Expected, Newer, s
    <3>2. Distinct(ab_read, s)
      BY <2>1, <2>4, <2>6, SharesSlotIs
    <3>3. Distance(ab_read, s) \in Int /\ Distance(ab_read, ab_write) \in Int
          /\ \A i \in Slots : ready[i] # 0 => Distance(ab_read, SeqOf(ready[i])) \in Int
      <4>1. \A i \in Slots : ready[i] # 0 => SeqOf(ready[i]) \in seq_t
        BY <2>3, SeqOfIsSeq DEF Packet
      <4>2. seq_t \subseteq Int
        BY Space DEF seq_t
      <4>3. QED
        BY <1>2, <2>3, <4>1, <4>2, DistanceIs
    <3>4. ReadyBetween(ab_read, s, ready)
      <4>1. CASE NothingReady(ready)
        BY <4>1 DEF ReadyBetween, NothingReady
      <4>2. CASE Ring(ab_read, ab_write, ready)
        <5>1. Distance(ab_read, ab_write) <= Distance(ab_read, s)
          BY <1>2, <2>3, <3>1, <4>2, NewerIsAhead DEF Ring
        <5>2. ASSUME NEW i \in Slots, ready[i] # 0
              PROVE  BUFIDX(SeqOf(ready[i])) = i
                     /\ Distance(ab_read, SeqOf(ready[i])) <= Distance(ab_read, s)
          <6>1. /\ BUFIDX(SeqOf(ready[i])) = i
                /\ Distance(ab_read, SeqOf(ready[i])) <= Distance(ab_read, ab_write)
            BY <4>2, <5>2 DEF Ring, ReadyBetween
          <6>2. QED
            BY <3>3, <5>1, <5>2, <6>1
        <5>3. QED
          BY <5>2 DEF ReadyBetween
      <4>3. QED
        BY <2>2, <4>1, <4>2
    <3>5. Distance(ab_read, s) <= Distance(ab_read, s)
      BY <3>3
    <3>6. Ring(ab_read, s, [ready EXCEPT ![BUFIDX(s)] = packet])
      BY <1>1, <1>2, <2>3, <3>2, <3>4, <3>5, StoreOne DEF s
    <3>7. QED
      BY <1>3, <2>1, <2>6, <3>6
  <2>7. QED
    BY <2>5, <2>6
<1>7. ~overrun' /\ ~stale' => Ring(ab_read', ab_write', ready')
  BY <1>5, <1>6
<1>8. RingInv'
  BY <1>7 DEF RingInv
<1>9. ThreadInv'
  <2>1. ~overrun' /\ ~stale' => ab_read' # Next_(ab_write')
    BY <1>4, <1>7, NotPassed DEF Ring, TypeOK
  <2>2. QED
    BY <1>1, <1>3, <2>1 DEF ThreadInv
<1>10. QED
  BY <1>4, <1>8, <1>9 DEF IInv

LEMMA TooLateKeeps == ASSUME IInv, PacketTooLate PROVE IInv'
<1>1. TypeOK'
  BY DEF IInv, TypeOK, PacketTooLate, ThreadAt
<1>2. ThreadInv'
  BY DEF IInv, ThreadInv, PacketTooLate, ThreadAt, NothingReady
<1>3. RingInv'
  BY DEF IInv, RingInv, PacketTooLate, ThreadAt, Lost, NothingReady, Ring, ReadyBetween
<1>4. QED
  BY <1>1, <1>2, <1>3 DEF IInv

\* A turn of the loop reads on; the ring that it leaves empty ends it.
LEMMA PushFrameKeeps == ASSUME IInv, PushFrame PROVE IInv'
<1>1. /\ TypeOK /\ ThreadInv /\ RingInv /\ thread = "push" /\ state = "PLAY"
      /\ packet \in Packet /\ recorded
  BY DEF IInv, ThreadInv, PushFrame, TypeOK
<1>2. /\ ab_read \in seq_t /\ ab_write \in seq_t /\ ready \in [Slots -> Packet \cup {0}]
      /\ BUFIDX(ab_read) \in Slots /\ Next_(ab_read) \in seq_t
  BY <1>1, SlotOf, NextIs DEF TypeOK
<1>3. /\ heard' = ready[BUFIDX(ab_read)] \/ heard' = heard
      /\ ready' = [ready EXCEPT ![BUFIDX(ab_read)] = 0] /\ ab_read' = Next_(ab_read)
      /\ \/ seq_order(Next_(ab_read), ab_write) /\ UNCHANGED <<thread, packet>>
         \/ thread' = "select" /\ packet' = 0
      /\ UNCHANGED <<state, first_seqno, ab_write, synced, recorded, newest, first, overrun, stale>>
  BY DEF PushFrame
<1>4. TypeOK'
  <2>1. heard' \in Packet \cup {0} /\ ready' \in [Slots -> Packet \cup {0}]
    BY <1>1, <1>2, <1>3 DEF TypeOK
  <2>2. QED
    BY <1>1, <1>2, <1>3, <2>1 DEF TypeOK
<1>5. ThreadInv'
  <2>1. thread' = "push" => ab_read' # Next_(ab_write')
    BY <1>2, <1>3, NotPassed
  <2>2. QED
    BY <1>1, <1>3, <2>1 DEF ThreadInv
<1>6. RingInv'
  <2> SUFFICES ASSUME ~overrun, ~stale
               PROVE  \/ Next_(ab_read) = Next_(ab_write) /\ NothingReady(ready')
                      \/ Ring(Next_(ab_read), ab_write, ready')
    BY <1>3 DEF RingInv
  <2>1. Ring(ab_read, ab_write, ready)
    BY <1>1 DEF ThreadInv, RingInv, Lost
  <2>2. QED
    BY <1>2, <1>3, <2>1, ReadOne
<1>7. QED
  BY <1>4, <1>5, <1>6 DEF IInv

LEMMA PushEndsKeeps == ASSUME IInv, PushEnds PROVE IInv'
<1>1. TypeOK'
  BY DEF IInv, TypeOK, PushEnds, ThreadAt
<1>2. ThreadInv'
  BY DEF IInv, ThreadInv, PushEnds, ThreadAt, NothingReady
<1>3. RingInv'
  BY DEF IInv, RingInv, PushEnds, ThreadAt, Lost, NothingReady, Ring, ReadyBetween
<1>4. QED
  BY <1>1, <1>2, <1>3 DEF IInv

\* The invariant holds of every behaviour, and with it the types.
THEOREM Invariance == Spec => []IInv
<1>1. IInv /\ [Next]_vars => IInv'
  <2> SUFFICES ASSUME IInv, [Next]_vars PROVE IInv'
    OBVIOUS
  <2>1. CASE rtp_record
    BY <2>1, RecordKeeps
  <2>2. CASE Synchronise
    BY <2>2, SynchroniseKeeps
  <2>3. CASE RtpThread
    BY <2>3, DiscardKeeps, StoreKeeps, TooLateKeeps, PushFrameKeeps, PushEndsKeeps DEF RtpThread
  <2>4. ASSUME NEW n \in 1 .. MaxPacket + Jump, rtp_flush(n) PROVE IInv'
    BY <2>4, FlushKeeps
  <2>5. ASSUME NEW n \in Packet, IgnorePacket(n) \/ StartRing(n) \/ TakePacket(n) PROVE IInv'
    BY <2>5, IgnoreKeeps, StartKeeps, TakeKeeps
  <2>6. CASE UNCHANGED vars
    BY <2>6 DEF vars, IInv, TypeOK, ThreadInv, RingInv, Lost, NothingReady, Ring, ReadyBetween
  <2>7. QED
    BY <2>1, <2>2, <2>3, <2>4, <2>5, <2>6 DEF Next
<1>2. QED
  BY <1>1, Initially, PTL DEF Spec

\* Reading never passes writing: where no frames have shared a slot and no gap has left
\* ready frames behind, the two are fewer than half of the sequence numbers apart.
THEOREM OneFrameAtLeast == Spec => []AtLeastOneFrame
<1>1. IInv => AtLeastOneFrame
  <2> SUFFICES ASSUME IInv, ~overrun, ~stale
               PROVE  /\ thread = "push" => ~seq_order(ab_write, ab_read)
                      /\ thread = "select" /\ state = "PLAY" =>
                            ~seq_order(Next_(ab_write), ab_read)
    BY DEF AtLeastOneFrame, ReadingHasNotPassed, Passed
  <2>1. ab_read \in seq_t /\ ab_write \in seq_t
    BY DEF IInv, TypeOK
  <2>2. thread = "push" => Ring(ab_read, ab_write, ready)
    BY DEF IInv, ThreadInv, RingInv, Lost
  <2>3. thread = "select" /\ state = "PLAY" =>
            ab_read = Next_(ab_write) \/ Ring(ab_read, ab_write, ready)
    BY DEF IInv, RingInv, Lost
  <2>4. QED
    BY <2>1, <2>2, <2>3, NotPassed DEF Ring
<1>2. QED
  BY <1>1, Invariance, PTL

\* The frame in the slot of a number to be read has no other number.
LEMMA SlotHasItsNumber ==
    ASSUME IInv, ~overrun, ~stale, state # "WAIT", NEW s \in seq_t,
           Distance(ab_read, s) <= Distance(ab_read, ab_write), ready[BUFIDX(s)] # 0
    PROVE  SeqOf(ready[BUFIDX(s)]) = s /\ Ring(ab_read, ab_write, ready)
<1>1. /\ ab_read \in seq_t /\ ab_write \in seq_t /\ ready \in [Slots -> Packet \cup {0}]
      /\ BUFIDX(s) \in Slots
  BY SlotOf DEF IInv, TypeOK
<1>2. Ring(ab_read, ab_write, ready)
  BY <1>1 DEF IInv, RingInv, Lost, NothingReady
<1>3. PICK p \in seq_t : p = SeqOf(ready[BUFIDX(s)])
  BY <1>1, SeqOfIsSeq DEF Packet
<1>4. BUFIDX(p) = BUFIDX(s) /\ Distance(ab_read, p) <= Distance(ab_read, ab_write)
  BY <1>1, <1>2, <1>3 DEF Ring, ReadyBetween
<1>5. /\ Distance(ab_read, p) \in 0 .. Distance(ab_read, ab_write)
      /\ Distance(ab_read, s) \in 0 .. Distance(ab_read, ab_write)
  <2>1. PICK i \in seq_t, j \in seq_t, k \in seq_t :
            i = Distance(ab_read, p) /\ j = Distance(ab_read, s) /\ k = Distance(ab_read, ab_write)
    BY <1>1, DistanceIs
  <2>2. QED
    BY <1>4, <2>1, Space DEF seq_t
<1>6. After(ab_read, Distance(ab_read, p)) = p /\ After(ab_read, Distance(ab_read, s)) = s
  BY <1>1, AfterDistance
<1>7. Distance(ab_read, p) = Distance(ab_read, s)
  BY <1>2, <1>4, <1>5, <1>6, Zenon DEF Ring, Distinct
<1>8. QED
  BY <1>2, <1>3, <1>6, <1>7

\* A frame that is ready in the slot of a number to be read is the packet with it,
\* where no frames have shared a slot and no gap has left ready frames behind.
THEOREM FramesInPlace == Spec => []FrameInPlace
<1>1. IInv => FrameInPlace
  BY SlotHasItsNumber DEF FrameInPlace, ReadyForTheirNumbers
<1>2. QED
  BY <1>1, Invariance, PTL

=============================================================================
