---------------------------- MODULE HistoryProofs ----------------------------
(***************************************************************************)
(* The store of the history, proved for any partition, any window and any  *)
(* number of samples: first what the estimator is handed, then what a      *)
(* restart finds, and that the store implements HistoryWindow.  Then the   *)
(* battery monitor that the samples come from.                             *)
(***************************************************************************)
EXTENDS HistoryStore, BatteryMonitor, TLAPS

Cells == [magic : BOOLEAN, seq : Nat, valid : BOOLEAN, body : Seq(Nat)]

\* As much of the types as the counts need.
Typed ==
    /\ flash \in [0..(Sectors - 1) -> Cells]
    /\ lastSector \in 0..(Sectors - 1) /\ lastSeq \in Nat
    /\ window \in Seq(Nat) /\ fitted \in Nat
    /\ pc \in {"idle", "erase", "write"}
    /\ taken \in Nat /\ born \in Nat /\ born <= taken + 1

\* While a save is under way its sample is the newest of the window, and not
\* counted yet.
Recent == IF pc = "idle" THEN fitted ELSE fitted + 1

SavingInv == pc # "idle" => Len(window) > 0

RecentInv == ~kept =>
    \A i \in 1..Len(window) : i > Len(window) - Recent => window[i] >= born

IInv == Typed /\ FitInWindow /\ SavingInv /\ RecentInv

-----------------------------------------------------------------------------
\* What history_append() returns.
LEMMA PushFacts ==
    ASSUME NEW w \in Seq(Nat), NEW s \in Nat
    PROVE  /\ Push(w, s) \in Seq(Nat)
           /\ Len(Push(w, s)) > 0 /\ Len(Push(w, s)) >= Len(w)
           /\ Push(w, s)[Len(Push(w, s))] = s
           /\ \A i \in 1..(Len(Push(w, s)) - 1) :
                 \E j \in 1..Len(w) :
                    /\ Push(w, s)[i] = w[j]
                    /\ j - Len(w) = i - (Len(Push(w, s)) - 1)
<1>1. CASE Len(w) < Slots
  <2>1. Push(w, s) = Append(w, s)
    BY <1>1 DEF Push, Abstract!Push
  <2>2. Len(Push(w, s)) = Len(w) + 1 /\ Len(w) \in Nat
    BY <2>1
  <2>3. \A i \in 1..Len(w) : Push(w, s)[i] = w[i]
    BY <2>1
  <2>4. QED
    BY <2>1, <2>2, <2>3
<1>2. CASE ~(Len(w) < Slots)
  <2>1. Push(w, s) = Append(Tail(w), s)
    BY <1>2 DEF Push, Abstract!Push
  <2>2. Len(w) \in Nat /\ Len(w) > 0
    BY <1>2, SizesAssumption
  <2>3. Tail(w) \in Seq(Nat) /\ Len(Tail(w)) = Len(w) - 1
    BY <2>2
  <2>4. \A i \in 1..(Len(w) - 1) : Tail(w)[i] = w[i + 1]
    BY <2>2
  <2>5. Len(Push(w, s)) = Len(w) /\ Push(w, s)[Len(w)] = s
    BY <2>1, <2>2, <2>3
  <2>6. \A i \in 1..(Len(w) - 1) : Push(w, s)[i] = w[i + 1]
    BY <2>1, <2>2, <2>3, <2>4
  <2>7. ASSUME NEW i \in 1..(Len(Push(w, s)) - 1)
        PROVE  \E j \in 1..Len(w) : /\ Push(w, s)[i] = w[j]
                                    /\ j - Len(w) = i - (Len(Push(w, s)) - 1)
    <3>1. i + 1 \in 1..Len(w)
      BY <2>2, <2>5, <2>7
    <3>2. QED
      BY <2>2, <2>5, <2>6, <2>7, <3>1
  <2>8. QED
    BY <2>1, <2>2, <2>3, <2>5, <2>7
<1>3. QED
  BY <1>1, <1>2

\* Whatever a reset cuts short, flash still holds cells.
LEMMA CutTyped == Typed => Cut \subseteq [0..(Sectors - 1) -> Cells]
<1> SUFFICES ASSUME Typed PROVE Cut \subseteq [0..(Sectors - 1) -> Cells]
  OBVIOUS
<1>1. <<>> \in Seq(Nat)
  OBVIOUS
<1>2. Blank \in Cells
  BY <1>1 DEF Blank, Cells
<1>3. NextSeq \in Nat
  BY SizesAssumption DEF NextSeq, Typed
<1>4. PartlyWritten \cup {Blob(NextSeq, window)} \subseteq Cells
  BY <1>1, <1>2, <1>3, SizesAssumption DEF PartlyWritten, Torn, Blob, Cells, Typed
<1>5. ASSUME NEW c \in Cells PROVE PartlyErased(c) \subseteq Cells
  BY <1>1, <1>2, <1>5 DEF PartlyErased, Cells
<1>6. Target \in 0..(Sectors - 1)
  BY SizesAssumption DEF Target, Typed
<1>7. QED
  BY <1>4, <1>5, <1>6 DEF Cut, Typed

\* The window that init() loads is a sequence of samples.
LEMMA LoadTyped ==
    ASSUME NEW f \in [0..(Sectors - 1) -> Cells], Load(f)
    PROVE  window' \in Seq(Nat) /\ lastSector' \in 0..(Sectors - 1) /\ lastSeq' \in Nat
<1>1. CASE Headed(f) = {} /\ lastSector' = 0 /\ lastSeq' = 0 /\ window' = <<>>
  BY <1>1, SizesAssumption
<1>2. ASSUME NEW b \in Headed(f), lastSector' = b, lastSeq' = f[b].seq,
             window' = IF f[b].valid THEN f[b].body ELSE <<>>
      PROVE  window' \in Seq(Nat) /\ lastSector' \in 0..(Sectors - 1) /\ lastSeq' \in Nat
  <2>1. b \in 0..(Sectors - 1)
    BY DEF Headed
  <2>2. f[b] \in Cells
    BY <2>1
  <2>3. f[b].seq \in Nat /\ f[b].body \in Seq(Nat)
    BY <2>2 DEF Cells
  <2>4. QED
    BY <1>2, <2>1, <2>3
<1>3. QED
  BY <1>1, <1>2 DEF Load

-----------------------------------------------------------------------------
\* A new board has no samples.
LEMMA InitInv == Init => IInv
<1> SUFFICES ASSUME Init PROVE IInv
  OBVIOUS
<1>1. Blank \in Cells
  BY DEF Blank, Cells
<1>2. Typed
  BY <1>1, SizesAssumption DEF Init, Typed
<1>3. FitInWindow /\ SavingInv /\ RecentInv
  BY DEF Init, FitInWindow, SavingInv, RecentInv
<1>4. QED
  BY <1>2, <1>3 DEF IInv

\* A sample is appended: it becomes the newest, and no slot leaves the window
\* before an older one.
LEMMA RecordInv == IInv /\ Record => IInv'
<1> SUFFICES ASSUME IInv, Record PROVE IInv'
  OBVIOUS
<1> DEFINE w == window
           v == Push(window, taken + 1)
<1>1. w \in Seq(Nat) /\ taken + 1 \in Nat /\ window' = v
  BY DEF IInv, Typed, Record
<1>2. /\ v \in Seq(Nat) /\ Len(v) > 0 /\ Len(v) >= Len(w)
      /\ v[Len(v)] = taken + 1
      /\ \A i \in 1..(Len(v) - 1) :
            \E j \in 1..Len(w) : v[i] = w[j] /\ j - Len(w) = i - (Len(v) - 1)
  BY <1>1, PushFacts
<1>3. Typed'
  BY <1>1, <1>2 DEF IInv, Typed, Record, store
<1>4. FitInWindow' /\ SavingInv'
  BY <1>1, <1>2 DEF IInv, Typed, FitInWindow, SavingInv, Record
<1>5. ASSUME ~kept', NEW i \in 1..Len(v), i > Len(v) - Recent'
      PROVE  v[i] >= born'
  <2>1. /\ ~kept /\ born' = born /\ pc = "idle" /\ Recent = fitted /\ Recent' = fitted + 1
    BY <1>5 DEF Record, Recent
  <2>2. Len(v) \in Nat /\ Len(w) \in Nat /\ fitted \in Nat /\ born \in Nat /\ born <= taken + 1
    BY <1>1, <1>2 DEF IInv, Typed
  <2>3. CASE i = Len(v)
    BY <1>2, <2>1, <2>2, <2>3 DEF IInv, Typed
  <2>4. CASE i # Len(v)
    <3>1. i \in 1..(Len(v) - 1)
      BY <2>2, <2>4
    <3>2. PICK j \in 1..Len(w) : v[i] = w[j] /\ j - Len(w) = i - (Len(v) - 1)
      BY <1>2, <3>1
    <3>3. j > Len(w) - Recent
      BY <1>5, <2>1, <2>2, <3>2
    <3>4. QED
      BY <2>1, <3>2, <3>3 DEF IInv, RecentInv
  <2>5. QED
    BY <2>3, <2>4
<1>6. RecentInv'
  BY <1>1, <1>5 DEF RecentInv
<1>7. QED
  BY <1>3, <1>4, <1>6 DEF IInv

\* The end of a save, whether or not it succeeds.
LEMMA SaveInv == IInv /\ (Erase \/ WriteDone \/ WriteFails) => IInv'
<1> SUFFICES ASSUME IInv, Erase \/ WriteDone \/ WriteFails PROVE IInv'
  OBVIOUS
<1> USE SizesAssumption
<1>1. /\ window' = window /\ window \in Seq(Nat) /\ Len(window) \in Nat
      /\ fitted \in Nat /\ born \in Nat /\ kept' = kept /\ born' = born /\ taken' = taken
  BY DEF IInv, Typed, Erase, WriteDone, WriteFails
<1>2. flash' \in [0..(Sectors - 1) -> Cells]
  <2>1. Target \in 0..(Sectors - 1) /\ NextSeq \in Nat
    BY DEF Target, NextSeq, IInv, Typed
  <2>2. <<>> \in Seq(Nat)
    OBVIOUS
  <2>3. Blank \in Cells
    BY <2>2 DEF Blank, Cells
  <2>4. \A c \in PartlyErased(flash[Target]) : c \in Cells
    BY <2>1, <2>2, <2>3 DEF PartlyErased, Cells, IInv, Typed
  <2>5. Torn(NextSeq) \in Cells /\ Torn(MaxSeq) \in Cells /\ Blob(NextSeq, window) \in Cells
    BY <1>1, <2>1, <2>2 DEF Torn, Blob, Cells
  <2>6. flash \in [0..(Sectors - 1) -> Cells]
    BY DEF IInv, Typed
  <2>7. \E c \in Cells : flash' = [flash EXCEPT ![Target] = c]
    BY <2>3, <2>4, <2>5 DEF Erase, WriteDone, WriteFails, PartlyWritten
  <2>8. QED
    BY <2>1, <2>6, <2>7
<1>3. /\ lastSector' \in 0..(Sectors - 1) /\ lastSeq' \in Nat
      /\ pc' \in {"idle", "erase", "write"}
      /\ fitted' \in Nat /\ fitted' <= Len(window)
      /\ pc # "idle" /\ Recent' <= Recent
  BY <1>1 DEF IInv, Typed, FitInWindow, Erase, WriteDone, WriteFails, Target, NextSeq, Counted,
     Recent
<1>4. Typed'
  BY <1>1, <1>2, <1>3 DEF IInv, Typed
<1>5. FitInWindow' /\ SavingInv'
  BY <1>1, <1>3 DEF IInv, FitInWindow, SavingInv
<1>6. Recent \in Nat /\ Recent' \in Nat
  <2>1. fitted \in Nat /\ fitted' \in Nat
    BY <1>1, <1>3, Zenon
  <2>2. \A n \in Nat : n + 1 \in Nat
    OBVIOUS
  <2>3. QED
    BY <1>1, <1>3, <2>1, <2>2, Zenon DEF Recent
<1>7. RecentInv'
  BY <1>1, <1>3, <1>6 DEF IInv, RecentInv
<1>8. QED
  BY <1>4, <1>5, <1>7 DEF IInv

\* A reset.
LEMMA RestartInv == ASSUME NEW rail \in BOOLEAN, IInv, Restart(rail) PROVE IInv'
<1>1. PICK f \in Cut : flash' = f /\ Load(f)
  BY DEF Restart
<1>2. f \in [0..(Sectors - 1) -> Cells]
  BY CutTyped DEF IInv
<1>3. window' \in Seq(Nat) /\ lastSector' \in 0..(Sectors - 1) /\ lastSeq' \in Nat
  BY <1>1, <1>2, LoadTyped
<1>4. Len(window') \in Nat
  BY <1>3
<1>5. taken' = taken /\ taken \in Nat /\ born \in Nat /\ born <= taken + 1 /\ pc' = "idle"
  BY DEF IInv, Typed, Restart
<1>6. fitted' = Eligible(rail, window') /\ kept' = rail
      /\ born' = IF rail THEN born ELSE taken + 1
  BY DEF Restart
<1>7. Typed'
  <2>1. fitted' \in Nat
    BY <1>4, <1>6 DEF Eligible
  <2>2. born' \in Nat /\ born' <= taken' + 1
    BY <1>5, <1>6
  <2>3. QED
    BY <1>1, <1>2, <1>3, <1>5, <2>1, <2>2 DEF Typed
<1>8. FitInWindow'
  BY <1>4, <1>6 DEF FitInWindow, Eligible
<1>9. SavingInv'
  BY <1>5 DEF SavingInv
<1>10. RecentInv'
  BY <1>4, <1>5, <1>6 DEF RecentInv, Recent, Eligible
<1>11. QED
  BY <1>7, <1>8, <1>9, <1>10 DEF IInv

LEMMA StepInv == IInv /\ [Next]_vars => IInv'
<1> SUFFICES ASSUME IInv, [Next]_vars PROVE IInv'
  OBVIOUS
<1>1. CASE Next
  BY <1>1, RecordInv, SaveInv, RestartInv DEF Next
<1>2. CASE UNCHANGED vars
  BY <1>2 DEF vars, store, IInv, Typed, FitInWindow, SavingInv, RecentInv, Recent
<1>3. QED
  BY <1>1, <1>2

-----------------------------------------------------------------------------
\* The inductive invariant holds in every reachable state.
THEOREM Invariance == Spec => []IInv
BY InitInv, StepInv, PTL DEF Spec

\* The pointer handed to the estimator never starts before the window.
THEOREM FitsExist == Spec => []FitInWindow
<1>1. IInv => FitInWindow
  BY DEF IInv
<1>2. QED
  BY <1>1, Invariance, PTL

\* After a power loss no failure of a save makes the estimator reach back
\* across it.
THEOREM FitsStayAfterPowerLoss == Spec => []FitAfterPowerLoss
<1>1. IInv => FitAfterPowerLoss
  <2> SUFFICES ASSUME IInv, ~kept, NEW n \in Fitted PROVE n >= born
    BY DEF FitAfterPowerLoss
  <2>1. Len(window) \in Nat /\ fitted \in Nat /\ fitted <= Len(window)
    BY DEF IInv, Typed, FitInWindow
  <2>2. PICK i \in (Len(window) - fitted + 1)..Len(window) : n = window[i]
    BY DEF Fitted
  <2>3. i \in 1..Len(window) /\ i > Len(window) - Recent
    BY <2>1, <2>2 DEF Recent
  <2>4. QED
    BY <2>2, <2>3 DEF IInv, RecentInv
<1>2. QED
  BY <1>1, Invariance, PTL

-----------------------------------------------------------------------------
(* Rotation through the sectors: the last save survives and is found, and  *)
(* the store implements HistoryWindow.                                     *)
(*                                                                         *)
(* The argument is about the age of a sector, its distance behind the last *)
(* one.  A sector of age k up to lastSeq was written with lastSeq - k.     *)
(* What is older than that is left from before a header that reads as all  *)
(* ones was adopted; and that header, of age lastSeq + 1, still outranks   *)
(* it.  It is the next to be erased when nothing older is left.            *)

All == 0..(Sectors - 1)

\* Target, without the remainder.
After(L) == IF L + 1 = Sectors THEN 0 ELSE L + 1

Age(L, s) == IF s <= L THEN L - s ELSE L + Sectors - s

\* The header that reads as all ones and was adopted before the saves numbered from 0.
Anchored(f, L, q) == \E m \in Headed(f) : Age(L, m) = q + 1 /\ f[m].seq = MaxSeq

\* What the sectors but the next one hold, after a save to L with number q.
Rotation(f, L, q) ==
    \A s \in Headed(f) : s # After(L) =>
        \/ Age(L, s) <= q /\ f[s].seq + Age(L, s) = q
        \/ Age(L, s) > q /\ Anchored(f, L, q)

\* What the next one holds: a number of all ones, leftovers that an anchor
\* outranks, a save that is not complete, or the oldest of all.
Front(f, L, q, ack, new) ==
    After(L) \in Headed(f) =>
        \/ f[After(L)].seq = MaxSeq
        \/ Anchored([f EXCEPT ![After(L)] = Blank], L, q)
        \/ ~ack /\ f[After(L)].seq = q + 1 /\ (f[After(L)].valid => f[After(L)].body \in new)
        \/ f[After(L)].seq < q

\* A number of all ones is never on a sector that is whole.
NumbersOf(f, n) ==
    \A s \in Headed(f) :
        /\ f[s].seq = MaxSeq => ~f[s].valid
        /\ f[s].seq # MaxSeq => f[s].seq <= n

NumbersInv ==
    /\ taken <= MaxSamples
    /\ lastSeq # MaxSeq => lastSeq <= taken
    /\ lastSeq # MaxSeq /\ pc # "idle" => lastSeq < taken
    /\ pc # "idle" => ~acked
    /\ NumbersOf(flash, taken)

LastInv ==
    /\ lastSeq > 0 => lastSector \in Headed(flash)
    /\ lastSector \in Headed(flash) =>
          flash[lastSector].seq = lastSeq /\ (flash[lastSector].valid => flash[lastSector].body = saved)
    /\ saved # <<>> => lastSector \in Headed(flash) /\ flash[lastSector].valid

RotationInv ==
    lastSeq # MaxSeq =>
        Rotation(flash, lastSector, lastSeq) /\ Front(flash, lastSector, lastSeq, acked, {})

RInv == NumbersInv /\ LastInv /\ RotationInv

-----------------------------------------------------------------------------
(* The ring of sectors *)

\* The remainder is what After says.
LEMMA TargetIsAfter ==
    ASSUME lastSector \in All
    PROVE  Target = After(lastSector)
<1>1. Sectors \in Nat /\ Sectors > 1 /\ lastSector \in Nat /\ lastSector < Sectors
  BY SizesAssumption DEF All
<1>2. CASE lastSector + 1 = Sectors
  BY <1>1, <1>2 DEF Target, After
<1>3. CASE lastSector + 1 < Sectors
  BY <1>1, <1>3 DEF Target, After
<1>4. QED
  BY <1>1, <1>2, <1>3

\* Numbers wrap at MaxSeq and nowhere before.
LEMMA NextNumber ==
    ASSUME lastSeq \in Nat, lastSeq <= MaxSeq
    PROVE  NextSeq = IF lastSeq = MaxSeq THEN 0 ELSE lastSeq + 1
<1>1. MaxSeq \in Nat
  BY SizesAssumption
<1>2. CASE lastSeq = MaxSeq
  BY <1>1, <1>2 DEF NextSeq
<1>3. CASE lastSeq < MaxSeq
  BY <1>1, <1>3 DEF NextSeq
<1>4. QED
  BY <1>1, <1>2, <1>3

\* Ages count backwards from the last sector, and the next one is the oldest.
LEMMA AgeFacts ==
    ASSUME NEW L \in All, NEW s \in All
    PROVE  /\ Age(L, s) \in Nat /\ Age(L, s) < Sectors
           /\ Age(L, s) = 0 <=> s = L
           /\ Age(L, s) = Sectors - 1 <=> s = After(L)
           /\ After(L) \in All /\ After(L) # L
           /\ s # After(L) => Age(After(L), s) = Age(L, s) + 1
           /\ Age(After(L), After(L)) = 0
BY SizesAssumption DEF Age, After, All

\* Sectors that are as old as each other are the same.
LEMMA AgeIsInjective ==
    ASSUME NEW L \in All, NEW s \in All, NEW t \in All, Age(L, s) = Age(L, t)
    PROVE  s = t
BY SizesAssumption DEF Age, All

\* Where the headers are after one sector was written.
LEMMA HeadedAfter ==
    ASSUME NEW f \in [All -> Cells], NEW t \in All, NEW c \in Cells
    PROVE  /\ \A s \in All : s # t => [f EXCEPT ![t] = c][s] = f[s]
           /\ [f EXCEPT ![t] = c][t] = c
           /\ \A s : s \in Headed([f EXCEPT ![t] = c]) <=>
                        s \in All /\ IF s = t THEN c.magic ELSE f[s].magic
           /\ \A s : s \in Headed(f) <=> s \in All /\ f[s].magic
BY DEF Headed, All

\* An anchor that is needed by a sector but the next one is not the next one.
LEMMA AnchorStays ==
    ASSUME NEW f \in [All -> Cells], NEW L \in All, NEW q \in Nat, NEW c \in Cells,
           NEW s \in All, s # After(L), Age(L, s) > q, Anchored(f, L, q)
    PROVE  Anchored([f EXCEPT ![After(L)] = c], L, q)
<1>1. PICK m \in Headed(f) : Age(L, m) = q + 1 /\ f[m].seq = MaxSeq
  BY DEF Anchored
<1>2. m \in All
  BY DEF Headed, All
<1>3. m # After(L)
  BY <1>1, <1>2, AgeFacts, SizesAssumption
<1>4. m \in Headed([f EXCEPT ![After(L)] = c]) /\ [f EXCEPT ![After(L)] = c][m] = f[m]
  BY <1>2, <1>3, HeadedAfter, AgeFacts
<1>5. QED
  BY <1>1, <1>4 DEF Anchored

-----------------------------------------------------------------------------
(* Writing the next sector *)

\* Whatever happens to the next sector, the others are as they were.
LEMMA RotationKept ==
    ASSUME NEW f \in [All -> Cells], NEW L \in All, NEW q \in Nat, NEW c \in Cells,
           Rotation(f, L, q)
    PROVE  Rotation([f EXCEPT ![After(L)] = c], L, q)
<1> DEFINE g == [f EXCEPT ![After(L)] = c]
<1> SUFFICES ASSUME NEW s \in Headed(g), s # After(L)
             PROVE  \/ Age(L, s) <= q /\ g[s].seq + Age(L, s) = q
                    \/ Age(L, s) > q /\ Anchored(g, L, q)
  BY DEF Rotation
<1>1. s \in All /\ s \in Headed(f) /\ g[s] = f[s] /\ After(L) \in All
  <2>1. s \in All /\ After(L) \in All
    BY AgeFacts DEF Headed, All
  <2>2. QED
    BY <2>1, HeadedAfter
<1>2. CASE Age(L, s) <= q /\ f[s].seq + Age(L, s) = q
  BY <1>1, <1>2
<1>3. CASE Age(L, s) > q /\ Anchored(f, L, q)
  BY <1>1, <1>3, AnchorStays
<1>4. QED
  BY <1>1, <1>2, <1>3 DEF Rotation

\* A header with the next number makes its sector the last one.
LEMMA Advance ==
    ASSUME NEW f \in [All -> Cells], NEW L \in All, NEW q \in Nat, NEW c \in Cells,
           Rotation(f, L, q), c.magic, c.seq = q + 1, NEW new
    PROVE  LET g == [f EXCEPT ![After(L)] = c]
           IN Rotation(g, After(L), q + 1) /\ Front(g, After(L), q + 1, TRUE, new)
<1> DEFINE T == After(L)
           g == [f EXCEPT ![T] = c]
<1>1. T \in All /\ T # L /\ g \in [All -> Cells] /\ g[T] = c
  BY AgeFacts, HeadedAfter
<1>2. ASSUME NEW s \in Headed(g), s # T
      PROVE  /\ s \in All /\ g[s] = f[s] /\ s \in Headed(f) /\ Age(T, s) = Age(L, s) + 1
             /\ Age(L, s) \in Nat
  <2>1. s \in All
    BY DEF Headed, All
  <2>2. g[s] = f[s] /\ s \in Headed(f)
    BY <1>1, <1>2, <2>1, HeadedAfter
  <2>3. Age(T, s) = Age(L, s) + 1 /\ Age(L, s) \in Nat
    BY <1>1, <1>2, <2>1, AgeFacts
  <2>4. QED
    BY <2>1, <2>2, <2>3
<1>3. ASSUME NEW s \in Headed(g), s # T, Age(L, s) > q, Anchored(f, L, q)
      PROVE  Anchored(g, T, q + 1)
  <2>1. Anchored(g, L, q)
    BY <1>2, <1>3, AnchorStays
  <2>2. PICK m \in Headed(g) : Age(L, m) = q + 1 /\ g[m].seq = MaxSeq
    BY <2>1 DEF Anchored
  <2>3. m # T
    <3>1. Age(L, s) # Sectors - 1 /\ Age(L, s) < Sectors
      BY <1>2, <1>3, AgeFacts
    <3>2. Age(L, T) = Sectors - 1
      BY <1>1, AgeFacts
    <3>3. Age(L, s) \in Nat /\ Sectors \in Nat
      BY <1>2, <1>3, SizesAssumption
    <3>4. Age(L, s) < Sectors - 1
      BY <3>1, <3>3
    <3>5. QED
      BY <1>3, <2>2, <3>2, <3>3, <3>4
  <2>4. Age(T, m) = (q + 1) + 1
    BY <1>2, <2>2, <2>3
  <2>5. QED
    BY <2>2, <2>4 DEF Anchored
<1>4. Rotation(g, T, q + 1)
  <2> SUFFICES ASSUME NEW s \in Headed(g), s # After(T)
               PROVE  \/ Age(T, s) <= q + 1 /\ g[s].seq + Age(T, s) = q + 1
                      \/ Age(T, s) > q + 1 /\ Anchored(g, T, q + 1)
    BY DEF Rotation
  <2>1. CASE s = T
    <3>1. Age(T, T) = 0
      BY AgeFacts
    <3>2. QED
      BY <1>1, <2>1, <3>1
  <2>2. CASE s # T /\ Age(L, s) <= q /\ f[s].seq + Age(L, s) = q
    <3>1. /\ s \in All /\ g[s] = f[s] /\ Age(T, s) = Age(L, s) + 1 /\ Age(L, s) \in Nat
          /\ f[s].seq \in Nat
      BY <1>2, <2>2 DEF Cells
    <3>2. QED
      BY <2>2, <3>1
  <2>3. CASE s # T /\ Age(L, s) > q /\ Anchored(f, L, q)
    <3>1. Age(T, s) = Age(L, s) + 1 /\ Age(L, s) \in Nat
      BY <1>2, <2>3
    <3>2. Anchored(g, T, q + 1)
      BY <1>3, <2>3
    <3>3. QED
      BY <2>3, <3>1, <3>2
  <2>4. QED
    BY <1>2, <2>1, <2>2, <2>3 DEF Rotation
<1>5. Front(g, T, q + 1, TRUE, new)
  <2> DEFINE n == After(T)
  <2> SUFFICES ASSUME n \in Headed(g)
               PROVE  \/ g[n].seq = MaxSeq
                      \/ Anchored([g EXCEPT ![n] = Blank], T, q + 1)
                      \/ g[n].seq < q + 1
    BY DEF Front
  <2>1. n # T /\ n \in All
    BY <1>1, AgeFacts
  <2>2. CASE Age(L, n) <= q /\ f[n].seq + Age(L, n) = q
    <3>1. f[n].seq \in Nat /\ g[n] = f[n] /\ Age(L, n) \in Nat
      BY <1>2, <2>1 DEF Cells
    <3>2. QED
      BY <2>2, <3>1
  <2>3. CASE Age(L, n) > q /\ Anchored(f, L, q)
    <3>1. PICK m \in Headed(g) : Age(T, m) = (q + 1) + 1 /\ g[m].seq = MaxSeq
      BY <1>3, <2>1, <2>3 DEF Anchored
    <3>2. CASE m = n
      BY <3>1, <3>2
    <3>3. CASE m # n
      <4>1. m \in All /\ Blank \in Cells
        BY DEF Headed, All, Blank, Cells
      <4>2. m \in Headed([g EXCEPT ![n] = Blank]) /\ [g EXCEPT ![n] = Blank][m] = g[m]
        BY <1>1, <2>1, <3>3, <4>1, HeadedAfter
      <4>3. QED
        BY <3>1, <4>2 DEF Anchored
    <3>4. QED
      BY <3>2, <3>3
  <2>4. QED
    BY <1>2, <2>1, <2>2, <2>3 DEF Rotation
<1>6. QED
  BY <1>4, <1>5

\* The first save after a number of all ones was adopted: its sector is the anchor.
LEMMA AdvanceFromMax ==
    ASSUME NEW f \in [All -> Cells], NEW L \in All, NEW c \in Cells,
           f[L].magic, f[L].seq = MaxSeq, c.magic, c.seq = 0, NEW new
    PROVE  LET g == [f EXCEPT ![After(L)] = c]
           IN Rotation(g, After(L), 0) /\ Front(g, After(L), 0, TRUE, new)
<1> DEFINE T == After(L)
           g == [f EXCEPT ![T] = c]
<1>1. T \in All /\ T # L /\ g \in [All -> Cells] /\ g[T] = c /\ g[L] = f[L]
  BY AgeFacts, HeadedAfter
<1>2. L \in Headed(g) /\ Age(T, L) = 0 + 1
  <2>1. L \in Headed(g)
    BY <1>1 DEF Headed, All
  <2>2. Age(L, L) = 0 /\ Age(T, L) = Age(L, L) + 1
    BY <1>1, AgeFacts
  <2>3. QED
    BY <2>1, <2>2
<1>3. Anchored(g, T, 0)
  BY <1>1, <1>2 DEF Anchored
<1>4. Rotation(g, T, 0)
  <2> SUFFICES ASSUME NEW s \in Headed(g)
               PROVE  \/ Age(T, s) <= 0 /\ g[s].seq + Age(T, s) = 0
                      \/ Age(T, s) > 0
    BY <1>3 DEF Rotation
  <2>1. s \in All
    BY DEF Headed, All
  <2>2. QED
    BY <1>1, <2>1, AgeFacts
<1>5. Front(g, T, 0, TRUE, new)
  <2> DEFINE n == After(T)
  <2>1. CASE n = L
    BY <1>1, <2>1 DEF Front
  <2>2. CASE n # L
    <3>1. n \in All /\ Blank \in Cells
      BY <1>1, AgeFacts DEF Blank, Cells
    <3>2. L \in Headed([g EXCEPT ![n] = Blank]) /\ [g EXCEPT ![n] = Blank][L] = g[L]
      BY <1>1, <1>2, <2>2, <3>1, HeadedAfter
    <3>3. QED
      BY <1>1, <1>2, <3>2 DEF Front, Anchored
  <2>3. QED
    BY <2>1, <2>2
<1>6. QED
  BY <1>4, <1>5
-----------------------------------------------------------------------------
(* The invariant *)

\* What follows from the types for the numbers and the next sector.
LEMMA Basics ==
    ASSUME IInv, RInv
    PROVE  /\ flash \in [All -> Cells] /\ lastSector \in All /\ lastSeq \in Nat
           /\ Target = After(lastSector) /\ Target \in All /\ Target # lastSector
           /\ taken \in Nat /\ MaxSeq \in Nat /\ taken < MaxSeq
           /\ NextSeq = IF lastSeq = MaxSeq THEN 0 ELSE lastSeq + 1
           /\ window \in Seq(Nat)
<1>1. /\ flash \in [All -> Cells] /\ lastSector \in All /\ lastSeq \in Nat
      /\ taken \in Nat /\ window \in Seq(Nat)
  BY DEF IInv, Typed, All
<1>2. Target = After(lastSector) /\ Target \in All /\ Target # lastSector
  BY <1>1, TargetIsAfter, AgeFacts
<1>3. MaxSeq \in Nat /\ taken < MaxSeq
  BY <1>1, SizesAssumption DEF RInv, NumbersInv
<1>4. lastSeq <= MaxSeq
  BY <1>1, <1>3 DEF RInv, NumbersInv
<1>5. NextSeq = IF lastSeq = MaxSeq THEN 0 ELSE lastSeq + 1
  BY <1>1, <1>4, NextNumber
<1>6. QED
  BY <1>1, <1>2, <1>3, <1>5

\* What an erase or a write may leave in the next sector, whole or cut short.
LeftIn(c, new) ==
    \/ c \in PartlyErased(flash[Target])
    \/ pc # "idle" /\ c \in PartlyWritten
    \/ pc # "idle" /\ c = Blob(NextSeq, window) /\ window \in new

\* None of it disturbs the rotation.
LEMMA LeftFacts ==
    ASSUME IInv, RInv, NEW c, NEW new, LeftIn(c, new)
    PROVE  LET g == [flash EXCEPT ![Target] = c]
           IN /\ c \in Cells /\ g \in [All -> Cells] /\ NumbersOf(g, taken)
              /\ lastSeq # MaxSeq => /\ Rotation(g, lastSector, lastSeq)
                                     /\ Front(g, lastSector, lastSeq, acked, new)
<1> DEFINE T == Target
           L == lastSector
           q == lastSeq
           g == [flash EXCEPT ![T] = c]
           d == flash[T]
<1>1. /\ flash \in [All -> Cells] /\ L \in All /\ q \in Nat /\ T = After(L) /\ T \in All
      /\ T # L /\ taken \in Nat /\ MaxSeq \in Nat /\ taken < MaxSeq
      /\ NextSeq = IF q = MaxSeq THEN 0 ELSE q + 1
      /\ window \in Seq(Nat)
  BY Basics
<1>2. d \in Cells /\ d.seq \in Nat
  BY <1>1 DEF Cells
<1>3. NextSeq \in Nat
  BY <1>1
<1>4. pc # "idle" => NextSeq <= taken /\ NextSeq # MaxSeq
  BY <1>1 DEF RInv, NumbersInv
<1>5. \/ c = d
      \/ c = [d EXCEPT !.valid = FALSE, !.body = <<>>]
      \/ c = Blank
      \/ pc # "idle" /\ c = Torn(NextSeq)
      \/ c = Torn(MaxSeq)
      \/ pc # "idle" /\ c = Blob(NextSeq, window) /\ window \in new
  BY DEF LeftIn, PartlyErased, PartlyWritten
<1>6. c \in Cells
  <2>1. <<>> \in Seq(Nat)
    OBVIOUS
  <2>2. CASE c = d
    BY <1>2, <2>2
  <2>3. CASE c = [d EXCEPT !.valid = FALSE, !.body = <<>>]
    BY <1>2, <2>1, <2>3 DEF Cells
  <2>4. CASE c = Blank
    BY <2>1, <2>4 DEF Blank, Cells
  <2>5. CASE c = Torn(NextSeq) \/ c = Torn(MaxSeq)
    <3>1. ASSUME NEW n \in Nat PROVE Torn(n) \in Cells
      BY <2>1 DEF Torn, Cells
    <3>2. MaxSeq \in Nat /\ NextSeq \in Nat
      BY <1>1, <1>3
    <3>3. QED
      BY <2>5, <3>1, <3>2
  <2>6. CASE c = Blob(NextSeq, window)
    BY <1>1, <1>3, <2>6 DEF Blob, Cells
  <2>7. QED
    BY <1>5, <2>2, <2>3, <2>4, <2>5, <2>6
<1>7. /\ c.magic /\ c.seq = MaxSeq => ~c.valid
      /\ c.magic /\ c.seq # MaxSeq => c.seq <= taken
  <2>1. /\ d.magic /\ d.seq = MaxSeq => ~d.valid
        /\ d.magic /\ d.seq # MaxSeq => d.seq <= taken
    BY <1>1 DEF RInv, NumbersInv, NumbersOf, Headed, All
  <2>2. CASE c = d
    BY <2>1, <2>2
  <2>3. CASE c = [d EXCEPT !.valid = FALSE, !.body = <<>>]
    <3>1. c.magic = d.magic /\ c.seq = d.seq /\ ~c.valid
      BY <1>2, <2>3 DEF Cells
    <3>2. QED
      BY <2>1, <3>1
  <2>4. CASE c = Blank
    BY <2>4 DEF Blank
  <2>5. CASE c = Torn(MaxSeq)
    BY <2>5 DEF Torn
  <2>6. CASE pc # "idle" /\ (c = Torn(NextSeq) \/ c = Blob(NextSeq, window))
    <3>1. c.seq = NextSeq
      BY <2>6 DEF Torn, Blob
    <3>2. QED
      BY <1>4, <2>6, <3>1
  <2>7. QED
    BY <1>5, <2>2, <2>3, <2>4, <2>5, <2>6
<1>8. /\ g \in [All -> Cells] /\ g[T] = c
      /\ \A s \in All : s # T => g[s] = flash[s]
      /\ \A s : s \in Headed(g) <=> s \in All /\ IF s = T THEN c.magic ELSE flash[s].magic
      /\ \A s : s \in Headed(flash) <=> s \in All /\ flash[s].magic
  BY <1>1, <1>6, HeadedAfter
<1>9. NumbersOf(g, taken)
  BY <1>1, <1>7, <1>8 DEF RInv, NumbersInv, NumbersOf
<1>10. ASSUME q # MaxSeq PROVE Rotation(g, L, q)
  BY <1>1, <1>6, <1>10, RotationKept DEF RInv, RotationInv
<1>11. ASSUME q # MaxSeq PROVE Front(g, L, q, acked, new)
  <2>1. [g EXCEPT ![T] = Blank] = [flash EXCEPT ![T] = Blank]
    BY <1>1, <1>6
  <2>2. d.magic => \/ d.seq = MaxSeq
                   \/ Anchored([flash EXCEPT ![T] = Blank], L, q)
                   \/ ~acked /\ d.seq = q + 1 /\ ~d.valid
                   \/ d.seq < q
    BY <1>1, <1>8, <1>11 DEF RInv, RotationInv, Front
  <2> SUFFICES ASSUME c.magic
               PROVE  \/ c.seq = MaxSeq
                      \/ Anchored([flash EXCEPT ![T] = Blank], L, q)
                      \/ ~acked /\ c.seq = q + 1 /\ (c.valid => c.body \in new)
                      \/ c.seq < q
    BY <1>1, <1>8, <2>1 DEF Front
  <2>3. CASE c = d
    BY <2>2, <2>3
  <2>4. CASE c = [d EXCEPT !.valid = FALSE, !.body = <<>>]
    <3>1. c.magic = d.magic /\ c.seq = d.seq /\ ~c.valid
      BY <1>2, <2>4 DEF Cells
    <3>2. QED
      BY <2>2, <3>1
  <2>5. CASE c = Blank
    BY <2>5 DEF Blank
  <2>6. CASE pc # "idle" /\ c = Torn(NextSeq)
    <3>1. ~acked /\ c.seq = q + 1 /\ ~c.valid
      BY <1>1, <1>11, <2>6 DEF Torn, RInv, NumbersInv
    <3>2. QED
      BY <3>1
  <2>7. CASE c = Torn(MaxSeq)
    BY <2>7 DEF Torn
  <2>8. CASE pc # "idle" /\ c = Blob(NextSeq, window) /\ window \in new
    <3>1. ~acked /\ c.seq = q + 1 /\ c.body \in new
      BY <1>1, <1>11, <2>8 DEF Blob, RInv, NumbersInv
    <3>2. QED
      BY <3>1
  <2>9. QED
    BY <1>5, <2>3, <2>4, <2>5, <2>6, <2>7, <2>8
<1>12. QED
  BY <1>6, <1>8, <1>9, <1>10, <1>11

\* Nothing was saved yet.
LEMMA RInvInit == Init => RInv
<1> SUFFICES ASSUME Init PROVE RInv
  OBVIOUS
<1>1. Headed(flash) = {}
  BY DEF Init, Headed, Blank
<1>2. NumbersInv
  BY <1>1, SizesAssumption DEF Init, NumbersInv, NumbersOf
<1>3. LastInv
  <2>1. lastSeq = 0 /\ saved = <<>>
    BY DEF Init
  <2>2. QED
    BY <1>1, <2>1 DEF LastInv
<1>4. RotationInv
  <2>1. Rotation(flash, lastSector, lastSeq)
    BY <1>1 DEF Rotation
  <2>2. Front(flash, lastSector, lastSeq, acked, {})
    BY <1>1 DEF Front
  <2>3. QED
    BY <2>1, <2>2 DEF RotationInv
<1>5. QED
  BY <1>2, <1>3, <1>4 DEF RInv

\* A sample changes nothing in flash.
LEMMA RInvRecord == ASSUME IInv, RInv, Record PROVE RInv'
<1>1. /\ flash' = flash /\ lastSector' = lastSector /\ lastSeq' = lastSeq /\ saved' = saved
      /\ taken' = taken + 1 /\ taken < MaxSamples /\ taken \in Nat /\ acked' = FALSE
      /\ lastSeq \in Nat /\ MaxSamples \in Nat /\ flash \in [All -> Cells]
  BY SizesAssumption DEF Record, store, IInv, Typed, All
<1>2. NumbersInv'
  <2>1. \A s \in Headed(flash) : flash[s].seq \in Nat
    BY <1>1 DEF Headed, All, Cells
  <2>2. NumbersOf(flash, taken + 1)
    BY <1>1, <2>1 DEF RInv, NumbersInv, NumbersOf
  <2>3. QED
    BY <1>1, <2>2 DEF RInv, NumbersInv
<1>3. LastInv'
  BY <1>1 DEF RInv, LastInv
<1>4. RotationInv'
  BY <1>1 DEF RInv, RotationInv, Front
<1>5. QED
  BY <1>2, <1>3, <1>4 DEF RInv

\* An erase, or a write that fails, spoils the next sector only.
LEMMA RInvSpoil == ASSUME IInv, RInv, Erase \/ WriteFails PROVE RInv'
<1>1. /\ lastSector' = lastSector /\ lastSeq' = lastSeq /\ saved' = saved /\ acked' = acked
      /\ taken' = taken /\ pc # "idle"
  BY DEF Erase, WriteFails
<1>2. PICK c : LeftIn(c, {}) /\ flash' = [flash EXCEPT ![Target] = c]
  <2>1. Blank \in PartlyErased(flash[Target])
    BY DEF PartlyErased
  <2>2. QED
    BY <1>1, <2>1 DEF Erase, WriteFails, LeftIn
<1>3. /\ flash' \in [All -> Cells] /\ NumbersOf(flash', taken)
      /\ lastSeq # MaxSeq => /\ Rotation(flash', lastSector, lastSeq)
                             /\ Front(flash', lastSector, lastSeq, acked, {})
  BY <1>2, LeftFacts
<1>4. /\ flash'[lastSector] = flash[lastSector]
      /\ lastSector \in Headed(flash') <=> lastSector \in Headed(flash)
  BY <1>2, <1>3, Basics DEF Headed
<1>5. NumbersInv'
  BY <1>1, <1>3 DEF RInv, NumbersInv
<1>6. LastInv'
  BY <1>1, <1>4 DEF RInv, LastInv
<1>7. RotationInv'
  BY <1>1, <1>3 DEF RotationInv
<1>8. QED
  BY <1>5, <1>6, <1>7 DEF RInv

\* A sector that carries the next number may become the last one: the write was
\* done, or a reset found its header.
LEMMA RInvAdvance ==
    ASSUME IInv, RInv, NEW c \in Cells, c.magic, c.seq = NextSeq
    PROVE  LET g == [flash EXCEPT ![Target] = c]
           IN Rotation(g, Target, NextSeq) /\ Front(g, Target, NextSeq, TRUE, {})
<1>1. CASE lastSeq # MaxSeq
  BY <1>1, Advance, Basics DEF RInv, RotationInv
<1>2. CASE lastSeq = MaxSeq
  <2>1. flash[lastSector].magic /\ flash[lastSector].seq = MaxSeq
    <3>1. lastSeq > 0
      BY <1>2, Basics
    <3>2. QED
      BY <1>2, <3>1 DEF RInv, LastInv, Headed
  <2>2. QED
    BY <1>2, <2>1, AdvanceFromMax, Basics
<1>3. QED
  BY <1>1, <1>2

\* A write that is done.
LEMMA RInvWrite == ASSUME IInv, RInv, WriteDone PROVE RInv'
<1> DEFINE c == Blob(NextSeq, window)
<1>1. /\ lastSector' = Target /\ lastSeq' = NextSeq /\ saved' = window /\ acked' = TRUE
      /\ taken' = taken /\ pc = "write" /\ pc' = "idle"
      /\ flash' = [flash EXCEPT ![Target] = c]
  BY DEF WriteDone
<1>2. LeftIn(c, {window})
  BY <1>1 DEF LeftIn
<1>3. c \in Cells /\ flash' \in [All -> Cells] /\ NumbersOf(flash', taken)
  BY <1>1, <1>2, LeftFacts
<1>4. c.magic /\ c.seq = NextSeq /\ c.valid /\ c.body = window
  BY DEF Blob
<1>5. Target \in Headed(flash') /\ flash'[Target] = c
  BY <1>1, <1>3, <1>4, Basics, HeadedAfter DEF All
<1>6. NumbersInv'
  <2>1. NextSeq # MaxSeq => NextSeq <= taken
    BY <1>3, <1>4, <1>5 DEF NumbersOf
  <2>2. QED
    BY <1>1, <1>3, <2>1 DEF RInv, NumbersInv
<1>7. LastInv'
  BY <1>1, <1>4, <1>5 DEF LastInv
<1>8. RotationInv'
  BY <1>1, <1>3, <1>4, RInvAdvance DEF RotationInv
<1>9. QED
  BY <1>6, <1>7, <1>8 DEF RInv

-----------------------------------------------------------------------------
(* What init() finds *)

\* Where no header reads as all ones there is no anchor.
LEMMA NoAnchor ==
    ASSUME NEW g \in [All -> Cells], NEW L \in All, NEW q,
           \A s \in Headed(g) : g[s].seq # MaxSeq
    PROVE  ~Anchored(g, L, q) /\ ~Anchored([g EXCEPT ![After(L)] = Blank], L, q)
<1> DEFINE T == After(L)
<1>1. T \in All
  BY AgeFacts
<1>2. ASSUME NEW f, NEW m \in Headed(f), f[m].seq = MaxSeq, f = g \/ f = [g EXCEPT ![T] = Blank]
      PROVE  FALSE
  <2>1. CASE f = g
    BY <1>2, <2>1
  <2>2. CASE f = [g EXCEPT ![T] = Blank]
    <3>1. Blank \in Cells /\ ~Blank.magic
      BY DEF Blank, Cells
    <3>2. m \in All /\ m # T
      BY <1>1, <1>2, <2>2, <3>1, HeadedAfter
    <3>3. f[m] = g[m] /\ m \in Headed(g)
      BY <1>1, <1>2, <2>2, <3>1, <3>2, HeadedAfter
    <3>4. QED
      BY <1>2, <3>3
  <2>3. QED
    BY <1>2, <2>1, <2>2
<1>3. QED
  BY <1>2 DEF Anchored

\* Of a rotation in which L was written last with q, the newest header is L's, or
\* that of a save which came next and is not complete, or it reads as all ones.
LEMMA NewestOfRotation ==
    ASSUME NEW g \in [All -> Cells], NEW L \in All, NEW q \in Nat, NEW ack, NEW new,
           NEW n \in Nat, n < MaxSeq, NumbersOf(g, n),
           q # MaxSeq => Rotation(g, L, q) /\ Front(g, L, q, ack, new),
           q > 0 => L \in Headed(g) /\ g[L].seq = q,
           NEW b, Newest(g, b), g[b].seq # MaxSeq
    PROVE  /\ q # MaxSeq
           /\ \/ /\ b = L /\ g[b].seq = q
                 /\ After(L) \in Headed(g) => g[After(L)].seq <= q
              \/ /\ b = After(L) /\ ~ack /\ g[b].seq = q + 1
                 /\ g[b].valid => g[b].body \in new
<1> DEFINE T == After(L)
<1>1. MaxSeq \in Nat /\ T \in All /\ T # L
  BY AgeFacts, SizesAssumption
<1>2. \A s \in Headed(g) : s \in All /\ g[s].seq \in Nat
  BY DEF Headed, All, Cells
<1>3. b \in Headed(g) /\ \A s \in Headed(g) : g[s].seq <= g[b].seq
  BY DEF Newest
<1>4. g[b].seq \in Nat /\ b \in All
  BY <1>2, <1>3
<1>5. g[b].seq < MaxSeq
  <2>1. g[b].seq <= n
    BY <1>3 DEF NumbersOf
  <2>2. QED
    BY <1>1, <1>4, <2>1
<1>6. ASSUME NEW s \in Headed(g) PROVE g[s].seq # MaxSeq
  <2>1. g[s].seq <= g[b].seq /\ g[s].seq \in Nat
    BY <1>2, <1>3
  <2>2. QED
    BY <1>1, <1>4, <1>5, <2>1
<1>7. q # MaxSeq
  <2> SUFFICES ASSUME q = MaxSeq PROVE FALSE
    OBVIOUS
  <2>1. q > 0
    BY <1>1
  <2>2. L \in Headed(g) /\ g[L].seq = MaxSeq
    BY <2>1
  <2>3. QED
    BY <1>6, <2>2
<1>8. ~Anchored(g, L, q) /\ ~Anchored([g EXCEPT ![T] = Blank], L, q)
  BY <1>6, NoAnchor
<1>9. ASSUME T \in Headed(g)
       PROVE  \/ ~ack /\ g[T].seq = q + 1 /\ (g[T].valid => g[T].body \in new)
              \/ g[T].seq < q
  BY <1>6, <1>7, <1>8, <1>9 DEF Front
<1>10. CASE b = T /\ g[b].seq < q
  <2>1. q > 0
    BY <1>4, <1>10
  <2>2. q <= g[b].seq
    BY <1>3, <2>1
  <2>3. QED
    BY <1>4, <1>10, <2>2
<1>11. CASE b = T /\ ~(g[b].seq < q)
  BY <1>3, <1>7, <1>9, <1>11
<1>12. CASE b # T
  <2>1. Age(L, b) <= q /\ g[b].seq + Age(L, b) = q
    BY <1>3, <1>7, <1>8, <1>12 DEF Rotation
  <2>2. q > 0 => q <= g[b].seq
    BY <1>3
  <2>3. Age(L, b) \in Nat
    BY <1>4, AgeFacts
  <2>4. Age(L, b) = 0 /\ g[b].seq = q
    BY <1>4, <2>1, <2>2, <2>3
  <2>5. b = L
    BY <1>4, <2>4, AgeFacts
  <2>6. T \in Headed(g) => g[T].seq <= q
    BY <1>3, <2>4
  <2>7. QED
    BY <1>7, <2>4, <2>5, <2>6
<1>13. QED
  BY <1>10, <1>11, <1>12

\* The flash g that a reset leaves, c in its next sector.
CutTo(g, c) == LeftIn(c, {window}) /\ g = [flash EXCEPT ![Target] = c]

\* The same of the flash that a reset leaves.
LEMMA NewestIs ==
    ASSUME IInv, RInv, NEW c, NEW g, CutTo(g, c),
           NEW b, Newest(g, b), g[b].seq # MaxSeq
    PROVE  /\ lastSeq # MaxSeq
           /\ \/ /\ b = lastSector /\ g[b] = flash[b] /\ g[b].seq = lastSeq
                 /\ Target \in Headed(g) => g[Target].seq <= lastSeq
              \/ /\ b = Target /\ ~acked /\ g[b] = c /\ c.seq = lastSeq + 1
                 /\ c.valid => c.body = window
<1> DEFINE L == lastSector
           q == lastSeq
<1>1. /\ g \in [All -> Cells] /\ NumbersOf(g, taken) /\ c \in Cells
      /\ q # MaxSeq => Rotation(g, L, q) /\ Front(g, L, q, acked, {window})
  BY LeftFacts DEF CutTo
<1>2. /\ flash \in [All -> Cells] /\ L \in All /\ Target \in All /\ Target # L
      /\ Target = After(L) /\ q \in Nat /\ taken \in Nat /\ taken < MaxSeq
  BY Basics
<1>3. g[L] = flash[L] /\ g[Target] = c
  BY <1>2 DEF CutTo
<1>4. q > 0 => L \in Headed(g) /\ g[L].seq = q
  BY <1>3 DEF RInv, LastInv, Headed
<1>5. /\ q # MaxSeq
      /\ \/ /\ b = L /\ g[b].seq = q
            /\ After(L) \in Headed(g) => g[After(L)].seq <= q
         \/ /\ b = After(L) /\ ~acked /\ g[b].seq = q + 1
            /\ g[b].valid => g[b].body \in {window}
  <2>1. /\ g \in [All -> Cells] /\ L \in All /\ q \in Nat /\ taken \in Nat /\ taken < MaxSeq
        /\ NumbersOf(g, taken) /\ Newest(g, b) /\ g[b].seq # MaxSeq
    BY <1>1, <1>2
  <2>2. q # MaxSeq => Rotation(g, L, q) /\ Front(g, L, q, acked, {window})
    BY <1>1
  <2> HIDE DEF L, q
  <2>3. QED
    BY <2>1, <2>2, <1>4, NewestOfRotation
<1>6. QED
  BY <1>2, <1>3, <1>5

\* What flash holds at a boot is what it held, but for the sector under way.
LEMMA CutIsLeft ==
    ASSUME IInv, RInv, NEW f \in Cut
    PROVE  \E c : LeftIn(c, {window}) /\ f = [flash EXCEPT ![Target] = c]
<1>1. flash \in [All -> Cells] /\ Target \in All
  BY Basics
<1>2. CASE pc = "idle"
  <2>1. f = flash
    BY <1>2 DEF Cut
  <2>2. flash = [flash EXCEPT ![Target] = flash[Target]]
    BY <1>1
  <2>3. LeftIn(flash[Target], {window})
    BY DEF LeftIn, PartlyErased
  <2>4. QED
    BY <2>1, <2>2, <2>3
<1>3. CASE pc = "erase"
  BY <1>3 DEF Cut, LeftIn
<1>4. CASE pc = "write"
  BY <1>4 DEF Cut, LeftIn
<1>5. QED
  BY <1>2, <1>3, <1>4 DEF IInv, Typed

\* A reset keeps the invariant, and finds the window of the last save, that of the
\* save that was all but done, or none.
LEMMA RInvRestart ==
    ASSUME IInv, RInv, NEW rail \in BOOLEAN, Restart(rail)
    PROVE  RInv' /\ window' \in {saved, window, <<>>}
<1>1. PICK f \in Cut : flash' = f /\ Load(f)
  BY DEF Restart
<1>2. PICK c : LeftIn(c, {window}) /\ flash' = [flash EXCEPT ![Target] = c]
  BY <1>1, CutIsLeft
<1>3. /\ c \in Cells /\ flash' \in [All -> Cells] /\ NumbersOf(flash', taken)
      /\ lastSeq # MaxSeq => /\ Rotation(flash', lastSector, lastSeq)
                             /\ Front(flash', lastSector, lastSeq, acked, {window})
  BY <1>2, LeftFacts
<1>4. /\ taken' = taken /\ pc' = "idle" /\ saved' = window' /\ acked' = TRUE
      /\ taken \in Nat /\ MaxSeq \in Nat /\ taken < MaxSeq /\ taken <= MaxSamples
  BY Basics DEF Restart, RInv, NumbersInv
<1>5. CASE Headed(flash') = {} /\ lastSector' = 0 /\ lastSeq' = 0 /\ window' = <<>>
  <2>1. NumbersInv'
    BY <1>3, <1>4, <1>5 DEF NumbersInv
  <2>2. LastInv'
    <3>1. ~(lastSeq' > 0) /\ saved' = <<>> /\ Headed(flash') = {}
      BY <1>4, <1>5
    <3>2. QED
      BY <3>1 DEF LastInv
  <2>3. RotationInv'
    BY <1>5 DEF RotationInv, Rotation, Front
  <2>4. QED
    BY <1>5, <2>1, <2>2, <2>3 DEF RInv
<1>6. ASSUME NEW b \in Headed(flash'), Newest(flash', b), lastSector' = b,
             lastSeq' = flash'[b].seq,
             window' = IF flash'[b].valid THEN flash'[b].body ELSE <<>>
      PROVE  RInv' /\ window' \in {saved, window, <<>>}
  <2>1. NumbersInv'
    BY <1>3, <1>4, <1>6 DEF NumbersInv, NumbersOf
  <2>2. LastInv'
    BY <1>4, <1>6 DEF LastInv
  <2>3. CASE flash'[b].seq = MaxSeq
    <3>1. ~flash'[b].valid
      BY <1>3, <1>6, <2>3 DEF NumbersOf
    <3>2. RotationInv'
      BY <1>6, <2>3 DEF RotationInv
    <3>3. QED
      BY <1>6, <2>1, <2>2, <3>1, <3>2 DEF RInv
  <2>4. CASE /\ lastSeq # MaxSeq
             /\ b = lastSector /\ flash'[b] = flash[b] /\ flash'[b].seq = lastSeq
             /\ Target \in Headed(flash') => flash'[Target].seq <= lastSeq
    <3>1. b \in Headed(flash) /\ Target = After(lastSector) /\ lastSeq \in Nat
      BY <1>6, <2>4, Basics DEF Headed
    <3>2. flash[b].valid => flash[b].body = saved
      BY <2>4, <3>1 DEF RInv, LastInv
    <3>3. Front(flash', b, lastSeq, TRUE, {})
      BY <1>3, <2>4, <3>1 DEF Front
    <3>4. RotationInv'
      BY <1>3, <1>4, <1>6, <2>4, <3>3 DEF RotationInv
    <3>5. window' \in {saved, <<>>}
      BY <1>6, <2>4, <3>2
    <3>6. QED
      BY <2>1, <2>2, <3>4, <3>5 DEF RInv
  <2>5. CASE /\ lastSeq # MaxSeq
             /\ b = Target /\ flash'[b] = c /\ c.seq = lastSeq + 1
             /\ c.valid => c.body = window
    <3>1. c.magic /\ c.seq = NextSeq
      BY <1>6, <2>5, Basics DEF Headed
    <3>2. Rotation(flash', Target, NextSeq) /\ Front(flash', Target, NextSeq, TRUE, {})
      BY <1>2, <1>3, <3>1, RInvAdvance
    <3>3. RotationInv'
      BY <1>4, <1>6, <2>5, <3>1, <3>2 DEF RotationInv
    <3>4. QED
      BY <1>6, <2>1, <2>2, <2>5, <3>3 DEF RInv
  <2>6. ASSUME f[b].seq # MaxSeq
        PROVE  /\ lastSeq # MaxSeq
               /\ \/ /\ b = lastSector /\ f[b] = flash[b] /\ f[b].seq = lastSeq
                     /\ Target \in Headed(f) => f[Target].seq <= lastSeq
                  \/ /\ b = Target /\ ~acked /\ f[b] = c /\ c.seq = lastSeq + 1
                     /\ c.valid => c.body = window
    <3>1. Newest(f, b) /\ CutTo(f, c)
      BY <1>1, <1>2, <1>6 DEF CutTo
    <3>2. QED
      BY <2>6, <3>1, NewestIs
  <2>7. QED
    BY <1>1, <2>3, <2>4, <2>5, <2>6
<1>7. QED
  BY <1>1, <1>5, <1>6 DEF Load

-----------------------------------------------------------------------------
(* What callers rely on *)

LEMMA RInvStep == IInv /\ RInv /\ [Next]_vars => RInv'
<1> SUFFICES ASSUME IInv, RInv, [Next]_vars PROVE RInv'
  OBVIOUS
<1>1. CASE Record
  BY <1>1, RInvRecord
<1>2. CASE Erase \/ WriteFails
  BY <1>2, RInvSpoil
<1>3. CASE WriteDone
  BY <1>3, RInvWrite
<1>4. ASSUME NEW rail \in BOOLEAN, Restart(rail) PROVE RInv'
  BY <1>4, RInvRestart
<1>5. CASE UNCHANGED vars
  BY <1>5 DEF vars, store, RInv, NumbersInv, NumbersOf, LastInv, RotationInv, Rotation, Front,
     Anchored, Headed
<1>6. QED
  BY <1>1, <1>2, <1>3, <1>4, <1>5 DEF Next

\* The rotation keeps its order: whatever fails or is cut short, ages and numbers agree.
THEOREM RotationHolds == Spec => []RInv
BY Invariance, RInvInit, RInvStep, PTL DEF Spec

\* Saves go to the sector after the last one, so that one stays intact.
THEOREM LastSaveStays == Spec => []LastSaveSurvives
<1>1. RInv => LastSaveSurvives
  BY DEF RInv, LastInv, LastSaveSurvives
<1>2. QED
  BY <1>1, RotationHolds, PTL

\* No sector outranks the last save's, unless a header reads as all ones.
THEOREM SavesAreFound == Spec => []SavedIsFound
<1>1. IInv /\ RInv => SavedIsFound
  <2> DEFINE L == lastSector
             q == lastSeq
  <2> SUFFICES ASSUME IInv, RInv, acked, saved # <<>>,
                      \A s \in Headed(flash) : flash[s].seq < MaxSeq
               PROVE  Newest(flash, L) /\ flash[L].valid /\ flash[L].body = saved
    BY DEF SavedIsFound, Newest
  <2>1. /\ flash \in [All -> Cells] /\ L \in All /\ q \in Nat /\ MaxSeq \in Nat
        /\ Target = After(L) /\ Target \in All
    BY Basics
  <2>2. L \in Headed(flash) /\ flash[L].valid /\ flash[L].body = saved /\ flash[L].seq = q
    BY DEF RInv, LastInv
  <2>3. \A s \in Headed(flash) : s \in All /\ flash[s].seq \in Nat /\ flash[s].seq # MaxSeq
    BY <2>1 DEF Headed, All, Cells
  <2>4. q # MaxSeq
    BY <2>2, <2>3
  <2>5. ~Anchored(flash, L, q) /\ ~Anchored([flash EXCEPT ![After(L)] = Blank], L, q)
    BY <2>1, <2>3, NoAnchor
  <2>6. ASSUME NEW s \in Headed(flash), s # L PROVE flash[s].seq < q
    <3>1. CASE s = After(L)
      BY <2>3, <2>4, <2>5, <2>6, <3>1 DEF RInv, RotationInv, Front
    <3>2. CASE s # After(L)
      <4>1. flash[s].seq + Age(L, s) = q
        BY <2>4, <2>5, <2>6, <3>2 DEF RInv, RotationInv, Rotation
      <4>2. Age(L, s) \in Nat /\ Age(L, s) # 0
        BY <2>1, <2>3, <2>6, AgeFacts
      <4>3. QED
        BY <2>1, <2>3, <2>6, <4>1, <4>2
    <3>3. QED
      BY <3>1, <3>2
  <2>7. Newest(flash, L)
    <3>1. \A s \in Headed(flash) : flash[s].seq <= flash[L].seq
      BY <2>1, <2>2, <2>3, <2>6
    <3>2. \A s \in Headed(flash) : flash[s].seq = flash[L].seq => L <= s
      BY <2>1, <2>2, <2>3, <2>6 DEF All
    <3>3. QED
      BY <2>2, <3>1, <3>2 DEF Newest
  <2>8. QED
    BY <2>2, <2>7
<1>2. QED
  BY <1>1, Invariance, RotationHolds, PTL

\* The store implements the window: every step of it is a record, a commit or a
\* restart of HistoryWindow, or leaves its variables alone.
THEOREM StoreImplementsWindow == Spec => Implements
<1>1. Init => Abstract!Init
  BY DEF Init, Abstract!Init
<1>2. IInv /\ RInv /\ [Next]_vars => [Abstract!Next]_<<window, saved>>
  <2> SUFFICES ASSUME IInv, RInv, [Next]_vars
               PROVE  Abstract!Next \/ UNCHANGED <<window, saved>>
    OBVIOUS
  <2>1. Record => Abstract!Next
    <3> SUFFICES ASSUME Record PROVE Abstract!Record(taken + 1) /\ taken + 1 \in 1..MaxSamples
      BY DEF Abstract!Next
    <3>1. QED
      BY SizesAssumption DEF Record, Push, Abstract!Record, IInv, Typed
  <2>2. WriteDone => Abstract!Next
    BY DEF WriteDone, Abstract!Next, Abstract!Commit
  <2>3. ASSUME NEW rail \in BOOLEAN, Restart(rail) PROVE Abstract!Next
    <3>1. window' \in {saved, window, <<>>}
      BY <2>3, RInvRestart
    <3>2. saved' = window'
      BY <2>3 DEF Restart
    <3>3. QED
      BY <3>1, <3>2 DEF Abstract!Next, Abstract!Restart
  \* The window knows nothing of sectors, nor of a save that fails.
  <2>4. Erase \/ WriteFails \/ UNCHANGED vars => UNCHANGED <<window, saved>>
    BY DEF Erase, WriteFails, vars
  <2>5. QED
    BY <2>1, <2>2, <2>3, <2>4 DEF Next
<1>3. QED
  BY <1>1, <1>2, Invariance, RotationHolds, PTL DEF Spec, Implements, Abstract!Spec

-----------------------------------------------------------------------------
(* The battery monitor, for every window, cadence, threshold and set of readings:    *)
(* a step that lies k readings before the end of the window was held from Window on  *)
(* and has cost the hold at most k, unless readings were missed.  By the time the    *)
(* hold is over the step has been shifted out.                                       *)

\* The part of BatteryTypeOK that the argument needs.
WindowOK ==
  /\ slope \in Seq(Nat) /\ Len(slope) <= Window
  /\ hold \in 0 .. Window /\ missed \in BOOLEAN

\* What is left of the hold and the age of a step make up the window.
StepsAreHeld ==
  ~missed =>
    \A i \in 1 .. Len(slope) - 1 :
      IsStep(slope[i], slope[i + 1]) => hold + (Len(slope) - i) >= Window

BatteryInv == WindowOK /\ StepsAreHeld

-----------------------------------------------------------------------------
(* The window and the hold *)

\* A window takes one more reading: it grows by it or is shifted by one.
LEMMA ShiftedWindow ==
  ASSUME NEW w \in Seq(Nat), NEW size \in Nat \ {0}, NEW mv \in Nat, Len(w) <= size
  PROVE  /\ Shifted(w, size, mv) \in Seq(Nat)
         /\ Len(Shifted(w, size, mv)) <= size
         /\ Shifted(w, size, mv)[Len(Shifted(w, size, mv))] = mv
         /\ Len(w) < size =>
              /\ Len(Shifted(w, size, mv)) = Len(w) + 1
              /\ \A i \in 1 .. Len(w) : Shifted(w, size, mv)[i] = w[i]
         /\ Len(w) = size =>
              /\ Len(Shifted(w, size, mv)) = Len(w)
              /\ \A i \in 1 .. Len(w) - 1 : Shifted(w, size, mv)[i] = w[i + 1]
<1>1. CASE Len(w) < size
  BY <1>1 DEF Shifted
<1>2. CASE Len(w) = size
  <2>1. w # <<>> /\ Tail(w) \in Seq(Nat) /\ Len(Tail(w)) = Len(w) - 1
    BY <1>2
  <2>2. \A i \in 1 .. Len(w) - 1 : Tail(w)[i] = w[i + 1]
    BY <2>1
  <2>3. Shifted(w, size, mv) = Append(Tail(w), mv)
    BY <1>2 DEF Shifted
  <2> QED
    BY <1>2, <2>1, <2>2, <2>3
<1> QED
  BY <1>1, <1>2

\* A tick takes at most one from the hold.
LEMMA DownByOne ==
  ASSUME NEW n \in Nat
  PROVE  Down(n) \in 0 .. n /\ Down(n) >= n - 1
BY DEF Down

-----------------------------------------------------------------------------
(* The inductive invariant *)

\* The windows start empty.
LEMMA BatteryInitially == BatteryInit => BatteryInv
<1> SUFFICES ASSUME BatteryInit PROVE BatteryInv
  OBVIOUS
<1>1. slope = <<>> /\ hold = 0 /\ missed = FALSE /\ Window \in Nat
  BY BatteryAssumption DEF BatteryInit
<1>2. slope \in Seq(Nat) /\ Len(slope) = 0
  BY <1>1
<1>3. WindowOK
  <2>1. missed \in BOOLEAN
    BY <1>1
  <2> QED
    BY <1>1, <1>2, <2>1 DEF WindowOK
<1>4. StepsAreHeld
  BY <1>2 DEF StepsAreHeld
<1> QED
  BY <1>3, <1>4 DEF BatteryInv

\* A plausible reading keeps it: a step starts the hold anew, and without one every
\* step of the window ages as the hold runs down.
LEMMA TickKeeps ==
  ASSUME BatteryInv, NEW mv \in Levels, Tick(mv)
  PROVE  BatteryInv'
<1> DEFINE event == slope # <<>> /\ IsStep(slope[Len(slope)], mv)
<1>1. /\ mv \in Nat /\ Window \in Nat \ {0}
      /\ slope \in Seq(Nat) /\ Len(slope) <= Window /\ hold \in 0 .. Window
      /\ missed \in BOOLEAN
  BY BatteryAssumption DEF BatteryInv, WindowOK
<1>2. /\ slope' = Shifted(slope, Window, mv)
      /\ hold' = Down(IF event THEN HoldFrom ELSE hold)
      /\ missed' = (missed /\ ~event)
  BY DEF Tick
<1>3. /\ slope' \in Seq(Nat) /\ Len(slope') <= Window /\ slope'[Len(slope')] = mv
      /\ Len(slope) < Window =>
           Len(slope') = Len(slope) + 1 /\ \A i \in 1 .. Len(slope) : slope'[i] = slope[i]
      /\ Len(slope) = Window =>
           Len(slope') = Len(slope) /\ \A i \in 1 .. Len(slope) - 1 : slope'[i] = slope[i + 1]
  BY <1>1, <1>2, ShiftedWindow
<1>4. hold' \in 0 .. Window
  <2>1. (IF event THEN HoldFrom ELSE hold) \in 0 .. Window
    BY <1>1 DEF HoldFrom
  <2> DEFINE n == IF event THEN HoldFrom ELSE hold
  <2>2. n \in 0 .. Window
    BY <2>1
  <2> HIDE DEF n
  <2>3. n \in Nat /\ n <= Window
    BY <1>1, <2>2
  <2>4. Down(n) \in 0 .. n
    BY <2>3, DownByOne
  <2> QED
    BY <1>1, <1>2, <2>3, <2>4 DEF n
<1>5. WindowOK'
  <2>1. missed' \in BOOLEAN
    BY <1>1, <1>2
  <2> QED
    BY <1>3, <1>4, <2>1 DEF WindowOK
<1>6. StepsAreHeld'
  <2> SUFFICES ASSUME ~missed', NEW i \in 1 .. Len(slope') - 1,
                      IsStep(slope'[i], slope'[i + 1])
               PROVE  hold' + (Len(slope') - i) >= Window
    BY DEF StepsAreHeld
  <2>1. i \in Nat /\ i >= 1 /\ Len(slope') - i >= 1
    BY <1>3
  <2>2. CASE event
    <3>1. hold' = Down(HoldFrom)
      BY <1>2, <2>2
    <3>2. hold' >= Window - 1
      BY <1>1, <3>1, DownByOne DEF HoldFrom
    <3> QED
      BY <1>1, <1>3, <1>4, <2>1, <3>2
  <2>3. CASE ~event
    <3>1. ~missed
      BY <1>2, <2>3
    <3>2. hold' >= hold - 1
      BY <1>1, <1>2, <2>3, DownByOne
    <3>3. ASSUME NEW j \in 1 .. Len(slope) - 1, IsStep(slope[j], slope[j + 1])
          PROVE  hold + (Len(slope) - j) >= Window
      BY <3>1, <3>3 DEF BatteryInv, StepsAreHeld
    <3>4. slope # <<>> => ~IsStep(slope[Len(slope)], mv)
      BY <2>3
    <3>5. CASE Len(slope) < Window
      <4>1. i + 1 # Len(slope')
        <5> SUFFICES ASSUME i + 1 = Len(slope') PROVE FALSE
          OBVIOUS
        <5>1. i = Len(slope) /\ slope'[i] = slope[Len(slope)] /\ slope'[i + 1] = mv
          BY <1>1, <1>3, <2>1, <3>5
        <5>2. slope # <<>>
          BY <2>1, <5>1
        <5> QED
          BY <3>4, <5>1, <5>2
      <4>2. i \in 1 .. Len(slope) - 1 /\ slope'[i] = slope[i] /\ slope'[i + 1] = slope[i + 1]
        BY <1>1, <1>3, <2>1, <3>5, <4>1
      <4>3. hold + (Len(slope) - i) >= Window
        BY <3>3, <4>2
      <4> QED
        BY <1>1, <1>3, <1>4, <2>1, <3>2, <3>5, <4>3
    <3>6. CASE Len(slope) = Window
      <4>1. i + 1 # Len(slope')
        <5> SUFFICES ASSUME i + 1 = Len(slope') PROVE FALSE
          OBVIOUS
        <5>1. i + 1 = Len(slope) /\ slope'[i] = slope[Len(slope)] /\ slope'[i + 1] = mv
          BY <1>1, <1>3, <2>1, <3>6
        <5>2. slope # <<>>
          BY <1>1, <3>6
        <5> QED
          BY <3>4, <5>1, <5>2
      <4>2. /\ i + 1 \in 1 .. Len(slope) - 1
            /\ slope'[i] = slope[i + 1] /\ slope'[i + 1] = slope[(i + 1) + 1]
        BY <1>1, <1>3, <2>1, <3>6, <4>1
      <4>3. hold + (Len(slope) - (i + 1)) >= Window
        BY <3>3, <4>2
      <4> QED
        BY <1>1, <1>3, <1>4, <2>1, <3>2, <3>6, <4>3
    <3> QED
      BY <1>1, <3>5, <3>6
  <2> QED
    BY <2>2, <2>3
<1> QED
  BY <1>5, <1>6 DEF BatteryInv

\* An implausible reading runs the hold down behind the window's back, and is
\* remembered when it does.
LEMMA ImplausibleTickKeeps ==
  ASSUME BatteryInv, ImplausibleTick
  PROVE  BatteryInv'
<1>1. /\ slope' = slope /\ hold' = Down(hold) /\ missed' = (missed \/ hold > 0)
      /\ hold \in 0 .. Window /\ missed \in BOOLEAN /\ Window \in Nat
  BY BatteryAssumption DEF ImplausibleTick, BatteryInv, WindowOK
<1>2. hold' \in 0 .. Window
  BY <1>1, DownByOne
<1>3. WindowOK'
  <2>1. missed' \in BOOLEAN
    BY <1>1
  <2> QED
    BY <1>1, <1>2, <2>1 DEF BatteryInv, WindowOK
<1>4. StepsAreHeld'
  <2> SUFFICES ASSUME ~missed' PROVE StepsAreHeld'
    BY DEF StepsAreHeld
  <2>1. ~missed /\ ~(hold > 0)
    BY <1>1
  <2>2. hold' = hold
    BY <1>1, <2>1, SMT DEF Down
  <2> QED
    BY <1>1, <2>1, <2>2 DEF BatteryInv, StepsAreHeld, IsStep
<1> QED
  BY <1>3, <1>4 DEF BatteryInv

\* The invariant holds of every behaviour.
THEOREM BatteryInvariance == BatterySpec => []BatteryInv
<1>1. BatteryInv /\ [BatteryNext]_batteryVars => BatteryInv'
  <2> SUFFICES ASSUME BatteryInv, [BatteryNext]_batteryVars PROVE BatteryInv'
    OBVIOUS
  <2>1. ASSUME NEW mv \in Levels, Tick(mv) PROVE BatteryInv'
    BY <2>1, TickKeeps
  <2>2. CASE ImplausibleTick
    BY <2>2, ImplausibleTickKeeps
  <2>3. CASE TakeSlot
    BY <2>3 DEF TakeSlot, BatteryInv, WindowOK, StepsAreHeld, IsStep
  <2>4. CASE UNCHANGED batteryVars
    BY <2>4 DEF batteryVars, BatteryInv, WindowOK, StepsAreHeld, IsStep
  <2> QED
    BY <2>1, <2>2, <2>3, <2>4 DEF BatteryNext
<1> QED
  BY <1>1, BatteryInitially, PTL DEF BatterySpec

\* When the hold is over, no step is left in the window: it was started at Window,
\* and a step that is still there is younger than that.
THEOREM HoldCovers == BatterySpec => []HoldCoversWindow
<1>1. BatteryInv => HoldCoversWindow
  <2> SUFFICES ASSUME BatteryInv, hold = 0, ~missed, NEW i \in 1 .. Len(slope) - 1,
                      IsStep(slope[i], slope[i + 1])
               PROVE  FALSE
    BY DEF HoldCoversWindow
  <2>1. hold + (Len(slope) - i) >= Window
    BY DEF BatteryInv, StepsAreHeld
  <2>2. Len(slope) <= Window /\ Len(slope) \in Nat /\ Window \in Nat
    BY BatteryAssumption DEF BatteryInv, WindowOK
  <2> QED
    BY <2>1, <2>2
<1> QED
  BY <1>1, BatteryInvariance, PTL
=============================================================================
