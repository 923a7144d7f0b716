---------------------------- MODULE HistoryStore ----------------------------
(***************************************************************************)
(* The battery and sensor history: history_store.cpp, which writes the     *)
(* whole window to the next flash sector at every save, the recorder task  *)
(* that feeds it (app_main.cpp), and the count of slots that the runtime   *)
(* estimator may fit.  A save is an erase and a write, each of which may   *)
(* fail, and the board may be reset or lose power in the middle of either. *)
(*                                                                         *)
(* Samples are numbered in the order they are taken.  taken, born, saved   *)
(* and acked record history and guard nothing but the bound.               *)
(***************************************************************************)
EXTENDS Naturals, Sequences

CONSTANTS
    Sectors,    \* sectors of the partition
    Slots,      \* kHistorySlots
    MaxSeq,     \* UINT32_MAX
    MaxSamples  \* bound: samples taken per behaviour

\* The numbers that saves are given do not reach MaxSeq by counting: it would
\* take 2^32 slots of five minutes.
ASSUME SizesAssumption ==
    /\ Sectors \in Nat /\ Sectors > 1 /\ Slots \in Nat \ {0}
    /\ MaxSamples \in Nat /\ MaxSeq \in Nat /\ MaxSeq > 2 * MaxSamples

VARIABLES
    flash,       \* what each sector reads as
    lastSector,  \* g_last_sector
    lastSeq,     \* g_last_seq
    window,      \* the samples of g_current
    pc,          \* where record() is
    fitted,      \* g_slots_this_boot
    kept,        \* power_was_maintained() at this boot
    taken,       \* the number of the last sample
    born,        \* the number of the first sample of this power-on
    saved,       \* the window of the last save that returned ESP_OK, or the one restored
    acked        \* no save has failed or is under way since

store == <<flash, lastSector, lastSeq>>
vars == <<store, window, pc, fitted, kept, taken, born, saved, acked>>

Abstract == INSTANCE HistoryWindow WITH Samples <- 1..MaxSamples

Push(w, s) == Abstract!Push(w, s)

-----------------------------------------------------------------------------
\* Flash.  A sector is blank, or has a header and, if nothing cut it short, a
\* body that passes the checksum.

Blank == [magic |-> FALSE, seq |-> 0, valid |-> FALSE, body |-> <<>>]
Torn(q) == [magic |-> TRUE, seq |-> q, valid |-> FALSE, body |-> <<>>]
Blob(q, w) == [magic |-> TRUE, seq |-> q, valid |-> TRUE, body |-> w]

\* Slip: every save goes to the sector of the last one.
SameTarget == lastSector

Target == (lastSector + 1) % Sectors
NextSeq == (lastSeq + 1) % (MaxSeq + 1)

\* What an erase may leave if it fails or is cut short.
PartlyErased(c) == {c, Blank, [c EXCEPT !.valid = FALSE, !.body = <<>>]}

\* What a write may leave if it fails or is cut short: nothing, or a header
\* of which the number may still read as erased.
PartlyWritten == {Blank, Torn(NextSeq), Torn(MaxSeq)}

-----------------------------------------------------------------------------
\* record(), called by the recorder task once per slot.

Record ==
    /\ pc = "idle" /\ taken < MaxSamples
    /\ taken' = taken + 1
    /\ window' = Push(window, taken + 1)
    /\ pc' = "erase" /\ acked' = FALSE
    /\ UNCHANGED <<store, fitted, kept, born, saved>>

Erase ==
    /\ pc = "erase"
    /\ \/ flash' = [flash EXCEPT ![Target] = Blank] /\ pc' = "write"
       \/ /\ \E c \in PartlyErased(flash[Target]) : flash' = [flash EXCEPT ![Target] = c]
          /\ pc' = "idle"
    /\ UNCHANGED <<lastSector, lastSeq, window, fitted, kept, taken, born, saved, acked>>

\* Slip: the count of fitted slots is not held to the count of slots.
CountPastEnd == fitted + 1

\* The recorder counts the slots of this boot that were saved.
Counted == IF fitted < Len(window) THEN fitted + 1 ELSE fitted

WriteDone ==
    /\ pc = "write" /\ pc' = "idle"
    /\ flash' = [flash EXCEPT ![Target] = Blob(NextSeq, window)]
    /\ lastSector' = Target /\ lastSeq' = NextSeq
    /\ fitted' = Counted
    /\ saved' = window /\ acked' = TRUE
    /\ UNCHANGED <<window, kept, taken, born>>

WriteFails ==
    /\ pc = "write" /\ pc' = "idle"
    /\ \E c \in PartlyWritten : flash' = [flash EXCEPT ![Target] = c]
    /\ UNCHANGED <<lastSector, lastSeq, window, fitted, kept, taken, born, saved, acked>>

-----------------------------------------------------------------------------
\* A reset, and init() on what it leaves in flash.

Cut ==
    CASE pc = "idle" -> {flash}
      [] pc = "erase" -> {[flash EXCEPT ![Target] = c] : c \in PartlyErased(flash[Target])}
      [] pc = "write" -> {[flash EXCEPT ![Target] = c] :
                             c \in PartlyWritten \cup {Blob(NextSeq, window)}}

Headed(f) == {s \in 0..(Sectors - 1) : f[s].magic}

\* Sector b is the first one with the highest number.
Newest(f, b) ==
    /\ b \in Headed(f)
    /\ \A s \in Headed(f) : f[s].seq <= f[b].seq
    /\ \A s \in Headed(f) : f[s].seq = f[b].seq => b <= s

\* Slip: the number of a damaged sector is not adopted.
LoadWithoutAdopting(f) ==
    \/ /\ \A b \in Headed(f) : Newest(f, b) => ~f[b].valid
       /\ lastSector' = 0 /\ lastSeq' = 0 /\ window' = <<>>
    \/ \E b \in Headed(f) :
       /\ Newest(f, b) /\ f[b].valid
       /\ lastSector' = b /\ lastSeq' = f[b].seq /\ window' = f[b].body

Load(f) ==
    \/ /\ Headed(f) = {}
       /\ lastSector' = 0 /\ lastSeq' = 0 /\ window' = <<>>
    \/ \E b \in Headed(f) :
       /\ Newest(f, b)
       /\ lastSector' = b /\ lastSeq' = f[b].seq
       /\ window' = IF f[b].valid THEN f[b].body ELSE <<>>

\* Slip: the stored slots are fitted whatever the reset was.
EligibleAlways(rail, w) == Len(w)

\* The stored slots that the estimator may fit; rail says whether the board
\* kept its power.
Eligible(rail, w) == IF rail THEN Len(w) ELSE 0

Restart(rail) ==
    /\ \E f \in Cut : flash' = f /\ Load(f)
    /\ pc' = "idle"
    /\ fitted' = Eligible(rail, window') /\ kept' = rail
    /\ born' = IF rail THEN born ELSE taken + 1
    /\ saved' = window' /\ acked' = TRUE
    /\ UNCHANGED taken

-----------------------------------------------------------------------------
\* The first power-on of a board, after init().
Init ==
    /\ flash = [s \in 0..(Sectors - 1) |-> Blank]
    /\ lastSector = 0 /\ lastSeq = 0
    /\ window = <<>> /\ pc = "idle"
    /\ fitted = 0 /\ kept = FALSE
    /\ taken = 0 /\ born = 1
    /\ saved = <<>> /\ acked = TRUE

Next ==
    \/ Record \/ Erase \/ WriteDone \/ WriteFails
    \/ \E rail \in BOOLEAN : Restart(rail)

Spec == Init /\ [][Next]_vars

-----------------------------------------------------------------------------
Windows == {w \in UNION {[1..n -> 1..MaxSamples] : n \in 0..Slots} :
               \A i, j \in 1..Len(w) : i < j => w[i] < w[j]}

\* Every variable keeps its type; the samples of a window are in the order
\* they were taken, none of them twice.
TypeOK ==
    /\ flash \in [0..(Sectors - 1) -> [magic : BOOLEAN, seq : 0..MaxSeq, valid : BOOLEAN,
                                       body : Windows]]
    /\ lastSector \in 0..(Sectors - 1) /\ lastSeq \in 0..MaxSeq
    /\ window \in Windows /\ saved \in Windows
    /\ pc \in {"idle", "erase", "write"}
    /\ fitted \in Nat /\ kept \in BOOLEAN /\ acked \in BOOLEAN
    /\ taken \in 0..MaxSamples /\ born \in 1..(MaxSamples + 1)

\* The store implements the window its callers rely on: whatever fails or is
\* cut short, a restart never brings back a window older than the last save,
\* nor a mixture.
Implements == Abstract!Spec

\* A save that was acknowledged is what the next boot finds, until the next
\* one starts; but for a header whose number reads as all ones, which outranks
\* every later save.
SavedIsFound ==
    acked /\ saved # <<>> /\ (\A s \in Headed(flash) : flash[s].seq < MaxSeq) =>
        \E b \in Headed(flash) : Newest(flash, b) /\ flash[b].valid /\ flash[b].body = saved

\* The window of the last save stays intact in flash while the next save is
\* under way, and after one has failed (history_store.cpp:130).
LastSaveSurvives ==
    saved # <<>> => \E s \in Headed(flash) : flash[s].valid /\ flash[s].body = saved

\* The estimator is handed slots that exist: the newest ones of the window
\* (app_main.cpp:644).
FitInWindow == fitted <= Len(window)

Fitted == {window[i] : i \in (Len(window) - fitted + 1)..Len(window)}

\* After a boot that followed a power loss the estimator never sees a slot
\* from before it, however saves fail (app_main.cpp:585-590).
FitAfterPowerLoss == ~kept => \A n \in Fitted : n >= born

-----------------------------------------------------------------------------
\* app_main.cpp:597-599: after a restart with the rail up "every stored slot is
\* still contiguous in time": the estimator sees no slot from before the last
\* power loss. The code does not keep this, and no run asserts it.
FitSincePowerOn == \A n \in Fitted : n >= born
=============================================================================
