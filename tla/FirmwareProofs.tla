-------------------------- MODULE FirmwareProofs --------------------------
(***************************************************************************)
(* The safety invariants of the update, proved for any images, chunks,     *)
(* updates and power losses, and those of its confirmation, for any number *)
(* of requests.                                                            *)
(***************************************************************************)
EXTENDS OtaUpdate, OtaConfirm, TLAPS

Other(s) == IF s = "ota_0" THEN "ota_1" ELSE "ota_0"
Idle == \A f \in Feeders : pc[f] = "idle"

\* A board without power has forgotten all but its flash.
OffInv == ~powered => Idle /\ ~quiesced /\ guard = "boot"

\* A task that has been given an update has an image, and none writes while the running
\* image awaits its verdict.
SessionInv ==
    /\ \A f \in Feeders : pc[f] \in {"asking", "seed", "take", "judging", "writing"} =>
          image[f] \in Images
    /\ powered /\ Pending => \A f \in Feeders : pc[f] # "writing"

\* A session hands the chunk after the held-back header to flash first, and from then on
\* the chunk whose place is next.  The slot of a session that has it to itself holds what
\* went there.
PlaceInv ==
    /\ \A f \in Feeders : pc[f] # "writing" => next[f] = 1
    /\ \A f \in Feeders : pc[f] = "writing" =>
          from[f] = IF next[f] = 1 THEN HeaderChunks + 1 ELSE next[f]
    /\ \A f \in Feeders : sole = f =>
          /\ pc[f] = "writing" /\ \A g \in Feeders \ {f} : pc[g] # "writing"
          /\ \A c \in 1..Chunks : flash[Target][c] = IF c < next[f] THEN image[f] ELSE Nothing

\* The running image is whole, and it starts once startup has ended.
RunningInv ==
    powered /\ running \in Slots =>
        /\ Whole(running)
        /\ guard \in {"start", "absent", "verifying", "done"} => ImageOf(running) \notin NoStart

\* The slot armed last is the only one that may be new, and not while an image
\* awaits its verdict.
ArmedInv ==
    /\ newest = "factory" => \A s \in Slots : otadata[s] = "undefined"
    /\ \A s \in Slots : otadata[s] = "new" => newest = s
    /\ powered => \A s \in Slots : otadata[s] = "new" => s = Target /\ ~Pending

\* A slot recorded valid is proven, unless it is being rewritten by the proven
\* image of the other slot, which is the one that boots.
ValidInv ==
    \A s \in Slots : otadata[s] = "valid" /\ ~Proven(s) =>
        /\ otadata[Other(s)] = "valid" /\ Proven(Other(s))
        /\ newest = Other(s)
        /\ powered => running = Other(s)

\* Whatever runs, a valid image that is not the one running is not what is written
\* over, or else the one running is valid too and was armed last.
TargetInv ==
    /\ powered /\ running = "factory" => otadata["ota_0"] # "valid"
    /\ powered /\ running \in Slots /\ otadata[Other(running)] = "valid" =>
          newest = running /\ otadata[running] \in {"valid", "pending"}

IInv == /\ TypeOK /\ OffInv /\ SessionInv /\ PlaceInv
        /\ RunningInv /\ ArmedInv /\ ValidInv /\ TargetInv
        /\ RefusalKeepsModules /\ PageEndsWithUpdate

-----------------------------------------------------------------------------
(* The slots *)

\* A slot that keeps its chunks is as whole and as proven as it was.
LEMMA SlotKept ==
    ASSUME NEW s, flash'[s] = flash[s]
    PROVE  /\ Whole(s)' <=> Whole(s)
           /\ ImageOf(s)' = ImageOf(s)
           /\ Proven(s)' <=> Proven(s)
BY DEF Whole, ImageOf, Proven

\* The slot written is not the one that runs.
LEMMA TargetFacts ==
    ASSUME TypeOK
    PROVE  /\ Target \in Slots /\ Target # running
           /\ running \in Slots => Target = Other(running)
           /\ running = "factory" => Target = "ota_0"
           /\ \A s \in Slots : Other(s) \in Slots /\ Other(Other(s)) = s /\ Other(s) # s
           /\ \A s, r \in Slots : s # r => s = Other(r)
BY DEF TypeOK, Target, Slots, Other

SlotsInv == RunningInv /\ ArmedInv /\ ValidInv /\ TargetInv

\* Steps that leave the flash alone, and the guard unless startup ends well.
LEMMA SlotsKept ==
    ASSUME IInv, UNCHANGED <<powered, running, flashVars>>,
           guard' = guard \/ ~Runs(NoStart) \/ guard \in {"start", "verifying"}
    PROVE  SlotsInv'
<1>1. flash' = flash /\ otadata' = otadata /\ newest' = newest /\ running' = running
      /\ powered' = powered
  BY DEF flashVars
<1>2. \A s : (Whole(s)' <=> Whole(s)) /\ ImageOf(s)' = ImageOf(s) /\ (Proven(s)' <=> Proven(s))
  BY <1>1, SlotKept
<1>3. RunningInv' /\ ArmedInv'
  BY <1>1, <1>2 DEF IInv, RunningInv, ArmedInv, Pending, Runs, Target
<1>4. ValidInv' /\ TargetInv'
  BY <1>1, <1>2 DEF IInv, ValidInv, TargetInv
<1>5. QED
  BY <1>3, <1>4 DEF SlotsInv

\* Steps that lose the power.
LEMMA SlotsKeptOff ==
    ASSUME IInv, Off, UNCHANGED <<flashVars>>
    PROVE  SlotsInv'
<1>1. flash' = flash /\ otadata' = otadata /\ newest' = newest /\ ~powered'
  BY DEF flashVars, Off
<1>2. \A s : (Whole(s)' <=> Whole(s)) /\ ImageOf(s)' = ImageOf(s) /\ (Proven(s)' <=> Proven(s))
  BY <1>1, SlotKept
<1>3. QED
  BY <1>1, <1>2 DEF IInv, SlotsInv, RunningInv, ArmedInv, ValidInv, TargetInv

\* What is written while no image awaits its verdict goes over a slot that is not
\* needed.
LEMMA TargetWritten ==
    ASSUME IInv, powered, ~Pending,
           flash' \in [Slots -> [1..Chunks -> Images \cup {Nothing, "mixed"}]],
           \A s \in Slots : s # Target => flash'[s] = flash[s],
           UNCHANGED <<powered, running, otadata, newest, guard>>
    PROVE  SlotsInv'
<1>1. \A s \in Slots : s # Target =>
          /\ Whole(s)' <=> Whole(s)
          /\ ImageOf(s)' = ImageOf(s)
          /\ Proven(s)' <=> Proven(s)
  BY SlotKept
<1>2. TypeOK
  BY DEF IInv
<1>3. RunningInv'
  BY <1>1, <1>2, TargetFacts DEF IInv, RunningInv
<1>4. ArmedInv' /\ TargetInv'
  BY DEF IInv, ArmedInv, TargetInv, Pending, Target
<1>5. ValidInv'
  <2> SUFFICES ASSUME NEW s \in Slots, otadata[s] = "valid", ~Proven(s)'
               PROVE  /\ otadata[Other(s)] = "valid" /\ Proven(Other(s))'
                      /\ newest = Other(s)
                      /\ powered => running = Other(s)
    BY DEF ValidInv
  <2>1. CASE s = Target
    <3>1. running \in Slots /\ s = Other(running)
      BY <1>2, <2>1, TargetFacts DEF IInv, TargetInv, TypeOK
    <3>2. newest = running /\ otadata[running] = "valid"
      BY <3>1 DEF IInv, TargetInv, Pending
    <3>3. Proven(running)
      BY <1>2, <3>1, <3>2, TargetFacts DEF IInv, ValidInv
    <3>4. QED
      BY <1>1, <1>2, <2>1, <3>1, <3>2, <3>3, TargetFacts
  <2>2. CASE s # Target
    <3>1. ~Proven(s)
      BY <1>1, <2>2
    <3>2. newest = Other(s) /\ running = Other(s) /\ otadata[Other(s)] = "valid"
          /\ Proven(Other(s))
      BY <3>1 DEF IInv, ValidInv
    <3>3. QED
      BY <1>1, <1>2, <3>2, TargetFacts
  <2>3. QED
    BY <2>1, <2>2
<1>6. QED
  BY <1>3, <1>4, <1>5 DEF SlotsInv

-----------------------------------------------------------------------------
(* Power and boot *)

LEMMA OffTypes ==
    ASSUME Off
    PROVE  /\ powered' \in BOOLEAN /\ running' \in Slots \cup {"factory"}
           /\ pc' \in [Feeders -> {"idle", "asking", "seed", "take", "judging", "writing",
                                  "armed"}]
           /\ image' \in [Feeders -> Images \cup {Nothing}]
           /\ from' \in [Feeders -> 1..(Chunks + 1)]
           /\ next' \in [Feeders -> 1..(Chunks + 1)]
           /\ sole' \in Feeders \cup {"none"}
           /\ busy' \in {"none", "free", "taken"}
           /\ restart' \in BOOLEAN /\ quiesced' \in BOOLEAN
           /\ guard' \in {"boot", "halted", "start", "absent", "verifying", "done"}
           /\ phase' \in {"idle", "awaiting", "receiving", "writing", "verifying",
                          "rolledback", "failed"}
<1>1. 1 \in 1..(Chunks + 1)
  BY BoundsAssumption
<1>2. QED
  BY <1>1, Zenon DEF Off

\* Steps that lose the power forget everything but the flash.
LEMMA OffStep ==
    ASSUME IInv, Off, UNCHANGED <<flashVars, updates>>, resets' \in 0..MaxResets
    PROVE  IInv'
<1>1. SlotsInv'
  BY SlotsKeptOff
<1>2. TypeOK'
  BY OffTypes DEF IInv, TypeOK, flashVars
<1>3. OffInv' /\ SessionInv' /\ RefusalKeepsModules' /\ PageEndsWithUpdate'
  BY DEF Off, OffInv, Idle, SessionInv, RefusalKeepsModules, PageEndsWithUpdate
<1>4. PlaceInv'
  BY DEF Off, PlaceInv, Feeders, Pullers
<1>5. QED
  BY <1>1, <1>2, <1>3, <1>4 DEF IInv, SlotsInv

\* A rollback also spoils the slot that ran.
LEMMA RollbackStep ==
    ASSUME IInv, powered, Pending, RollbackAndReboot
    PROVE  IInv'
<1>1. /\ otadata' = [otadata EXCEPT ![running] = "invalid"] /\ flash' = flash
      /\ newest' = newest /\ ~powered' /\ running \in Slots
      /\ otadata[running] = "pending" /\ Off
  BY DEF RollbackAndReboot, Off, Pending
<1>2. otadata \in [Slots -> States] /\ otadata' \in [Slots -> States]
  BY <1>1 DEF IInv, TypeOK, States
<1>3. \A s \in Slots : otadata'[s] = IF s = running THEN "invalid" ELSE otadata[s]
  BY <1>1, <1>2
<1>4. \A s : (Proven(s)' <=> Proven(s))
  BY <1>1, SlotKept
<1>5. RunningInv' /\ TargetInv'
  BY <1>1 DEF RunningInv, TargetInv
<1>6. ArmedInv'
  BY <1>1, <1>3 DEF IInv, ArmedInv
<1>7. ValidInv'
  <2> SUFFICES ASSUME NEW s \in Slots, otadata'[s] = "valid", ~Proven(s)
               PROVE  FALSE
    BY <1>4 DEF ValidInv
  <2>1. otadata[s] = "valid" /\ running = Other(s) /\ otadata[Other(s)] = "valid"
    BY <1>3 DEF IInv, ValidInv
  <2>2. QED
    BY <1>1, <2>1
<1>8. TypeOK'
  BY <1>1, <1>2, OffTypes DEF IInv, TypeOK, RollbackAndReboot, bounds
<1>9. OffInv' /\ SessionInv' /\ RefusalKeepsModules' /\ PageEndsWithUpdate'
  BY <1>1 DEF Off, OffInv, Idle, SessionInv, RefusalKeepsModules, PageEndsWithUpdate
<1>10. PlaceInv'
  BY <1>1 DEF Off, PlaceInv, Feeders, Pullers
<1>11. QED
  BY <1>5, <1>6, <1>7, <1>8, <1>9, <1>10 DEF IInv

\* What the bootloader picks and loads.
LEMMA SelectedFacts ==
    ASSUME NEW o
    PROVE  /\ newest \in Usable(o) => Selected(o) = newest
           /\ \/ Selected(o) \in Usable(o)
              \/ Selected(o) = "factory" /\ Usable(o) = {}
<1>1. Usable(o) # {} => (CHOOSE s \in Usable(o) : TRUE) \in Usable(o)
  OBVIOUS
<1>2. QED
  BY <1>1 DEF Selected

LEMMA BootStep == IInv /\ Boot => IInv'
<1> SUFFICES ASSUME IInv, Boot PROVE IInv'
  OBVIOUS
<1> DEFINE aborted == [s \in Slots |-> IF otadata[s] = "pending" THEN "aborted" ELSE otadata[s]]
           chosen == Selected(aborted)
<1>1. /\ ~powered /\ powered' = TRUE /\ flash' = flash /\ newest' = newest
      /\ running' = Loaded(chosen)
      /\ otadata' = [s \in Slots |-> IF s = chosen /\ aborted[s] = "new"
                                     THEN "pending" ELSE aborted[s]]
      /\ UNCHANGED <<feedVars, busy, restart, guard, phase, quiesced, bounds>>
  BY DEF Boot
<1>2. Idle /\ ~quiesced /\ guard = "boot" /\ pc' = pc
  BY <1>1 DEF IInv, OffInv, feedVars, sessionVars
<1>3. \A s \in Slots : aborted[s] = IF otadata[s] = "pending" THEN "aborted" ELSE otadata[s]
  OBVIOUS
<1>4. \A s \in Slots : s \in Usable(aborted) <=> otadata[s] \in {"new", "valid"}
  BY <1>3 DEF Usable
<1> HIDE DEF aborted
<1>5. /\ newest \in Slots /\ otadata[newest] \in {"new", "valid"} => chosen = newest
      /\ \/ chosen \in Slots /\ otadata[chosen] \in {"new", "valid"}
         \/ chosen = "factory" /\ \A s \in Slots : otadata[s] \notin {"new", "valid"}
  <2>1. \A s : s \in Usable(aborted) => s \in Slots /\ otadata[s] \in {"new", "valid"}
    BY <1>4 DEF Usable
  <2>2. newest \in Slots /\ otadata[newest] \in {"new", "valid"} => newest \in Usable(aborted)
    BY <1>4
  <2>3. Usable(aborted) = {} => \A s \in Slots : otadata[s] \notin {"new", "valid"}
    BY <1>4
  <2>4. /\ newest \in Usable(aborted) => chosen = newest
        /\ \/ chosen \in Usable(aborted)
           \/ chosen = "factory" /\ Usable(aborted) = {}
    BY SelectedFacts, SMT
  <2> HIDE DEF chosen
  <2>5. CASE chosen \in Usable(aborted)
    BY <2>1, <2>2, <2>4, <2>5
  <2>6. CASE chosen = "factory" /\ Usable(aborted) = {}
    BY <2>2, <2>3, <2>4, <2>6
  <2>7. QED
    BY <2>4, <2>5, <2>6
<1> HIDE DEF chosen
<1>6. \A s \in Slots : otadata'[s] = IF s = chosen /\ otadata[s] = "new" THEN "pending"
                                     ELSE IF otadata[s] = "pending" THEN "aborted"
                                     ELSE otadata[s]
  BY <1>1, <1>3
<1>7. running' \in Slots \cup {"factory"} /\ otadata' \in [Slots -> States]
  <2>1. running' \in Slots \cup {"factory"}
    BY <1>1 DEF Loaded, Slots
  <2>2. \A s \in Slots : otadata'[s] \in States
    BY <1>6 DEF IInv, TypeOK, States
  <2>3. QED
    BY <1>1, <2>1, <2>2
<1>8. \A s : (Whole(s)' <=> Whole(s)) /\ ImageOf(s)' = ImageOf(s) /\ (Proven(s)' <=> Proven(s))
  BY <1>1, SlotKept
<1>9. \A s \in Slots : otadata[s] = "new" => chosen = s
  BY <1>5 DEF IInv, ArmedInv
<1>10. \A s \in Slots : otadata'[s] # "new"
  BY <1>6, <1>9
<1>11. \A s \in Slots : otadata'[s] = "valid" <=> otadata[s] = "valid"
  BY <1>6
<1>12. TypeOK'
  BY <1>1, <1>7, Zenon DEF IInv, TypeOK, feedVars, sessionVars, bounds
<1>13. OffInv' /\ SessionInv' /\ RefusalKeepsModules'
  BY <1>1, <1>2 DEF IInv, OffInv, SessionInv, RefusalKeepsModules, Idle, feedVars, sessionVars
<1>14. PlaceInv'
  BY <1>1, <1>2 DEF IInv, PlaceInv, Idle, feedVars, sessionVars
<1>15. PageEndsWithUpdate'
  BY <1>1 DEF IInv, PageEndsWithUpdate, feedVars, sessionVars
<1>16. RunningInv'
  BY <1>1, <1>2, <1>8 DEF RunningInv, Loaded, Slots
<1>17. ArmedInv'
  BY <1>1, <1>6, <1>10 DEF IInv, ArmedInv
<1>18. ValidInv'
  <2> SUFFICES ASSUME NEW s \in Slots, otadata[s] = "valid", ~Proven(s)
               PROVE  /\ otadata[Other(s)] = "valid" /\ Proven(Other(s))
                      /\ newest = Other(s) /\ running' = Other(s)
    BY <1>1, <1>8, <1>11 DEF ValidInv, Other, Slots
  <2>1. otadata[Other(s)] = "valid" /\ Proven(Other(s)) /\ newest = Other(s)
        /\ Other(s) \in Slots
    BY DEF IInv, ValidInv, Other, Slots
  <2>2. chosen = Other(s)
    BY <1>5, <2>1
  <2>3. running' = Other(s)
    BY <1>1, <2>1, <2>2 DEF Loaded, Proven
  <2>4. QED
    BY <2>1, <2>3
<1>19. TargetInv'
  <2>1. ASSUME running' = "factory", otadata["ota_0"] = "valid" PROVE FALSE
    <3>1. chosen \in Slots /\ ~Whole(chosen)
      BY <1>1, <1>5, <2>1 DEF Loaded, Slots
    <3>2. chosen = "ota_0" \/ ~Whole("ota_0")
      BY <1>1, <2>1, <3>1 DEF Loaded, Slots
    <3>3. ~Proven("ota_0")
      BY <3>1, <3>2 DEF Proven
    <3>4. newest = "ota_1" /\ otadata["ota_1"] = "valid" /\ Proven("ota_1")
      BY <2>1, <3>3 DEF IInv, ValidInv, Other, Slots
    <3>5. QED
      BY <1>5, <3>1, <3>4 DEF Proven, Slots
  <2>2. ASSUME running' \in Slots, otadata[Other(running')] = "valid"
        PROVE  newest = running' /\ otadata'[running'] \in {"valid", "pending"}
    <3>1. Other(running') \in Slots /\ Other(Other(running')) = running'
      BY <2>2 DEF Other, Slots
    <3>2. CASE chosen = running'
      <4>1. otadata[running'] \in {"new", "valid"}
        BY <1>5, <2>2, <3>2 DEF Slots
      <4>2. newest \in Slots
        BY <2>2, <3>1 DEF IInv, ArmedInv, TypeOK
      <4>3. newest = running'
        <5>1. CASE newest = Other(running')
          BY <1>5, <2>2, <3>1, <3>2, <5>1 DEF Other, Slots
        <5>2. QED
          BY <2>2, <4>2, <5>1 DEF Other, Slots
      <4>4. QED
        BY <1>6, <2>2, <3>2, <4>1, <4>3
    <3>3. CASE chosen # running'
      <4>1. chosen = "ota_1" /\ ~Whole("ota_1") /\ running' = "ota_0"
        BY <1>1, <1>5, <2>2, <3>3 DEF Loaded, Slots
      <4>2. ~Proven("ota_1") /\ otadata["ota_1"] = "valid"
        BY <2>2, <4>1 DEF Proven, Other
      <4>3. newest = "ota_0" /\ otadata["ota_0"] = "valid"
        BY <4>2 DEF IInv, ValidInv, Other, Slots
      <4>4. QED
        BY <1>5, <4>1, <4>3 DEF Slots
    <3>4. QED
      BY <3>2, <3>3
  <2>3. QED
    BY <1>1, <1>11, <2>1, <2>2 DEF TargetInv, Other, Slots
<1>20. QED
  BY <1>12, <1>13, <1>14, <1>15, <1>16, <1>17, <1>18, <1>19 DEF IInv

-----------------------------------------------------------------------------
(* Sessions and the tasks that feed them *)

\* Steps of a board that is up which leave the slots, the hooks and the writing tasks
\* alone and do not show an update that is not there.
LEMMA QuietStep ==
    ASSUME IInv, powered, SlotsInv', TypeOK', UNCHANGED <<powered, running, otadata, flash, quiesced>>,
           \A f \in Feeders : pc'[f] = "writing" =>
              /\ pc[f] = "writing" /\ image'[f] = image[f]
              /\ from'[f] = from[f] /\ next'[f] = next[f],
           \A f \in Feeders : pc'[f] # "writing" => next'[f] = 1,
           \A f \in Feeders : sole' = f => sole = f /\ pc'[f] = "writing",
           \A f \in Feeders :
              pc'[f] \in {"asking", "seed", "take", "judging"} => image'[f] \in Images,
           phase' \in {"receiving", "writing"} =>
              restart' \/ \E f \in Feeders : pc'[f] \in {"judging", "writing", "armed"}
    PROVE  IInv'
<1>1. OffInv' /\ SessionInv'
  BY DEF IInv, OffInv, SessionInv, Pending
<1>2. RefusalKeepsModules' /\ PageEndsWithUpdate'
  BY DEF IInv, RefusalKeepsModules, PageEndsWithUpdate, Pending
<1>3. PlaceInv'
  BY DEF IInv, PlaceInv, Target
<1>4. QED
  BY <1>1, <1>2, <1>3 DEF IInv, SlotsInv

\* A failure, whoever's, shows itself and ends its session.
LEMMA FailFacts ==
    ASSUME TypeOK, NEW f \in Feeders, Fail(f)
    PROVE  /\ pc' \in [Feeders -> {"idle", "asking", "seed", "take", "judging", "writing",
                                   "armed"}]
           /\ image' \in [Feeders -> Images \cup {Nothing}]
           /\ from' \in [Feeders -> 1..(Chunks + 1)]
           /\ next' \in [Feeders -> 1..(Chunks + 1)]
           /\ sole' \in Feeders \cup {"none"}
           /\ busy' \in {"none", "free", "taken"}
           /\ phase' = "failed"
           /\ pc'[f] = "idle" /\ next'[f] = 1 /\ sole' # f /\ sole' \in {sole, "none"}
           /\ \A g \in Feeders \ {f} :
                /\ pc'[g] = pc[g] /\ image'[g] = image[g]
                /\ from'[g] = from[g] /\ next'[g] = next[g]
<1>1. 1 \in 1..(Chunks + 1) /\ f # "none"
  BY BoundsAssumption DEF Feeders, Pullers
<1>2. QED
  BY <1>1 DEF TypeOK, Fail, Forget, Give

\* What a failure keeps of the sessions' places, whether or not hooks have run.
LEMMA FailPlaces ==
    ASSUME IInv, NEW f \in Feeders, Fail(f), UNCHANGED <<running, flash>>
    PROVE  PlaceInv'
<1>1. "none" \notin Feeders /\ TypeOK
  BY DEF Feeders, Pullers, IInv
<1>2. QED
  BY <1>1, FailFacts DEF IInv, PlaceInv, Target

\* A failure that leaves everything but the session alone.
LEMMA FailStep ==
    ASSUME IInv, powered, NEW f \in Feeders, Fail(f),
           UNCHANGED <<powered, running, flashVars, restart, guard, quiesced, bounds>>
    PROVE  IInv'
<1>1. TypeOK
  BY DEF IInv
<1>2. SlotsInv'
  BY SlotsKept
<1>3. TypeOK'
  BY <1>1, FailFacts, Zenon DEF TypeOK, flashVars, bounds
<1>4. QED
  <2>1. "none" \notin Feeders
    BY DEF Feeders, Pullers
  <2>2. \A g \in Feeders : sole' = g => sole = g /\ pc'[g] = "writing"
    BY <1>1, <2>1, FailFacts DEF IInv, PlaceInv
  <2>3. \A g \in Feeders : pc'[g] # "writing" => next'[g] = 1
    BY <1>1, FailFacts DEF IInv, PlaceInv
  <2>4. QED
    BY <1>1, <1>2, <1>3, <2>2, <2>3, FailFacts, QuietStep DEF IInv, SessionInv, flashVars

\* The header is judged: a refusal costs nothing, else the other slot is erased.
LEMMA JudgeStep ==
    ASSUME IInv, NEW f \in Feeders, Judge(f)
    PROVE  IInv'
<1>1. /\ powered /\ pc[f] = "judging" /\ TypeOK
      /\ UNCHANGED <<powered, running, otadata, newest, restart, guard, bounds>>
  BY DEF Judge, Up, IInv
<1>2. CASE Fail(f) /\ UNCHANGED <<flash, quiesced>>
  BY <1>1, <1>2, FailStep DEF flashVars
<1>3. CASE image[f] \notin Foreign /\ ~Pending /\ Begin(f)
  <2>1. CASE Fail(f) /\ UNCHANGED flash /\ quiesced' = TRUE
    <3>1. SlotsInv'
      BY <1>1, <2>1, SlotsKept DEF flashVars
    <3>2. TypeOK'
      <4>1. quiesced' \in BOOLEAN
        BY <2>1
      <4>2. QED
        BY <1>1, <2>1, <4>1, FailFacts DEF TypeOK, bounds
    <3>3. OffInv' /\ SessionInv' /\ PlaceInv'
      BY <1>1, <1>3, <2>1, FailFacts, FailPlaces DEF IInv, OffInv, SessionInv, Pending
    <3>4. RefusalKeepsModules' /\ PageEndsWithUpdate'
      BY <1>1, <1>3, <2>1, FailFacts DEF RefusalKeepsModules, PageEndsWithUpdate, Pending
    <3>5. QED
      BY <3>1, <3>2, <3>3, <3>4 DEF IInv, SlotsInv
  <2>2. CASE /\ flash' = [flash EXCEPT ![Target] = [c \in 1..Chunks |-> Nothing]]
             /\ pc' = [pc EXCEPT ![f] = "writing"]
             /\ \E held \in 0..(HeaderChunks - 1) :
                   from' = [from EXCEPT ![f] = FirstUnabsorbed(held)]
             /\ sole' = IF \E g \in Feeders \ {f} : pc[g] = "writing" THEN "none" ELSE f
             /\ UNCHANGED <<image, next, busy, phase>>
             /\ quiesced' = TRUE
    <3>0. /\ from' = [from EXCEPT ![f] = HeaderChunks + 1]
          /\ HeaderChunks + 1 \in 1..(Chunks + 1) /\ sole' \in {f, "none"}
      <4>1. \A held \in 0..(HeaderChunks - 1) : FirstUnabsorbed(held) = HeaderChunks + 1
        BY BoundsAssumption DEF FirstUnabsorbed
      <4>2. from' = [from EXCEPT ![f] = HeaderChunks + 1]
        BY <2>2, <4>1, Zenon
      <4>3. HeaderChunks + 1 \in 1..(Chunks + 1)
        BY BoundsAssumption
      <4>4. sole' \in {f, "none"}
        BY <2>2
      <4>5. QED
        BY <4>2, <4>3, <4>4
    <3>1. flash' \in [Slots -> [1..Chunks -> Images \cup {Nothing, "mixed"}]]
      BY <1>1, <2>2, TargetFacts DEF TypeOK
    <3>2. \A s \in Slots : s # Target => flash'[s] = flash[s]
      BY <1>1, <2>2, TargetFacts DEF TypeOK
    <3>3. SlotsInv'
      BY <1>1, <1>3, <3>1, <3>2, TargetWritten
    <3>4. TypeOK'
      <4>1. quiesced' \in BOOLEAN
        BY <2>2
      <4>2. pc' \in [Feeders -> {"idle", "asking", "seed", "take", "judging", "writing",
                                 "armed"}]
        BY <1>1, <2>2 DEF TypeOK
      <4>3. from' \in [Feeders -> 1..(Chunks + 1)] /\ sole' \in Feeders \cup {"none"}
        BY <1>1, <3>0 DEF TypeOK
      <4>4. QED
        BY <1>1, <2>2, <3>1, <4>1, <4>2, <4>3 DEF TypeOK, bounds
    <3>5. OffInv' /\ SessionInv' /\ RefusalKeepsModules'
      BY <1>1, <1>3, <2>2 DEF IInv, OffInv, SessionInv, RefusalKeepsModules, Pending, TypeOK
    <3>6. PlaceInv'
      <4>1. /\ \A g \in Feeders : pc'[g] = IF g = f THEN "writing" ELSE pc[g]
            /\ \A g \in Feeders : from'[g] = IF g = f THEN HeaderChunks + 1 ELSE from[g]
            /\ next[f] = 1 /\ next' = next
        BY <1>1, <2>2, <3>0 DEF TypeOK, IInv, PlaceInv
      <4>2. Target' = Target /\ \A c \in 1..Chunks : flash'[Target][c] = Nothing
        BY <1>1, <2>2, TargetFacts DEF Target, TypeOK
      <4>3. sole' = f => \A g \in Feeders \ {f} : pc[g] # "writing"
        BY <2>2 DEF Feeders, Pullers
      <4>4. "none" \notin Feeders
        BY DEF Feeders, Pullers
      <4>5. ASSUME NEW g \in Feeders, sole' = g
            PROVE  /\ g = f /\ \A c \in 1..Chunks :
                                  flash'[Target'][c] = IF c < next'[g] THEN image'[g] ELSE Nothing
        BY <3>0, <4>1, <4>2, <4>4, <4>5
      <4>6. QED
        BY <3>0, <4>1, <4>3, <4>5 DEF IInv, PlaceInv
    <3>7. PageEndsWithUpdate'
      BY <1>1, <2>2 DEF IInv, PageEndsWithUpdate, TypeOK
    <3>8. QED
      BY <3>3, <3>4, <3>5, <3>6, <3>7 DEF IInv, SlotsInv
  <2>3. QED
    BY <1>3, <2>1, <2>2 DEF Begin
<1>4. QED
  BY <1>2, <1>3, Judge(f) DEF Judge, OpenSlot

\* What writing chunks does to the slots.
LEMMA WrittenFacts ==
    ASSUME TypeOK, NEW f \in Feeders, image[f] \in Images, NEW first, NEW upto,
           flash' = Written(f, first, upto)
    PROVE  /\ flash' \in [Slots -> [1..Chunks -> Images \cup {Nothing, "mixed"}]]
           /\ \A s \in Slots : s # Target => flash'[s] = flash[s]
           /\ \A c \in 1..Chunks : flash'[Target][c] =
                 IF c \in next[f]..(next[f] + upto - first)
                 THEN Merged(flash[Target][c], IF first = next[f] THEN image[f] ELSE "mixed")
                 ELSE flash[Target][c]
<1> DEFINE Row == [c \in 1..Chunks |->
             IF c \in next[f]..(next[f] + upto - first)
             THEN Merged(flash[Target][c], IF first = next[f] THEN image[f] ELSE "mixed")
             ELSE flash[Target][c]]
<1>1. Target \in Slots
  BY TargetFacts
<1>2. flash' = [flash EXCEPT ![Target] = Row]
  BY DEF Written
<1>3. Row \in [1..Chunks -> Images \cup {Nothing, "mixed"}]
  <2>1. \A c \in 1..Chunks : flash[Target][c] \in Images \cup {Nothing, "mixed"}
    BY <1>1 DEF TypeOK
  <2>2. \A old : Merged(old, IF first = next[f] THEN image[f] ELSE "mixed")
                    \in Images \cup {Nothing, "mixed"}
    BY DEF Merged
  <2>3. QED
    BY <2>1, <2>2
<1>4. \A c \in 1..Chunks : Row[c] = IF c \in next[f]..(next[f] + upto - first)
           THEN Merged(flash[Target][c], IF first = next[f] THEN image[f] ELSE "mixed")
           ELSE flash[Target][c]
  OBVIOUS
<1> HIDE DEF Row
<1>5. /\ flash' \in [Slots -> [1..Chunks -> Images \cup {Nothing, "mixed"}]]
      /\ \A s \in Slots : flash'[s] = IF s = Target THEN Row ELSE flash[s]
  BY <1>1, <1>2, <1>3 DEF TypeOK
<1>6. QED
  BY <1>1, <1>4, <1>5

\* Both kinds of write put what the session hands over where it stands.
LEMMA WriteStep ==
    ASSUME IInv, NEW f \in Feeders, WriteHeader(f) \/ WriteChunk(f)
    PROVE  IInv'
<1> DEFINE first == IF next[f] = 1 THEN 1 ELSE next[f]
           upto == IF next[f] = 1 THEN HeaderChunks ELSE next[f]
<1>1. /\ powered /\ pc[f] = "writing" /\ TypeOK /\ ~Pending /\ image[f] \in Images
      /\ UNCHANGED <<powered, running, otadata, newest, pc, image, sole, busy, restart, guard,
                     quiesced, bounds>>
      /\ phase' \in {phase, "receiving"}
  BY DEF WriteHeader, WriteChunk, Up, IInv, SessionInv
<1>2. /\ flash' = Written(f, first, upto)
      /\ next' = [next EXCEPT ![f] = upto + 1]
      /\ from' = [from EXCEPT ![f] = upto + 1]
      /\ upto + 1 \in 1..(Chunks + 1) /\ upto + 1 # 1
      /\ first = next[f] /\ next[f] \in Nat
  <2>1. from[f] \in Nat /\ next[f] \in Nat \ {0} /\ from \in [Feeders -> 1..(Chunks + 1)]
    BY <1>1, BoundsAssumption DEF TypeOK
  <2>2. CASE WriteHeader(f)
    <3>1. next[f] = 1 /\ from[f] = HeaderChunks + 1 /\ from' = from
          /\ flash' = Written(f, 1, HeaderChunks)
          /\ next' = [next EXCEPT ![f] = next[f] + HeaderChunks]
      BY <1>1, <2>2 DEF WriteHeader, IInv, PlaceInv
    <3>2. from' = [from EXCEPT ![f] = HeaderChunks + 1]
      BY <2>1, <3>1
    <3>3. next[f] + HeaderChunks = HeaderChunks + 1 /\ upto = HeaderChunks /\ first = 1
      BY <3>1, BoundsAssumption
    <3>4. HeaderChunks + 1 \in 1..(Chunks + 1) /\ HeaderChunks + 1 # 1
      BY BoundsAssumption
    <3> HIDE DEF first, upto
    <3>5. QED
      BY <2>1, <3>1, <3>2, <3>3, <3>4
  <2>3. CASE WriteChunk(f)
    <3>1. next[f] # 1 /\ from[f] = next[f] /\ from[f] <= Chunks
          /\ flash' = Written(f, from[f], from[f])
          /\ next' = [next EXCEPT ![f] = next[f] + 1]
          /\ from' = [from EXCEPT ![f] = from[f] + 1]
      BY <1>1, <2>3 DEF WriteChunk, IInv, PlaceInv
    <3>2. QED
      BY <2>1, <3>1, BoundsAssumption
  <2>4. QED
    BY <2>2, <2>3
<1>3. \A c \in 1..Chunks : flash'[Target][c] =
         IF c \in next[f]..upto THEN Merged(flash[Target][c], image[f])
         ELSE flash[Target][c]
  <2>1. next[f] + upto - first = upto
    <3>1. first \in Nat /\ upto \in Nat /\ next[f] = first
      BY <1>2, BoundsAssumption
    <3> HIDE DEF first, upto
    <3>2. QED
      BY <3>1
  <2> HIDE DEF first, upto
  <2>2. QED
    BY <1>1, <1>2, <2>1, WrittenFacts
<1>4. /\ flash' \in [Slots -> [1..Chunks -> Images \cup {Nothing, "mixed"}]]
      /\ \A s \in Slots : s # Target => flash'[s] = flash[s]
  BY <1>1, <1>2, WrittenFacts
<1> HIDE DEF first, upto
<1>5. SlotsInv'
  BY <1>1, <1>4, TargetWritten
<1>6. TypeOK'
  <2>1. next' \in [Feeders -> 1..(Chunks + 1)] /\ from' \in [Feeders -> 1..(Chunks + 1)]
    BY <1>1, <1>2 DEF TypeOK
  <2>2. QED
    BY <1>1, <1>4, <2>1 DEF TypeOK, bounds
<1>7. OffInv' /\ SessionInv' /\ RefusalKeepsModules' /\ PageEndsWithUpdate'
  BY <1>1 DEF IInv, OffInv, SessionInv, RefusalKeepsModules, PageEndsWithUpdate, Pending
<1>8. PlaceInv'
  <2>1. /\ \A g \in Feeders : next'[g] = IF g = f THEN upto + 1 ELSE next[g]
        /\ \A g \in Feeders : from'[g] = IF g = f THEN upto + 1 ELSE from[g]
    BY <1>1, <1>2 DEF TypeOK
  <2>2. ASSUME NEW g \in Feeders, sole' = g
        PROVE  /\ pc'[g] = "writing" /\ \A h \in Feeders \ {g} : pc'[h] # "writing"
               /\ \A c \in 1..Chunks :
                    flash'[Target'][c] = IF c < next'[g] THEN image'[g] ELSE Nothing
    <3>1. g = f /\ \A h \in Feeders \ {f} : pc[h] # "writing"
      BY <1>1, <2>2 DEF IInv, PlaceInv
    <3>2. \A c \in 1..Chunks : flash[Target][c] = IF c < next[f] THEN image[f] ELSE Nothing
      BY <1>1, <2>2, <3>1 DEF IInv, PlaceInv
    <3>3. Target' = Target
      BY <1>1 DEF Target
    <3>4. upto \in Nat
      BY <1>2, BoundsAssumption DEF upto
    <3>5. ASSUME NEW c \in 1..Chunks
          PROVE  flash'[Target][c] = IF c < upto + 1 THEN image[f] ELSE Nothing
      <4>1. next[f] <= upto + 1
        BY <1>2, BoundsAssumption DEF upto
      <4>2. Merged(Nothing, image[f]) = image[f]
        BY DEF Merged
      <4>3. QED
        BY <1>2, <1>3, <3>2, <3>4, <4>1, <4>2
    <3>6. QED
      BY <1>1, <2>1, <3>1, <3>3, <3>5
  <2>3. QED
    BY <1>1, <1>2, <2>1, <2>2 DEF IInv, PlaceInv
<1>9. QED
  BY <1>5, <1>6, <1>7, <1>8 DEF IInv, SlotsInv

\* A whole image is armed: the slot becomes new, and the one it leaves behind is
\* the proven one.
LEMMA FinishStep ==
    ASSUME IInv, NEW f \in Feeders, Finish(f)
    PROVE  IInv'
<1>1. /\ powered /\ pc[f] = "writing" /\ TypeOK /\ ~Pending
      /\ UNCHANGED <<powered, running, flash, guard, quiesced, bounds>>
  BY DEF Finish, Up, IInv, SessionInv
<1>2. CASE Fail(f) /\ UNCHANGED <<otadata, newest, restart>>
  BY <1>1, <1>2, FailStep DEF flashVars
<1>3. CASE /\ Whole(Target)
           /\ otadata' = [otadata EXCEPT ![Target] = "new"]
           /\ newest' = Target
           /\ phase' = "writing"
           /\ restart' = (restart \/ f = "push")
           /\ pc' = [pc EXCEPT ![f] = IF f = "push" THEN "idle" ELSE "armed"]
           /\ Forget(f)
           /\ UNCHANGED busy
  <2>1. \A s \in Slots : otadata'[s] = IF s = Target THEN "new" ELSE otadata[s]
    BY <1>1, <1>3, TargetFacts DEF TypeOK
  <2>2. \A s : (Whole(s)' <=> Whole(s)) /\ ImageOf(s)' = ImageOf(s) /\ (Proven(s)' <=> Proven(s))
    BY <1>1, SlotKept
  <2>3. TypeOK'
    <3>1. /\ newest' \in Slots /\ otadata' \in [Slots -> States]
          /\ pc' \in [Feeders -> {"idle", "asking", "seed", "take", "judging", "writing",
                                  "armed"}]
      BY <1>1, <1>3, TargetFacts DEF TypeOK, States
    <3>2. 1 \in 1..(Chunks + 1)
      BY BoundsAssumption
    <3>3. /\ image' \in [Feeders -> Images \cup {Nothing}]
          /\ from' \in [Feeders -> 1..(Chunks + 1)] /\ next' \in [Feeders -> 1..(Chunks + 1)]
          /\ sole' \in Feeders \cup {"none"}
      BY <1>1, <1>3, <3>2 DEF TypeOK, Forget
    <3>4. restart' \in BOOLEAN
      BY <1>1, <1>3, Zenon DEF TypeOK
    <3>5. QED
      BY <1>1, <1>3, <3>1, <3>3, <3>4 DEF TypeOK, bounds
  <2>4. RunningInv'
    BY <1>1, <2>2 DEF IInv, RunningInv
  <2>5. ~Pending'
    BY <1>1, <2>1, TargetFacts DEF Pending
  <2>6. ArmedInv'
    BY <1>1, <1>3, <2>1, <2>5, TargetFacts DEF IInv, ArmedInv, Target
  <2>7. ValidInv'
    <3> SUFFICES ASSUME NEW s \in Slots, otadata'[s] = "valid", ~Proven(s)
                 PROVE  FALSE
      BY <2>2 DEF ValidInv
    <3>1. s # Target /\ otadata[s] = "valid"
      BY <2>1
    <3>2. running = Other(s)
      BY <1>1, <3>1 DEF IInv, ValidInv
    <3>3. QED
      BY <1>1, <3>1, <3>2, TargetFacts
  <2>8. TargetInv'
    BY <1>1, <2>1, TargetFacts DEF IInv, TargetInv
  <2>9. OffInv' /\ SessionInv' /\ RefusalKeepsModules'
    BY <1>1, <1>3, <2>5 DEF IInv, OffInv, SessionInv, RefusalKeepsModules, TypeOK, Forget
  <2>10. PlaceInv' /\ PageEndsWithUpdate'
    <3>1. "none" \notin Feeders /\ Target' = Target
      BY <1>1 DEF Feeders, Pullers, Target
    <3>2. /\ pc'[f] # "writing" /\ next'[f] = 1 /\ sole' # f /\ sole' \in {sole, "none"}
          /\ \A g \in Feeders \ {f} : /\ pc'[g] = pc[g] /\ image'[g] = image[g]
                                     /\ from'[g] = from[g] /\ next'[g] = next[g]
      BY <1>1, <1>3, <3>1 DEF Forget, TypeOK
    <3>3. PlaceInv'
      BY <1>1, <3>1, <3>2 DEF IInv, PlaceInv
    <3>4. PageEndsWithUpdate'
      BY <1>1, <1>3 DEF IInv, PageEndsWithUpdate, TypeOK
    <3>5. QED
      BY <3>3, <3>4
  <2>11. QED
    BY <2>3, <2>4, <2>6, <2>7, <2>8, <2>9, <2>10 DEF IInv
<1>4. QED
  BY <1>2, <1>3, Finish(f) DEF Finish

LEMMA FeedStep ==
    ASSUME IInv, NEW f \in Feeders, Feed(f)
    PROVE  IInv'
<1>1. CASE TransferFails(f)
  BY <1>1, FailStep DEF TransferFails, Up
<1>2. QED
  BY <1>1, JudgeStep, WriteStep, FinishStep DEF Feed

\* A push is asked about, a pull claims its slot; neither touches flash.
LEMMA RequestStep ==
    ASSUME IInv,
           \/ \E i \in Images : PushArrives(i) \/ \E p \in Pullers : StartPull(p, i)
           \/ PushAccepted \/ PushDeclined
           \/ \E p \in Pullers : Pull(p)
    PROVE  IInv'
<1> USE BoundsAssumption
<1>1. TypeOK
  BY DEF IInv
<1>2. "push" \in Feeders /\ Pullers \subseteq Feeders
  BY DEF Feeders
<1>3. ASSUME NEW i \in Images, PushArrives(i) PROVE IInv'
  <2>1. SlotsInv'
    BY <1>3, SlotsKept DEF PushArrives
  <2>2. TypeOK'
    <3>1. /\ pc' \in [Feeders -> {"idle", "asking", "seed", "take", "judging", "writing",
                                  "armed"}]
          /\ image' \in [Feeders -> Images \cup {Nothing}]
      BY <1>1, <1>2, <1>3 DEF PushArrives, TypeOK
    <3>2. updates' \in 0..MaxUpdates
      BY <1>1, <1>3 DEF PushArrives, TypeOK
    <3>3. QED
      BY <1>1, <1>3, <3>1, <3>2 DEF PushArrives, TypeOK, flashVars, sessionVars
  <2>3. QED
    BY <1>1, <1>2, <1>3, <2>1, <2>2, QuietStep
       DEF PushArrives, Up, HttpdFree, IInv, TypeOK, SessionInv, PlaceInv,
           PageEndsWithUpdate, flashVars, sessionVars
<1>4. ASSUME NEW i \in Images, NEW p \in Pullers, StartPull(p, i) PROVE IInv'
  <2>1. SlotsInv'
    BY <1>4, SlotsKept DEF StartPull
  <2>2. TypeOK'
    BY <1>1, <1>2, <1>4 DEF StartPull, TypeOK, flashVars, sessionVars
  <2>3. QED
    BY <1>1, <1>2, <1>4, <2>1, <2>2, QuietStep
       DEF StartPull, Up, IInv, TypeOK, SessionInv, PlaceInv,
           PageEndsWithUpdate, flashVars, sessionVars
<1>5. CASE PushAccepted
  <2>1. SlotsInv'
    BY <1>5, SlotsKept DEF PushAccepted
  <2>2. TypeOK'
    BY <1>1, <1>2, <1>5 DEF PushAccepted, TypeOK, flashVars, sessionVars, bounds
  <2>3. image["push"] \in Images
    BY <1>1, <1>2, <1>5 DEF PushAccepted, IInv, SessionInv, TypeOK
  <2>4. QED
    BY <1>1, <1>2, <1>5, <2>1, <2>2, <2>3, QuietStep
       DEF PushAccepted, Up, IInv, TypeOK, SessionInv, PlaceInv,
           PageEndsWithUpdate, flashVars, sessionVars
<1>6. CASE PushDeclined
  <2>1. SlotsInv'
    BY <1>6, SlotsKept DEF PushDeclined
  <2>2. TypeOK'
    BY <1>1, <1>2, <1>6 DEF PushDeclined, TypeOK, flashVars, sessionVars, bounds
  <2>3. QED
    BY <1>1, <1>2, <1>6, <2>1, <2>2, QuietStep
       DEF PushDeclined, Up, IInv, TypeOK, SessionInv, PlaceInv,
           PageEndsWithUpdate, flashVars, sessionVars
<1>7. ASSUME NEW p \in Pullers, SeedPullSlot(p) PROVE IInv'
  <2>1. SlotsInv'
    BY <1>7, SlotsKept DEF SeedPullSlot
  <2>2. TypeOK'
    BY <1>1, <1>2, <1>7 DEF SeedPullSlot, TypeOK, flashVars, sessionVars, bounds
  <2>3. QED
    BY <1>1, <1>2, <1>7, <2>1, <2>2, QuietStep
       DEF SeedPullSlot, Up, IInv, TypeOK, SessionInv, PlaceInv,
           PageEndsWithUpdate, flashVars, sessionVars
<1>8. ASSUME NEW p \in Pullers, TakePullSlot(p) PROVE IInv'
  <2>1. SlotsInv'
    BY <1>8, SlotsKept DEF TakePullSlot
  <2>2. TypeOK'
    <3>1. /\ pc' \in [Feeders -> {"idle", "asking", "seed", "take", "judging", "writing",
                                  "armed"}]
          /\ image' \in [Feeders -> Images \cup {Nothing}]
          /\ busy' \in {"none", "free", "taken"}
      BY <1>1, <1>2, <1>8 DEF TakePullSlot, TypeOK
    <3>2. QED
      BY <1>1, <1>8, <3>1 DEF TakePullSlot, TypeOK, flashVars, sessionVars, bounds
  <2>3. image[p] \in Images
    BY <1>1, <1>2, <1>8 DEF TakePullSlot, IInv, SessionInv, TypeOK
  <2>4. /\ powered /\ UNCHANGED <<powered, running, otadata, flash, quiesced, phase, restart>>
        /\ from' = from /\ next' = next /\ sole' = sole
    BY <1>8 DEF TakePullSlot, Up, flashVars, sessionVars
  <2>5. /\ pc[p] = "take" /\ pc'[p] \in {"judging", "idle"}
        /\ pc'[p] = "judging" => image'[p] = image[p]
        /\ \A g \in Feeders \ {p} : pc'[g] = pc[g] /\ image'[g] = image[g]
    BY <1>1, <1>2, <1>8 DEF TakePullSlot, TypeOK
  <2>6. \A g \in Feeders : pc'[g] # "writing" => next'[g] = 1
    BY <1>2, <2>4, <2>5 DEF IInv, PlaceInv
  <2>7. \A g \in Feeders : sole' = g => sole = g /\ pc'[g] = "writing"
    BY <1>2, <2>4, <2>5 DEF IInv, PlaceInv
  <2>8. phase' \in {"receiving", "writing"} =>
           restart' \/ \E g \in Feeders : pc'[g] \in {"judging", "writing", "armed"}
    BY <1>2, <2>4, <2>5 DEF IInv, PageEndsWithUpdate
  <2>9. QED
    BY <1>2, <2>1, <2>2, <2>3, <2>4, <2>5, <2>6, <2>7, <2>8, QuietStep DEF IInv, SessionInv
<1>9. QED
  BY <1>3, <1>4, <1>5, <1>6, <1>7, <1>8 DEF Pull

-----------------------------------------------------------------------------
(* Startup and the guard *)

LEMMA StartupStep ==
    ASSUME IInv, Startup \/ StartupFails \/ GuardStart
    PROVE  IInv'
<1>1. TypeOK
  BY DEF IInv
<1>2. CASE Startup
  <2>1. SlotsInv'
    BY <1>2, SlotsKept DEF Startup
  <2>2. TypeOK'
    BY <1>1, <1>2 DEF Startup, TypeOK, flashVars, feedVars, sessionVars, bounds
  <2>3. QED
    BY <1>1, <1>2, <2>1, <2>2, QuietStep
       DEF Startup, IInv, TypeOK, SessionInv, PlaceInv, PageEndsWithUpdate, flashVars, feedVars, sessionVars
<1>3. CASE Pending /\ RollbackAndReboot /\ powered
  BY <1>3, RollbackStep
<1>4. CASE /\ powered /\ guard = "boot" /\ ~Pending /\ guard' = "halted"
           /\ UNCHANGED <<powered, running, flashVars, feedVars, busy, restart, phase,
                          quiesced, bounds>>
  <2>1. SlotsInv'
    <3>1. RunningInv'
      <4>1. Whole(running)' <=> Whole(running)
        BY <1>4, SlotKept DEF flashVars
      <4>2. QED
        BY <1>4, <4>1 DEF IInv, RunningInv
    <3>2. \A s : Proven(s)' <=> Proven(s)
      BY <1>4, SlotKept DEF flashVars
    <3>3. ArmedInv' /\ ValidInv' /\ TargetInv'
      BY <1>4, <3>2 DEF IInv, ArmedInv, ValidInv, TargetInv, Target, Pending, flashVars
    <3>4. QED
      BY <3>1, <3>3 DEF SlotsInv
  <2>2. TypeOK'
    BY <1>1, <1>4 DEF TypeOK, flashVars, feedVars, sessionVars, bounds
  <2>3. QED
    BY <1>1, <1>4, <2>1, <2>2, QuietStep
       DEF IInv, TypeOK, SessionInv, PlaceInv, PageEndsWithUpdate, flashVars, feedVars, sessionVars
<1>5. CASE GuardStart
  <2>1. SlotsInv'
    BY <1>5, SlotsKept DEF GuardStart
  <2>2. TypeOK'
    BY <1>1, <1>5 DEF GuardStart, TypeOK, flashVars, feedVars, sessionVars, bounds
  <2>3. phase' \in {"verifying", "rolledback", phase}
    BY <1>5 DEF GuardStart
  <2>4. QED
    BY <1>1, <1>5, <2>1, <2>2, <2>3, QuietStep
       DEF GuardStart, IInv, TypeOK, SessionInv, PlaceInv, PageEndsWithUpdate, flashVars, feedVars, sessionVars
<1>6. QED
  BY <1>2, <1>3, <1>4, <1>5 DEF StartupFails

\* The verdict: an image is marked valid only once it has proven itself.
LEMMA DecideStep ==
    ASSUME IInv, NEW renders \in BOOLEAN, NEW reachable \in BOOLEAN,
           GuardDecide(renders, reachable)
    PROVE  IInv'
<1>1. /\ TypeOK /\ powered /\ guard = "verifying"
      /\ renders => ~Runs(NoRender)
      /\ reachable => ~Runs(NoNetwork)
  BY DEF GuardDecide, IInv
<1>2. CASE Pending /\ RollbackAndReboot
  BY <1>1, <1>2, RollbackStep
<1>3. CASE /\ guard' = "done"
           /\ UNCHANGED <<powered, running, flashVars, feedVars, busy, restart, phase,
                          quiesced, bounds>>
  <2>1. SlotsInv'
    BY <1>1, <1>3, SlotsKept
  <2>2. TypeOK'
    BY <1>1, <1>3 DEF TypeOK, flashVars, feedVars, sessionVars, bounds
  <2>3. QED
    BY <1>1, <1>3, <2>1, <2>2, QuietStep
       DEF IInv, TypeOK, SessionInv, PlaceInv, PageEndsWithUpdate, flashVars, feedVars, sessionVars
<1>4. CASE /\ Pending /\ renders /\ reachable
           /\ otadata' = [otadata EXCEPT ![running] = "valid"]
           /\ phase' = "idle" /\ guard' = "done"
           /\ UNCHANGED <<powered, running, flash, newest, feedVars, busy, restart,
                          quiesced, bounds>>
  <2>1. running \in Slots /\ otadata[running] = "pending"
    BY <1>4 DEF Pending
  <2>2. \A s \in Slots : otadata'[s] = IF s = running THEN "valid" ELSE otadata[s]
    BY <1>1, <1>4, <2>1 DEF TypeOK
  <2>3. \A s : /\ Whole(s)' <=> Whole(s)
               /\ ImageOf(s)' = ImageOf(s)
               /\ Proven(s)' <=> Proven(s)
    BY <1>4, SlotKept
  <2>4. Proven(running)
    BY <1>1, <1>4, <2>1 DEF IInv, RunningInv, Proven, Runs
  <2>5. TypeOK'
    <3>1. otadata' \in [Slots -> States]
      BY <1>1, <1>4, <2>1 DEF TypeOK, States
    <3>2. QED
      BY <1>1, <1>4, <3>1 DEF TypeOK, feedVars, sessionVars, bounds
  <2>6. RunningInv'
    BY <1>1, <1>4, <2>3 DEF IInv, RunningInv
  <2>7. ~Pending'
    BY <1>4, <2>1, <2>2 DEF Pending
  <2>8. ArmedInv'
    BY <1>1, <1>4, <2>1, <2>2, <2>7 DEF IInv, ArmedInv, Target, TypeOK
  <2>9. ValidInv'
    <3> SUFFICES ASSUME NEW s \in Slots, otadata'[s] = "valid", ~Proven(s)
                 PROVE  FALSE
      BY <2>3 DEF ValidInv
    <3>1. s # running /\ otadata[s] = "valid"
      BY <2>2, <2>4
    <3>2. otadata[running] = "valid"
      BY <1>1, <3>1, TargetFacts DEF IInv, ValidInv
    <3>3. QED
      BY <2>1, <3>2
  <2>10. TargetInv'
    BY <1>1, <1>4, <2>1, <2>2, TargetFacts DEF IInv, TargetInv
  <2>11. OffInv' /\ SessionInv' /\ RefusalKeepsModules'
    BY <1>1, <1>4, <2>7 DEF IInv, OffInv, SessionInv, RefusalKeepsModules, feedVars, sessionVars
  <2>12. PlaceInv' /\ PageEndsWithUpdate'
    BY <1>4 DEF IInv, PlaceInv, PageEndsWithUpdate, Target, feedVars, sessionVars
  <2>13. QED
    BY <2>5, <2>6, <2>8, <2>9, <2>10, <2>11, <2>12 DEF IInv
<1>5. QED
  BY <1>2, <1>3, <1>4, GuardDecide(renders, reachable) DEF GuardDecide, RollbackDecision

-----------------------------------------------------------------------------
\* A board that was never updated.
LEMMA InitInv == Init => IInv
<1> SUFFICES ASSUME Init PROVE IInv
  OBVIOUS
<1> USE BoundsAssumption, ImagesAssumption DEF Init
<1>1. TypeOK
  <2>1. 0 \in 0..MaxUpdates /\ 0 \in 0..MaxResets /\ 1 \in 1..(Chunks + 1)
    OBVIOUS
  <2>2. QED
    BY <2>1, Zenon DEF TypeOK, States
<1>2. OffInv /\ SessionInv /\ RunningInv /\ ArmedInv /\ ValidInv /\ TargetInv
  BY DEF OffInv, Idle, SessionInv, RunningInv, ArmedInv, ValidInv, TargetInv, Pending
<1>3. PlaceInv /\ RefusalKeepsModules /\ PageEndsWithUpdate
  BY DEF PlaceInv, RefusalKeepsModules, PageEndsWithUpdate, Feeders, Pullers
<1>4. QED
  BY <1>1, <1>2, <1>3 DEF IInv

LEMMA StepInv == IInv /\ [Next]_vars => IInv'
<1> SUFFICES ASSUME IInv, [Next]_vars PROVE IInv'
  OBVIOUS
<1>1. TypeOK
  BY DEF IInv
<1>2. CASE Boot
  BY <1>2, BootStep
<1>3. CASE PowerLoss
  <2>1. resets' \in 0..MaxResets
    BY <1>1, <1>3, BoundsAssumption DEF PowerLoss, TypeOK
  <2>2. QED
    BY <1>3, <2>1, OffStep DEF PowerLoss
<1>4. CASE Restart
  BY <1>1, <1>4, OffStep DEF Restart, bounds, TypeOK
<1>5. CASE Startup \/ StartupFails \/ GuardStart
  BY <1>5, StartupStep
<1>6. CASE Decide
  BY <1>6, DecideStep DEF Decide
<1>7. CASE \/ \E i \in Images : PushArrives(i) \/ \E p \in Pullers : StartPull(p, i)
           \/ PushAccepted \/ PushDeclined
           \/ \E p \in Pullers : Pull(p)
  BY <1>7, RequestStep
<1>8. CASE \E f \in Feeders : Feed(f)
  BY <1>8, FeedStep
<1>9. CASE UNCHANGED vars
  <2>1. SlotsInv'
    BY <1>9, SlotsKept DEF vars
  <2>2. TypeOK'
    BY <1>1, <1>9 DEF TypeOK, vars, flashVars, feedVars, sessionVars, bounds
  <2>3. OffInv' /\ SessionInv'
    BY <1>9 DEF IInv, OffInv, Idle, SessionInv, Pending, vars, flashVars, feedVars, sessionVars
  <2>4. PlaceInv' /\ RefusalKeepsModules' /\ PageEndsWithUpdate'
    BY <1>9 DEF IInv, PlaceInv, RefusalKeepsModules, PageEndsWithUpdate, Pending, Target,
       vars, flashVars, feedVars, sessionVars
  <2>5. QED
    BY <2>1, <2>2, <2>3, <2>4 DEF IInv, SlotsInv
<1>10. QED
  BY <1>2, <1>3, <1>4, <1>5, <1>6, <1>7, <1>8, <1>9 DEF Next

\* The image an update falls back to is the valid one of the other slot, or none.
LEMMA FallbackFollows == IInv => FallbackIsProven
<1> SUFFICES ASSUME IInv, powered, Pending
             PROVE  LET fallback == Selected([otadata EXCEPT ![running] = "invalid"])
                    IN  fallback = "factory" \/ Proven(fallback)
  BY DEF FallbackIsProven
<1> DEFINE o == [otadata EXCEPT ![running] = "invalid"]
           fallback == Selected(o)
<1>1. TypeOK /\ running \in Slots /\ otadata[running] = "pending"
  BY DEF IInv, Pending
<1>2. \A s \in Slots : o[s] = IF s = running THEN "invalid" ELSE otadata[s]
  BY <1>1 DEF TypeOK
<1>3. \A s \in Slots : o[s] # "new"
  BY <1>2 DEF IInv, ArmedInv
<1>4. ASSUME NEW s \in Usable(o) PROVE Proven(s)
  <2>1. s \in Slots /\ s # running /\ otadata[s] = "valid"
    BY <1>2, <1>3, <1>4 DEF Usable
  <2>2. ~Proven(s) => otadata[running] = "valid"
    BY <1>1, <2>1 DEF IInv, ValidInv
  <2>3. QED
    BY <1>1, <2>2
<1> HIDE DEF o
<1>5. fallback \in Usable(o) \/ fallback = "factory"
  BY SelectedFacts, SMT
<1> HIDE DEF fallback
<1>6. fallback = "factory" \/ Proven(fallback)
  BY <1>4, <1>5
<1>7. QED
  BY <1>6 DEF fallback, o

-----------------------------------------------------------------------------
\* The inductive invariant holds in every reachable state.
THEOREM Invariance == Spec => []IInv
BY InitInv, StepInv, PTL DEF Spec

\* The variables keep their ranges.
THEOREM TypeCorrect == Spec => []TypeOK
<1>1. IInv => TypeOK
  BY DEF IInv
<1>2. QED
  BY <1>1, Invariance, PTL

\* Whatever was pushed, pulled, cut or rolled back before, an image on trial has a
\* proven one to fall back to.
THEOREM FallbacksAreProven == Spec => []FallbackIsProven
BY Invariance, FallbackFollows, PTL

\* In whatever pieces an image arrives, and however long its header, a session that has
\* the slot to itself leaves each chunk there once and in its place.
THEOREM ImagesInPlace == Spec => []ImageInPlace
<1>1. IInv => ImageInPlace
  BY DEF IInv, PlaceInv, ImageInPlace
<1>2. QED
  BY <1>1, Invariance, PTL

\* A refusal while the running image is on trial has quiesced nothing.
THEOREM RefusalsKeepModules == Spec => []RefusalKeepsModules
<1>1. IInv => RefusalKeepsModules
  BY DEF IInv
<1>2. QED
  BY <1>1, Invariance, PTL

\* The update page is on the panel only while a session is open or a restart due.
THEOREM PagesEndWithUpdates == Spec => []PageEndsWithUpdate
<1>1. IInv => PageEndsWithUpdate
  BY DEF IInv
<1>2. QED
  BY <1>1, Invariance, PTL

-----------------------------------------------------------------------------
(* The confirmation *)

\* A request in progress has a number and no outcome yet.
OpenInv == asker # "idle" => request > 0 /\ outcome = "none"

\* A token was given in the current request, but for one left over that is
\* about to be cleared; so was the token that woke the request.
TokenInv ==
    /\ signal /\ asker # "claimed" => givenIn = request
    /\ signalled /\ asker \in {"taken", "read", "released"} => givenIn = request

\* A yes was stored in the current request, but for one left over that is about to be
\* cleared; so was the yes that the request read.
YesInv ==
    /\ accepted /\ asker \notin {"claimed", "drained"} => yesIn = request
    /\ consent /\ asker \in {"read", "released"} => yesIn = request

ConfirmInv == ConfirmTypeOK /\ OpenInv /\ TokenInv /\ YesInv /\ NoBankedAnswer /\ AcceptedInThisRequest

\* Nothing has been asked at the start.
LEMMA ConfirmInitially == ConfirmInit => ConfirmInv
<1> SUFFICES ASSUME ConfirmInit PROVE ConfirmInv
  OBVIOUS
<1>1. 0 \in 0..MaxRequests
  BY MaxRequestsAssumption
<1>2. ConfirmTypeOK
  BY <1>1, Zenon DEF ConfirmInit, ConfirmTypeOK, Askers
<1>3. OpenInv /\ TokenInv /\ YesInv /\ NoBankedAnswer /\ AcceptedInThisRequest
  BY Zenon DEF ConfirmInit, OpenInv, TokenInv, YesInv, NoBankedAnswer, AcceptedInThisRequest
<1>4. QED
  BY <1>2, <1>3 DEF ConfirmInv

\* The steps of request_confirm() keep the invariant.
LEMMA AskerInv == ConfirmInv /\ (Claim \/ Ask) => ConfirmInv'
<1> SUFFICES ASSUME ConfirmInv, Claim \/ Ask PROVE ConfirmInv'
  OBVIOUS
<1> USE MaxRequestsAssumption DEF ConfirmInv, ConfirmTypeOK, Askers, OpenInv, TokenInv, YesInv, NoBankedAnswer,
        AcceptedInThisRequest, answererVars, historyVars
<1>1. CASE Claim
  BY <1>1 DEF Claim
<1>2. CASE Drain
  BY <1>2 DEF Drain
<1>3. CASE Clear
  BY <1>3 DEF Clear
<1>4. CASE ShowPrompt
  BY <1>4 DEF ShowPrompt
<1>5. CASE Take
  BY <1>5 DEF Take
<1>6. CASE ReadAnswer
  BY <1>6 DEF ReadAnswer
<1>7. CASE Release
  BY <1>7 DEF Release
<1>8. CASE Return
  BY <1>8 DEF Return
<1>9. QED
  BY <1>1, <1>2, <1>3, <1>4, <1>5, <1>6, <1>7, <1>8 DEF Ask

\* The steps of the LVGL thread and of the other publishers keep it.
LEMMA AnswererInv ==
    ConfirmInv /\ (PublishOver \/ Tick \/ (\E yes \in BOOLEAN : Press(yes)) \/ Answer) => ConfirmInv'
<1> SUFFICES ASSUME ConfirmInv,
                    PublishOver \/ Tick \/ (\E yes \in BOOLEAN : Press(yes)) \/ Answer
             PROVE  ConfirmInv'
  OBVIOUS
<1> USE DEF ConfirmInv, ConfirmTypeOK, Askers, OpenInv, TokenInv, YesInv, NoBankedAnswer,
        AcceptedInThisRequest, askerVars, answererVars, historyVars
<1>1. CASE PublishOver
  BY <1>1, MaxRequestsAssumption DEF PublishOver
<1>2. CASE Tick
  BY <1>2 DEF Tick
<1>3. CASE \E yes \in BOOLEAN : Press(yes)
  BY <1>3 DEF Press
<1>4. CASE StoreAnswer
  <2>1. ClearedRequest \in 0..MaxRequests
    BY MaxRequestsAssumption DEF ClearedRequest
  <2>2. ConfirmTypeOK'
    <3>1. CASE answer
      BY <1>4, <2>1, <3>1, Zenon DEF StoreAnswer
    <3>2. CASE ~answer
      BY <1>4, <3>2, Zenon DEF StoreAnswer
    <3>3. QED
      BY <3>1, <3>2
  <2>3. YesInv' /\ AcceptedInThisRequest'
    <3>1. CASE answer
      <4>1. asker \notin {"claimed", "drained"} => ClearedRequest = request
        BY DEF ClearedRequest
      <4>2. outcome = "Accepted" => asker = "idle"
        BY Zenon
      <4>3. QED
        BY <1>4, <3>1, <4>1, <4>2, Zenon DEF StoreAnswer
    <3>2. CASE ~answer
      BY <1>4, <3>2, Zenon DEF StoreAnswer
    <3>3. QED
      BY <3>1, <3>2
  <2>4. OpenInv' /\ TokenInv' /\ NoBankedAnswer'
    BY <1>4, Zenon DEF StoreAnswer
  <2>5. QED
    BY <2>2, <2>3, <2>4
<1>5. CASE GiveSignal
  <2>1. DrainedRequest \in 0..MaxRequests
    BY MaxRequestsAssumption DEF DrainedRequest
  <2>2. ConfirmTypeOK'
    BY <1>5, <2>1, Zenon DEF GiveSignal
  <2>3. TokenInv' /\ NoBankedAnswer'
    <3>1. asker # "claimed" => DrainedRequest = request
      BY DEF DrainedRequest
    <3>2. outcome \in {"Accepted", "Rejected"} => asker = "idle"
      BY Zenon
    <3>3. QED
      BY <1>5, <3>1, <3>2, Zenon DEF GiveSignal
  <2>4. OpenInv' /\ YesInv' /\ AcceptedInThisRequest'
    BY <1>5, Zenon DEF GiveSignal
  <2>5. QED
    BY <2>2, <2>3, <2>4
<1>6. QED
  BY <1>1, <1>2, <1>3, <1>4, <1>5 DEF Answer

LEMMA ConfirmStep == ConfirmInv /\ [ConfirmNext]_confirmVars => ConfirmInv'
<1> SUFFICES ASSUME ConfirmInv, [ConfirmNext]_confirmVars PROVE ConfirmInv'
  OBVIOUS
<1>1. CASE ConfirmNext
  BY <1>1, AskerInv, AnswererInv DEF ConfirmNext
<1>2. CASE UNCHANGED confirmVars
  BY <1>2 DEF confirmVars, ConfirmInv, ConfirmTypeOK, Askers, OpenInv, TokenInv, YesInv, NoBankedAnswer,
     AcceptedInThisRequest, askerVars, answererVars, historyVars
<1>3. QED
  BY <1>1, <1>2

\* The inductive invariant holds in every reachable state.
THEOREM ConfirmInvariance == ConfirmSpec => []ConfirmInv
BY ConfirmInitially, ConfirmStep, PTL DEF ConfirmSpec

\* Every variable of the confirmation keeps its type.
THEOREM ConfirmTypeCorrect == ConfirmSpec => []ConfirmTypeOK
<1>1. ConfirmInv => ConfirmTypeOK
  BY DEF ConfirmInv
<1>2. QED
  BY <1>1, ConfirmInvariance, PTL

\* However the two tasks interleave, the token of an earlier request answers
\* no later one.
THEOREM AnswersAreNotBanked == ConfirmSpec => []NoBankedAnswer
<1>1. ConfirmInv => NoBankedAnswer
  BY DEF ConfirmInv
<1>2. QED
  BY <1>1, ConfirmInvariance, PTL

\* However the two tasks interleave, a yes stored before the current request
\* cleared the flag does not accept it.
THEOREM YesesAreNotBanked == ConfirmSpec => []AcceptedInThisRequest
<1>1. ConfirmInv => AcceptedInThisRequest
  BY DEF ConfirmInv
<1>2. QED
  BY <1>1, ConfirmInvariance, PTL
=============================================================================
