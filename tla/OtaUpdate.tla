----------------------------- MODULE OtaUpdate -----------------------------
(***************************************************************************)
(* Firmware updates: the tasks that feed an ota::Session, the two OTA      *)
(* slots they write, the otadata that the bootloader reads, and the guard  *)
(* that decides the fate of a freshly written image.                       *)
(*                                                                         *)
(*   push    POST /ota on the HTTP server's one task (portal.cpp)          *)
(*   httpd   the pull started by POST /ota-url   (ota_pull.cpp)            *)
(*   lvgl    the pull started by the settings row (ota_pull.cpp)           *)
(*   guard   ota_guard_task (app_main.cpp)                                 *)
(*                                                                         *)
(* A slot is a row of chunks, so that two sessions on one slot, an upload  *)
(* that breaks off and a power loss leave what they leave in flash.  The   *)
(* esp_ota API, the bootloader and the radio are external.                 *)
(***************************************************************************)
EXTENDS Naturals

CONSTANTS
    Images,      \* the files that may be sent
    Foreign,     \* those whose header is not this project's firmware
    Corrupt,     \* those whose own hash does not check out
    NoRender,    \* firmware whose LVGL loop does not turn
    NoNetwork,   \* firmware whose station never gets an address (uploads may still
                 \* come over the setup access point)
    NoStart,     \* firmware that cannot finish startup
    Nothing,     \* an erased chunk, or a task with no image
    Chunks,      \* chunks of an image
    HeaderChunks, \* those of its header, which is judged as a whole (kImagePrefixBytes)
    MaxUpdates,  \* bound: updates started per behaviour
    MaxResets    \* bound: power losses per behaviour

ASSUME ImagesAssumption ==
    /\ Foreign \cup Corrupt \cup NoRender \cup NoNetwork \cup NoStart \subseteq Images
    /\ Nothing \notin Images /\ "mixed" \notin Images /\ Nothing # "mixed"

ASSUME BoundsAssumption ==
    /\ Chunks \in Nat \ {0} /\ HeaderChunks \in 1..Chunks
    /\ MaxUpdates \in Nat /\ MaxResets \in Nat

VARIABLES
    powered,
    running,   \* esp_ota_get_running_partition()
    flash,     \* the chunks of each OTA slot
    otadata,   \* the state recorded for each OTA slot
    newest,    \* the OTA slot armed last, "factory" when none was
    pc,        \* where each feeder is
    image,     \* the image each feeder is fed
    from,      \* the chunk of the image each session hands to flash next
    next,      \* where in the slot that chunk goes
    sole,      \* history: the session that has had its slot to itself since its erase
    busy,      \* g_pull_busy: not created, available or taken
    restart,   \* schedule_restart() has armed its timer
    guard,     \* where startup and the guard task are
    phase,     \* the phase published in AppSnapshot::ota
    quiesced,  \* the quiesce hooks have run in this boot
    updates, resets

flashVars == <<flash, otadata, newest>>
sessionVars == <<from, next, sole>>
feedVars == <<pc, image, sessionVars>>
bounds == <<updates, resets>>
vars == <<powered, running, flashVars, feedVars, busy, restart, guard, phase,
          quiesced, bounds>>

Slots == {"ota_0", "ota_1"}
Pullers == {"lvgl", "httpd"}
Feeders == Pullers \cup {"push"}
Up == powered /\ guard \notin {"boot", "halted"}

-----------------------------------------------------------------------------
\* The bootloader and the esp_ota API (external).

\* esp_ota_get_next_update_partition(nullptr)
Target == IF running = "ota_0" THEN "ota_1" ELSE "ota_0"

\* esp_image_verify() of a slot.
Whole(s) == \E i \in Images \ (Foreign \cup Corrupt) : \A c \in 1..Chunks : flash[s][c] = i

\* Bits of flash can be cleared, not set, without an erase.
Merged(old, new) == IF old \in {Nothing, new} THEN new ELSE "mixed"

\* The entry of o that the bootloader picks, and the partition it can load.
Usable(o) == {s \in Slots : o[s] \in {"new", "valid"}}

Selected(o) ==
    CASE newest \in Usable(o) -> newest
      [] newest \notin Usable(o) /\ Usable(o) # {} -> CHOOSE s \in Usable(o) : TRUE
      [] Usable(o) = {} -> "factory"

Loaded(s) ==
    CASE s \in Slots /\ Whole(s) -> s
      [] s = "ota_1" /\ ~Whole(s) /\ Whole("ota_0") -> "ota_0"
      [] OTHER -> "factory"

Pending == running \in Slots /\ otadata[running] = "pending"

\* A reset forgets everything but the flash.
Off ==
    /\ powered' = FALSE
    /\ running' = "factory"
    /\ pc' = [f \in Feeders |-> "idle"]
    /\ image' = [f \in Feeders |-> Nothing]
    /\ from' = [f \in Feeders |-> 1]
    /\ next' = [f \in Feeders |-> 1]
    /\ sole' = "none"
    /\ busy' = "none" /\ restart' = FALSE
    /\ guard' = "boot" /\ phase' = "idle" /\ quiesced' = FALSE

\* A pending image that is booted again without a verdict is aborted; a new
\* one is given its first boot.
Boot ==
    /\ ~powered
    /\ LET aborted == [s \in Slots |-> IF otadata[s] = "pending" THEN "aborted" ELSE otadata[s]]
           chosen == Selected(aborted)
       IN  /\ running' = Loaded(chosen)
           /\ otadata' = [s \in Slots |-> IF s = chosen /\ aborted[s] = "new"
                                          THEN "pending" ELSE aborted[s]]
    /\ powered' = TRUE
    /\ UNCHANGED <<flash, newest, feedVars, busy, restart, guard, phase, quiesced, bounds>>

PowerLoss ==
    /\ powered /\ resets < MaxResets
    /\ resets' = resets + 1
    /\ Off
    /\ UNCHANGED <<flashVars, updates>>

\* esp_restart(), from the restart timer of a push or at the end of a pull.
Restart ==
    /\ powered
    /\ restart \/ \E p \in Pullers : pc[p] = "armed"
    /\ Off
    /\ UNCHANGED <<flashVars, bounds>>

\* esp_ota_mark_app_invalid_rollback_and_reboot()
RollbackAndReboot ==
    /\ otadata' = [otadata EXCEPT ![running] = "invalid"]
    /\ Off
    /\ UNCHANGED <<flash, newest, bounds>>

-----------------------------------------------------------------------------
\* ota::Session, fed by task f.

Give(f) == busy' = IF f \in Pullers THEN "free" ELSE busy

\* The session of f is destroyed.
Forget(f) ==
    /\ image' = [image EXCEPT ![f] = Nothing]
    /\ from' = [from EXCEPT ![f] = 1]
    /\ next' = [next EXCEPT ![f] = 1]
    /\ sole' = IF sole = f THEN "none" ELSE sole

\* Slip: the failure is not published.
FailQuietly(f) ==
    /\ pc' = [pc EXCEPT ![f] = "idle"]
    /\ Forget(f)
    /\ Give(f)
    /\ UNCHANGED phase

\* Slip: a failed pull keeps the slot.
FailKeepingSlot(f) ==
    /\ pc' = [pc EXCEPT ![f] = "idle"]
    /\ Forget(f)
    /\ phase' = "failed"
    /\ UNCHANGED busy

\* The session is aborted, the reason published, and the pull slot given back.
Fail(f) ==
    /\ pc' = [pc EXCEPT ![f] = "idle"]
    /\ Forget(f)
    /\ phase' = "failed"
    /\ Give(f)

\* Slip: the piece that completes the header is written from its start.
WholePiece(held) == held + 1

\* The pieces so far left the inspector with `held' chunks, short of a header; the next
\* completes it, and this is the first chunk of it that the inspector does not take.
FirstUnabsorbed(held) == held + 1 + (HeaderChunks - held)

\* Session::write() on the piece that completes the header: the verdict, the
\* refusal while the running image is pending, the quiesce hooks, and the
\* erase of the slot, which may fail.  Until then nothing but the inspector changes.
Begin(f) ==
    /\ quiesced' = TRUE
    /\ \/ /\ flash' = [flash EXCEPT ![Target] = [c \in 1..Chunks |-> Nothing]]
          /\ pc' = [pc EXCEPT ![f] = "writing"]
          /\ \E held \in 0..(HeaderChunks - 1) :
                from' = [from EXCEPT ![f] = FirstUnabsorbed(held)]
          /\ sole' = IF \E g \in Feeders \ {f} : pc[g] = "writing" THEN "none" ELSE f
          /\ UNCHANGED <<image, next, busy, phase>>
       \/ Fail(f) /\ UNCHANGED flash

OpenSlot(f) ==
    \/ Pending /\ Fail(f) /\ UNCHANGED <<flash, quiesced>>
    \/ ~Pending /\ Begin(f)

Judge(f) ==
    /\ Up /\ pc[f] = "judging"
    /\ \/ image[f] \in Foreign /\ Fail(f) /\ UNCHANGED <<flash, quiesced>>
       \/ image[f] \notin Foreign /\ OpenSlot(f)
    /\ UNCHANGED <<powered, running, otadata, newest, restart, guard, bounds>>

\* The slots once the chunks first..upto of f's image have gone to where its session
\* stands; a chunk in the place of another is none of the image's.
Written(f, first, upto) ==
    [flash EXCEPT ![Target] = [c \in 1..Chunks |->
        IF c \in next[f]..(next[f] + upto - first)
        THEN Merged(flash[Target][c], IF first = next[f] THEN image[f] ELSE "mixed")
        ELSE flash[Target][c]]]

\* The held-back header goes first; a piece that ends with it is published.
WriteHeader(f) ==
    /\ Up /\ pc[f] = "writing" /\ next[f] = 1
    /\ flash' = Written(f, 1, HeaderChunks)
    /\ next' = [next EXCEPT ![f] = next[f] + HeaderChunks]
    /\ phase' \in {phase, "receiving"}
    /\ UNCHANGED <<powered, running, otadata, newest, pc, image, from, sole, busy,
                   restart, guard, quiesced, bounds>>

WriteChunk(f) ==
    /\ Up /\ pc[f] = "writing" /\ next[f] # 1 /\ from[f] <= Chunks
    /\ flash' = Written(f, from[f], from[f])
    /\ from' = [from EXCEPT ![f] = from[f] + 1]
    /\ next' = [next EXCEPT ![f] = next[f] + 1]
    /\ phase' = "receiving"
    /\ UNCHANGED <<powered, running, otadata, newest, pc, image, sole, busy, restart,
                   guard, quiesced, bounds>>

\* The transfer breaks off, or a write fails.
TransferFails(f) ==
    /\ Up /\ (pc[f] = "judging" \/ (pc[f] = "writing" /\ (next[f] = 1 \/ from[f] <= Chunks)))
    /\ Fail(f)
    /\ UNCHANGED <<powered, running, flashVars, restart, guard, quiesced, bounds>>

\* Session::finish(), and the restart that follows it: by timer after a push,
\* at once after a pull.
Finish(f) ==
    /\ Up /\ pc[f] = "writing" /\ next[f] # 1 /\ from[f] > Chunks
    /\ \/ /\ Whole(Target)
          /\ otadata' = [otadata EXCEPT ![Target] = "new"]
          /\ newest' = Target
          /\ phase' = "writing"
          /\ restart' = (restart \/ f = "push")
          /\ pc' = [pc EXCEPT ![f] = IF f = "push" THEN "idle" ELSE "armed"]
          /\ Forget(f)
          /\ UNCHANGED busy
       \/ Fail(f) /\ UNCHANGED <<otadata, newest, restart>>
    /\ UNCHANGED <<powered, running, flash, guard, quiesced, bounds>>

-----------------------------------------------------------------------------
\* A push: the header is read and judged, somebody at the board is asked
\* unless the request carries the page password, and the session starts.

HttpdFree == pc["push"] = "idle" /\ pc["httpd"] \notin {"seed", "take"}

PushArrives(i) ==
    /\ Up /\ HttpdFree
    /\ updates < MaxUpdates
    /\ updates' = updates + 1
    /\ \/ /\ pc' = [pc EXCEPT !["push"] = "judging"]
          /\ UNCHANGED phase
       \/ /\ i \notin Foreign
          /\ pc' = [pc EXCEPT !["push"] = "asking"]
          /\ phase' = "awaiting"
    /\ image' = [image EXCEPT !["push"] = i]
    /\ UNCHANGED <<powered, running, flashVars, sessionVars, busy, restart, guard,
                   quiesced, resets>>

\* The buttons answer while the panel shows the prompt.
PushAccepted ==
    /\ Up /\ pc["push"] = "asking" /\ phase = "awaiting"
    /\ pc' = [pc EXCEPT !["push"] = "judging"]
    /\ phase' = "idle"
    /\ UNCHANGED <<powered, running, flashVars, image, sessionVars, busy, restart, guard, quiesced,
                   bounds>>

\* A no, or no answer in time.
PushDeclined ==
    /\ Up /\ pc["push"] = "asking"
    /\ pc' = [pc EXCEPT !["push"] = "idle"]
    /\ image' = [image EXCEPT !["push"] = Nothing]
    /\ phase' = "idle"
    /\ UNCHANGED <<powered, running, flashVars, sessionVars, busy, restart, guard, quiesced, bounds>>

-----------------------------------------------------------------------------
\* A pull: start_pull() claims the slot, creating it on first use, and a task
\* of its own downloads.

StartPull(p, i) ==
    /\ Up /\ pc[p] = "idle"
    /\ p = "httpd" => HttpdFree
    /\ updates < MaxUpdates
    /\ updates' = updates + 1
    /\ pc' = [pc EXCEPT ![p] = IF busy = "none" THEN "seed" ELSE "take"]
    /\ image' = [image EXCEPT ![p] = i]
    /\ UNCHANGED <<powered, running, flashVars, sessionVars, busy, restart, guard, phase, quiesced,
                   resets>>

SeedPullSlot(p) ==
    /\ Up /\ pc[p] = "seed"
    /\ busy' = "free"
    /\ pc' = [pc EXCEPT ![p] = "take"]
    /\ UNCHANGED <<powered, running, flashVars, image, sessionVars, restart, guard, phase, quiesced,
                   bounds>>

\* The claim and the creation of the task, either of which may fail.
TakePullSlot(p) ==
    /\ Up /\ pc[p] = "take"
    /\ \/ /\ busy = "free"
          /\ busy' = "taken"
          /\ pc' = [pc EXCEPT ![p] = "judging"]
          /\ UNCHANGED image
       \/ /\ pc' = [pc EXCEPT ![p] = "idle"]
          /\ image' = [image EXCEPT ![p] = Nothing]
          /\ UNCHANGED busy
    /\ UNCHANGED <<powered, running, flashVars, sessionVars, restart, guard, phase, quiesced, bounds>>

-----------------------------------------------------------------------------
\* Startup and the guard.

ImageOf(s) == flash[s][1]
Runs(bad) == running \in Slots /\ ImageOf(running) \in bad

\* app_main() reaches its end; the guard task may fail to be created.
Startup ==
    /\ powered /\ guard = "boot"
    /\ ~Runs(NoStart)
    /\ guard' \in {"start", "absent"}
    /\ UNCHANGED <<powered, running, flashVars, feedVars, busy, restart, phase, quiesced,
                   bounds>>

\* fatal_loop()
StartupFails ==
    /\ powered /\ guard = "boot"
    /\ \/ Pending /\ RollbackAndReboot
       \/ /\ ~Pending /\ guard' = "halted"
          /\ UNCHANGED <<powered, running, flashVars, feedVars, busy, restart, phase,
                         quiesced, bounds>>

Rejected == \E s \in Slots \ {running} : otadata[s] \in {"invalid", "aborted"}

\* The guard's first half: what to show, and whether there is a verdict to reach.
GuardStart ==
    /\ powered /\ guard = "start"
    /\ \/ Pending /\ guard' = "verifying" /\ phase' = "verifying"
       \/ ~Pending /\ guard' = "done" /\ phase' = IF Rejected THEN "rolledback" ELSE phase
    /\ UNCHANGED <<powered, running, flashVars, feedVars, busy, restart, quiesced, bounds>>

\* Slip: rendering alone is enough.
RollbackDecisionByLoop(pending, renders, reachable) ==
    CASE ~pending -> "None"
      [] pending /\ renders -> "MarkValid"
      [] OTHER -> "Rollback"

\* Slip: an image without a network is left to the next reset.
RollbackDecisionDeferred(pending, renders, reachable) ==
    CASE ~pending \/ ~reachable -> "None"
      [] pending /\ renders /\ reachable -> "MarkValid"
      [] OTHER -> "Rollback"

RollbackDecision(pending, renders, reachable) ==
    CASE ~pending -> "None"
      [] pending /\ renders /\ reachable -> "MarkValid"
      [] OTHER -> "Rollback"

\* The guard's second half, once the loop counter and the station have been
\* watched for their windows.
GuardDecide(renders, reachable) ==
    /\ powered /\ guard = "verifying"
    /\ renders => ~Runs(NoRender)
    /\ reachable => ~Runs(NoNetwork)
    /\ LET decision == RollbackDecision(Pending, renders, reachable)
       IN  \/ /\ decision = "MarkValid"
              /\ otadata' = [otadata EXCEPT ![running] = "valid"]
              /\ phase' = "idle" /\ guard' = "done"
              /\ UNCHANGED <<powered, running, flash, newest, feedVars, busy, restart,
                             quiesced, bounds>>
           \/ /\ decision = "Rollback"
              /\ RollbackAndReboot
           \/ /\ decision = "None" /\ guard' = "done"
              /\ UNCHANGED <<powered, running, flashVars, feedVars, busy, restart, phase,
                             quiesced, bounds>>

-----------------------------------------------------------------------------
\* A board with its factory image, never updated.
Init ==
    /\ powered = FALSE
    /\ running = "factory"
    /\ flash = [s \in Slots |-> [c \in 1..Chunks |-> Nothing]]
    /\ otadata = [s \in Slots |-> "undefined"]
    /\ newest = "factory"
    /\ pc = [f \in Feeders |-> "idle"]
    /\ image = [f \in Feeders |-> Nothing]
    /\ from = [f \in Feeders |-> 1]
    /\ next = [f \in Feeders |-> 1]
    /\ sole = "none"
    /\ busy = "none" /\ restart = FALSE
    /\ guard = "boot" /\ phase = "idle" /\ quiesced = FALSE
    /\ updates = 0 /\ resets = 0

Feed(f) ==
    Judge(f) \/ WriteHeader(f) \/ WriteChunk(f) \/ TransferFails(f) \/ Finish(f)
Pull(p) == SeedPullSlot(p) \/ TakePullSlot(p)
Decide == \E renders, reachable \in BOOLEAN : GuardDecide(renders, reachable)

Next ==
    \/ Boot \/ PowerLoss \/ Restart
    \/ Startup \/ StartupFails \/ GuardStart \/ Decide
    \/ \E i \in Images : PushArrives(i) \/ \E p \in Pullers : StartPull(p, i)
    \/ PushAccepted \/ PushDeclined
    \/ \E p \in Pullers : Pull(p)
    \/ \E f \in Feeders : Feed(f)

Spec == Init /\ [][Next]_vars

\* Tasks run, a transfer goes on or times out, a prompt times out, and the
\* guard's windows elapse.
Fairness ==
    /\ WF_vars(Boot) /\ WF_vars(Restart)
    /\ WF_vars(Startup \/ StartupFails) /\ WF_vars(GuardStart) /\ WF_vars(Decide)
    /\ WF_vars(PushDeclined)
    /\ \A p \in Pullers : WF_vars(Pull(p))
    /\ \A f \in Feeders : WF_vars(Feed(f))

FairSpec == Spec /\ Fairness

-----------------------------------------------------------------------------
States == {"undefined", "new", "pending", "valid", "invalid", "aborted"}

\* Every variable keeps its type.
TypeOK ==
    /\ powered \in BOOLEAN
    /\ running \in Slots \cup {"factory"} /\ newest \in Slots \cup {"factory"}
    /\ flash \in [Slots -> [1..Chunks -> Images \cup {Nothing, "mixed"}]]
    /\ otadata \in [Slots -> States]
    /\ pc \in [Feeders -> {"idle", "asking", "seed", "take", "judging", "writing", "armed"}]
    /\ image \in [Feeders -> Images \cup {Nothing}]
    /\ from \in [Feeders -> 1..(Chunks + 1)]
    /\ next \in [Feeders -> 1..(Chunks + 1)]
    /\ sole \in Feeders \cup {"none"}
    /\ busy \in {"none", "free", "taken"}
    /\ restart \in BOOLEAN /\ quiesced \in BOOLEAN
    /\ guard \in {"boot", "halted", "start", "absent", "verifying", "done"}
    /\ phase \in {"idle", "awaiting", "receiving", "writing", "verifying", "rolledback", "failed"}
    /\ updates \in 0..MaxUpdates /\ resets \in 0..MaxResets

Proven(s) == Whole(s) /\ ImageOf(s) \notin NoStart \cup NoRender \cup NoNetwork

\* Whatever the tasks did to the slots in earlier boots, an image awaiting its
\* verdict always has somewhere to roll back to: the factory image or one
\* that started, rendered and reached the network.
FallbackIsProven ==
    powered /\ Pending =>
        LET fallback == Selected([otadata EXCEPT ![running] = "invalid"])
        IN  fallback = "factory" \/ Proven(fallback)

\* A session that has had its slot to itself leaves there what it was fed, each chunk in
\* its place: the held-back header "must reach flash in full once the verdict is in,
\* and exactly once" (ota_prefix.hpp:15-17), in whatever pieces it arrives, and the
\* rest of the piece that completed it follows.
ImageInPlace ==
    \A f \in Feeders : sole = f /\ pc[f] = "writing" =>
        /\ \A c \in 1..Chunks : flash[Target][c] = IF c < next[f] THEN image[f] ELSE Nothing
        /\ next[f] # 1 /\ from[f] > Chunks => next[f] > Chunks

\* While the running image awaits its verdict no module has been quiesced: a
\* refusal does not cost a working AirPlay (ota_session.cpp:47-59). Proved, and not
\* among the runs.
RefusalKeepsModules == powered /\ Pending => ~quiesced

\* The update page, which deadens the buttons, never outlives the update: a
\* session is open or a restart is due.
PageEndsWithUpdate ==
    phase \in {"receiving", "writing"} =>
        restart \/ \E f \in Feeders : pc[f] \in {"judging", "writing", "armed"}

\* An image on trial is decided on, without waiting for a reset that may never
\* come, if the guard task could be created.
TrialEnds == (powered /\ Pending /\ guard \in {"start", "verifying"}) ~> ~(powered /\ Pending)

\* The pull slot always comes free again, or the board restarts.
PullSlotFreed == (busy = "taken") ~> (busy # "taken")

-----------------------------------------------------------------------------
\* Statements of the sources that the code does not keep. No run asserts them.

\* ota_session.hpp:31: "one update at a time", so that a slot that was verified and
\* armed is what the bootloader finds there.
ArmedSlotIntact == newest \in Slots /\ otadata[newest] = "new" => Whole(newest)

\* ota_pull.hpp:46: "a second call while one is in flight is refused".
OnePull == \A p, q \in Pullers :
    pc[p] \in {"judging", "writing"} /\ pc[q] \in {"judging", "writing"} => p = q
=============================================================================
