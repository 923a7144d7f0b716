---------------------------- MODULE AudioStream ----------------------------
(***************************************************************************)
(* modules/audio/audio.cpp: one codec and one amplifier, used by tones and *)
(* sweeps (a task each) and by a PCM stream whose callers sit on several   *)
(* tasks.  A playback token admits one user at a time; its semaphore is    *)
(* made by the first claim, without a lock.  A short mutex guards the      *)
(* stream against the watchdog, which runs on the timer task.              *)
(*                                                                         *)
(* Time is a relation between steps: a timer that is armed may expire at   *)
(* any later moment, except that WriteMayStall = FALSE assumes that one    *)
(* codec write takes less than the five seconds of the watchdog.           *)
(***************************************************************************)
EXTENDS Naturals, FiniteSets

CONSTANTS
  Callers,        \* tasks that call audio_stream_open, _write and _close
  Players,        \* tone and sweep requests, each with a task of its own
  None,           \* nobody holds the mutex
  WriteMayStall,  \* a write may outlast the watchdog's timeout
  CodecMayFail    \* the codec may refuse to open for a stream, or to be written

ASSUME CallersAssumption ==
  None \notin Callers /\ "watchdog" \notin Callers /\ None # "watchdog"
ASSUME FaultAssumption == WriteMayStall \in BOOLEAN /\ CodecMayFail \in BOOLEAN

VARIABLES
  created,      \* g_playback_busy is not null
  token,        \* its count: 1 when a take would succeed
  raced,        \* history: a claim has replaced the semaphore of another
  mutex,        \* the holder of g_stream_mutex
  streamOpen,   \* g_stream_open
  ampActive,    \* g_stream_amp_active
  amp,          \* the level of GPIO46
  speaker,      \* the speaker's tray icon
  codec,        \* what the codec device is open for
  timer,        \* the one-shot watchdog
  callback,     \* its callback, once dispatched
  call,         \* where each caller is in its call
  taken,        \* the last write was answered ESP_OK
  player        \* where each tone or sweep task is

streamVars == <<streamOpen, ampActive, timer, callback, call, taken, mutex>>
slotVars == <<created, token, raced>>
audioVars == <<slotVars, mutex, streamOpen, ampActive, amp, speaker, codec, timer,
               callback, call, taken, player>>

\* In claim_playback_slot: no semaphore was found, one was made, it was given its
\* token.
SeedSteps == {"seed", "made", "given"}
CallSteps == SeedSteps \cup {"none", "open", "write", "armed", "close"}
PlayerSteps ==
  SeedSteps \cup {"none", "claimed", "task", "lead", "bypassed", "loud", "drain", "end"}

AudioTypeOK ==
  /\ created \in BOOLEAN /\ token \in {0, 1} /\ raced \in BOOLEAN
  /\ mutex \in Callers \cup {"watchdog", None}
  /\ streamOpen \in BOOLEAN /\ ampActive \in BOOLEAN
  /\ amp \in {0, 1} /\ speaker \in BOOLEAN
  /\ codec \in {"closed", "tone", "stream"}
  /\ timer \in {"idle", "armed"}
  /\ callback \in {"none", "waiting", "closing"}
  /\ call \in [Callers -> CallSteps]
  /\ taken \in BOOLEAN
  /\ player \in [Players -> PlayerSteps]

AudioInit ==
  /\ created = FALSE /\ token = 0 /\ raced = FALSE /\ mutex = None
  /\ streamOpen = FALSE /\ ampActive = FALSE
  /\ amp = 0 /\ speaker = FALSE /\ codec = "closed"
  /\ timer = "idle" /\ callback = "none"
  /\ call = [c \in Callers |-> "none"]
  /\ taken = FALSE
  /\ player = [p \in Players |-> "none"]

-----------------------------------------------------------------------------
(* The playback token *)

\* Slip: the claim does not look at what the take returned.
TakeUnchecked == token' = token - 1

Take == token = 1 /\ token' = 0
Release == token' = 1            \* a give on a full binary semaphore is lost

\* claim_playback_slot, which takes no lock: a claim that finds no semaphore makes
\* one, empty, whatever another claim has made meanwhile, gives the one it finds
\* then its token, and takes.  The memory for a semaphore is there.
ClaimStep(from, to, won) ==
  \/ /\ from = "none" /\ ~created /\ to = "seed"
     /\ UNCHANGED slotVars
  \/ /\ from = "seed" /\ to = "made"
     /\ created' = TRUE /\ token' = 0 /\ raced' = (raced \/ created)
  \/ /\ from = "made" /\ to = "given"
     /\ Release /\ UNCHANGED <<created, raced>>
  \/ /\ from \in {"none", "given"} /\ created
     /\ \/ to = won /\ Take
        \/ to = "none" /\ token = 0 /\ UNCHANGED token
     /\ UNCHANGED <<created, raced>>

-----------------------------------------------------------------------------
(* Tones and sweeps *)

PlayerAt(p, from, to) == player[p] = from /\ player' = [player EXCEPT ![p] = to]

\* audio_play_tone_async, audio_play_diagnostic_sweep_async: a refused claim
\* changes nothing.
RequestTone(p) ==
  /\ \E to \in {"seed", "claimed"} :
       PlayerAt(p, "none", to) /\ ClaimStep("none", to, "claimed")
  /\ UNCHANGED <<streamVars, amp, speaker, codec>>

SeedForTone(p) ==
  /\ \E from \in SeedSteps, to \in {"made", "given", "claimed", "none"} :
       PlayerAt(p, from, to) /\ ClaimStep(from, to, "claimed")
  /\ UNCHANGED <<streamVars, amp, speaker, codec>>

StartTask(p) ==
  /\ PlayerAt(p, "claimed", "task")
  /\ UNCHANGED <<streamVars, slotVars, amp, speaker, codec>>

TaskNotCreated(p) ==
  /\ PlayerAt(p, "claimed", "none") /\ Release
  /\ UNCHANGED <<streamVars, created, raced, amp, speaker, codec>>

\* The head of audio_play_tone and of the sweep, or its failure.
OpenForTone(p) ==
  /\ \/ PlayerAt(p, "task", "lead") /\ codec' = "tone"
     \/ PlayerAt(p, "task", "end") /\ UNCHANGED codec
  /\ UNCHANGED <<streamVars, slotVars, amp, speaker>>

\* write_tone_step: the lead-in fails, or the amplifier is raised after it, or
\* the sweep runs with the amplifier bypassed.
LeadIn(p) ==
  /\ \/ PlayerAt(p, "lead", "drain") /\ UNCHANGED <<amp, speaker>>
     \/ PlayerAt(p, "lead", "bypassed") /\ UNCHANGED <<amp, speaker>>
     \/ PlayerAt(p, "lead", "loud") /\ amp' = 1 /\ speaker' = TRUE
  /\ UNCHANGED <<streamVars, slotVars, codec>>

\* Slip: a failed write leaves write_tone_step before the amplifier is dropped.
DropAmplifierUnlessFailed(p) ==
  /\ \/ PlayerAt(p, "loud", "drain") /\ speaker' = FALSE /\ amp' = 0
     \/ PlayerAt(p, "loud", "drain") /\ UNCHANGED <<speaker, amp>>
     \/ PlayerAt(p, "bypassed", "drain") /\ UNCHANGED <<speaker, amp>>
  /\ UNCHANGED <<streamVars, slotVars, codec>>

\* The tone, its trail and the drain, whichever of them fails; then the
\* amplifier drops on every path, and the icon unless it was bypassed.
DropAmplifier(p) ==
  /\ \/ PlayerAt(p, "loud", "drain") /\ speaker' = FALSE
     \/ PlayerAt(p, "bypassed", "drain") /\ UNCHANGED speaker
  /\ amp' = 0
  /\ UNCHANGED <<streamVars, slotVars, codec>>

\* The next step of a sweep, or the codec is closed.
AfterStep(p) ==
  /\ \/ PlayerAt(p, "drain", "lead") /\ UNCHANGED codec
     \/ PlayerAt(p, "drain", "end") /\ codec' = "closed"
  /\ UNCHANGED <<streamVars, slotVars, amp, speaker>>

\* The tail of tone_task and of sweep_task.
EndTask(p) ==
  /\ PlayerAt(p, "end", "none") /\ Release
  /\ UNCHANGED <<streamVars, created, raced, amp, speaker, codec>>

PlayerNext(p) ==
  \/ RequestTone(p) \/ SeedForTone(p) \/ StartTask(p) \/ TaskNotCreated(p)
  \/ OpenForTone(p) \/ LeadIn(p) \/ DropAmplifier(p) \/ AfterStep(p) \/ EndTask(p)

-----------------------------------------------------------------------------
(* The stream *)

CallAt(c, from, to) == call[c] = from /\ call' = [call EXCEPT ![c] = to]
Answer(a) == taken' = a
Arm == timer' = "armed"

\* close_stream_locked, which the caller enters with the mutex.
CloseStreamLocked ==
  IF streamOpen
  THEN /\ timer' = "idle"
       /\ IF ampActive THEN amp' = 0 /\ speaker' = FALSE
                       ELSE UNCHANGED <<amp, speaker>>
       /\ codec' = "closed"
       /\ streamOpen' = FALSE /\ ampActive' = FALSE
       /\ Release
  ELSE UNCHANGED <<timer, amp, speaker, codec, streamOpen, ampActive, token>>

\* audio_stream_open: the claim ...
CallOpen(c) ==
  /\ \E to \in {"seed", "open", "none"} :
       CallAt(c, "none", to) /\ ClaimStep("none", to, "open")
  /\ UNCHANGED <<mutex, streamOpen, ampActive, amp, speaker, codec, timer,
                 callback, taken, player>>

SeedForStream(c) ==
  /\ \E from \in SeedSteps, to \in {"made", "given", "open", "none"} :
       CallAt(c, from, to) /\ ClaimStep(from, to, "open")
  /\ UNCHANGED <<mutex, streamOpen, ampActive, amp, speaker, codec, timer,
                 callback, taken, player>>

\* Slip: the watchdog is armed by writes only.
OpenUnwatched(c) ==
  /\ mutex = None
  /\ CallAt(c, "open", "none")
  /\ codec' = "stream" /\ streamOpen' = TRUE /\ ampActive' = FALSE
  /\ UNCHANGED <<slotVars, mutex, amp, speaker, timer, callback, taken, player>>

\* ... and, under the mutex, the codec.
Open(c) ==
  /\ mutex = None
  /\ CallAt(c, "open", "none")
  /\ \/ /\ codec' = "stream" /\ streamOpen' = TRUE /\ ampActive' = FALSE
        /\ Arm
        /\ UNCHANGED token
     \/ /\ CodecMayFail /\ Release
        /\ UNCHANGED <<codec, streamOpen, ampActive, timer>>
  /\ UNCHANGED <<created, raced, mutex, amp, speaker, callback, taken, player>>

\* audio_stream_write: refused without a stream ...
CallWrite(c) ==
  /\ mutex = None
  /\ \/ /\ streamOpen /\ CallAt(c, "none", "write") /\ mutex' = c
        /\ UNCHANGED taken
     \/ /\ ~streamOpen /\ call[c] = "none" /\ Answer(FALSE)
        /\ UNCHANGED <<call, mutex>>
  /\ UNCHANGED <<slotVars, streamOpen, ampActive, amp, speaker, codec, timer,
                 callback, player>>

\* ... else the watchdog is armed again; the first chunk raises the amplifier ...
ArmInWrite(c) ==
  /\ CallAt(c, "write", "armed") /\ Arm
  /\ ampActive' = TRUE
  /\ IF ampActive THEN UNCHANGED <<amp, speaker>> ELSE amp' = 1 /\ speaker' = TRUE
  /\ UNCHANGED <<slotVars, mutex, streamOpen, codec, callback, taken, player>>

\* ... and the chunk is written, or fails and closes the stream.
FinishWrite(c) ==
  /\ CallAt(c, "armed", "none")
  /\ mutex' = None
  /\ \/ /\ Answer(TRUE)
        /\ UNCHANGED <<timer, amp, speaker, codec, streamOpen, ampActive, token>>
     \/ CodecMayFail /\ Answer(FALSE) /\ CloseStreamLocked
  /\ UNCHANGED <<created, raced, callback, player>>

\* audio_stream_close: the mutex, then the trail and the drain.
CallClose(c) ==
  /\ mutex = None
  /\ CallAt(c, "none", "close") /\ mutex' = c
  /\ UNCHANGED <<slotVars, streamOpen, ampActive, amp, speaker, codec, timer,
                 callback, taken, player>>

FinishClose(c) ==
  /\ CallAt(c, "close", "none")
  /\ mutex' = None /\ CloseStreamLocked
  /\ UNCHANGED <<created, raced, callback, taken, player>>

-----------------------------------------------------------------------------
(* The watchdog, on the timer task *)

\* Five seconds have passed since the timer was armed.
WatchdogExpires ==
  /\ timer = "armed" /\ callback = "none"
  /\ WriteMayStall \/ \A c \in Callers : call[c] # "armed"
  /\ timer' = "idle" /\ callback' = "waiting"
  /\ UNCHANGED <<slotVars, mutex, streamOpen, ampActive, amp, speaker, codec, call,
                 taken, player>>

\* stream_watchdog_fired gives up after 100 ms without the mutex.
WatchdogGivesUp ==
  /\ callback = "waiting" /\ mutex # None
  /\ callback' = "none"
  /\ UNCHANGED <<slotVars, mutex, streamOpen, ampActive, amp, speaker, codec, timer,
                 call, taken, player>>

WatchdogTakes ==
  /\ callback = "waiting" /\ mutex = None
  /\ mutex' = "watchdog" /\ callback' = "closing"
  /\ UNCHANGED <<slotVars, streamOpen, ampActive, amp, speaker, codec, timer,
                 call, taken, player>>

WatchdogCloses ==
  /\ callback = "closing"
  /\ callback' = "none" /\ mutex' = None /\ CloseStreamLocked
  /\ UNCHANGED <<created, raced, call, taken, player>>

WatchdogNext == WatchdogExpires \/ WatchdogGivesUp \/ WatchdogTakes \/ WatchdogCloses
=============================================================================
