---------------------------- MODULE AudioBuffer ----------------------------
(***************************************************************************)
(* esp-raop-receiver/src/audio_buffer.c: the ring of decoded frames        *)
(* between the RTP thread, which writes, and the task audio_output, which  *)
(* reads a frame when its time has come and hands it to the sink.  The     *)
(* RTSP thread makes the ring at SETUP, starts it at RECORD, empties it at *)
(* FLUSH and frees it at the end of the session; an update frees it from a *)
(* task of its own while both threads go on.  The output task is made once *)
(* and lives on, and confirms through a semaphore that it is idle before   *)
(* the ring is freed under it.                                             *)
(*                                                                         *)
(* A section under the ring's mutex is one step.  What the output task     *)
(* does between its look at "running" and that section is not, nor what    *)
(* the RTP thread does between its look at the ring and the section.  A    *)
(* thread that finds the mutex gone then resets the board, and what        *)
(* follows is a behaviour from Init: here it stays where it is.            *)
(***************************************************************************)
EXTENDS Naturals, Sequences

CONSTANTS
  BUFFER_FRAMES,  \* slots of the ring; one stays empty
  MaxFrames,      \* bound: frames a sender sends
  MaxSessions     \* bound: sessions since the board started

ASSUME BufferAssumption ==
  /\ BUFFER_FRAMES \in Nat /\ BUFFER_FRAMES > 1
  /\ MaxFrames \in Nat /\ MaxSessions \in Nat

VARIABLES
  mutex, frames, \* which are allocated
  running,
  started,      \* start_time is set
  readIdx, writeIdx,
  slot,         \* the frame in each slot, 0 when its ready flag is down
  task,         \* where audio_output is; "none" until the first start
  confirmed,    \* a token is in idle_sem
  stop,         \* how far each task that frees the ring has come in audio_buffer_deinit
  update,       \* the receiver: "up", "deinit" from raop_deinit on, "gone"
  writer,       \* the RTP thread: "gone", "waits" for a packet, "plays" or "writes"
  sent,         \* frames written or dropped so far
  heard,        \* the last frame handed to the sink
  sessions      \* sessions opened

ringVars == <<readIdx, writeIdx, slot>>
lifeVars == <<mutex, frames, running, started>>
taskVars == <<task, confirmed, heard>>
rtpVars == <<writer, sent>>
freeVars == <<stop, update>>
vars == <<ringVars, lifeVars, taskVars, rtpVars, freeVars, sessions>>

Slots == 0 .. BUFFER_FRAMES - 1
Frame == 1 .. MaxFrames
After(i) == (i + 1) % BUFFER_FRAMES
Freers == {"rtsp", "updater"}
Alive == mutex /\ frames

\* The slots from readIdx up to writeIdx, and how many they are.
Filled == (writeIdx + BUFFER_FRAMES - readIdx) % BUFFER_FRAMES
InWindow(i) == (i + BUFFER_FRAMES - readIdx) % BUFFER_FRAMES < Filled
Queue == [k \in 1 .. Filled |-> slot[(readIdx + k - 1) % BUFFER_FRAMES]]

TypeOK ==
  /\ mutex \in BOOLEAN /\ frames \in BOOLEAN /\ running \in BOOLEAN /\ started \in BOOLEAN
  /\ readIdx \in Slots /\ writeIdx \in Slots
  /\ slot \in [Slots -> Frame \cup {0}]
  /\ task \in {"none", "top", "section", "sink"}
  /\ confirmed \in BOOLEAN
  /\ stop \in [Freers -> {"no", "waits", "mutex", "frames"}]
  /\ update \in {"up", "deinit", "gone"}
  /\ writer \in {"gone", "waits", "plays", "writes"}
  /\ sent \in 0 .. MaxFrames /\ sessions \in 0 .. MaxSessions
  /\ heard \in {<<>>} \cup {<<f>> : f \in Frame}

Init ==
  /\ mutex = FALSE /\ frames = FALSE /\ running = FALSE /\ started = FALSE
  /\ readIdx = 0 /\ writeIdx = 0 /\ slot = [i \in Slots |-> 0]
  /\ task = "none" /\ confirmed = FALSE
  /\ stop = [t \in Freers |-> "no"] /\ update = "up"
  /\ writer = "gone" /\ sent = 0 /\ heard = <<>>
  /\ sessions = 0

-----------------------------------------------------------------------------
(* audio_buffer_deinit, on either task: a ring that runs is stopped ... *)

BeginDeinit(t) ==
  /\ stop' = [stop EXCEPT ![t] = IF running THEN "waits" ELSE "mutex"]
  /\ running' = FALSE

\* ... until the output task confirms, or for 200 ms when the sink blocks it or another
\* task has started the ring again; ...
StopWaits(t) ==
  /\ stop[t] = "waits" /\ stop' = [stop EXCEPT ![t] = "mutex"]
  /\ confirmed \/ task = "sink" \/ running
  /\ confirmed' = FALSE
  /\ UNCHANGED <<ringVars, lifeVars, task, heard, rtpVars, update, sessions>>

\* ... then the mutex goes ...
DeleteMutex(t) ==
  /\ stop[t] = "mutex" /\ stop' = [stop EXCEPT ![t] = "frames"]
  /\ mutex' = FALSE
  /\ UNCHANGED <<ringVars, frames, running, started, taskVars, rtpVars, update, sessions>>

\* ... and the frames.  The indexes are reset by the next audio_buffer_init, and nobody
\* looks at them before it.
FreeFrames(t) ==
  /\ stop[t] = "frames" /\ stop' = [stop EXCEPT ![t] = "no"]
  /\ frames' = FALSE
  /\ readIdx' = 0 /\ writeIdx' = 0 /\ slot' = [i \in Slots |-> 0]
  /\ UNCHANGED <<mutex, running, started, taskVars, rtpVars, update, sessions>>

BufferFree(t) == StopWaits(t) \/ DeleteMutex(t) \/ FreeFrames(t)

-----------------------------------------------------------------------------
(* The RTSP thread, between requests *)

RtspMay == stop["rtsp"] = "no" /\ update # "gone"

\* SETUP: audio_buffer_init and the RTP thread, which may be refused.  A ring that is
\* there is kept; what is left of one is cleaned up, and there may be no memory for another.
BufferInit ==
  /\ RtspMay /\ writer = "gone" /\ sessions < MaxSessions
  /\ sessions' = sessions + 1 /\ writer' \in {"waits", "gone"}
  /\ IF Alive
     THEN UNCHANGED <<ringVars, lifeVars>>
     ELSE /\ task # "section"
          /\ running' = FALSE /\ started' = FALSE
          /\ readIdx' = 0 /\ writeIdx' = 0 /\ slot' = [i \in Slots |-> 0]
          /\ frames' \in BOOLEAN /\ mutex' = frames'
  /\ UNCHANGED <<taskVars, sent, freeVars>>

\* RECORD, before the sender's first packet.
BufferStart ==
  /\ RtspMay /\ Alive /\ ~running /\ writer = "waits"
  /\ running' = TRUE /\ started' = FALSE
  /\ readIdx' = 0 /\ writeIdx' = 0
  /\ task' = IF task = "none" THEN "top" ELSE task
  /\ UNCHANGED <<slot, mutex, frames, confirmed, heard, rtpVars, freeVars, sessions>>

\* Slip: a flush resets the indexes and leaves the ready flags.
BufferFlushOfIndexes ==
  /\ RtspMay /\ Alive /\ writer = "plays" /\ writer' = "waits"
  /\ readIdx' = 0 /\ writeIdx' = 0
  /\ UNCHANGED <<slot, lifeVars, taskVars, sent, freeVars, sessions>>

\* FLUSH while playing; the RTP thread then waits for its first packet again.
BufferFlush ==
  /\ RtspMay /\ Alive /\ writer = "plays"
  /\ slot' = [i \in Slots |-> 0] /\ readIdx' = 0 /\ writeIdx' = 0
  /\ writer' = "waits"
  /\ UNCHANGED <<lifeVars, taskVars, sent, freeVars, sessions>>

\* rtp_end: the RTP thread is joined, once it is done with its packet.
JoinRtp == writer \in {"waits", "plays"} /\ writer' = "gone"

\* The end of a session.
EndSession ==
  /\ RtspMay /\ JoinRtp /\ BeginDeinit("rtsp")
  /\ UNCHANGED <<ringVars, mutex, frames, started, taskVars, sent, update, sessions>>

RtspNext ==
  \/ BufferInit \/ BufferStart \/ BufferFlush \/ EndSession \/ BufferFree("rtsp")

-----------------------------------------------------------------------------
(* raop_deinit on the updating task, with the threads alive *)

Deinit ==
  /\ update = "up" /\ update' = "deinit"
  /\ BeginDeinit("updater")
  /\ UNCHANGED <<ringVars, mutex, frames, started, taskVars, rtpVars, sessions>>

\* raop_delete joins the RTSP thread and ends a session that is still there.
DeleteReceiver ==
  /\ update = "deinit" /\ stop["updater"] = "no" /\ RtspMay /\ update' = "gone"
  /\ \/ writer = "gone" /\ UNCHANGED <<stop, running, writer>>
     \/ JoinRtp /\ BeginDeinit("updater")
  /\ UNCHANGED <<ringVars, mutex, frames, started, taskVars, sent, sessions>>

UpdateNext == Deinit \/ DeleteReceiver \/ BufferFree("updater")

-----------------------------------------------------------------------------
(* The RTP thread *)

\* The first packet follows a RECORD, unless that could start nothing or an update has
\* stopped what it started.
MayPlay == running \/ ~Alive \/ stop["updater"] # "no"

\* Slip: the start time does not reach the task.
StartTimeLost ==
  /\ writer = "waits" /\ MayPlay /\ writer' = "plays"
  /\ UNCHANGED <<ringVars, lifeVars, taskVars, sent, freeVars, sessions>>

\* audio_buffer_set_start_time, at the first packet.
SetStartTime ==
  /\ writer = "waits" /\ MayPlay /\ writer' = "plays"
  /\ started' = (running \/ started)
  /\ UNCHANGED <<ringVars, mutex, frames, running, taskVars, sent, freeVars, sessions>>

\* audio_buffer_write: refused without a ring ...
WriteBegins ==
  /\ writer = "plays" /\ sent < MaxFrames
  /\ sent' = sent + 1
  /\ writer' = IF Alive THEN "writes" ELSE "plays"
  /\ UNCHANGED <<ringVars, lifeVars, taskVars, freeVars, sessions>>

\* ... else stored, or dropped after five tries at a full ring.
BufferWrite ==
  /\ writer = "writes" /\ Alive /\ writer' = "plays"
  /\ IF After(writeIdx) # readIdx
     THEN slot' = [slot EXCEPT ![writeIdx] = sent] /\ writeIdx' = After(writeIdx)
     ELSE UNCHANGED <<slot, writeIdx>>
  /\ UNCHANGED <<readIdx, lifeVars, taskVars, sent, freeVars, sessions>>

RtpNext == SetStartTime \/ WriteBegins \/ BufferWrite

-----------------------------------------------------------------------------
(* The task audio_output *)

TaskAt(from, to) == task = from /\ task' = to

\* The branch that touches neither the mutex nor the frames.
ConfirmIdle ==
  /\ ~running /\ TaskAt("top", "top")
  /\ confirmed' = TRUE
  /\ UNCHANGED <<ringVars, lifeVars, heard, rtpVars, freeVars, sessions>>

\* Running, and the start time is set: on to the section under the mutex.
Enter ==
  /\ running /\ started /\ TaskAt("top", "section")
  /\ UNCHANGED <<ringVars, lifeVars, confirmed, heard, rtpVars, freeVars, sessions>>

\* Nothing to play, or not yet.
NotYet ==
  /\ Alive /\ TaskAt("section", "top")
  /\ UNCHANGED <<ringVars, lifeVars, confirmed, heard, rtpVars, freeVars, sessions>>

\* Slip: a frame is skipped to catch up.
PlayFrameAndSkip ==
  /\ Alive /\ readIdx # writeIdx /\ slot[readIdx] # 0
  /\ TaskAt("section", "sink")
  /\ heard' = <<slot[readIdx]>>
  /\ LET skipped == IF After(readIdx) = writeIdx THEN readIdx ELSE After(readIdx)
     IN /\ slot' = [slot EXCEPT ![readIdx] = 0, ![skipped] = 0]
        /\ readIdx' = After(skipped)
  /\ UNCHANGED <<writeIdx, lifeVars, confirmed, rtpVars, freeVars, sessions>>

\* The oldest frame is due.
PlayFrame ==
  /\ Alive /\ readIdx # writeIdx /\ slot[readIdx] # 0
  /\ TaskAt("section", "sink")
  /\ heard' = <<slot[readIdx]>>
  /\ slot' = [slot EXCEPT ![readIdx] = 0] /\ readIdx' = After(readIdx)
  /\ UNCHANGED <<writeIdx, lifeVars, confirmed, rtpVars, freeVars, sessions>>

SinkReturns ==
  /\ TaskAt("sink", "top")
  /\ UNCHANGED <<ringVars, lifeVars, confirmed, heard, rtpVars, freeVars, sessions>>

OutputNext == ConfirmIdle \/ Enter \/ NotYet \/ PlayFrame \/ SinkReturns

Next == RtspNext \/ UpdateNext \/ RtpNext \/ OutputNext

\* The output task runs; a frame that waits comes due; what frees the ring goes on.
\* Nothing is assumed of the sender.
Fairness ==
  /\ WF_vars(ConfirmIdle) /\ WF_vars(Enter) /\ WF_vars(SinkReturns) /\ WF_vars(NotYet)
  /\ SF_vars(PlayFrame)
  /\ \A t \in Freers : WF_vars(BufferFree(t))

Spec == Init /\ [][Next]_vars /\ Fairness

-----------------------------------------------------------------------------
(* Properties *)

\* A slot has its ready flag up exactly when it lies between the two indexes: else
\* the reader waits at the oldest frame for ever while the writer finds the ring
\* full (audio_buffer.c, write and flush against the reader's loop).
ReadyInWindow == \A i \in Slots : (slot[i] # 0) <=> InWindow(i)

\* The sink hears the frames in the order and at most once, whatever the indexes
\* do (audio_buffer.c against FrameQueue).
AbstractQueue == INSTANCE FrameQueue WITH
  queue <- Queue, Capacity <- BUFFER_FRAMES - 1
Implements == AbstractQueue!Spec

\* A frame written is played, flushed or freed; it does not stay in the ring (the
\* reader's loop and its gates).
FrameLeaves ==
  \A f \in Frame : (\E i \in Slots : slot[i] = f) ~> (\A i \in Slots : slot[i] # f)

-----------------------------------------------------------------------------
\* Statements of the sources that the code does not keep. No run asserts them.

\* "just confirmed idle before the caller [...] frees audio_buf.mutex/frames out from
\* under it" (audio_buffer.c:496-498).  A token from an earlier idle spell ends the wait
\* of every session but the first, and an update frees what a RECORD started again.
FreedOnlyWhenIdle == ~Alive => task # "section"

\* An update frees the ring with the RTP thread alive (raop_core.c:349), which may be
\* between its look at the ring and the mutex.
FreedWithoutWriter == ~Alive => writer # "writes"
=============================================================================
