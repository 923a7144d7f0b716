--------------------------- MODULE AirplaySession ---------------------------
(***************************************************************************)
(* modules/airplay/airplay.cpp on the receiver in esp-raop-receiver/src:   *)
(* a session is opened by the RTSP thread at SETUP and closed by it when   *)
(* the sender tears down or the connection drops, or by a firmware update, *)
(* which quiesces audio and then AirPlay on its own task.  A session holds *)
(* the audio stream, the tray icon, Wi-Fi without power save, the panel's  *)
(* now-playing record and the RTP context; each must come back to rest.    *)
(*                                                                         *)
(* The sender is outside: it sends requests in the order of the protocol,  *)
(* pauses and resumes, and may drop the connection at any time.            *)
(***************************************************************************)
EXTENDS AudioStream

CONSTANTS
  Rtsp,           \* the task "RTSP": requests and events
  Output,         \* the task "audio_output": frames to the sink
  Updater,        \* the task that feeds a firmware write and quiesces first
  SetupMayFail,   \* rtp_init may refuse: no session key, no memory, no codec
  UpdateMayRun,   \* a firmware update may start
  ThreadMayHang,  \* the discard loop of the RTP thread may not end
  RaceCombines    \* bound: an update or a hang may also come before the first claims
                  \* of the playback token are over, or after two of them have raced

ASSUME AirplayAssumption ==
  /\ Callers = {Rtsp, Output, Updater}
  /\ Rtsp # Output /\ Rtsp # Updater /\ Output # Updater
  /\ SetupMayFail \in BOOLEAN /\ UpdateMayRun \in BOOLEAN
  /\ ThreadMayHang \in BOOLEAN
  /\ RaceCombines \in BOOLEAN

Releasers == {Rtsp, Updater}

VARIABLES
  rtsp,         \* where the RTSP thread is
  running,      \* ctx->running: the thread is to go on
  rtp,          \* ctx->rtp: the RTP context and its thread
  ring,         \* the frame ring of audio_buffer.c
  playing,      \* frames come due: RTP_PLAY, and the ring has its start time
  power,        \* the radio's power save: "on" or "off"
  savedPower,   \* g_saved_wifi_ps_mode
  icon,         \* AirPlay's tray icon
  session,      \* g_now_playing.session_open
  shown,        \* the same in the media registry, which the panel reads
  handle,       \* g_handle
  release,      \* how far release_session is, on either task
  update,       \* where the update is in its quiescing
  lost,         \* the RTP thread is in its discard loop for ever, with ab_mutex
  left          \* history: a SETUP was refused after its CONNECTED

sessionVars == <<rtsp, running, rtp, ring, playing, power, savedPower, icon,
                 session, shown, handle, release, update, lost, left>>
vars == <<audioVars, sessionVars>>

RtspSteps ==
  {"accept", "serve", "reading", "setup", "opening", "rtp", "ending", "stuck", "gone"}
UpdateSteps == {"idle", "audio", "stream", "airplay", "release", "deinit", "join",
                "cleanup", "done", "skipped"}

TypeOK ==
  /\ AudioTypeOK
  /\ rtsp \in RtspSteps /\ update \in UpdateSteps
  /\ running \in BOOLEAN /\ rtp \in BOOLEAN /\ playing \in BOOLEAN
  /\ ring \in {"none", "ready", "running"}
  /\ power \in {"on", "off"} /\ savedPower \in {"on", "off"}
  /\ icon \in BOOLEAN /\ session \in BOOLEAN /\ shown \in BOOLEAN
  /\ handle \in BOOLEAN /\ left \in BOOLEAN /\ lost \in BOOLEAN
  /\ release \in [Releasers -> {"none", "start", "closing", "clear"}]

\* airplay_init has succeeded and its quiesce hook is registered after audio's.
SessionInit ==
  /\ rtsp = "accept" /\ running = TRUE /\ rtp = FALSE
  /\ ring = "none" /\ playing = FALSE
  /\ power = "on" /\ savedPower = "on"
  /\ icon = FALSE /\ session = FALSE /\ shown = FALSE /\ handle = TRUE
  /\ release = [t \in Releasers |-> "none"]
  /\ update = "idle" /\ left = FALSE /\ lost = FALSE

Init == AudioInit /\ SessionInit

RtspAt(from, to) == rtsp = from /\ rtsp' = to
UpdateAt(from, to) == update = from /\ update' = to
FirstClaimsOver ==
  /\ created /\ ~raced
  /\ \A p \in Players : player[p] \notin SeedSteps
  /\ \A c \in Callers : call[c] \notin SeedSteps
BeginRelease(t) == release' = [release EXCEPT ![t] = "start"]

-----------------------------------------------------------------------------
(* release_session, on the RTSP thread or on the updating task *)

ReleaseStream(t) ==
  /\ release[t] = "start" /\ CallClose(t)
  /\ release' = [release EXCEPT ![t] = "closing"]
  /\ UNCHANGED <<rtsp, running, rtp, ring, playing, power, savedPower, icon,
                 session, shown, handle, update, lost, left>>

ReleaseRadioAndIcon(t) ==
  /\ release[t] = "closing" /\ call[t] = "none"
  /\ icon' = FALSE /\ power' = savedPower /\ session' = FALSE
  /\ release' = [release EXCEPT ![t] = "clear"]
  /\ UNCHANGED <<audioVars, rtsp, running, rtp, ring, playing, savedPower, shown,
                 handle, update, lost, left>>

\* Slip: the record of the session is cleared, the registry's copy is not.
ReleaseWithoutRegistry(t) ==
  /\ release[t] = "clear" /\ release' = [release EXCEPT ![t] = "none"]
  /\ UNCHANGED <<audioVars, rtsp, running, rtp, ring, playing, power, savedPower,
                 icon, session, shown, handle, update, lost, left>>

ReleaseRegistry(t) ==
  /\ release[t] = "clear"
  /\ shown' = FALSE
  /\ release' = [release EXCEPT ![t] = "none"]
  /\ UNCHANGED <<audioVars, rtsp, running, rtp, ring, playing, power, savedPower,
                 icon, session, handle, update, lost, left>>

Release_(t) == ReleaseStream(t) \/ ReleaseRadioAndIcon(t) \/ ReleaseRegistry(t)

-----------------------------------------------------------------------------
(* The RTSP thread *)

Accept ==
  /\ running /\ RtspAt("accept", "serve")
  /\ UNCHANGED <<audioVars, running, rtp, ring, playing, power, savedPower, icon,
                 session, shown, handle, release, update, lost, left>>

\* The thread has seen that it is to go on and waits for a request, 100 ms for its
\* first byte and without an end for the others.
Read ==
  /\ running /\ RtspAt("serve", "reading")
  /\ UNCHANGED <<audioVars, running, rtp, ring, playing, power, savedPower, icon,
                 session, shown, handle, release, update, lost, left>>

\* None came, or one that opens, starts and ends nothing.
Served ==
  /\ RtspAt("reading", "serve")
  /\ UNCHANGED <<audioVars, running, rtp, ring, playing, power, savedPower, icon,
                 session, shown, handle, release, update, lost, left>>

\* One that needs ab_mutex, or the end of the RTP thread: FLUSH, TEARDOWN, or the
\* connection is gone.
Stand ==
  /\ rtp /\ lost /\ RtspAt("reading", "stuck")
  /\ UNCHANGED <<audioVars, running, rtp, ring, playing, power, savedPower, icon,
                 session, shown, handle, release, update, lost, left>>

\* SETUP, as far as the event CONNECTED: the ring, the radio, the icon ...
Setup ==
  /\ ~rtp /\ RtspAt("reading", "setup")
  /\ ring' = IF ring = "none" THEN "ready" ELSE ring
  /\ savedPower' = power /\ power' = "off"
  /\ icon' = TRUE
  /\ UNCHANGED <<audioVars, running, rtp, playing, session, shown, handle, release,
                 update, lost, left>>

\* ... the stream, which may be refused ...
SetupStream ==
  /\ RtspAt("setup", "opening") /\ CallOpen(Rtsp)
  /\ UNCHANGED <<running, rtp, ring, playing, power, savedPower, icon, session,
                 shown, handle, release, update, lost, left>>

\* ... and the record the panel is to show.
SetupPublish ==
  /\ call[Rtsp] = "none" /\ RtspAt("opening", "rtp")
  /\ session' = TRUE /\ shown' = TRUE
  /\ UNCHANGED <<audioVars, running, rtp, ring, playing, power, savedPower, icon,
                 handle, release, update, lost, left>>

\* Only then is the RTP context claimed; a refusal answers 503 and closes the
\* socket, and the clean-up that follows finds no context to take down.
SetupRtp ==
  /\ \/ RtspAt("rtp", "serve") /\ rtp' = TRUE /\ UNCHANGED left
     \/ /\ SetupMayFail /\ RtspAt("rtp", "accept")
        /\ left' = TRUE /\ UNCHANGED rtp
  /\ UNCHANGED <<audioVars, running, ring, playing, power, savedPower, icon, session,
                 shown, handle, release, update, lost>>

\* RECORD: rtp_record waits for the first packet again, audio_buffer_start starts
\* a ring that is ready, and BUFFERING publishes.
Record ==
  /\ rtp /\ RtspAt("reading", "serve")
  /\ ring' = IF ring = "ready" THEN "running" ELSE ring
  /\ playing' = FALSE /\ shown' = session
  /\ UNCHANGED <<audioVars, running, rtp, power, savedPower, icon, session, handle,
                 release, update, lost, left>>

\* FLUSH while playing: rtp_flush, audio_buffer_flush and the event PAUSED.  One
\* that finds the ring freed by Deinit takes a null mutex, an assertion resets the
\* board, and what follows is a behaviour from Init.
Flush ==
  /\ rtp /\ playing /\ ring # "none" /\ RtspAt("reading", "serve")
  /\ playing' = FALSE /\ shown' = session
  /\ UNCHANGED <<audioVars, running, rtp, ring, power, savedPower, icon, session,
                 handle, release, update, lost, left>>

\* TEARDOWN, or the connection is gone: cleanup_rtsp joins the RTP thread, frees
\* the ring and reports DISCONNECTED.
EndSession ==
  /\ rtp /\ ~lost /\ RtspAt("reading", "ending")
  /\ rtp' = FALSE /\ ring' = "none" /\ playing' = FALSE
  /\ BeginRelease(Rtsp)
  /\ UNCHANGED <<audioVars, running, power, savedPower, icon, session, shown, handle,
                 update, lost, left>>

\* After TEARDOWN the connection is still served; the event STOPPED publishes
\* the record once more.
SessionEnded ==
  /\ release[Rtsp] = "none"
  /\ \/ RtspAt("ending", "serve") /\ shown' = session
     \/ RtspAt("ending", "accept") /\ UNCHANGED shown
  /\ UNCHANGED <<audioVars, running, rtp, ring, playing, power, savedPower, icon,
                 session, handle, release, update, lost, left>>

\* A connection without a session closes.
Hangup ==
  /\ ~rtp /\ RtspAt("reading", "accept")
  /\ UNCHANGED <<audioVars, running, rtp, ring, playing, power, savedPower, icon,
                 session, shown, handle, release, update, lost, left>>

\* The loop of rtsp_thread sees that it is to stop.
RtspStops ==
  /\ ~running /\ rtsp \in {"accept", "serve"} /\ rtsp' = "gone"
  /\ UNCHANGED <<audioVars, running, rtp, ring, playing, power, savedPower, icon,
                 session, shown, handle, release, update, lost, left>>

-----------------------------------------------------------------------------
(* The RTP thread and the output task *)

\* The first accepted packet: audio_buffer_set_start_time and PLAYING.
Play ==
  /\ rtp /\ ring = "running" /\ ~playing /\ ~lost
  /\ playing' = TRUE /\ shown' = session
  /\ UNCHANGED <<audioVars, rtsp, running, rtp, ring, power, savedPower, icon, session,
                 handle, release, update, lost, left>>

\* The discard loop of a stream that is not playing yet finds no frame that is new
\* enough (RtpReceiver, DiscardEnds).
LoseThread ==
  /\ ThreadMayHang /\ (RaceCombines \/ FirstClaimsOver) /\ rtp /\ ~playing
  /\ lost' = TRUE
  /\ UNCHANGED <<audioVars, rtsp, running, rtp, ring, playing, power, savedPower, icon,
                 session, shown, handle, release, update, left>>

\* feed_audio with the next frame.
Feed ==
  /\ rtp /\ playing /\ ring = "running"
  /\ CallWrite(Output)
  /\ UNCHANGED sessionVars

\* The heartbeat in feed_audio, and the events that only publish.
Heartbeat ==
  /\ rtp /\ playing /\ handle
  /\ shown' = session
  /\ UNCHANGED <<audioVars, rtsp, running, rtp, ring, playing, power, savedPower, icon,
                 session, handle, release, update, lost, left>>

-----------------------------------------------------------------------------
(* run_quiesce_hooks on the updating task *)

Quiesce ==
  /\ UpdateMayRun /\ (RaceCombines \/ FirstClaimsOver)
  /\ update \in {"idle", "done", "skipped"} /\ update' = "audio"
  /\ UNCHANGED <<audioVars, rtsp, running, rtp, ring, playing, power, savedPower, icon,
                 session, shown, handle, release, lost, left>>

\* audio's hook
QuiesceAudio ==
  /\ UpdateAt("audio", "stream") /\ CallClose(Updater)
  /\ UNCHANGED <<rtsp, running, rtp, ring, playing, power, savedPower, icon, session,
                 shown, handle, release, lost, left>>

\* AirPlay's hook, unless the budget is spent; nothing is left to do on a retry.
QuiesceAirplay ==
  /\ call[Updater] = "none"
  /\ \/ UpdateAt("stream", "skipped") /\ UNCHANGED release
     \/ UpdateAt("stream", "done") /\ ~handle /\ UNCHANGED release
     \/ UpdateAt("stream", "release") /\ handle /\ BeginRelease(Updater)
  /\ UNCHANGED <<audioVars, rtsp, running, rtp, ring, playing, power, savedPower, icon,
                 session, shown, handle, lost, left>>

\* raop_deinit frees the ring first ...
Deinit ==
  /\ release[Updater] = "none" /\ UpdateAt("release", "deinit")
  /\ ring' = "none"
  /\ UNCHANGED <<audioVars, rtsp, running, rtp, playing, power, savedPower, icon,
                 session, shown, handle, release, lost, left>>

\* Slip: the thread is joined before it is told to stop.
JoinBeforeStop ==
  /\ UpdateAt("deinit", "join")
  /\ UNCHANGED <<audioVars, rtsp, running, rtp, ring, playing, power, savedPower, icon,
                 session, shown, handle, release, lost, left>>

\* ... then raop_delete stops the RTSP thread ...
StopRtsp ==
  /\ UpdateAt("deinit", "join") /\ running' = FALSE
  /\ UNCHANGED <<audioVars, rtsp, rtp, ring, playing, power, savedPower, icon, session,
                 shown, handle, release, lost, left>>

\* Slip: a session the thread has opened since is not looked for.
CleanUpNothing ==
  /\ rtsp = "gone" /\ UpdateAt("join", "cleanup")
  /\ UNCHANGED <<audioVars, rtsp, running, rtp, ring, playing, power, savedPower, icon,
                 session, shown, handle, release, lost, left>>

\* ... waits for it, and cleans up a session that is still there, whose RTP thread
\* it joins ...
CleanUp ==
  /\ rtsp = "gone" /\ ~lost /\ UpdateAt("join", "cleanup")
  /\ rtp' = FALSE /\ playing' = FALSE
  /\ IF rtp THEN ring' = "none" /\ BeginRelease(Updater)
            ELSE UNCHANGED <<ring, release>>
  /\ UNCHANGED <<audioVars, rtsp, running, power, savedPower, icon, session, shown,
                 handle, lost, left>>

\* ... and the handle is gone.
Deinitialised ==
  /\ release[Updater] = "none" /\ UpdateAt("cleanup", "done")
  /\ handle' = FALSE
  /\ UNCHANGED <<audioVars, rtsp, running, rtp, ring, playing, power, savedPower, icon,
                 session, shown, release, lost, left>>

-----------------------------------------------------------------------------
RtspNext ==
  \/ Accept \/ Read \/ Served \/ Stand \/ Setup \/ SetupStream \/ SetupPublish \/ SetupRtp
  \/ Record \/ Flush \/ EndSession \/ SessionEnded \/ Hangup \/ RtspStops

UpdateNext ==
  \/ Quiesce \/ QuiesceAudio \/ QuiesceAirplay \/ Deinit \/ StopRtsp \/ CleanUp
  \/ Deinitialised

\* The steps of a call under way.
CallNext(c) == SeedForStream(c) \/ Open(c) \/ ArmInWrite(c) \/ FinishWrite(c) \/ FinishClose(c)

AudioStep ==
  /\ \/ \E c \in Callers : CallNext(c)
     \/ \E p \in Players : PlayerNext(p)
     \/ WatchdogNext
  /\ UNCHANGED sessionVars

Next ==
  \/ AudioStep \/ RtspNext \/ UpdateNext \/ Play \/ LoseThread \/ Feed \/ Heartbeat
  \/ \E t \in Releasers : Release_(t)

\* A task that can go on does: the scheduler is preemptive, the mutex is given
\* back after one call, and the timer task runs above all of them.  Nothing is
\* assumed of the sender, of requests for tones or of updates; so the thread that
\* waits for a request may wait for ever.
Fairness ==
  /\ \A c \in Callers : WF_vars(CallNext(c) /\ UNCHANGED sessionVars)
  /\ \A p \in Players :
       WF_vars((SeedForTone(p) \/ EndTask(p) \/ OpenForTone(p) \/ LeadIn(p) \/ DropAmplifier(p)
                \/ (AfterStep(p) /\ codec' = "closed")) /\ UNCHANGED sessionVars)
  /\ WF_vars(WatchdogNext /\ UNCHANGED sessionVars)
  /\ \A t \in Releasers : SF_vars(Release_(t))
  /\ WF_vars(SetupStream \/ SetupPublish \/ SetupRtp \/ SessionEnded \/ RtspStops)
  /\ SF_vars(QuiesceAudio)
  /\ WF_vars(QuiesceAirplay \/ Deinit \/ StopRtsp \/ CleanUp \/ Deinitialised)

Spec == Init /\ [][Next]_vars /\ Fairness

-----------------------------------------------------------------------------
(* Properties *)

StreamHolds == \/ streamOpen
               \/ \E c \in Callers : call[c] = "open"

\* The playback token is out exactly while one tone, sweep or stream has it, or
\* a claim is about to give it: no path gives it back twice, keeps it, or lets two
\* sounds share the codec (audio.cpp, claim_playback_slot against every path that
\* gives the token back).  Two first claims at once are the exception: see NoTwoSounds.
OneSoundAtATime ==
  ~raced =>
    /\ Cardinality({p \in Players : player[p] \notin {"none", "seed", "given"}})
         + Cardinality({c \in Callers : call[c] \in {"made", "open"}})
         + (IF streamOpen THEN 1 ELSE 0) + token = (IF created THEN 1 ELSE 0)
    /\ codec = "stream" <=> streamOpen

\* "Two genuinely overlapping playbacks [...] would race that bool with no
\* protection at all; this closes that off by construction" (audio.cpp:637-647).
\* The code does not keep this, and no run asserts it: two first claims can each
\* make a semaphore, give a token and take it.
NoTwoSounds ==
  Cardinality({p \in Players : player[p] \notin SeedSteps \cup {"none"}})
    + Cardinality({c \in Callers : call[c] = "open"})
    + (IF streamOpen THEN 1 ELSE 0) <= 1

\* The amplifier and the speaker's icon are on only while a tone is between its
\* lead-in and its drain or a stream is open that has been written to: every
\* failing path and the watchdog drop both (audio.cpp, write_tone_step and
\* close_stream_locked).  Two first claims at once are the exception again.
AmplifierRestsLow ==
  /\ ~raced => /\ amp = 1 => ampActive \/ \E p \in Players : player[p] = "loud"
               /\ speaker <=> amp = 1
  /\ ampActive => streamOpen

\* Whenever no session is open and none is being opened or closed, AirPlay's
\* icon is off, the radio saves power and the panel shows no session, whoever
\* ended the last one and whatever the other tasks were doing (airplay.cpp,
\* release_session against the CONNECTED handler, publish and quiesce_for_ota).
\* A SETUP that is refused after CONNECTED is the exception.
RestsWithoutSession ==
  (~rtp /\ rtsp \in {"accept", "serve", "reading", "gone"} /\ release[Updater] = "none" /\ ~left)
    => ~icon /\ power = "on" /\ ~session /\ ~shown

\* When both quiesce hooks have run, the receiver is gone for good: no thread
\* of it is left to open a stream or raise the amplifier under the flash write
\* (ota_quiesce.cpp and airplay.cpp, quiesce_for_ota).
QuiescedStaysQuiet ==
  (update = "done")
    => /\ ~handle /\ rtsp = "gone" /\ ~rtp
       /\ ~streamOpen \/ left
       /\ ~shown \/ left

\* An open stream whose writer goes away is closed by the watchdog, so that a
\* tone can play again (audio.cpp, stream_watchdog_fired).
AbandonedStreamEnds ==
  streamOpen ~> (~streamOpen \/ \E c \in Callers : call[c] = "armed")

\* An update does not wait for ever for a module to quiesce, unless the RTSP
\* thread it joins waits for ever for the rest of a request or the RTP thread is
\* lost in its discard loop (raop.c, raop_delete; util.c:329,363; rtp.c:583).
QuiesceEnds ==
  \/ <>[](rtsp = "reading")
  \/ <>lost
  \/ (update = "audio") ~> (update \in {"done", "skipped"})

\* Without the exception: the write is not to be held up by more than the budget of
\* the hooks (ota_quiesce.cpp).  The code does not keep this, and no run asserts it.
QuiesceAlwaysEnds == (update = "audio") ~> (update \in {"done", "skipped"})

\* The radio's power save, which the session turns off, is what it was before
\* once the session ends: "restored to whatever it actually was once the session
\* ends" (airplay.cpp, disable_wifi_power_save and restore_wifi_power_save). The code
\* does not keep this, and no run asserts it.
PowerSaveRestored == \A t \in Releasers : release[t] = "clear" => power = "on"

\* Once the sink has taken a frame of a session it takes the next ones: a write
\* is refused "only if a frame arrives outside the CONNECTED/DISCONNECTED bracket"
\* (airplay.cpp, the comment on feed_audio).
FramesInSessionAreTaken ==
  [][(session /\ session' /\ taken) => taken']_vars
=============================================================================
