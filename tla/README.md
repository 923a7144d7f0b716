# A verification project for esp32-rlcd-standalone

The firmware of a reflective-LCD desk display: clock, weather, markets, indoor
climate and AirPlay on an ESP32-S3, provisioned over Wi-Fi and updated over the
air.  Most of what is hard in it is not on the panel.  Four tasks drive one
provisioning machine; updates are fed by three tasks and judged by a fourth
across resets; a button press answers a prompt that a network request is
waiting on; a history is kept in flash by a board that may lose power anywhere;
one codec is shared by tones, an AirPlay session and a watchdog, and an update
silences them all first.  These modules model those parts and leave the drawing
alone.

Paths below are relative to `src/`.

## 1. The system

### Parts, state and operations

| Part | State it keeps | Operations | What makes it correct |
|---|---|---|---|
| Provisioning machine and handlers (`components/wifi_config`, `wifi_provision/wifi_provision.cpp`) | state, retry counter, failure reason, page password, portal and timer flags; one mutex | `start`, `toggle_setup`, `handle_credentials_saved`, `handle_wifi_connected/disconnected`, `connect_timeout_cb` | an attempt always ends; setup mode is gated and shut when connected; the shown error is the right one |
| Wi-Fi manager (`wifi_provision/wifi_manager.cpp`) | `sta_associated_`, `pending_reconfig_disconnect_`, `ap_active_` | Wi-Fi and IP event handlers, connect now or after the disconnect | the machine's view agrees with the link |
| Credential storage (`wifi_provision/nvs_store.cpp`) | two NVS keys | save, load | no name is paired with another's password |
| Setup portal (`wifi_provision/portal.cpp`) | HTTP server of one task, restart timer | the form; `POST /ota`, `POST /ota-url`; other pages | requests are gated; one update at a time |
| Firmware session (`ota/ota_session.cpp`, `ota_prefix.cpp`, `ota_image.cpp`) | the slot being written, header bytes held back | write, finish, abort | nothing foreign reaches flash; a refusal costs nothing |
| Firmware pull (`ota/ota_pull.cpp`) | the pull slot, one download task | `start_pull` | one at a time; the slot comes free |
| Rollback and guard (`ota/ota.cpp`, `main/app_main.cpp`) | otadata | the guard task's windows and verdict, `fatal_loop` | every trial is decided; the fallback is proven |
| Confirmation (`ota/ota_confirm.cpp`) | two atomics and a binary semaphore | `request_confirm` (HTTP task), `answer_confirm` (LVGL thread) | an answer belongs to its request; the buttons come back |
| Quiesce hooks (`ota/ota_quiesce.cpp`) | two hooks, audio's then AirPlay's | run all within 500 ms | nothing plays while flash is written; the update goes on |
| History (`app_core/history.cpp`, `history_store/`, recorder in `main/app_main.cpp`) | window in RAM, 256 sectors of flash, the count that may be fitted | `init`, `record` | a restart finds the last save; no fit spans a power loss |
| Audio (`modules/audio/audio.cpp`) | playback token, stream mutex, watchdog, amplifier, codec | tone, sweep, stream open/write/close, quiesce | one sound at a time; amplifier low at rest |
| AirPlay (`modules/airplay/airplay.cpp`) | session, now-playing, saved power-save mode | RAOP events, quiesce | everything back at rest when a session ends |
| RAOP receiver (`esp-raop-receiver/src/raop.c`, `rtp.c`, `audio_buffer.c`) | the RTSP thread; the jitter buffer of the RTP thread; the ring of decoded frames and the output task | SETUP, RECORD, FLUSH, TEARDOWN, delete; packets in, frames out | what is heard follows the sender; nothing is freed under its user |
| UI (`components/ui/ui_app.cpp`, `settings_menu.cpp`, `app_core`) | current page, takeover flags, rotation, menu, snapshot mailbox, button queue | the 100 ms LVGL timer, `publish_snapshot` | one owner of the screen and of the buttons, and the panel shows it |
| Network log (`components/net_log`) | a byte ring, one TCP client, a light-sleep lock | write line, send | whole lines in order, each sent once, evictions counted |
| Battery monitor (`main/app_main.cpp`, `app_core/app_snapshot.cpp`) | two windows of readings, the cable's step and its hold, an offset | a reading a tick, a verdict every few | a step never enters a slope that is asked |
| Weather, market, release check, time, indoor | a cache per task | fetch, parse, publish | parsing, schedules; no shared control |

### How they interact

- The LVGL thread, the HTTP task, the event task and the esp_timer task all call
  the provisioning handlers, which take one mutex.  The event handler reads and
  writes two flags *before* it takes it.
- The HTTP task blocks in `request_confirm`.  The prompt reaches the panel through
  the snapshot mailbox, and the press comes back on the LVGL thread through two
  atomics and a semaphore.  Other tasks publish the same snapshot field.
- The HTTP task or a pull task feeds a `Session`, which calls the quiesce hooks of
  the modules, erases and writes the other OTA slot and hands over to the
  bootloader.  The next boot's guard decides whether the image stays.
- The quiesce hook of audio closes the stream; AirPlay's then releases the session
  on the updating task, frees the ring of frames and joins the RTSP thread, which may
  be releasing the same session, waiting for audio, or standing in a request.
- The RTSP thread makes, starts, empties and frees what the RTP thread fills and
  the output task plays into the audio stream; a watchdog on the timer task
  closes a stream that is no longer written.
- The recorder task appends to the window and saves it; `app_main` decides from the
  reset reason how much of it the runtime estimator may fit.  The battery task
  adds its readings to the slot that the recorder takes.
- Any task logs into the byte ring; one task sends it.

### What is hard

Interleavings around the mutexes and around the lock-free handshake; events
handled after the state they describe has gone; a timer callback that cannot be
recalled; power cuts inside NVS, flash and otadata writes; sessions that overlap
on one slot; tokens given before the wait they answer; sequence numbers that
wrap; readers under an eviction; a page removed from the rotation under its
index; counters at their limit.  `PROJECT.json` lists the forty that matter most
at their line under "hazards", with the properties that watch them (two are
watched by none: the code does not keep what a property would say, section 6).
Known besides those, without a property:

- `wifi_manager.cpp:84`: credentials saved during an attempt; the connect is
  refused by the busy driver and only logged.
- `portal.cpp:407`: the gate is not looked at again between password and save.
- `app_main.cpp:250`, `:1575`: `mark_valid` fails; the guard task cannot be made.
- `app_main.cpp:486`, `:508`: the offered URL is consumed before the pull has
  started; two update checks may run at once.
- `app_main.cpp:992`: the indoor task reads the history window without a lock.
- `app_main.cpp:852`: the battery adds a zero to a history slot.
- `airplay.cpp:214`: the saved power-save mode, when a SETUP fails after CONNECTED.
- `raop.c:568`: requests out of the protocol's order.
- `ota_session.cpp:64`: the order of the refusal and the quiescing.  Proved
  (`RefusalKeepsModules`), but in no run.
- `net_log.cpp:228`: the sleep lock after a failed send.
- `market_schedule.cpp:60-66`: a refresh between 08:30 and 08:35 takes the flat
  interval and lands between 09:00 and 09:05, in the warm-up the schedule avoids.

## 2. Plan

| # | Module | Composes with | Question | State |
|---|---|---|---|---|
| 1 | `WifiProvision` | portal form, NVS, driver | provisioning under interleaving and power loss | done, proved |
| 2 | `OtaUpdate` | portal, guard, bootloader | updates across resets | done, proved |
| 3 | `OtaConfirm` | UI tick, mailbox | the handshake | done, proved |
| 4 | `HistoryWindow`, `HistoryStore` | recorder | the store implements the window | done, proved |
| 5 | `AudioStream`, `AirplaySession` | quiesce hooks, RTSP thread, watchdog | one codec, one session, one update | done, proved |
| 6 | `FrameQueue`, `AudioBuffer` | RTP thread, output task | the ring implements a queue | done, proved |
| 7 | `RtpReceiver` | sender | the jitter buffer across the wrap | done, proved |
| 8 | `UiPages` | mailbox, buttons, media | one owner of screen and buttons | done, proved |
| 9 | `NetLog` | any task, one client | the ring under eviction | done, proved |
| 10 | `BatteryMonitor` | history slot | the hold covers the window | done, proved |
| 11 | release offer | menu, pull | one offer, one check, one URL | next |
| 12 | market schedule | clock | the next refresh falls in a session | after 11 |

Proofs still worth having: `HeardInOrder` of `RtpReceiver`, which needs a bound on how
far the numbers in play lie apart at any time; that
`AirplaySession` implements an abstract session; and the safety of modules 11 and 12.

## 3. The modules

### `WifiProvision`

State: the machine `sm`; the portal's `portalActive`, `password` (0 when empty, or
the number of the draw), `apActive`; the `timer` and a `callback` already on its
way; the `owner` of the mutex; the manager's `associated` and `reconfig`; the two
keys in `nvs`; and, outside the code, the driver's `link` and queue of `events`.

A handler that holds the mutex throughout is one action.  One that (re)connects is
two, because it reads `sta_associated_` and only then acts on the driver while
the event task may change the flag: `StartLinkOp` and `FinishLinkOp`.
The event task is likewise split between taking an event
(`StationDisconnectedEvent`) and reporting it under the mutex
(`ReportDisconnect`).  A timer that fires (`TimerExpires`) and its callback
(`TimeoutCallback`) are separate, since `esp_timer_stop` does not recall a
callback that has started.  `SaveCredentials` ends with `nvs` in any state that
`nvs_save` can leave when a call fails; `PowerLossInSave` is the same for a cut.

The driver is external: it accepts a connect only when idle, ends a live link on
disconnect and queues the event.

### `OtaUpdate`

A slot is a row of chunks, so that a half-finished transfer, two sessions on one
slot and a power cut leave what they leave.  The first `HeaderChunks` of them are held
back: the piece that completes the header may bring none, some or all of the others
with it.  `push`, `httpd` and `lvgl` are the
feeders: the upload on the HTTP task, and the pulls started by `POST /ota-url` and
by the settings row.  A session is `Judge` (header complete: verdict, refusal while
pending, quiesce, erase), `WriteHeader`, `WriteChunk`, `TransferFails`, `Finish`; `from`
is the chunk of the image it hands on next and `next` where in the slot that goes.  `GuardStart` and
`GuardDecide` are the two halves of `ota_guard_task`.  `Boot` is the bootloader's
choice with rollback enabled: a new image becomes pending, a pending one that comes
back without a verdict is aborted, an image that fails verification is passed over.

Images differ only in what the checks tell apart: foreign, corrupt, not starting,
not rendering, without network.

### `OtaConfirm`

Every access to `g_pending`, `g_accepted` and `g_answered` is an action, on both
sides.  `prompt` is what was published, `panel` what the LVGL tick has consumed;
`PublishOver` is any other writer of the phase.  `request`, `yesIn`, `givenIn` and
`yesFor` record history and guard nothing.

### `HistoryWindow` and `HistoryStore`

`HistoryWindow` is the promise: a window of the newest samples; a restart brings
back the last one saved, the one whose save was cut at its very end, or none.
`HistoryStore` is the code: a save is an erase and a write of the next sector,
either may fail or be cut; a cut header may keep its magic with its number written
or still all ones.  `init` picks the header with the highest number and accepts the
body only if its checksum holds, but adopts the number either way.  `Restart`
joins the cut and `init`, which only reads flash.

### `AudioStream` and `AirplaySession`

`AudioStream` is the codec's side: the `token` (`g_playback_busy`), whose semaphore is made
by the first claim in three steps that another claim may come between (`ClaimStep`;
`raced` records that one has replaced another's), the `mutex` of the stream, the amplifier's level, the one-shot `timer` of the watchdog and its
`callback` once dispatched.  Every caller of `audio_stream_open`, `_write` and `_close`
has a step in `call`, and every tone or sweep a `player` task, so that a lead-in, a
write and a close are taken apart where another task may come between.

`AirplaySession` EXTENDS it with the RTSP thread, the output task and the updating task.
`release_session` runs on two of them and is stepped in `release`; the quiescing is
stepped in `update`, from audio's hook over AirPlay's to the join of the RTSP
thread, and the 500 ms budget may skip the second hook.  The sender is a choice of
requests in the protocol's order, of pauses, and of dropping the connection.  It may
also stop in the middle of a request: the RTSP thread then stays in `reading`, because
`util.c:329` and `:363` read without a time limit, and leaves it only when the sender goes
on (`Served` and the requests have no fairness).  The RTP thread may be `lost` in the
loop of `rtp.c:583` (`LoseThread`), with `ab_mutex` held, and a request that needs the mutex or
the thread's end then stands for ever (`Stand`), as does the join of the update.

### `FrameQueue` and `AudioBuffer`

`FrameQueue` is the promise: frames leave once each and in order, a bounded number
waits, a flush loses all that wait and nothing else.  `AudioBuffer` is the ring:
`readIdx`, `writeIdx` and the ready flag of each `slot`, and which of its `mutex` and `frames`
are allocated.  A section under the ring's mutex is one step; what the output task does
between its look at `running` and that section is not, nor what the RTP thread does
between its look at the ring and the section (`WriteBegins`, `BufferWrite`).
`audio_buffer_deinit` runs on either of two tasks, stepped in `stop`: the wait for the
idle semaphore (`confirmed`, whose token may be from an earlier idle spell), then the
mutex, then the frames.  `EndSession` calls it on the RTSP thread after the RTP thread has
ended; `Deinit` calls it on the updating task while both go on (`raop_core.c:349`), and
`DeleteReceiver` again for a session that is still there.

### `RtpReceiver`

Packets have numbers without end; what the code sees of one is its 16-bit
`SeqOf`, and `seq_order` is the sign of a 16-bit difference.  `state` is WAIT, STREAM or
PLAY, the ring lies from `ab_read` to `ab_write`, and `ready` says *which* packet is in
a slot, which the code cannot know and the properties are about.  Two histories say where the properties
stop speaking, because the code stops keeping packets apart.  `overrun`: two packets of
the ring fell on one slot; the windows that `SharesSlot` looks at are those from `ab_read`
to the packet being stored.  `stale`: the "reset" after too many missing frames
(`rtp.c:608-611`) moved `ab_read` past slots that are ready and left their flags up, so
that their frames are handed on later for other numbers.  A FLUSH of a playing stream
clears the flags and ends both.  What the properties would say after a gap as well is
stated apart and violated (section 6).  A pass of
`buffer_put_packet` is its three loops: the discarding after a FLUSH, the storing,
the handing on.  The clock is a choice: a frame is late, due or early.

### `UiPages`

A tick of the LVGL timer is five parts in the order of the code: `rest` (consume
what was published), `buttons` (drain the queue), `media` (the seizure by
now-playing), `carousel`, `owners` (the update page, the Setup page, the menu).
What was published by then, the buttons and the session are inputs chosen when
the tick reads them; a dwell, a manual pause and a hold may run out in any tick
that did not begin right after they were stamped.  `RenderCurrent` is
`render_current` with its removal of pages that fail.  `screen` is the last page
rendered, for the menu with the row it marks and what that row offers.

### `NetLog`

A byte of the ring is `<<line, k>>`, so that a line cut in two, or a length read
from the middle of one, is seen for what it is.  `Log` is the sink on any task that
finds the mutex free, `LogContended` one that does not and loses its line; `pushing` is
the line whose task is in `push()`, which drops it (`DropLine`), or evicts the oldest lines
one by one (`EvictLine`) and writes it (`WriteLine`), while others log and the sender
sends.  The sender's `cursor` is a position of its own; the line it has read is in
`hand` while more is pushed, the send stalls, is retried, fails, and clients come and
replace each other.

`read_bytes` reads what lies past the end of the storage from the wrong place
(section 6), and `ReadByte` is what it does.  The text of a line that comes out wrong is
modelled.  A length prefix that comes out wrong (`MisreadPrefix`) sets `misread` and is
where the task that read it stops: from there on the code takes text for lengths,
and anything may follow.  The properties of the passing run speak of the time
before.

### `BatteryMonitor`

A tick is one action: a plausible reading enters the slope window, a step between
it and the one before starts the hold, and every few ticks, or at a step, the
reading enters the short window and the verdict is published (`Tick`).  An implausible one only counts the hold down
(`ImplausibleTick`); `missed` records that this came while a step was held.
`TakeSlot` is the recorder taking the history slot.

### Simplifications worth knowing

- Strings, HTML, parsing, HTTP status codes and logging are left out.  A form or
  an image is a member of a small set.
- The restart timer of a push elapses at any time; so do the transfer timeouts.
- Requests are modelled from the moment startup reaches the creation of the guard.
- `request_confirm`'s rejection of a second caller cannot happen: its only caller is
  the HTTP server's single task.  The lazy creation of its semaphore is part of
  `Claim`, for the same reason; audio's stream mutex and watchdog are there from the
  start, and there is memory for the semaphore of a claim.
- `mark_valid` succeeds; the guard task's creation may fail.
- Reads of a flash partition succeed; erases and writes may fail.
- `consume_published` gives up when the mailbox is locked and tries again at the
  next tick: a late `Tick`.
- `history_store::clear` has no caller, nor do the skip and pause corrections of
  `audio_buffer.c`; `RAOP_INT_TIMING` only observes.
- A codec write takes less than the watchdog's five seconds (`WriteMayStall` is
  FALSE in the runs; the steps are written, and proved, for both).
- A thread that meets a freed ring takes a null mutex, which is an assertion and a
  reset: in `AirplaySession` such a FLUSH is left out, in `AudioBuffer` the thread stays where
  it is, and what follows the reset is a behaviour from `Init`.
- In `AudioBuffer` the idle semaphore's creation succeeds, each of the two frees and
  `audio_buffer_init` is one step, and the sender does SETUP, RECORD and its packets in
  that order.
- Requests to resend are not modelled: a packet may arrive late or again, asked
  for or not.
- The renderers of Home and of the takeover pages (the update page, Setup, the menu, and
  now-playing when it seizes the screen) are assumed to succeed.  `ui_app.cpp:303-309`
  has a log line for the case that one does not, and shows nothing then; what the panel
  would show is outside `UiPages`.  Home's failure is fatal when the UI starts.
- A send that takes part of a line counts as sent, in `net_log.cpp` and here.
  Positions have 64 bits and do not wrap.  The banner is left out.
- Only a full slope window is fitted: 133 samples five seconds apart are the 660 s
  that `battery_charging_by_slope` asks for, exactly.  The percentage is a monotone
  function of the level.

## 4. What the runs check

| Run | Shows |
|---|---|
| `wifi` | `AttemptIsBounded`, `OpenApIsGated`, `ConnectedShutsSetup`, `ExhaustionIsShown`, `NoStalePassword` in every interleaving, and `ConnectingEnds` with a silent radio |
| `ota` | `FallbackIsProven`, `ImageInPlace`, `PageEndsWithUpdate`; `TrialEnds` and `PullSlotFreed` |
| `confirm` | `NoBankedAnswer`, `AcceptedInThisRequest`; `ButtonsComeBack` |
| `history` | `SavedIsFound`, `LastSaveSurvives`, `FitInWindow`, `FitAfterPowerLoss`, and that the store implements the window (`Implements`) |
| `airplay` | `OneSoundAtATime`, `AmplifierRestsLow`, `RestsWithoutSession`, `QuiescedStaysQuiet`; `AbandonedStreamEnds` and `QuiesceEnds`. The first two except the aftermath of two first claims at once, the last a thread that waits for ever (section 6) |
| `buffer` | `ReadyInWindow`, that the ring implements the queue (`Implements`), and `FrameLeaves`: no frame waits for ever |
| `rtp` | until frames share a slot or a gap leaves ready ones behind: `AtLeastOneFrame`, `FrameInPlace`, `HeardInOrder` |
| `ui` | `IndexInPages`, `OwnerIsSeen`, `RowIsAsDrawn` |
| `netlog` | until a length is misread: `LinesUpToTheEnd`, `EveryLineCounted`, `HeardWithoutGap`; `LinesArrive` |
| `battery` | `HoldCoversWindow` |
| `airplay_resume`, `rtp_hang` | where the code does not keep what its comments say (section 6) |

Every property also comes with a slip: a changed definition, such as
`ApplyStateArmingOnce` or `NoDrain`, that a plausible bug would amount to and under
which the run finds the property violated.  The slips stand next to the definition
they change and nothing else uses them.

### Bounds

- `wifi`: two networks, one of them open; a retry budget of 2 instead of the
  five of `kMaxRetries`; two user actions, one power loss, driver acting while fewer than
  two events wait.  Two networks are what a mix-up needs; a budget of 2 has a first,
  a middle and a last failure; the queue lets an event be overtaken by a
  teardown.  About 391 000 states.
- `ota`: a good image, one without network, a foreign one; three chunks of which two are
  header, three updates, one power loss.  Two updates in turn use both slots, the third
  lands on the slot of the first; the header has a boundary inside it, and the piece
  that completes it may end with it or bring the last chunk along.  About
  199 000 states.  `Corrupt`, `NoRender` and `NoStart` are empty in this instance:
  the corresponding guards are exercised through mixed slots, the guard's free
  choice of `renders`, and `fatal_loop` when startup fails for any other reason.
- `confirm`: three requests, so that an answer may be late by one or two.
- `history`: four sectors, three slots, six samples: the window fills and shifts, the
  sectors come round.  Sequence numbers end at 15, far above the count of saves, as
  2^32 is; the top value stands for erased bytes.
- `airplay`: one tone, one update, any number of sessions; the codec and the SETUP may
  fail.  One tone is what the stream can meet at the token: it admits one, and two
  first claims are a tone's and a stream's.  `RaceCombines` is FALSE in both runs: an
  update or a lost RTP thread comes only where the first claims are over and none has
  raced, because the three together have too many states.  The proofs are for both
  values; `AbandonedStreamEnds` and `QuiesceEnds` are not checked for the combination.  About
  117 000 states.
- `buffer`: a ring of four, so that it can be empty, full and wrapped with two
  frames inside; six frames, three sessions, since a stale token needs an earlier
  session and a later one; an update at any time.  About 123 000 states.
- `rtp`: sixteen sequence numbers and a ring of six, which does not divide them, as
  `buffer_frames` need not divide 65536; the first number is 12, so that the seven packets wrap;
  up to four are lost in a row, which passes the gap that resets the buffer; a
  packet is late by up to two.  A gap and a lag together stay below half of the numbers,
  as they do by far with 65536.  About 39 000 states.
- `ui`: Weather as the page that stays, now-playing as the one that may fail, two
  titles in symmetry.  About 726 000 states.
- `netlog`: a ring of eleven bytes with a prefix of two, and lines of 1, 3, 12, 2, 1
  and 4: they fit several at a time, evict one or more, wrap within prefix and
  body, and one is too long.  Two clients.  About 45 000 states, of which few are after a
  misread length: evictions, wraps and retries come before one.
- `battery`: readings 0 to 3, a window of four, a short one of two, publication every
  two ticks, a step of two: steps can be made in either direction from
  the middle, and a hold outlasts a publication.  About 61 000 states.

`CHECK_DEADLOCK FALSE` in `wifi`, `ota`, `confirm`, `history` and `buffer`: a board with
nothing to do waits, and a behaviour that has used up its bounds stops.  The others
never stop, and the runs check that.

### Fairness

Weak fairness on what the firmware's own scheduling owes: a task that can run does
run, an armed timer fires, a dispatched callback gets the mutex, a prompt times
out, a transfer goes on or times out, the guard's windows elapse, a board without
power is switched on again.  Nothing is assumed of the radio, of the user, of the
sender, or of how often the power fails beyond the bound.

Strong fairness is assumed where a step waits for something that others take and
give back time and again: `release_session` and audio's hook wait for the stream's
mutex, which FreeRTOS hands to the waiter of the highest priority; the output task
gets the ring's mutex and a frame whose time has come (`PlayFrame`); and a client
that stays connected takes what it is sent in the end (`Sent`).  The last one is an
assumption on the network, and `LinesArrive` is worth no more than it.
`rtp_hang` needs only that the RTP thread runs.  The safety-only runs (`history`,
`ui`, `battery`) need no fairness.

## 5. What is proved

All proofs are over the unbounded constants: any sets of credentials, any retry
budget, any number of requests, sectors, slots, samples, tones, ring slots, frames,
pages, lines, packets and readings.  They rest on the named assumptions of each
module, which every run evaluates.  There are eight proof modules;
`FirmwareProofs` holds those of `OtaUpdate` and `OtaConfirm`, `HistoryProofs` those of
`HistoryStore` and `BatteryMonitor`.  Every safety invariant and every action property
that a passing run checks is stated by a theorem, but for one: `HeardInOrder` is only
model-checked.

- `WifiProvisionProofs`: all five safety invariants and the types.  The
  inductive invariant adds three facts: whoever holds the mutex between its two
  steps is in Connecting (`HandlerInv`), a board without power is in its initial
  RAM state (`OffInv`), and an attempt has budget left (`BudgetInv`), which is
  what keeps the counter in range when a stale timeout is charged to it, and what makes
  a spent budget and setup mode go together in `ExhaustionIsShown`.  One lemma
  per action; those that share `StartLinkOp` and `ApplyAndUnlock` cite a lemma on it.
- `FirmwareProofs`, for `OtaUpdate`: the types, `FallbackIsProven`, `ImageInPlace`,
  `RefusalKeepsModules` and `PageEndsWithUpdate`.  `ImageInPlace` follows the two counters of a
  session: until the header is written `from` is the chunk after it, from then on the
  chunk whose place is next (`PlaceInv`), for a header and pieces of any length.  That the fallback is proven
  rests on what each slot may hold: the running one is whole (`RunningInv`); a new
  image is in the slot that sessions write and in no other (`ArmedInv`); while a
  trial lasts nothing is written (`SessionInv`); and a slot marked valid that is no
  longer proven, because a session is over it, leaves the other one valid, proven,
  newest and running (`ValidInv`, `TargetInv`).
- `FirmwareProofs`, for `OtaConfirm`: `NoBankedAnswer` and `AcceptedInThisRequest`.  The invariant
  follows the token and the yes separately (`TokenInv`, `YesInv`): each is from the
  current request except before it has been drained or cleared.
- `HistoryProofs`, for `HistoryStore` in two parts.  The counts: `FitInWindow` and
  `FitAfterPowerLoss`.  The fitted slots are all newer than the power-on if the sample
  being saved is counted among them while the save is under way (`Recent`);
  `PushFacts` says what a push does to the positions in the window.  The rotation:
  `SavedIsFound`, `LastSaveSurvives`, and that every step of the store is a step
  of `HistoryWindow` or stutters.  Sectors are ordered by their age behind the
  next one to be written; numbers fall with age, but for a torn header of
  all ones, which anchors the rotation until its sector comes round again
  (`NumbersInv`, `LastInv`, `RotationInv`).
- `AirplaySessionProofs`: the types, `OneSoundAtATime`, `AmplifierRestsLow`,
  `RestsWithoutSession` and `QuiescedStaysQuiet`, the races of the first claims and a lost
  RTP thread included.  The invariant says who has the mutex at each step (`MutexInv`),
  that until two first claims have raced the token is out exactly while one holder is
  counted (`TokenInv`, over sets of tones, with the theorems on finite cardinality; the
  claim that makes the semaphore holds the token until it gives it),
  how the phases of the three tasks fit (`PhaseInv`), and what is already back at
  rest at each step of a release (`RestInv`).
- `AudioBufferProofs`: `ReadyInWindow`, and that the ring implements `FrameQueue`, freed by
  the RTSP thread or under the threads by an update.  Remainders are out of the solver's
  reach, so lemmas first replace them by distances around the ring.  The invariant adds
  that an RTP thread that waits has written nothing and that no frame outlives the ring
  or its session (`EmptyInv`), which is what lets a start reset the indexes alone.
- `UiPagesProofs`: `OwnerIsSeen` and `RowIsAsDrawn`.  The invariant says, for each part
  of the tick, how the takeover flags relate to what was consumed and to what
  is on the panel (`UpdateInv`, `SetupInv`, `RowInv`).  `IndexInPages` has an invariant of
  its own (`PagesInv`): what each part of the tick leaves is a rotation with its index
  inside (`Rotation`).  Removing a failing page shortens the list under its index, so
  that the lemmas are about the list after each removal; the search for a page with
  something to show is an induction over the distance still to go (`Ahead`).
- `RtpReceiverProofs`: `AtLeastOneFrame` and `FrameInPlace` for any ring of at most half the
  numbers.  While no packets share a slot and no gap has left ready ones behind, the ring
  is empty with reading one ahead of writing, or the packets that are ready lie between
  the two indexes, each in the slot of its number (`Ring`, `RingInv`); of a FLUSH that
  discards for ever nothing is claimed but that nothing is ready (`Lost`).  `HeardInOrder`
  is not among the theorems: it holds only while the numbers that a late packet, a gap
  and a FLUSH bring together are fewer than half of all, and nothing in the code bounds
  that (with 8 numbers, gaps and lags of 2, TLC finds packet 1 taken for the first one
  after a FLUSH that named packet 5).
- `NetLogProofs`: `LinesUpToTheEnd`, `EveryLineCounted` and `HeardWithoutGap` for any
  capacity, any lines and any number of clients.  Every byte between the oldest and
  the newest position belongs to a frame that lies there whole, and the lines of
  the frames grow with the position (`FramesInv`).  From that: an eviction takes out one
  frame (`EvictFrames`), a write leaves the others alone (`WriteFrames`), and the cardinality of
  what is retained follows the counter (`Counted`).  The cursor and the position to rewind to stand at the
  start of a frame, behind the newest or before the oldest (`Boundary`), and the lines
  behind it are those the client has not heard (`Reached`), so that each send is of a
  later line than the one before.  All of it until a length
  is misread (`Sound`).
- `HistoryProofs`, for `BatteryMonitor`: `HoldCoversWindow`.  The hold plus the age of the last step is
  at least the window (`StepsAreHeld`).

Only model-checked: everything temporal under fairness (`ConnectingEnds`,
`TrialEnds`, `PullSlotFreed`, `ButtonsComeBack`, `AbandonedStreamEnds`, `QuiesceEnds`,
`FrameLeaves`, `LinesArrive`), which is beyond the prover, and `HeardInOrder`.

## 6. Where code and documents part

Two are runs:

- **A paused session falls silent** (`airplay_resume`, `audio.cpp:817`): a FLUSH leaves the
  stream open and unwritten, the watchdog closes it after five seconds, and every
  frame after the resume is refused until the next SETUP.
- **A FLUSH that never ends** (`rtp_hang`, `rtp.c:583`): the loop that discards old
  frames stops only at a ready one, the packet in hand is stored only after it, and
  it goes round an empty ring for ever with the mutex held.

The others are stated as definitions in the modules, TLC finds each of them
violated when it is asked, and no run asserts them:

- `SetupModeIsServed` (`wifi_provision.cpp:136`): `portal_active_` is never cleared, so a
  long press on a connected board shows the Setup page with no access point
  behind it.
- `ErrorIsOfTheAttempt` (`wifi_provision.cpp:38-40`, `:252`): the reason is said to be "set only
  when retries are exhausted and SetupAp is (re-)entered because of a real failure".  A
  disconnect or a stale timeout that arrives in setup mode, after a long press for
  instance, is recorded as well, and the page blames a network for it.
- `StationHasIpIsTrue` (`wifi_manager.cpp:123`): a GOT_IP queued behind a teardown makes
  the machine Connected with the link down.
- `ArmedSlotIntact` (`portal.cpp:557`): in the 1.5 s before the restart another session
  may rewrite the armed slot.  The image check at boot still protects the board
  (`FallbackIsProven`), the update is lost.
- `OnePull` (`ota_pull.cpp:209`): the lazily created semaphore admits two first pulls.
- `AnswerIsForThisRequest` (`ota_confirm.cpp:68`): the check and the store of
  `answer_confirm` are not one step.
- `FitSincePowerOn` (`app_main.cpp:1509`): a software restart makes all stored slots
  eligible, those from before an earlier power loss included.
- `NoTwoSounds` (`audio.cpp:637-647`, `:679`): overlapping playbacks are said to be closed off
  "by construction".  `claim_playback_slot` makes its semaphore without a lock; of two
  first claims the second may replace the first one's semaphore, and each gets a token.
- `QuiesceAlwaysEnds` (`raop.c:241`): the hooks have a budget of 500 ms between them, but
  one that has begun is not cut short.  The RTSP thread it joins may wait for ever for
  the rest of a request (`util.c:329`, `:363`), or for an RTP thread that is lost
  (`rtp.c:583`), and so does the update.
- `FreedOnlyWhenIdle` (`audio_buffer.c:494-512`): a token from an earlier idle spell ends
  the wait of every session but the first, and mutex and frames are freed under the
  output task.  An update does the same when a RECORD starts the ring again behind it.
- `FreedWithoutWriter` (`raop_core.c:349`): `raop_deinit` frees the ring before it ends the
  threads, and the RTP thread may be between its look at the ring and the mutex.
- `AtLeastOneFrameAfterGaps`, `FrameInPlaceAfterGaps`, `HeardInOrderAfterGaps` (`rtp.c:608-611`,
  `:685`): after too many missing frames the log says "reset buffer", and `ab_read` moves
  to the packet in hand; the slots it passes keep their ready flags, and
  `buffer_push_packet` hands their frames on for later numbers.  With nine packets
  instead of the run's seven TLC finds the first two violated, and with 32 numbers an old frame that is heard after a newer one.
- `PowerSaveRestored` (`airplay.cpp:203-226`): a SETUP refused after its CONNECTED is
  followed by another CONNECTED, which saves the mode that the session itself set.
- `MenuIsOnScreen` (`ui_app.cpp:758`): a prompt that comes and goes over the menu leaves a
  carousel page there while the menu still takes the buttons.
- `ClosedSessionLeaves` (`ui_app.cpp:572-577`): the page of a closed session stays on the
  panel until the dwell of Home is over.
- `WholeLines` (`net_log_ring.cpp:24`): the second copy of `read_bytes` starts at
  `storage_ + first`, where `write_bytes` (line 16) put the bytes at `storage_`.  The rest of a
  line that lies across the end of the ring comes out as other text, against
  `net_log_ring.hpp:13-15`; when the length prefix itself lies there, eviction and reading
  go on at a wrong length (`MisreadPrefix`).
- `EveryLossCounted` (`net_log.cpp:70`): the count of lost lines is "the number to surface to an
  operator - a silently truncated log is the exact failure mode this exists to
  prevent" (`net_log_ring.hpp:29-31`).  A line whose task finds the mutex taken is lost and
  counted nowhere.
- `LockOnlyWhileWatched` (`net_log.cpp:118`, `:228`): a failed send drops the client and keeps
  the sleep lock.
- `HoldCoversWindowAlways` (`app_main.cpp:734-739`): an implausible reading shortens the hold
  and does not move the window.
- `AbsentNotZero` (`app_main.cpp:852`): a battery without a reading adds a zero to the slot,
  against the comment at 547-549.
- `PluggingInKeepsLevel` (`app_main.cpp:948`): the offset is taken from an average that
  still holds readings from before the step, and the level dips.

Seen while modelling `UiPages`, without a definition: a button pressed before the
prompt is drawn is taken as its answer (`ui_app.cpp:479-481`); a BOOT drained in the
tick in which a check's answer arrives installs what was not shown; a menu opened and left
within one tick during setup leaves the carousel over the Setup page (`flicked`).

## 7. Not modelled

Most lines of the repository hold no control state.  Fonts, `ui_data.hpp`, themes and
renderers are tables and layout; ALAC, `tjpgd` and artwork are pure decoders,
vendored but for the last; display, sensor and codec drivers are register and bus
transactions of one task; the weather, market and release feeds are parsers, covered
by `tests/host`, whose tasks share nothing but the snapshot.  They make up the
greater part of the implementation, which is why the map covers about an eighth of
its lines although the components with concurrency or persistence are modelled.

Of the modelled parts, left out are: sockets, encryption and metadata of the RAOP
receiver; sample generation and volume; label repaints, the tray and the overlays
of the UI but for the redraw of now-playing; portal pages other than the form and the updates; the regression of
the runtime estimate; the ADC and the discharge curve.  The debounce filter of the
buttons is sequential and covered by `tests/host/test_button_filter.cpp`.  The release
offer and the market schedule are planned (section 2).  `PROJECT.json` lists every
component with its status.
