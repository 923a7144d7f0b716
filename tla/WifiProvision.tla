--------------------------- MODULE WifiProvision ---------------------------
(***************************************************************************)
(* Wi-Fi provisioning: the state machine of components/wifi_config, the    *)
(* mutex-guarded handlers of wifi_provision.cpp that drive it, the station *)
(* and access-point flags of wifi_manager.cpp, the credentials of          *)
(* nvs_store.cpp, and the tasks that call the handlers:                    *)
(*                                                                         *)
(*   lvgl    the KEY long press, toggle_setup()                            *)
(*   httpd   the setup form, handle_credentials_saved()                    *)
(*   events  the Wi-Fi and IP event handlers                               *)
(*   timer   the connect-timeout callback on the esp_timer task            *)
(*                                                                         *)
(* The mutex of wifi_provision.cpp makes the handlers exclusive, but the   *)
(* event handler reads and writes sta_associated_ and                      *)
(* pending_reconfig_disconnect_ before it takes that mutex.  A handler     *)
(* that (re)connects is therefore two steps: up to its read of             *)
(* sta_associated_, and the rest.  The radio driver is external: an event  *)
(* queue and a link that may associate, get an address, or fail.           *)
(***************************************************************************)
EXTENDS Naturals, Sequences

CONSTANTS
    Creds,           \* credentials a user may submit
    OpenCreds,       \* those of an open network, submitted without a password
    NoCred,          \* an absent NVS key, or no form in progress
    LinkReasons,     \* the classified reasons a real disconnect may carry
    MaxRetries,      \* StateMachine::kMaxRetries
    MaxUserActions,  \* bound: long presses and forms per behaviour
    MaxPowerLosses,  \* bound: power losses per behaviour
    MaxEvents        \* bound: the driver acts only on a shorter event queue

ASSUME CredsAssumption ==
    /\ OpenCreds \subseteq Creds
    /\ NoCred \notin Creds

ASSUME ReasonsAssumption == LinkReasons \subseteq {"AuthFailure", "NotFound", "Other"}

ASSUME BoundsAssumption ==
    /\ MaxRetries \in Nat \ {0}
    /\ MaxUserActions \in Nat
    /\ MaxPowerLosses \in Nat
    /\ MaxEvents \in Nat

VARIABLES
    powered,       \* start() has run since the last reset
    sm,            \* wifi_config::StateMachine
    reason,        \* last_disconnect_reason_
    portalActive,  \* portal_active_: the HTTP server has been started
    password,      \* portal_password_: 0 when empty, else the draw it is
    draws,         \* how many passwords have been drawn since boot
    timer,         \* the one-shot connect_timeout_timer_
    callback,      \* connect_timeout_cb dispatched, waiting for the mutex
    owner,         \* the task inside a (re)connecting handler
    linkOp,        \* what that handler read from sta_associated_
    apActive,      \* wifi_manager's ap_active_
    configured,    \* the station configuration, sta_configured_ when present
    associated,    \* sta_associated_
    reconfig,      \* pending_reconfig_disconnect_
    evTask,        \* reason of the disconnect the event task is reporting
    form,          \* a form that passed the page password, not yet saved
    nvs,           \* the two NVS keys
    link,          \* the driver's station link
    events,        \* the driver's events, not yet handled
    userActions, powerLosses

machineVars == <<sm, reason>>
portalVars == <<portalActive, password, draws, apActive>>
timerVars == <<timer, callback>>
lockVars == <<owner, linkOp>>
stationVars == <<configured, associated, reconfig>>
driverVars == <<link, events>>
bounds == <<userActions, powerLosses>>
vars == <<powered, machineVars, portalVars, timerVars, lockVars, stationVars,
          evTask, form, nvs, driverVars, bounds>>

-----------------------------------------------------------------------------
\* The provisioning lifecycle, wifi_config.cpp.

States == {"Connecting", "Connected", "SetupAp"}
Reasons == {"None", "Timeout", "AuthFailure", "NotFound", "Other"}
Tasks == {"lvgl", "httpd", "events", "timer"}

Machine(hasCreds) ==
    [state |-> IF hasCreds THEN "Connecting" ELSE "SetupAp",
     retries |-> 0, hasCreds |-> hasCreds]

\* m moved to state s with r retries spent.
At(m, s, r) == [state |-> s, retries |-> r, hasCreds |-> m.hasCreds]

OnConnected(m) == At(m, "Connected", 0)

\* Slip: a failed attempt is retried without being charged.
OnDisconnectedFree(m) ==
    IF m.state = "Connected" THEN At(m, "Connecting", 0) ELSE m

OnDisconnected(m) ==
    CASE m.state = "Connecting" /\ m.retries + 1 >= MaxRetries -> At(m, "SetupAp", m.retries + 1)
      [] m.state = "Connecting" /\ m.retries + 1 < MaxRetries -> At(m, "Connecting", m.retries + 1)
      [] m.state = "Connected" -> At(m, "Connecting", 0)
      [] m.state = "SetupAp" -> m

OnSetupGesture(m) ==
    CASE m.state # "SetupAp" -> At(m, "SetupAp", m.retries)
      [] m.state = "SetupAp" /\ m.hasCreds -> At(m, "Connecting", 0)
      [] m.state = "SetupAp" /\ ~m.hasCreds -> m

OnCredentialsSaved(m) == [state |-> "Connecting", retries |-> 0, hasCreds |-> TRUE]

-----------------------------------------------------------------------------
\* The two NVS keys, nvs_store.cpp.

Stored(c) == [ssid |-> c, pass |-> IF c \in OpenCreds THEN NoCred ELSE c]

NothingStored == [ssid |-> NoCred, pass |-> NoCred]

\* Slip: the old keys are not erased first.
PartialSavesOver(n, c) ==
    {n, [ssid |-> c, pass |-> n.pass],
     [ssid |-> c, pass |-> IF c \in OpenCreds THEN n.pass ELSE c]}

\* What nvs_save leaves behind when it stops before its end: it erases the
\* ssid, then the password, then sets the ssid, then the password.
PartialSaves(n, c) ==
    {n, [ssid |-> NoCred, pass |-> n.pass], NothingStored, [ssid |-> c, pass |-> NoCred], Stored(c)}

-----------------------------------------------------------------------------
\* The driver, as wifi_manager.cpp uses it.

\* esp_wifi_connect() fails silently unless the station is idle.
Connected(l) == IF l = "idle" THEN "connecting" ELSE l

\* esp_wifi_disconnect() on a live link ends it and queues the event.
Disconnected(l, q) == IF l = "idle" THEN q ELSE Append(q, "Other")

\* connect_or_defer_until_disconnected(), after its read of sta_associated_.
ConnectOrDefer ==
    \/ /\ linkOp = "defer"
       /\ reconfig' = TRUE
       /\ link' = "idle"
       /\ events' = Disconnected(link, events)
    \/ /\ linkOp = "connect"
       /\ link' = Connected(link)
       /\ UNCHANGED <<reconfig, events>>

-----------------------------------------------------------------------------
\* apply_state_and_publish(): the timer, the access point and the portal
\* follow the machine m.

OpenSetup ==
    /\ ~portalActive
    /\ draws' = draws + 1
    /\ password' = draws + 1
    /\ apActive' = TRUE
    /\ portalActive' = TRUE

\* Slip: the access point is left on the air.
CloseSetupKeepingAp ==
    /\ password' = 0
    /\ portalActive' = TRUE
    /\ UNCHANGED <<apActive, draws>>

\* Slip: the page password outlives setup mode.
CloseSetupKeepingPassword ==
    /\ apActive' = FALSE
    /\ portalActive' = TRUE
    /\ UNCHANGED <<password, draws>>

CloseSetup ==
    /\ apActive' = FALSE
    /\ portalActive' = TRUE
    /\ password' = 0
    /\ UNCHANGED draws

\* Slip: the timeout is armed for the first attempt only.
ApplyStateArmingOnce(m) ==
    /\ timer' = IF m.state = "Connecting" /\ m.retries = 0 THEN "armed" ELSE "stopped"
    /\ \/ m.state = "SetupAp" /\ OpenSetup
       \/ m.state = "SetupAp" /\ portalActive /\ UNCHANGED portalVars
       \/ m.state = "Connected" /\ CloseSetup
       \/ m.state = "Connecting" /\ UNCHANGED portalVars

ApplyState(m) ==
    /\ timer' = IF m.state = "Connecting" THEN "armed" ELSE "stopped"
    /\ \/ m.state = "SetupAp" /\ OpenSetup
       \/ m.state = "SetupAp" /\ portalActive /\ UNCHANGED portalVars
       \/ m.state = "Connected" /\ CloseSetup
       \/ m.state = "Connecting" /\ UNCHANGED portalVars

\* What the rest of the firmware sees of setup mode, republished by every
\* handler before it gives the mutex back.
SetupData ==
    [active |-> sm.state = "SetupAp",
     connected |-> sm.state = "Connected",
     portalPassword |-> password,
     error |-> sm.state = "SetupAp" /\ reason # "None"]

\* The mutex is free.
Unlocked == powered /\ owner = "none"

\* A handler of task t has the machine at m and is about to (re)connect.
StartLinkOp(t, m) ==
    /\ sm' = m
    /\ owner' = t
    /\ linkOp' = IF associated THEN "defer" ELSE "connect"
    /\ UNCHANGED <<portalVars, timer>>

\* A handler that needs no connection applies m and returns.
ApplyAndUnlock(m) ==
    /\ sm' = m
    /\ ApplyState(m)
    /\ UNCHANGED lockVars

\* The tail of a (re)connecting handler.
FinishLinkOp ==
    /\ powered /\ owner # "none"
    /\ ConnectOrDefer
    /\ ApplyState(sm)
    /\ owner' = "none"
    /\ linkOp' = "none"
    /\ UNCHANGED <<powered, machineVars, callback, configured, associated, evTask,
                   form, nvs, bounds>>

-----------------------------------------------------------------------------
\* Handlers.

\* A KEY long press, on the LVGL thread.
ToggleSetup ==
    /\ Unlocked
    /\ userActions < MaxUserActions
    /\ userActions' = userActions + 1
    /\ reason' = "None"
    /\ LET m == OnSetupGesture(sm)
       IN  \/ m.state = "Connecting" /\ StartLinkOp("lvgl", m)
           \/ m.state # "Connecting" /\ ApplyAndUnlock(m)
    /\ UNCHANGED <<powered, callback, stationVars, evTask, form, nvs, driverVars,
                   powerLosses>>

\* root_post_handler checks the page password and the form ...
SubmitForm(c) ==
    /\ Unlocked
    /\ portalActive /\ password # 0
    /\ form = NoCred
    /\ userActions < MaxUserActions
    /\ userActions' = userActions + 1
    /\ form' = c
    /\ UNCHANGED <<powered, machineVars, portalVars, timerVars, lockVars, stationVars,
                   evTask, nvs, driverVars, powerLosses>>

\* ... and then saves, whatever became of setup mode in between.  A failed
\* save is logged and the credentials are used all the same.
SaveCredentials ==
    /\ Unlocked
    /\ form # NoCred
    /\ form' = NoCred
    /\ nvs' \in PartialSaves(nvs, form)
    /\ reason' = "None"
    /\ configured' = Stored(form)
    /\ StartLinkOp("httpd", OnCredentialsSaved(sm))
    /\ UNCHANGED <<powered, callback, associated, reconfig, evTask, driverVars, bounds>>

\* Slip: whether to record the reason is decided by the state before the event.
HandleDisconnectedByOldState(t, r) ==
    LET m == OnDisconnected(sm)
    IN  /\ reason' = IF sm.state = "SetupAp" THEN r ELSE reason
        /\ \/ m.state = "Connecting" /\ StartLinkOp(t, m)
           \/ m.state # "Connecting" /\ ApplyAndUnlock(m)

\* handle_wifi_disconnected(r), called by task t.
HandleDisconnected(t, r) ==
    LET m == OnDisconnected(sm)
    IN  \/ /\ m.state = "Connecting"
           /\ StartLinkOp(t, m)
           /\ UNCHANGED reason
        \/ /\ m.state # "Connecting"
           /\ reason' = r
           /\ ApplyAndUnlock(m)

\* The one-shot timer fires; the esp_timer task runs one callback at a time.
TimerExpires ==
    /\ powered /\ timer = "armed"
    /\ ~callback /\ owner # "timer"
    /\ timer' = "stopped"
    /\ callback' = TRUE
    /\ UNCHANGED <<powered, machineVars, portalVars, lockVars, stationVars, evTask,
                   form, nvs, driverVars, bounds>>

\* connect_timeout_cb once it has the mutex.  Stopping or re-arming the timer
\* in the meantime does not recall it.
TimeoutCallback ==
    /\ Unlocked /\ callback
    /\ callback' = FALSE
    /\ HandleDisconnected("timer", "Timeout")
    /\ UNCHANGED <<powered, stationVars, evTask, form, nvs, driverVars, bounds>>

\* The event task takes the next event off the driver's queue.
NextEvent(e) ==
    /\ powered /\ owner # "events" /\ evTask = "None"
    /\ events # <<>> /\ Head(events) = e

StationConnectedEvent ==
    /\ NextEvent("connected")
    /\ events' = Tail(events)
    /\ associated' = TRUE
    /\ UNCHANGED <<powered, machineVars, portalVars, timerVars, lockVars, configured,
                   reconfig, evTask, form, nvs, link, bounds>>

\* WIFI_EVENT_STA_DISCONNECTED up to handle_wifi_disconnected(): outside the
\* mutex, and the whole handler when the teardown was deliberate.
StationDisconnectedEvent ==
    /\ \E r \in Reasons : NextEvent(r)
    /\ events' = Tail(events)
    /\ associated' = FALSE
    /\ reconfig' = FALSE
    /\ \/ reconfig /\ link' = Connected(link) /\ UNCHANGED evTask
       \/ ~reconfig /\ evTask' = Head(events) /\ UNCHANGED link
    /\ UNCHANGED <<powered, machineVars, portalVars, timerVars, lockVars, configured,
                   form, nvs, bounds>>

ReportDisconnect ==
    /\ Unlocked /\ evTask # "None"
    /\ evTask' = "None"
    /\ HandleDisconnected("events", evTask)
    /\ UNCHANGED <<powered, callback, stationVars, form, nvs, driverVars, bounds>>

\* handle_wifi_connected()
GotIpEvent ==
    /\ Unlocked
    /\ NextEvent("gotip")
    /\ events' = Tail(events)
    /\ reason' = "None"
    /\ ApplyAndUnlock(OnConnected(sm))
    /\ UNCHANGED <<powered, callback, stationVars, evTask, form, nvs, link, bounds>>

-----------------------------------------------------------------------------
\* The driver (external) and power.

Room == Len(events) < MaxEvents

DriverStep(from, to, e) ==
    /\ powered /\ Room
    /\ link \in from
    /\ link' = to
    /\ events' = Append(events, e)
    /\ UNCHANGED <<powered, machineVars, portalVars, timerVars, lockVars, stationVars,
                   evTask, form, nvs, bounds>>

DriverAssociates == DriverStep({"connecting"}, "joined", "connected")
DriverGetsIp == DriverStep({"joined"}, "online", "gotip")
DriverFails(r) == DriverStep({"connecting", "joined", "online"}, "idle", r)

\* start(), with nothing of the last boot left but the NVS keys.
Boot ==
    /\ ~powered
    /\ powered' = TRUE
    /\ LET hasCreds == nvs.ssid # NoCred
       IN  /\ sm' = Machine(hasCreds)
           /\ configured' = IF hasCreds THEN nvs ELSE NothingStored
           /\ link' = IF hasCreds THEN "connecting" ELSE "idle"
           /\ ApplyState(Machine(hasCreds))
    /\ UNCHANGED <<reason, callback, lockVars, associated, reconfig, evTask, form, nvs,
                   events, bounds>>

\* A reset loses every variable in RAM.
Reset ==
    /\ powered
    /\ powerLosses < MaxPowerLosses
    /\ powerLosses' = powerLosses + 1
    /\ powered' = FALSE
    /\ sm' = Machine(FALSE)
    /\ reason' = "None"
    /\ portalActive' = FALSE /\ password' = 0 /\ draws' = 0 /\ apActive' = FALSE
    /\ timer' = "stopped" /\ callback' = FALSE
    /\ owner' = "none" /\ linkOp' = "none"
    /\ configured' = NothingStored /\ associated' = FALSE /\ reconfig' = FALSE
    /\ evTask' = "None" /\ form' = NoCred
    /\ link' = "idle" /\ events' = <<>>
    /\ UNCHANGED userActions

PowerLoss == Reset /\ UNCHANGED nvs

\* The power fails inside nvs_save.
PowerLossInSave ==
    /\ owner = "none" /\ form # NoCred
    /\ nvs' \in PartialSaves(nvs, form)
    /\ Reset

-----------------------------------------------------------------------------
Init ==
    /\ powered = FALSE
    /\ sm = Machine(FALSE)
    /\ reason = "None"
    /\ portalActive = FALSE /\ password = 0 /\ draws = 0 /\ apActive = FALSE
    /\ timer = "stopped" /\ callback = FALSE
    /\ owner = "none" /\ linkOp = "none"
    /\ configured = NothingStored /\ associated = FALSE /\ reconfig = FALSE
    /\ evTask = "None" /\ form = NoCred
    /\ nvs \in {NothingStored} \cup {Stored(c) : c \in Creds}
    /\ link = "idle" /\ events = <<>>
    /\ userActions = 0 /\ powerLosses = 0

Next ==
    \/ Boot \/ PowerLoss \/ PowerLossInSave
    \/ ToggleSetup \/ SaveCredentials \/ FinishLinkOp
    \/ \E c \in Creds : SubmitForm(c)
    \/ TimerExpires \/ TimeoutCallback
    \/ StationConnectedEvent \/ StationDisconnectedEvent
    \/ ReportDisconnect \/ GotIpEvent
    \/ DriverAssociates \/ DriverGetsIp
    \/ \E r \in LinkReasons : DriverFails(r)

Spec == Init /\ [][Next]_vars

\* Tasks run and an armed timer expires; neither the radio nor the user owes
\* the board anything.
Fairness ==
    /\ WF_vars(Boot) /\ WF_vars(FinishLinkOp) /\ WF_vars(SaveCredentials)
    /\ WF_vars(TimerExpires) /\ WF_vars(TimeoutCallback)
    /\ WF_vars(StationConnectedEvent) /\ WF_vars(StationDisconnectedEvent)
    /\ WF_vars(ReportDisconnect) /\ WF_vars(GotIpEvent)

FairSpec == Spec /\ Fairness

-----------------------------------------------------------------------------
Records == [ssid : Creds \cup {NoCred}, pass : Creds \cup {NoCred}]

\* Every variable keeps its type.
TypeOK ==
    /\ powered \in BOOLEAN
    /\ sm \in [state : States, retries : 0..MaxRetries, hasCreds : BOOLEAN]
    /\ reason \in Reasons
    /\ portalActive \in BOOLEAN /\ apActive \in BOOLEAN
    /\ password \in Nat /\ draws \in Nat
    /\ timer \in {"armed", "stopped"} /\ callback \in BOOLEAN
    /\ owner \in Tasks \cup {"none"} /\ linkOp \in {"none", "connect", "defer"}
    /\ configured \in Records /\ nvs \in Records
    /\ associated \in BOOLEAN /\ reconfig \in BOOLEAN
    /\ evTask \in Reasons
    /\ form \in Creds \cup {NoCred}
    /\ link \in {"idle", "connecting", "joined", "online"}
    /\ events \in Seq({"connected", "gotip"} \cup Reasons)
    /\ userActions \in 0..MaxUserActions /\ powerLosses \in 0..MaxPowerLosses

\* A connection attempt is always bounded: while the machine is Connecting,
\* the timeout is armed, or its callback is on its way to the mutex, or a
\* handler that will re-arm it holds the mutex (kConnectTimeoutUs).
AttemptIsBounded ==
    powered /\ sm.state = "Connecting" => timer = "armed" \/ callback \/ owner # "none"

\* The open access point is on the air only with a page password set, and
\* the password exists only once the server that asks for it does.
OpenApIsGated ==
    /\ apActive => password # 0
    /\ password # 0 => portalActive

\* Once the station is connected the setup form is shut: no access point, no
\* password, and the HTTP server up for a firmware push.
ConnectedShutsSetup ==
    sm.state = "Connected" => ~apActive /\ password = 0 /\ portalActive

\* Setup mode that the failures of an attempt brought about says so until
\* somebody acts, whatever stale timeouts and disconnects come in meanwhile; and
\* nothing is held against a later attempt (wifi_provision.cpp:252).  Whose
\* failure is shown is another matter: ErrorIsOfTheAttempt.
ExhaustionIsShown ==
    /\ sm.state = "SetupAp" /\ sm.hasCreds /\ sm.retries >= MaxRetries => SetupData.error
    /\ reason # "None" => SetupData.error

\* Whatever interrupted the saves, the stored password is never that of
\* another network than the stored ssid's (the erase of both keys first).
NoStalePassword ==
    nvs.ssid # NoCred =>
        nvs.pass \in {NoCred, nvs.ssid} /\ (nvs.ssid \in OpenCreds => nvs.pass = NoCred)

\* Connecting always comes to an end: with a board that stays on, every attempt reaches a
\* connection or setup mode, however silent the radio and however stale the
\* timeouts that are charged to it.
ConnectingEnds == sm.state = "Connecting" ~> sm.state # "Connecting"

-----------------------------------------------------------------------------
\* Statements of the sources that the code does not keep. No run asserts them.

\* docs/design/specs/2026-08-15-rlcd-wifi-provisioning.md:75: in SetupAp the
\* "AP + captive portal + Setup page are active", and internal.hpp:68: the page
\* password is "empty only when setup mode isn't active".
SetupModeIsServed ==
    Unlocked /\ SetupData.active => apActive /\ SetupData.portalPassword # 0

\* wifi_provision.cpp:38-40: the reason is "set only when retries are exhausted
\* and SetupAp is (re-)entered because of a real failure".
ErrorIsOfTheAttempt ==
    [][reason' \notin {"None", reason} => sm.state = "Connecting" /\ sm'.state = "SetupAp"]_vars

\* Nothing is under way: no event, no report, no handler, no timeout.
Quiet == Unlocked /\ events = <<>> /\ evTask = "None" /\ ~callback

\* wifi_provision.hpp:23: station_has_ip() is "true once the station holds an
\* IP", at least once every event of the driver has been handled.
StationHasIpIsTrue == Quiet /\ SetupData.connected => link = "online"
=============================================================================
