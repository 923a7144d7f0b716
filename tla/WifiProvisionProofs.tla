------------------------ MODULE WifiProvisionProofs ------------------------
(***************************************************************************)
(* The safety invariants of WifiProvision, proved for any set of           *)
(* credentials, any retry budget and any bounds.                           *)
(***************************************************************************)
EXTENDS WifiProvision, SequenceTheorems, TLAPS

\* A handler stops half-way only in order to (re)connect, so what it will
\* apply is Connecting; a board without power has forgotten everything; the
\* budget is never used up outside setup mode.
HandlerInv == owner # "none" => powered /\ sm.state = "Connecting" /\ linkOp # "none"
OffInv == ~powered => sm.state = "SetupAp" /\ reason = "None" /\ ~portalActive
BudgetInv == sm.state # "SetupAp" => sm.retries < MaxRetries

IInv ==
    /\ TypeOK
    /\ HandlerInv
    /\ OffInv
    /\ BudgetInv
    /\ AttemptIsBounded
    /\ OpenApIsGated
    /\ ConnectedShutsSetup
    /\ ExhaustionIsShown
    /\ NoStalePassword

Machines == [state : States, retries : 0..MaxRetries, hasCreds : BOOLEAN]

-----------------------------------------------------------------------------
\* Every event of the machine keeps it well typed, and leaves no attempt
\* without budget (wifi_config.cpp:147-191).
LEMMA MachineSteps ==
    ASSUME NEW m \in Machines, m.state # "SetupAp" => m.retries < MaxRetries
    PROVE  /\ OnConnected(m) \in Machines /\ OnConnected(m).state = "Connected"
           /\ OnConnected(m).retries < MaxRetries
           /\ OnDisconnected(m) \in Machines
           /\ OnDisconnected(m).state = "Connecting" => OnDisconnected(m).retries < MaxRetries
           /\ OnDisconnected(m).state # "Connected"
           /\ OnSetupGesture(m) \in Machines
           /\ OnSetupGesture(m).state = "Connecting" => OnSetupGesture(m).retries < MaxRetries
           /\ OnSetupGesture(m).state # "Connected"
           /\ OnSetupGesture(m).state = "SetupAp" /\ OnSetupGesture(m).hasCreds
                => OnSetupGesture(m).retries < MaxRetries
           /\ OnCredentialsSaved(m) \in Machines
           /\ OnCredentialsSaved(m).state = "Connecting"
           /\ OnCredentialsSaved(m).retries < MaxRetries
<1>1. /\ OnConnected(m) \in Machines /\ OnConnected(m).state = "Connected"
      /\ OnConnected(m).retries < MaxRetries
      /\ OnCredentialsSaved(m) \in Machines
      /\ OnCredentialsSaved(m).state = "Connecting" /\ OnCredentialsSaved(m).retries < MaxRetries
  BY BoundsAssumption DEF Machines, States, At, OnConnected, OnCredentialsSaved
<1>2. /\ OnSetupGesture(m) \in Machines
      /\ OnSetupGesture(m).state = "Connecting" => OnSetupGesture(m).retries < MaxRetries
      /\ OnSetupGesture(m).state # "Connected"
      /\ OnSetupGesture(m).state = "SetupAp" /\ OnSetupGesture(m).hasCreds
           => OnSetupGesture(m).retries < MaxRetries
  BY BoundsAssumption DEF Machines, States, At, OnSetupGesture
<1>3. /\ OnDisconnected(m) \in Machines
      /\ OnDisconnected(m).state = "Connecting" => OnDisconnected(m).retries < MaxRetries
      /\ OnDisconnected(m).state # "Connected"
  BY BoundsAssumption DEF Machines, States, At, OnDisconnected
<1>4. QED
  BY <1>1, <1>2, <1>3

\* Whatever a save leaves behind keeps the passwords apart
\* (nvs_store.cpp:54-83).
LEMMA SavesKeepPasswordsApart ==
    ASSUME NEW n \in Records, NEW c \in Creds, NEW p \in PartialSaves(n, c),
           n.ssid # NoCred => /\ n.pass \in {NoCred, n.ssid}
                              /\ n.ssid \in OpenCreds => n.pass = NoCred
    PROVE  /\ p \in Records
           /\ p.ssid # NoCred => /\ p.pass \in {NoCred, p.ssid}
                                 /\ p.ssid \in OpenCreds => p.pass = NoCred
<1>1. \/ p = n \/ p = [ssid |-> NoCred, pass |-> n.pass]
      \/ p = [ssid |-> NoCred, pass |-> NoCred]
      \/ p = [ssid |-> c, pass |-> NoCred]
      \/ p = [ssid |-> c, pass |-> IF c \in OpenCreds THEN NoCred ELSE c]
  BY DEF PartialSaves, NothingStored, Stored
<1>2. QED
  BY <1>1, CredsAssumption DEF Records

\* What a handler's (re)connection sets up.
LEMMA StartLinkOpStep ==
    ASSUME IInv, powered, NEW t \in Tasks, NEW m \in Machines,
           m.state = "Connecting", m.retries < MaxRetries, StartLinkOp(t, m)
    PROVE  /\ sm' \in Machines /\ sm'.state = "Connecting" /\ sm'.retries < MaxRetries
           /\ owner' \in Tasks /\ owner' # "none" /\ linkOp' \in {"connect", "defer"}
           /\ UNCHANGED <<portalActive, password, draws, apActive, timer>>
BY DEF StartLinkOp, Tasks, portalVars

\* What apply_state_and_publish establishes for the state it applies.
LEMMA ApplyStateStep ==
    ASSUME IInv, NEW m \in Machines, ApplyState(m)
    PROVE  /\ timer' \in {"armed", "stopped"}
           /\ m.state = "Connecting" => timer' = "armed"
           /\ portalActive' \in BOOLEAN /\ apActive' \in BOOLEAN
           /\ password' \in Nat /\ draws' \in Nat
           /\ apActive' => password' # 0
           /\ password' # 0 => portalActive'
           /\ m.state = "Connected" => ~apActive' /\ password' = 0 /\ portalActive'
<1>1. /\ timer' \in {"armed", "stopped"}
      /\ m.state = "Connecting" => timer' = "armed"
  BY DEF ApplyState
<1>2. CASE m.state = "SetupAp" /\ OpenSetup
  BY <1>1, <1>2 DEF IInv, TypeOK, OpenSetup
<1>3. CASE m.state = "Connected" /\ CloseSetup
  BY <1>1, <1>3 DEF IInv, TypeOK, CloseSetup
<1>4. CASE m.state # "Connected" /\ UNCHANGED portalVars
  BY <1>1, <1>4 DEF IInv, TypeOK, OpenApIsGated, portalVars
<1>5. QED
  BY <1>2, <1>3, <1>4 DEF ApplyState

-----------------------------------------------------------------------------
LEMMA BootMachine ==
    ASSUME NEW b \in BOOLEAN
    PROVE  /\ Machine(b) \in Machines
           /\ Machine(b).state = (IF b THEN "Connecting" ELSE "SetupAp")
           /\ Machine(b).retries = 0
<1>1. CASE b
  BY <1>1, BoundsAssumption DEF Machine, Machines, States
<1>2. CASE ~b
  BY <1>2, BoundsAssumption DEF Machine, Machines, States
<1>3. QED
  BY <1>1, <1>2

\* The boot state satisfies the inductive invariant.
LEMMA InitInv == Init => IInv
<1> SUFFICES ASSUME Init PROVE IInv
  OBVIOUS
<1>1. NothingStored \in Records /\ \A c \in Creds : Stored(c) \in Records
  BY DEF NothingStored, Stored, Records
<1>2. TypeOK
  <2>1. Machine(FALSE) \in Machines
    BY BootMachine
  <2>2. <<>> \in Seq({"connected", "gotip"} \cup Reasons)
    BY EmptySeq
  <2>3. nvs \in Records /\ configured \in Records
    BY <1>1 DEF Init
  <2>4. userActions \in 0..MaxUserActions /\ powerLosses \in 0..MaxPowerLosses
    BY BoundsAssumption DEF Init
  <2>5. sm \in Machines /\ events \in Seq({"connected", "gotip"} \cup Reasons)
    BY <2>1, <2>2 DEF Init
  <2>6. QED
    BY <2>3, <2>4, <2>5 DEF Init, TypeOK, Machines, Reasons
<1>3. NoStalePassword
  BY CredsAssumption DEF Init, NoStalePassword, NothingStored, Stored
<1>4. QED
  BY <1>2, <1>3 DEF Init, IInv, HandlerInv, OffInv, BudgetInv, AttemptIsBounded,
     OpenApIsGated, ConnectedShutsSetup, ExhaustionIsShown, Machine

-----------------------------------------------------------------------------
\* The parts of the invariant that the machine, the portal and the lock share.
MachinePart ==
    /\ HandlerInv /\ OffInv /\ BudgetInv
    /\ AttemptIsBounded /\ OpenApIsGated /\ ConnectedShutsSetup /\ ExhaustionIsShown

Parts == TypeOK /\ MachinePart /\ NoStalePassword

LEMMA PartsAreIInv == /\ IInv <=> Parts
                      /\ IInv' <=> Parts'
BY DEF IInv, Parts, MachinePart

\* Steps that touch neither the machine, the portal, the timer nor the lock.
LEMMA MachinePartUnchanged ==
    ASSUME MachinePart, UNCHANGED <<powered, machineVars, portalVars, timerVars, lockVars>>
    PROVE  MachinePart'
BY DEF MachinePart, HandlerInv, OffInv, BudgetInv, AttemptIsBounded, OpenApIsGated,
   ConnectedShutsSetup, ExhaustionIsShown, SetupData, machineVars, portalVars, timerVars,
   lockVars

\* A handler that starts to (re)connect.
LEMMA StartLinkOpInv ==
    ASSUME IInv, powered, owner = "none", UNCHANGED powered, NEW t \in Tasks,
           NEW m \in Machines, m.state = "Connecting", m.retries < MaxRetries,
           StartLinkOp(t, m), reason' = "None", callback' \in BOOLEAN
    PROVE  MachinePart'
<1>1. /\ sm' \in Machines /\ sm'.state = "Connecting" /\ sm'.retries < MaxRetries
      /\ owner' \in Tasks /\ owner' # "none" /\ linkOp' \in {"connect", "defer"}
      /\ UNCHANGED <<portalActive, password, draws, apActive, timer>>
  BY StartLinkOpStep
<1>2. QED
  BY <1>1 DEF IInv, MachinePart, HandlerInv, OffInv, BudgetInv, AttemptIsBounded,
     OpenApIsGated, ConnectedShutsSetup, ExhaustionIsShown

\* A handler that applies its state and returns.
LEMMA ApplyAndUnlockInv ==
    ASSUME IInv, powered, owner = "none", UNCHANGED powered, NEW m \in Machines,
           m.state # "SetupAp" => m.retries < MaxRetries,
           ApplyAndUnlock(m), m.state = "SetupAp" \/ reason' = "None",
           m.state = "SetupAp" /\ m.hasCreds /\ m.retries >= MaxRetries => reason' # "None",
           callback' \in BOOLEAN
    PROVE  MachinePart'
<1>1. /\ timer' \in {"armed", "stopped"}
      /\ m.state = "Connecting" => timer' = "armed"
      /\ apActive' => password' # 0
      /\ password' # 0 => portalActive'
      /\ m.state = "Connected" => ~apActive' /\ password' = 0 /\ portalActive'
  BY ApplyStateStep DEF ApplyAndUnlock
<1>2. sm' = m /\ UNCHANGED <<owner, linkOp>>
  BY DEF ApplyAndUnlock, lockVars
<1>3. QED
  BY <1>1, <1>2 DEF MachinePart, HandlerInv, OffInv, BudgetInv, AttemptIsBounded,
     OpenApIsGated, ConnectedShutsSetup, ExhaustionIsShown, SetupData

\* The types of what a handler that (re)connects or applies leaves behind.
LEMMA HandlerTypes ==
    ASSUME IInv, powered, NEW t \in Tasks, NEW m \in Machines,
           \/ /\ m.state = "Connecting" /\ m.retries < MaxRetries
              /\ StartLinkOp(t, m)
           \/ ApplyAndUnlock(m)
    PROVE  /\ sm' \in Machines
           /\ portalActive' \in BOOLEAN /\ apActive' \in BOOLEAN
           /\ password' \in Nat /\ draws' \in Nat
           /\ timer' \in {"armed", "stopped"}
           /\ owner' \in Tasks \cup {"none"}
           /\ linkOp' \in {"none", "connect", "defer"}
<1>1. CASE m.state = "Connecting" /\ m.retries < MaxRetries /\ StartLinkOp(t, m)
  <2>1. /\ sm' \in Machines /\ owner' \in Tasks /\ linkOp' \in {"connect", "defer"}
        /\ UNCHANGED <<portalActive, password, draws, apActive, timer>>
    BY <1>1, StartLinkOpStep
  <2>2. QED
    BY <2>1 DEF IInv, TypeOK
<1>2. CASE ApplyAndUnlock(m)
  <2>1. /\ timer' \in {"armed", "stopped"}
        /\ portalActive' \in BOOLEAN /\ apActive' \in BOOLEAN
        /\ password' \in Nat /\ draws' \in Nat
    BY <1>2, ApplyStateStep DEF ApplyAndUnlock
  <2>2. sm' = m /\ UNCHANGED <<owner, linkOp>>
    BY <1>2 DEF ApplyAndUnlock, lockVars
  <2>3. QED
    BY <2>1, <2>2 DEF IInv, TypeOK
<1>3. QED
  BY <1>1, <1>2

\* handle_wifi_disconnected, whichever task calls it.
LEMMA HandleDisconnectedInv ==
    ASSUME IInv, Unlocked, UNCHANGED powered, callback' \in BOOLEAN,
           NEW t \in Tasks, NEW r \in Reasons \ {"None"}, HandleDisconnected(t, r)
    PROVE  /\ MachinePart'
           /\ reason' \in Reasons
           /\ sm' \in Machines
           /\ portalActive' \in BOOLEAN /\ apActive' \in BOOLEAN
           /\ password' \in Nat /\ draws' \in Nat
           /\ timer' \in {"armed", "stopped"}
           /\ owner' \in Tasks \cup {"none"}
           /\ linkOp' \in {"none", "connect", "defer"}
<1> DEFINE m == OnDisconnected(sm)
<1>1. sm \in Machines /\ (sm.state # "SetupAp" => sm.retries < MaxRetries)
  BY DEF IInv, TypeOK, Machines, BudgetInv
<1>2. /\ m \in Machines /\ m.state # "Connected"
      /\ m.state = "Connecting" => m.retries < MaxRetries
  BY <1>1, MachineSteps
<1>3. powered /\ owner = "none"
  BY DEF Unlocked
<1>4. CASE m.state = "Connecting" /\ StartLinkOp(t, m) /\ UNCHANGED reason
  <2>1. sm.state # "SetupAp"
    BY <1>1, <1>4 DEF OnDisconnected
  <2>2. reason' = "None"
    BY <1>4, <2>1 DEF IInv, ExhaustionIsShown, SetupData
  <2>3. QED
    BY <1>2, <1>3, <1>4, <2>2, StartLinkOpInv, HandlerTypes DEF Reasons
<1>5. CASE m.state # "Connecting" /\ reason' = r /\ ApplyAndUnlock(m)
  <2>1. m.state = "SetupAp"
    BY <1>2, <1>5 DEF Machines, States
  <2>2. QED
    BY <1>2, <1>3, <1>5, <2>1, ApplyAndUnlockInv, HandlerTypes
<1>6. QED
  BY <1>4, <1>5 DEF HandleDisconnected

-----------------------------------------------------------------------------
EventSet == {"connected", "gotip"} \cup Reasons

\* The queue of the driver stays a queue of events.
LEMMA QueueTypes ==
    ASSUME TypeOK
    PROVE  /\ events \in Seq(EventSet)
           /\ events # <<>> => Head(events) \in EventSet /\ Tail(events) \in Seq(EventSet)
           /\ \A e \in EventSet : Append(events, e) \in Seq(EventSet)
           /\ Disconnected(link, events) \in Seq(EventSet)
           /\ Connected(link) \in {"idle", "connecting", "joined", "online"}
<1>1. events \in Seq(EventSet)
  BY DEF TypeOK, EventSet
<1>2. events # <<>> => Head(events) \in EventSet /\ Tail(events) \in Seq(EventSet)
  BY <1>1, HeadTailProperties
<1>3. \A e \in EventSet : Append(events, e) \in Seq(EventSet)
  BY <1>1, AppendProperties
<1>4. "Other" \in EventSet
  BY DEF EventSet, Reasons
<1>5. QED
  BY <1>1, <1>2, <1>3, <1>4 DEF Disconnected, Connected, TypeOK

\* start(): the machine starts afresh and its state is applied.
LEMMA BootInv == IInv /\ Boot => Parts'
<1> SUFFICES ASSUME IInv, Boot PROVE Parts'
  OBVIOUS
<1> DEFINE b == nvs.ssid # NoCred
           m == Machine(b)
<1>1. b \in BOOLEAN /\ m \in Machines /\ m.retries = 0
      /\ m.state = (IF b THEN "Connecting" ELSE "SetupAp")
  BY BootMachine
<1>2. ApplyState(m) /\ sm' = m
  BY DEF Boot
<1> HIDE DEF m
<1>3. /\ timer' \in {"armed", "stopped"} /\ (m.state = "Connecting" => timer' = "armed")
      /\ portalActive' \in BOOLEAN /\ apActive' \in BOOLEAN
      /\ password' \in Nat /\ draws' \in Nat
      /\ apActive' => password' # 0
      /\ password' # 0 => portalActive'
  BY <1>1, <1>2, ApplyStateStep
<1>4. /\ powered' /\ configured' \in {nvs, NothingStored} /\ link' \in {"connecting", "idle"}
      /\ UNCHANGED <<reason, callback, owner, linkOp, associated, reconfig, evTask, form,
                     nvs, events, userActions, powerLosses>>
  BY DEF Boot, lockVars, bounds
<1>5. NothingStored \in Records
  BY DEF NothingStored, Records
<1>6. configured' \in Records
  BY <1>4, <1>5 DEF IInv, TypeOK
<1>7. reason = "None" /\ owner = "none"
  BY DEF IInv, OffInv, HandlerInv, Boot
<1>8. TypeOK'
  BY <1>1, <1>2, <1>3, <1>4, <1>6 DEF IInv, TypeOK, Machines
<1>9. MachinePart'
  BY <1>1, <1>2, <1>3, <1>4, <1>7, BoundsAssumption DEF MachinePart, HandlerInv, OffInv, BudgetInv,
     AttemptIsBounded, OpenApIsGated, ConnectedShutsSetup, ExhaustionIsShown
<1>10. NoStalePassword'
  BY <1>4 DEF IInv, NoStalePassword
<1>11. QED
  BY <1>8, <1>9, <1>10 DEF Parts

\* A reset leaves a board without power, whatever the NVS keys hold.
LEMMA ResetInv ==
    ASSUME IInv, Reset, nvs' \in Records, NoStalePassword'
    PROVE  Parts'
<1>1. Machine(FALSE) \in Machines /\ Machine(FALSE).state = "SetupAp"
      /\ Machine(FALSE).retries = 0
  BY BootMachine
<1>2. NothingStored \in Records
  BY DEF NothingStored, Records
<1>3. <<>> \in Seq(EventSet)
  BY EmptySeq
<1>4. userActions' \in 0..MaxUserActions /\ powerLosses' \in 0..MaxPowerLosses
  BY BoundsAssumption DEF IInv, TypeOK, Reset
<1>5. sm' \in Machines /\ sm'.state = "SetupAp" /\ sm'.retries = 0 /\ configured' \in Records
      /\ events' \in Seq(EventSet)
  BY <1>1, <1>2, <1>3 DEF Reset
<1>6. TypeOK'
  BY <1>4, <1>5 DEF Reset, TypeOK, Machines, Reasons, EventSet
<1>7. MachinePart'
  <2>1. ~(sm'.retries >= MaxRetries)
    BY <1>5, BoundsAssumption
  <2>2. reason' = "None" /\ ~powered' /\ owner' = "none"
        /\ ~portalActive' /\ password' = 0 /\ ~apActive'
    BY Zenon DEF Reset
  <2>3. QED
    BY <1>5, <2>1, <2>2 DEF MachinePart, HandlerInv, OffInv, BudgetInv, AttemptIsBounded,
       OpenApIsGated, ConnectedShutsSetup, ExhaustionIsShown
<1>8. QED
  BY <1>6, <1>7 DEF Parts

LEMMA PowerLossInv == IInv /\ (PowerLoss \/ PowerLossInSave) => Parts'
<1> SUFFICES ASSUME IInv, PowerLoss \/ PowerLossInSave PROVE Parts'
  OBVIOUS
<1>1. CASE PowerLoss
  <2>1. nvs' \in Records /\ NoStalePassword'
    BY <1>1 DEF PowerLoss, IInv, TypeOK, NoStalePassword
  <2>2. QED
    BY <1>1, <2>1, ResetInv DEF PowerLoss
<1>2. CASE PowerLossInSave
  <2>1. form \in Creds /\ nvs \in Records /\ nvs' \in PartialSaves(nvs, form)
    BY <1>2 DEF PowerLossInSave, IInv, TypeOK
  <2>2. nvs' \in Records /\ NoStalePassword'
    BY <2>1, SavesKeepPasswordsApart DEF IInv, NoStalePassword
  <2>3. QED
    BY <1>2, <2>2, ResetInv DEF PowerLossInSave
<1>3. QED
  BY <1>1, <1>2

-----------------------------------------------------------------------------
\* The handlers that take the mutex.  Each leaves the types in order
\* (HandlerTypes) and the shared parts standing (StartLinkOpInv,
\* ApplyAndUnlockInv).
LEMMA ToggleSetupInv == IInv /\ ToggleSetup => Parts'
<1> SUFFICES ASSUME IInv, ToggleSetup PROVE Parts'
  OBVIOUS
<1> DEFINE m == OnSetupGesture(sm)
<1>1. sm \in Machines /\ (sm.state # "SetupAp" => sm.retries < MaxRetries)
  BY DEF IInv, TypeOK, Machines, BudgetInv
<1>2. /\ m \in Machines /\ m.state # "Connected"
      /\ m.state = "Connecting" \/ m.hasCreds => m.retries < MaxRetries
  BY <1>1, MachineSteps DEF Machines, States
<1>3. /\ powered /\ owner = "none" /\ UNCHANGED powered
      /\ reason' = "None" /\ callback' \in BOOLEAN
      /\ \/ m.state = "Connecting" /\ StartLinkOp("lvgl", m)
         \/ m.state # "Connecting" /\ ApplyAndUnlock(m)
  BY DEF ToggleSetup, Unlocked, IInv, TypeOK
<1> HIDE DEF m
<1>4. "lvgl" \in Tasks
  BY DEF Tasks
<1>5. MachinePart'
  <2>1. m.state # "SetupAp" => m.retries < MaxRetries
    BY <1>2 DEF Machines, States
  <2>2. m.state = "SetupAp" /\ m.hasCreds => m.retries < MaxRetries /\ m.retries \in Nat
    BY <1>2 DEF Machines
  <2>3. CASE m.state = "Connecting" /\ StartLinkOp("lvgl", m)
    BY <1>2, <1>3, <1>4, <2>3, StartLinkOpInv
  <2>4. CASE m.state # "Connecting" /\ ApplyAndUnlock(m)
    BY <1>2, <1>3, <2>1, <2>2, <2>4, BoundsAssumption, ApplyAndUnlockInv
  <2>5. QED
    BY <1>3, <2>3, <2>4
<1>6. /\ sm' \in Machines
      /\ portalActive' \in BOOLEAN /\ apActive' \in BOOLEAN
      /\ password' \in Nat /\ draws' \in Nat
      /\ timer' \in {"armed", "stopped"}
      /\ owner' \in Tasks \cup {"none"}
      /\ linkOp' \in {"none", "connect", "defer"}
  BY <1>2, <1>3, <1>4, HandlerTypes
<1>7. userActions' \in 0..MaxUserActions
  BY BoundsAssumption DEF ToggleSetup, IInv, TypeOK
<1>8. TypeOK'
  BY <1>3, <1>6, <1>7 DEF ToggleSetup, IInv, TypeOK, Machines, Reasons, stationVars, driverVars
<1>9. NoStalePassword'
  BY DEF ToggleSetup, IInv, NoStalePassword
<1>10. QED
  BY <1>5, <1>8, <1>9 DEF Parts

LEMMA SaveCredentialsInv == IInv /\ SaveCredentials => Parts'
<1> SUFFICES ASSUME IInv, SaveCredentials PROVE Parts'
  OBVIOUS
<1> DEFINE m == OnCredentialsSaved(sm)
<1>1. sm \in Machines /\ (sm.state # "SetupAp" => sm.retries < MaxRetries)
  BY DEF IInv, TypeOK, Machines, BudgetInv
<1>2. m \in Machines /\ m.state = "Connecting" /\ m.retries < MaxRetries
  BY <1>1, MachineSteps
<1>3. /\ powered /\ owner = "none" /\ UNCHANGED powered
      /\ reason' = "None" /\ callback' \in BOOLEAN /\ StartLinkOp("httpd", m)
  BY DEF SaveCredentials, Unlocked, IInv, TypeOK
<1> HIDE DEF m
<1>4. "httpd" \in Tasks
  BY DEF Tasks
<1>5. MachinePart'
  BY <1>2, <1>3, <1>4, StartLinkOpInv
<1>6. form \in Creds /\ nvs \in Records /\ nvs' \in PartialSaves(nvs, form)
  BY DEF SaveCredentials, IInv, TypeOK
<1>7. nvs' \in Records /\ NoStalePassword'
  BY <1>6, SavesKeepPasswordsApart DEF IInv, NoStalePassword
<1>8. Stored(form) \in Records
  BY <1>6 DEF Stored, Records
<1>9. /\ sm' \in Machines
      /\ portalActive' \in BOOLEAN /\ apActive' \in BOOLEAN
      /\ password' \in Nat /\ draws' \in Nat
      /\ timer' \in {"armed", "stopped"}
      /\ owner' \in Tasks \cup {"none"}
      /\ linkOp' \in {"none", "connect", "defer"}
  BY <1>2, <1>3, <1>4, HandlerTypes
<1>10. TypeOK'
  BY <1>3, <1>7, <1>8, <1>9 DEF SaveCredentials, IInv, TypeOK, Machines, Reasons, driverVars,
     bounds
<1>11. QED
  BY <1>5, <1>7, <1>10 DEF Parts

LEMMA FinishLinkOpInv == IInv /\ FinishLinkOp => Parts'
<1> SUFFICES ASSUME IInv, FinishLinkOp PROVE Parts'
  OBVIOUS
<1>1. /\ sm \in Machines /\ sm.state = "Connecting" /\ sm.retries < MaxRetries
      /\ ApplyState(sm)
  BY DEF FinishLinkOp, IInv, TypeOK, Machines, HandlerInv, BudgetInv
<1>2. /\ timer' = "armed" /\ UNCHANGED <<portalActive, password, draws, apActive>>
  BY <1>1 DEF ApplyState, portalVars
<1>3. /\ powered' /\ owner' = "none" /\ linkOp' = "none"
      /\ UNCHANGED <<powered, sm, reason, callback, configured, associated, evTask, form,
                     nvs, userActions, powerLosses>>
  BY DEF FinishLinkOp, machineVars, bounds
<1>4. /\ reconfig' \in BOOLEAN
      /\ link' \in {"idle", "connecting", "joined", "online"}
      /\ events' \in Seq(EventSet)
  <2>1. TypeOK
    BY DEF IInv
  <2>2. QED
    BY <2>1, QueueTypes DEF FinishLinkOp, ConnectOrDefer, TypeOK
<1>5. TypeOK'
  BY <1>2, <1>3, <1>4 DEF IInv, TypeOK, EventSet
<1>6. MachinePart'
  BY <1>1, <1>2, <1>3 DEF IInv, MachinePart, HandlerInv, OffInv, BudgetInv, AttemptIsBounded,
     OpenApIsGated, ConnectedShutsSetup, ExhaustionIsShown, SetupData
<1>7. NoStalePassword'
  BY <1>3 DEF IInv, NoStalePassword
<1>8. QED
  BY <1>5, <1>6, <1>7 DEF Parts

LEMMA DisconnectReportsInv == IInv /\ (TimeoutCallback \/ ReportDisconnect) => Parts'
<1> SUFFICES ASSUME IInv, TimeoutCallback \/ ReportDisconnect PROVE Parts'
  OBVIOUS
<1>1. /\ Unlocked /\ UNCHANGED <<powered, configured, associated, reconfig, form, nvs, link,
                                  events, userActions, powerLosses>>
      /\ callback' \in BOOLEAN /\ evTask' \in Reasons
  BY DEF TimeoutCallback, ReportDisconnect, stationVars, driverVars, bounds, IInv, TypeOK,
     Reasons
<1>2. \E t \in Tasks, r \in Reasons \ {"None"} : HandleDisconnected(t, r)
  <2>1. CASE TimeoutCallback
    BY <2>1 DEF TimeoutCallback, Tasks, Reasons
  <2>2. CASE ReportDisconnect
    BY <2>2 DEF ReportDisconnect, Tasks, IInv, TypeOK
  <2>3. QED
    BY <2>1, <2>2
<1>3. PICK t \in Tasks, r \in Reasons \ {"None"} : HandleDisconnected(t, r)
  BY <1>2
<1>4. /\ MachinePart'
      /\ reason' \in Reasons
      /\ sm' \in Machines
      /\ portalActive' \in BOOLEAN /\ apActive' \in BOOLEAN
      /\ password' \in Nat /\ draws' \in Nat
      /\ timer' \in {"armed", "stopped"}
      /\ owner' \in Tasks \cup {"none"}
      /\ linkOp' \in {"none", "connect", "defer"}
  BY <1>1, <1>3, HandleDisconnectedInv
<1>5. TypeOK'
  BY <1>1, <1>4 DEF IInv, TypeOK, Machines
<1>6. NoStalePassword'
  BY <1>1 DEF IInv, NoStalePassword
<1>7. QED
  BY <1>4, <1>5, <1>6 DEF Parts

LEMMA GotIpEventInv == IInv /\ GotIpEvent => Parts'
<1> SUFFICES ASSUME IInv, GotIpEvent PROVE Parts'
  OBVIOUS
<1> DEFINE m == OnConnected(sm)
<1>1. sm \in Machines /\ (sm.state # "SetupAp" => sm.retries < MaxRetries)
  BY DEF IInv, TypeOK, Machines, BudgetInv
<1>2. m \in Machines /\ m.state = "Connected" /\ m.retries < MaxRetries
  BY <1>1, MachineSteps
<1>3. /\ powered /\ owner = "none" /\ reason' = "None" /\ callback' \in BOOLEAN
      /\ events # <<>> /\ events' = Tail(events) /\ ApplyAndUnlock(m)
      /\ UNCHANGED <<powered, callback, configured, associated, reconfig, evTask, form, nvs,
                     link, userActions, powerLosses>>
  BY DEF GotIpEvent, NextEvent, Unlocked, IInv, TypeOK, stationVars, bounds
<1> HIDE DEF m
<1>4. MachinePart'
  BY <1>2, <1>3, ApplyAndUnlockInv
<1>5. "events" \in Tasks
  BY DEF Tasks
<1>6. /\ sm' \in Machines
      /\ portalActive' \in BOOLEAN /\ apActive' \in BOOLEAN
      /\ password' \in Nat /\ draws' \in Nat
      /\ timer' \in {"armed", "stopped"}
      /\ owner' \in Tasks \cup {"none"}
      /\ linkOp' \in {"none", "connect", "defer"}
  BY <1>2, <1>3, <1>5, HandlerTypes
<1>7. events' \in Seq(EventSet)
  BY <1>3, QueueTypes DEF IInv
<1>8. TypeOK'
  BY <1>3, <1>6, <1>7 DEF IInv, TypeOK, Machines, Reasons, EventSet
<1>9. NoStalePassword'
  BY <1>3 DEF IInv, NoStalePassword
<1>10. QED
  BY <1>4, <1>8, <1>9 DEF Parts

-----------------------------------------------------------------------------
\* The steps that take no mutex.
LEMMA TimerExpiresInv == IInv /\ TimerExpires => Parts'
<1> SUFFICES ASSUME IInv, TimerExpires PROVE Parts'
  OBVIOUS
<1>1. TypeOK'
  BY DEF TimerExpires, IInv, TypeOK, machineVars, portalVars, lockVars, stationVars,
     driverVars, bounds
<1>2. MachinePart'
  BY DEF TimerExpires, IInv, MachinePart, HandlerInv, OffInv, BudgetInv, AttemptIsBounded,
     OpenApIsGated, ConnectedShutsSetup, ExhaustionIsShown, SetupData, machineVars,
     portalVars, lockVars
<1>3. NoStalePassword'
  BY DEF TimerExpires, IInv, NoStalePassword
<1>4. QED
  BY <1>1, <1>2, <1>3 DEF Parts

\* A step of the driver, of the event task outside the mutex, or of the form
\* leaves the machine, the portal, the timer, the lock and the keys alone.
LEMMA OutsideInv ==
    ASSUME IInv, UNCHANGED <<powered, machineVars, portalVars, timerVars, lockVars, nvs>>,
           TypeOK'
    PROVE  Parts'
<1>1. MachinePart'
  BY MachinePartUnchanged, PartsAreIInv DEF Parts
<1>2. NoStalePassword'
  BY DEF IInv, NoStalePassword
<1>3. QED
  BY <1>1, <1>2 DEF Parts

LEMMA SubmitFormInv == IInv /\ (\E c \in Creds : SubmitForm(c)) => Parts'
<1> SUFFICES ASSUME IInv, NEW c \in Creds, SubmitForm(c) PROVE Parts'
  OBVIOUS
<1>1. TypeOK'
  BY BoundsAssumption DEF SubmitForm, IInv, TypeOK, machineVars, portalVars, timerVars,
     lockVars, stationVars, driverVars
<1>2. QED
  BY <1>1, OutsideInv DEF SubmitForm

LEMMA StationEventsInv == IInv /\ (StationConnectedEvent \/ StationDisconnectedEvent) => Parts'
<1> SUFFICES ASSUME IInv, StationConnectedEvent \/ StationDisconnectedEvent PROVE Parts'
  OBVIOUS
<1>1. /\ UNCHANGED <<powered, machineVars, portalVars, timerVars, lockVars, nvs>>
      /\ UNCHANGED <<configured, form, userActions, powerLosses>>
      /\ events # <<>> /\ events' = Tail(events)
      /\ associated' \in BOOLEAN /\ reconfig' \in BOOLEAN
      /\ link' \in {link, Connected(link)}
  BY DEF StationConnectedEvent, StationDisconnectedEvent, NextEvent, bounds, IInv, TypeOK
<1>2. evTask' \in Reasons
  BY DEF StationConnectedEvent, StationDisconnectedEvent, NextEvent, IInv, TypeOK
<1>3. events' \in Seq(EventSet) /\ link' \in {"idle", "connecting", "joined", "online"}
  BY <1>1, QueueTypes DEF IInv, TypeOK
<1>4. TypeOK'
  BY <1>1, <1>2, <1>3 DEF IInv, TypeOK, EventSet, machineVars, portalVars, timerVars,
     lockVars
<1>5. QED
  BY <1>1, <1>4, OutsideInv

LEMMA DriverInv ==
    IInv /\ (DriverAssociates \/ DriverGetsIp \/ \E r \in LinkReasons : DriverFails(r)) => Parts'
<1> SUFFICES ASSUME IInv,
                    DriverAssociates \/ DriverGetsIp \/ \E r \in LinkReasons : DriverFails(r)
             PROVE  Parts'
  OBVIOUS
<1>1. \E to \in {"idle", "joined", "online"}, e \in EventSet :
        /\ link' = to /\ events' = Append(events, e)
        /\ UNCHANGED <<powered, machineVars, portalVars, timerVars, lockVars, nvs>>
        /\ UNCHANGED <<stationVars, evTask, form, bounds>>
  BY ReasonsAssumption DEF DriverAssociates, DriverGetsIp, DriverFails, DriverStep, EventSet,
     Reasons
<1>2. PICK to \in {"idle", "joined", "online"}, e \in EventSet :
        /\ link' = to /\ events' = Append(events, e)
        /\ UNCHANGED <<powered, machineVars, portalVars, timerVars, lockVars, nvs>>
        /\ UNCHANGED <<stationVars, evTask, form, bounds>>
  BY <1>1
<1>3. QED
  <2>1. events' \in Seq(EventSet)
    BY <1>2, QueueTypes DEF IInv
  <2>2. TypeOK'
    BY <1>2, <2>1 DEF IInv, TypeOK, EventSet, machineVars, portalVars, timerVars, lockVars,
       stationVars, bounds
  <2>3. QED
    BY <1>2, <2>2, OutsideInv

\* Every step keeps the inductive invariant.
LEMMA StepInv == IInv /\ [Next]_vars => IInv'
<1> SUFFICES ASSUME IInv, [Next]_vars PROVE Parts'
  BY PartsAreIInv
<1>1. CASE Next
  BY <1>1, BootInv, PowerLossInv, ToggleSetupInv, SaveCredentialsInv, FinishLinkOpInv,
     DisconnectReportsInv, GotIpEventInv, TimerExpiresInv, SubmitFormInv, StationEventsInv,
     DriverInv DEF Next
<1>2. CASE UNCHANGED vars
  <2>1. TypeOK'
    BY <1>2 DEF vars, IInv, TypeOK, machineVars, portalVars, timerVars, lockVars,
       stationVars, driverVars, bounds
  <2>2. QED
    BY <1>2, <2>1, OutsideInv DEF vars
<1>3. QED
  BY <1>1, <1>2

-----------------------------------------------------------------------------
\* The inductive invariant holds in every reachable state.
THEOREM Invariance == Spec => []IInv
BY InitInv, StepInv, PTL DEF Spec

\* Every variable of the provisioning code keeps its type; in particular the
\* retry counter never passes the budget.
THEOREM TypeCorrect == Spec => []TypeOK
<1>1. IInv => TypeOK
  BY DEF IInv
<1>2. QED
  BY <1>1, Invariance, PTL

\* No connection attempt is ever left without something that ends it.
THEOREM AttemptsAreBounded == Spec => []AttemptIsBounded
<1>1. IInv => AttemptIsBounded
  BY DEF IInv
<1>2. QED
  BY <1>1, Invariance, PTL

\* The open access point is never on the air without the page password.
THEOREM AccessPointIsGated == Spec => []OpenApIsGated
<1>1. IInv => OpenApIsGated
  BY DEF IInv
<1>2. QED
  BY <1>1, Invariance, PTL

\* A connection always shuts the setup form.
THEOREM ConnectionShutsSetup == Spec => []ConnectedShutsSetup
<1>1. IInv => ConnectedShutsSetup
  BY DEF IInv
<1>2. QED
  BY <1>1, Invariance, PTL

\* Setup mode after the last retry shows an error, and no error outlives setup mode.
THEOREM ExhaustionsAreShown == Spec => []ExhaustionIsShown
<1>1. IInv => ExhaustionIsShown
  BY DEF IInv
<1>2. QED
  BY <1>1, Invariance, PTL

\* No interruption of a save pairs an ssid with another network's password.
THEOREM PasswordsStayApart == Spec => []NoStalePassword
<1>1. IInv => NoStalePassword
  BY DEF IInv
<1>2. QED
  BY <1>1, Invariance, PTL
=============================================================================
