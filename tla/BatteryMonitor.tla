--------------------------- MODULE BatteryMonitor ---------------------------
(***************************************************************************)
(* battery_monitor_task of main/app_main.cpp with the functions it calls   *)
(* in app_core/app_snapshot.cpp: is a charger attached, and how full is    *)
(* the cell, from the terminal voltage alone.  Every tick a reading enters *)
(* the slope window, in which a step between two readings is a cable that  *)
(* came or went; every few ticks, and at a step, the verdict is published. *)
(* A step's verdict is held until the window has filled up behind it.      *)
(*                                                                         *)
(* Voltages are small integers on the scale of Levels.  The percentage is  *)
(* a monotone function of the level published here.                        *)
(***************************************************************************)
EXTENDS Integers, Sequences, Functions

CONSTANTS
  Levels,            \* the plausible readings
  Window,            \* kChargingSlopeWindow: only a full window spans enough to be fitted
  RecentWindow,      \* kBatteryRecentWindow
  TicksPerPublish,   \* kBatteryTicksPerPublish
  CableStep,         \* kCableStepMillivolts
  OffsetMax,         \* kChargeOffsetMaxMillivolts
  High,              \* kChargingVoltageThresholdMillivolts
  Rise, Fall         \* the two slopes, on the scale of Slope

ASSUME BatteryAssumption ==
  /\ Levels \subseteq Nat
  /\ Window \in Nat \ {0} /\ RecentWindow \in Nat \ {0} /\ TicksPerPublish \in Nat \ {0}
  /\ CableStep \in Nat \ {0} /\ OffsetMax \in Nat /\ High \in Nat
  /\ Rise \in Nat /\ Fall \in Int

VARIABLES
  slope,         \* g_battery_slope_mv; its last one is g_previous_tick_mv
  recent,        \* g_battery_recent_mv, in any order
  hold,          \* g_cable_hold_ticks
  stepCharging,  \* g_cable_step_charging
  offset,        \* g_charge_offset_mv
  tick,          \* ticks since the last publication
  published,     \* the BatteryData that set_battery() was last given
  slot,          \* what the history slot's sum is made of: readings, zeros
  missed         \* history: an implausible reading came while a step was held

batteryVars == <<slope, recent, hold, stepCharging, offset, tick, published, slot, missed>>

\* The readings a window holds after one more.
Shifted(w, size, mv) == IF Len(w) < size THEN Append(w, mv) ELSE Append(Tail(w), mv)

BatteryTypeOK ==
  /\ slope \in Seq(Levels) /\ Len(slope) <= Window
  /\ recent \in Seq(Levels) /\ Len(recent) <= RecentWindow
  /\ hold \in 0 .. Window /\ stepCharging \in BOOLEAN /\ offset \in 0 .. OffsetMax
  /\ tick \in 0 .. TicksPerPublish - 1
  /\ published \in [valid : BOOLEAN, charging : BOOLEAN, known : BOOLEAN, level : Int]
  /\ slot \subseteq {"reading", "zero"} /\ missed \in BOOLEAN

NoReading == [valid |-> FALSE, charging |-> FALSE, known |-> FALSE, level |-> 0]

BatteryInit ==
  /\ slope = <<>> /\ recent = <<>> /\ hold = 0 /\ stepCharging = FALSE /\ offset = 0
  /\ tick = 0 /\ published = NoReading /\ slot = {} /\ missed = FALSE

-----------------------------------------------------------------------------
(* What the windows say *)

Sum(w) == FoldFunction(+, 0, w)

\* battery_voltage_slope(): the least-squares slope of a full window, but for a
\* positive factor that depends on its size alone.
Slope(w) ==
  LET n == Len(w)
  IN n * Sum([i \in 1 .. n |-> i * w[i]]) - Sum([i \in 1 .. n |-> i]) * Sum(w)

smoothed(w) == Sum(w) \div Len(w)
level_high(w) == \A i \in DOMAIN w : w[i] >= High

\* What the level and the direction say of a charger, without a step.
measured(s, r) ==
  LET known == Len(s) = Window
  IN (known /\ Slope(s) > Rise) \/ (level_high(r) /\ ~(known /\ Slope(s) < Fall))

open_circuit(mv, charging, off) ==
  IF ~charging THEN mv ELSE IF mv < off THEN 0 ELSE mv - off

\* battery_reading_valid() holds: the windows first, then the verdict.
Verdict(s, r, h, stepUp, off) ==
  LET charging == IF h > 0 THEN stepUp ELSE measured(s, r)
  IN [valid |-> TRUE, charging |-> charging, known |-> Len(s) = Window \/ h > 0,
      level |-> open_circuit(smoothed(r), charging, off)]

-----------------------------------------------------------------------------
IsStep(a, b) == b - a >= CableStep \/ a - b >= CableStep

charge_offset_from_cable_step(a, b) ==
  LET size == IF b > a THEN b - a ELSE a - b
  IN IF size > OffsetMax THEN OffsetMax ELSE size

Down(n) == IF n > 0 THEN n - 1 ELSE 0

\* Slip: the hold is as long as the window's span.
HoldFromSpan == Window - 1

\* kCableHoldTicks
HoldFrom == Window

\* A plausible reading.  One that differs from the last by a step starts the hold,
\* measures the charger's offset and is published at once.
Tick(mv) ==
  LET event == slope # <<>> /\ IsStep(slope[Len(slope)], mv)
      due   == tick + 1 >= TicksPerPublish \/ event
      last  == slope[Len(slope)]
  IN /\ slope' = Shifted(slope, Window, mv)
     /\ hold' = Down(IF event THEN HoldFrom ELSE hold)
     /\ stepCharging' = IF event THEN mv > last ELSE stepCharging
     /\ offset' = IF event THEN charge_offset_from_cable_step(last, mv) ELSE offset
     /\ missed' = (missed /\ ~event)
     /\ IF due
        THEN /\ tick' = 0
             /\ slot' = slot \cup {"reading"}
             /\ recent' = Shifted(recent, RecentWindow, mv)
             /\ published' = Verdict(slope', recent', hold', stepCharging', offset')
        ELSE tick' = tick + 1 /\ UNCHANGED <<slot, recent, published>>

\* A reading below kBatteryValidThresholdMillivolts leaves the windows alone.  It
\* takes its turn in the hold, in the publications and in the history slot, where
\* it counts as zero.
ImplausibleTick ==
  /\ hold' = Down(hold) /\ missed' = (missed \/ hold > 0)
  /\ IF tick + 1 >= TicksPerPublish
     THEN tick' = 0 /\ slot' = slot \cup {"zero"} /\ published' = NoReading
     ELSE tick' = tick + 1 /\ UNCHANGED <<slot, published>>
  /\ UNCHANGED <<slope, recent, stepCharging, offset>>

\* take_slot() on the recorder's task.  A read of the ADC that fails changes nothing.
TakeSlot ==
  /\ slot' = {}
  /\ UNCHANGED <<slope, recent, hold, stepCharging, offset, tick, published, missed>>

BatteryNext == (\E mv \in Levels : Tick(mv)) \/ ImplausibleTick \/ TakeSlot

BatterySpec == BatteryInit /\ [][BatteryNext]_batteryVars

-----------------------------------------------------------------------------
(* Properties *)

\* The slope is not asked while a step lies in its window: it would take the step
\* for a climb or a fall.  The hold lasts "exactly as long as it takes the slope
\* window to refill with samples from after the event", unless readings were missed
\* (app_main.cpp, kCableHoldTicks).
HoldCoversWindow ==
  hold = 0 /\ ~missed =>
    \A i \in 1 .. Len(slope) - 1 : ~IsStep(slope[i], slope[i + 1])

-----------------------------------------------------------------------------
(* Statements of the sources that the code does not keep.  No run asserts them. *)

\* The hold and the window "cannot drift apart" (app_main.cpp, kCableHoldTicks): an
\* implausible reading shortens the one and does not move the other.
HoldCoversWindowAlways ==
  hold = 0 => \A i \in 1 .. Len(slope) - 1 : ~IsStep(slope[i], slope[i + 1])

\* "Sources that produced nothing leave their field marked absent rather than
\* contributing a zero" (app_main.cpp, take_slot).
AbsentNotZero == "zero" \notin slot

\* The level is the cell's "rather than the charger's" (app_snapshot.hpp,
\* battery_open_circuit_millivolts): plugging in does not lower it.  The readings
\* from before the step are still in the average from which the offset is taken.
PluggingInKeepsLevel ==
  [][hold' = Down(HoldFrom) /\ stepCharging' /\ published.valid /\ ~published.charging
       => published'.level >= published.level]_batteryVars
=============================================================================
