------------------------------ MODULE Telemetry ------------------------------
(***************************************************************************)
(* Observer threads, their control and what the reducer makes of their     *)
(* samples (crates/uperf-daemon/src/runtime.rs, ThermalGuard of            *)
(* crates/uperf-core/src/policy.rs).                                       *)
(*                                                                         *)
(* An observer thread reads under the settings it last adopted and         *)
(* publishes under the control's lock, if those settings are current.  The *)
(* mail slot keeps the latest sample only.  A reload replaces sensors and  *)
(* guards; the sampling cadence of the load thread changes with the load,  *)
(* which replaces the settings of every thread.  The thermal thread is     *)
(* modelled step by step; the load thread runs the same code, and what the *)
(* reducer makes of its samples is in LoadDetector.                        *)
(*                                                                         *)
(* Thermal states are ordered 0 normal, 1 warning, 2 throttled, 3 critical *)
(* and 4 degraded.  Ages and dwell times are kept as the time passed.      *)
(***************************************************************************)
EXTENDS Naturals, FiniteSets, FiniteSetsExt

CONSTANTS
  Zone,
  Threshold,       \* [1..3 -> temperature] of warning, throttled, critical
  Hysteresis, Dwell, StaleAfter,
  MaxLag,          \* ticks a read takes at most
  MaxStimuli       \* bound on reloads, sleeps, faults and changes of the world

\* Validation orders the thresholds (config.rs, thermal_zones).
ASSUME TelemetryConstants ==
  /\ Threshold \in [1..3 -> Nat] /\ Threshold[1] < Threshold[2] /\ Threshold[2] < Threshold[3]
  /\ {Hysteresis, Dwell, StaleAfter, MaxLag, MaxStimuli} \subseteq Nat

Degraded == 4

VARIABLES
  heat,        \* [Zone -> its temperature, {} when the sensor cannot be read]
  settings,    \* the reducer's settings channel: [obs, fast]
  control,     \* ObserverControl: [gen, settings, stopping]
  thread,      \* the thermal observer: [pc, gen, obs, due, held]
  mail,        \* the unseen thermal sample, a set of at most one
  sensed,      \* the reducer's thermal fields
  stimuli

telemetryVars == <<heat, settings, control, thread, mail, sensed, stimuli>>

-----------------------------------------------------------------------------
(* ThermalGuard.                                                           *)

ClassifyTemperature(t) == Cardinality({i \in 1..3 : t >= Threshold[i]})

CandidateState(state, t) ==
  LET raw == ClassifyTemperature(t)
  IN IF raw >= state \/ state = Degraded \/ t < Threshold[state] - Hysteresis
     THEN raw ELSE state

\* A guard is [state, pending]; pending holds a candidate and how long it lasts.
Usable(reading) == reading.temp # {} /\ reading.age <= StaleAfter
GuardUpdate(guard, reading) ==
  IF ~Usable(reading) THEN [state |-> Degraded, pending |-> {}]
  ELSE LET c == CandidateState(guard.state, CHOOSE t \in reading.temp : TRUE)
           same == {p \in guard.pending : p.state = c}
       IN IF c = 3 \/ c = guard.state \/ Dwell = 0 \/ \E p \in same : p.since >= Dwell
          THEN [state |-> c, pending |-> {}]
          ELSE [guard EXCEPT !.pending = IF same # {} THEN same ELSE {[state |-> c, since |-> 0]}]

WorstThermalState(guards) == Max({guards[z].state : z \in Zone})

Unread == [temp |-> {}, age |-> 0, obs |-> 0]
NewGuard == [state |-> 0, pending |-> {}]

\* Every guard sees its zone's reading, the state is the worst of them.
WithReadings(s, readings) ==
  LET guards == [z \in Zone |-> GuardUpdate(s.guard[z], readings[z])]
  IN [s EXCEPT !.reading = readings, !.guard = guards, !.state = WorstThermalState(guards)]
MarkUnavailable(s) == [WithReadings(s, [z \in Zone |-> Unread]) EXCEPT !.state = Degraded]

-----------------------------------------------------------------------------
(* The control and the thermal thread.                                     *)

\* The bridge carries the latest settings to the control.
Bridge ==
  /\ control.settings # settings /\ ~control.stopping
  /\ control' = [control EXCEPT !.settings = settings, !.gen = @ + 1]
  /\ UNCHANGED <<heat, settings, thread, mail, sensed, stimuli>>

\* Mutant: a woken thread keeps its old settings.
KeepSettings(t) == [t EXCEPT !.pc = "wait", !.due = TRUE, !.held = {}]
\* Adopting settings: the deadline is now if the sensors changed.
AdoptSettings(t) ==
  [t EXCEPT !.gen = control.gen, !.obs = control.settings.obs, !.pc = "wait", !.held = {},
            !.due = (t.pc = "wait" /\ t.due) \/ control.settings.obs # t.obs]

WakeForSettings ==
  /\ thread.pc = "wait" /\ ~control.stopping /\ thread.gen # control.gen
  /\ thread' = AdoptSettings(thread)
  /\ UNCHANGED <<heat, settings, control, mail, sensed, stimuli>>

WakeToStop ==
  /\ thread.pc = "wait" /\ control.stopping
  /\ thread' = [thread EXCEPT !.pc = "gone"]
  /\ UNCHANGED <<heat, settings, control, mail, sensed, stimuli>>

SensorSample(obs) == [ok |-> TRUE, heat |-> heat, age |-> 0, obs |-> obs]
Failed(obs) == [ok |-> FALSE, heat |-> heat, age |-> 0, obs |-> obs]

ReadSensors ==
  /\ thread.pc = "wait" /\ thread.due /\ ~control.stopping /\ thread.gen = control.gen
  /\ thread' = [thread EXCEPT !.pc = "read", !.held = {SensorSample(thread.obs)}]
  /\ UNCHANGED <<heat, settings, control, mail, sensed, stimuli>>

\* The lock is held from the comparison to the end of the publication.
PublishIfCurrent ==
  /\ thread.pc = "read"
  /\ IF control.stopping
     THEN thread' = [thread EXCEPT !.pc = "gone", !.held = {}] /\ UNCHANGED mail
     ELSE IF thread.gen = control.gen
     THEN /\ mail' = thread.held
          /\ thread' = [thread EXCEPT !.pc = "wait", !.due = FALSE, !.held = {}]
     ELSE thread' = AdoptSettings(thread) /\ UNCHANGED mail
  /\ UNCHANGED <<heat, settings, control, sensed, stimuli>>

\* A panic inside a read is reported under the settings sent last.
ThreadPanics ==
  /\ thread.pc = "read" /\ stimuli < MaxStimuli
  /\ stimuli' = stimuli + 1
  /\ thread' = [thread EXCEPT !.pc = "gone", !.held = {}]
  /\ mail' = {Failed(settings.obs)}
  /\ UNCHANGED <<heat, settings, control, sensed>>

StopObservers ==
  /\ ~control.stopping /\ stimuli < MaxStimuli
  /\ stimuli' = stimuli + 1
  /\ control' = [control EXCEPT !.stopping = TRUE]
  /\ UNCHANGED <<heat, settings, thread, mail, sensed>>

-----------------------------------------------------------------------------
(* The reducer.                                                            *)

\* Mutant: the generation of a sample is not compared.
AcceptedAny(m) == TRUE
\* Only samples of the current observer generation count.
Accepted(m) == m.obs = sensed.obs

ReduceThermal ==
  \E m \in mail :
    /\ sensed' = IF ~Accepted(m) THEN sensed
                 ELSE IF ~m.ok THEN MarkUnavailable(sensed)
                 ELSE WithReadings(sensed, [z \in Zone |-> [temp |-> m.heat[z], age |-> m.age,
                                                            obs |-> m.obs]])
    /\ mail' = {}
    /\ UNCHANGED <<heat, settings, control, thread, stimuli>>

Aged(n, top) == Min({n + 1, top})

\* Time passes: the deadline comes due, samples under way grow older, and the
\* reducer's tick looks at what has become stale.  A thread that is not stuck
\* in a driver starts on its deadline and returns within MaxLag ticks, and the
\* reducer takes a sample from its mail before its next tick.
TelemetryTick ==
  LET readings == [z \in Zone |-> [sensed.reading[z] EXCEPT !.age = Aged(@, StaleAfter + 1)]]
      guards == [z \in Zone |-> [sensed.guard[z] EXCEPT
                   !.pending = {[p EXCEPT !.since = Aged(@, Dwell)] : p \in @}]]
      older(samples) == {[m EXCEPT !.age = Aged(@, StaleAfter + 1)] : m \in samples}
  IN /\ ~(thread.pc = "wait" /\ thread.due /\ ~control.stopping)
     /\ mail = {} /\ (thread.pc # "hung" => \A m \in thread.held : m.age < MaxLag)
     /\ sensed' = WithReadings([sensed EXCEPT !.guard = guards], readings)
     /\ thread' = [thread EXCEPT !.due = @ \/ thread.pc = "wait", !.held = older(@)]
     /\ UNCHANGED <<heat, settings, control, mail, stimuli>>

\* A reload swaps sensors, guards and settings at once.
ReloadObservers ==
  /\ stimuli < MaxStimuli /\ stimuli' = stimuli + 1
  /\ sensed' = [MarkUnavailable([sensed EXCEPT !.guard = [z \in Zone |-> NewGuard]])
                EXCEPT !.obs = @ + 1]
  /\ settings' = [obs |-> settings.obs + 1, fast |-> FALSE]
  /\ UNCHANGED <<heat, control, thread, mail>>

\* Waking from sleep distrusts every sensor until it is read again.
WakeDistrusts ==
  /\ stimuli < MaxStimuli /\ stimuli' = stimuli + 1
  /\ sensed' = MarkUnavailable(sensed)
  /\ UNCHANGED <<heat, settings, control, thread, mail>>

\* The machine heats up, cools down or loses a sensor.
HeatChanges ==
  /\ stimuli < MaxStimuli /\ stimuli' = stimuli + 1
  /\ \E z \in Zone, t \in {{}} \cup {{n} : n \in 0..Threshold[3]} :
       t # heat[z] /\ heat' = [heat EXCEPT ![z] = t]
  /\ UNCHANGED <<settings, control, thread, mail, sensed>>

\* The reducer changes the cadence of the load thread (see LoadDetector).
CadenceChanges ==
  /\ stimuli < MaxStimuli /\ stimuli' = stimuli + 1
  /\ settings' = [settings EXCEPT !.fast = ~@]
  /\ UNCHANGED <<heat, control, thread, mail, sensed>>

\* A driver never returns from a read.
ThreadHangs ==
  /\ thread.pc = "read" /\ stimuli < MaxStimuli
  /\ stimuli' = stimuli + 1
  /\ thread' = [thread EXCEPT !.pc = "hung"]
  /\ UNCHANGED <<heat, settings, control, mail, sensed>>

-----------------------------------------------------------------------------
TelemetryInit ==
  /\ heat = [z \in Zone |-> {0}]
  /\ settings = [obs |-> 1, fast |-> FALSE]
  /\ control = [gen |-> 0, settings |-> settings, stopping |-> FALSE]
  /\ thread = [pc |-> "wait", gen |-> 0, obs |-> 1, due |-> TRUE, held |-> {}]
  /\ mail = {}
  /\ sensed = [obs |-> 1, reading |-> [z \in Zone |-> Unread],
               guard |-> [z \in Zone |-> [NewGuard EXCEPT !.state = Degraded]], state |-> Degraded]
  /\ stimuli = 0

TelemetryNext ==
  \/ Bridge \/ WakeForSettings \/ WakeToStop \/ ReadSensors \/ PublishIfCurrent \/ ThreadPanics
  \/ ThreadHangs \/ StopObservers \/ ReduceThermal \/ TelemetryTick
  \/ ReloadObservers \/ WakeDistrusts \/ HeatChanges \/ CadenceChanges

\* Threads are scheduled, the bridge and the reducer's select loop serve every
\* channel, and the ticker fires.
TelemetryFairness ==
  /\ WF_telemetryVars(Bridge) /\ WF_telemetryVars(TelemetryTick)
  /\ WF_telemetryVars(WakeForSettings \/ WakeToStop)
  /\ WF_telemetryVars(ReadSensors) /\ WF_telemetryVars(PublishIfCurrent)
  /\ WF_telemetryVars(ReduceThermal)

TelemetrySpec == TelemetryInit /\ [][TelemetryNext]_telemetryVars /\ TelemetryFairness

-----------------------------------------------------------------------------
(* Properties.                                                             *)

\* The caps of the sensor-failure envelope are left only on readings of the
\* sensors now configured, none older than the limit, whatever a thread that
\* was inside a read during the reload still publishes, and a critical reading
\* is acted on without delay (reduce_thermal, publish_if_current,
\* refresh_thermal_staleness).
TelemetryTrusted ==
  sensed.state # Degraded =>
       \A z \in Zone : /\ Usable(sensed.reading[z]) /\ sensed.reading[z].obs = sensed.obs
                       /\ \A t \in sensed.reading[z].temp : t >= Threshold[3] => sensed.state = 3

ThermalSettled ==
  ~control.stopping /\ thread.pc \notin {"gone", "hung"} /\ (\A z \in Zone : heat[z] # {})
    => /\ sensed.state # Degraded
       /\ \A z \in Zone : \A t \in heat[z] : sensed.state >= ClassifyTemperature(t)
\* Once the world settles with every sensor readable, the reducer leaves the
\* sensor-failure envelope and its state is at least as severe as the hottest
\* zone, whatever settings changed under the threads (spawn_periodic_observer).
ThermalSettles == <>[]ThermalSettled
=============================================================================
