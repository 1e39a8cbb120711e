---------------------------- MODULE SensingProofs ----------------------------
(***************************************************************************)
(* Proofs about Telemetry and EnergyGovernor.                               *)
(*                                                                          *)
(* For any zones, thresholds, durations and number of faults,               *)
(* TelemetrySpec => []TelemetryTrusted (OnlyTrustedReadings).               *)
(*                                                                          *)
(* The property speaks of the worst state, the guards decide one by one.    *)
(* Trusted says that a guard that is not degraded has a usable reading and  *)
(* is critical if the reading is; whatever a guard was before, its update   *)
(* makes it so.  What is left is where readings come from: a temperature    *)
(* the reducer holds was read under its own generation of the sensors.      *)
(*                                                                          *)
(* For any clusters, operating points and configurations,                   *)
(* GovSpec => []GovernorSound (SoundGovernor).  The power of a validated    *)
(* model rises with the frequency, so the steps of one cluster keep their   *)
(* order along the cost-ordered path, the upper point of one being the      *)
(* lower point of the next.  A step therefore takes its cluster from the    *)
(* caps of one prefix to those of the next and back, and leaves the others. *)
(* Of the plan it is enough that every stage makes natural numbers of       *)
(* natural numbers and only lowers what the caps permit.                    *)
(***************************************************************************)
EXTENDS Telemetry, EnergyGovernor, FiniteSetTheorems, TLAPS

\* A zone's temperature, if it could be read.
Temperature == {{}} \cup {{n} : n \in Nat}
Level == 0 .. Degraded

\* A guard that is not degraded has a usable reading, and acts on a critical one.
Trusted(guard, reading) ==
  guard.state # Degraded =>
    /\ Usable(reading)
    /\ \A t \in reading.temp : t >= Threshold[3] => guard.state = 3

\* What a guard decides about, and what the reducer's fields keep.
GuardShape(guard) == DOMAIN guard = {"state", "pending"} /\ guard.state \in Level
ReadingOf(obs, reading) ==
  /\ DOMAIN reading = {"temp", "age", "obs"} /\ reading.temp \in Temperature
  /\ reading.temp # {} => reading.obs = obs
SensedFields == {"obs", "reading", "guard", "state"}
Believed(s) ==
  /\ DOMAIN s = SensedFields
  /\ DOMAIN s.reading = Zone /\ DOMAIN s.guard = Zone
  /\ \A z \in Zone : /\ ReadingOf(s.obs, s.reading[z]) /\ GuardShape(s.guard[z])
                     /\ s.state # Degraded =>
                          /\ Trusted(s.guard[z], s.reading[z]) /\ s.guard[z].state # Degraded
                          /\ s.guard[z].state = 3 => s.state = 3

\* Samples under way hold the temperatures of the zones.
Sample(m) == DOMAIN m = {"ok", "heat", "age", "obs"} /\ m.heat \in [Zone -> Temperature]
TelemetryInv ==
  /\ heat \in [Zone -> Temperature]
  /\ DOMAIN thread = {"pc", "gen", "obs", "due", "held"}
  /\ \A m \in mail \cup thread.held : Sample(m)
  /\ Believed(sensed)

-----------------------------------------------------------------------------
(* The guards.                                                              *)

\* A temperature as hot as the critical threshold is classified critical.
LEMMA Classified ==
  ASSUME NEW t \in Nat
  PROVE  /\ ClassifyTemperature(t) \in 0 .. 3
         /\ t >= Threshold[3] => ClassifyTemperature(t) = 3
<1> DEFINE S == {i \in 1 .. 3 : t >= Threshold[i]}
<1>1. IsFiniteSet(1 .. 3) /\ Cardinality(1 .. 3) = 3
  <2>1. 1 \in Int /\ 3 \in Int
    OBVIOUS
  <2>2. IsFiniteSet(1 .. 3) /\ Cardinality(1 .. 3) = IF 1 > 3 THEN 0 ELSE 3 - 1 + 1
    BY <2>1, FS_Interval, Zenon
  <2> QED BY <2>2
<1>2. S \in SUBSET (1 .. 3)
  OBVIOUS
<1> HIDE DEF S
<1>3. IsFiniteSet(S) /\ Cardinality(S) <= 3 /\ Cardinality(S) \in Nat
  BY <1>1, <1>2, FS_Subset, FS_CardinalityType
<1>4. t >= Threshold[3] => S = 1 .. 3
  <2>1. Threshold[1] \in Nat /\ Threshold[2] \in Nat /\ Threshold[3] \in Nat
        /\ Threshold[1] < Threshold[2] /\ Threshold[2] < Threshold[3]
    BY TelemetryConstants
  <2>2. 1 .. 3 = {1, 2, 3}
    OBVIOUS
  <2> QED BY <2>1, <2>2 DEF S
<1>5. ClassifyTemperature(t) = Cardinality(S)
  BY DEF ClassifyTemperature, S
<1> QED BY <1>1, <1>3, <1>4, <1>5

\* A candidate is a level, and critical when the temperature is.
LEMMA Candidate ==
  ASSUME NEW t \in Nat, NEW state \in Level
  PROVE  /\ CandidateState(state, t) \in Level
         /\ t >= Threshold[3] => CandidateState(state, t) = 3
BY Classified DEF CandidateState, Level, Degraded

\* However a guard was before, its update trusts nothing but a usable reading.
LEMMA UpdateTrusted ==
  ASSUME NEW guard, NEW reading, GuardShape(guard), reading.temp \in Temperature
  PROVE  /\ GuardShape(GuardUpdate(guard, reading))
         /\ Trusted(GuardUpdate(guard, reading), reading)
         /\ reading.temp = {} => GuardUpdate(guard, reading).state = Degraded
<1> DEFINE t == CHOOSE x \in reading.temp : TRUE
           c == CandidateState(guard.state, t)
           g == GuardUpdate(guard, reading)
<1>1. CASE ~Usable(reading)
  <2>1. g = [state |-> Degraded, pending |-> {}]
    BY <1>1 DEF GuardUpdate
  <2>2. g.state = Degraded /\ DOMAIN g = {"state", "pending"}
    BY <2>1
  <2>3. Degraded \in Level
    BY DEF Level, Degraded
  <2> HIDE DEF g
  <2>4. GuardShape(g) /\ Trusted(g, reading)
    BY <2>2, <2>3 DEF GuardShape, Trusted
  <2> QED BY <2>2, <2>4 DEF g
<1>2. CASE Usable(reading)
  <2>1. reading.temp # {}
    BY <1>2 DEF Usable
  <2>2. PICK n \in Nat : reading.temp = {n}
    BY <2>1 DEF Temperature
  <2>3. t = n
    BY <2>2
  <2>4. c \in Level /\ (n >= Threshold[3] => c = 3)
    BY <2>3, Candidate DEF GuardShape
  <2>5. PICK p : \/ g = [state |-> c, pending |-> p]
                 \/ g = [guard EXCEPT !.pending = p] /\ c # 3
    BY <1>2 DEF GuardUpdate
  <2> HIDE DEF c, g
  <2>6. /\ DOMAIN g = {"state", "pending"}
        /\ g.state = c \/ (g.state = guard.state /\ c # 3)
    BY <2>5 DEF GuardShape
  <2>7. GuardShape(g)
    BY <2>4, <2>6 DEF GuardShape
  <2>8. Trusted(g, reading)
    BY <1>2, <2>2, <2>4, <2>6 DEF Trusted
  <2> QED BY <2>1, <2>7, <2>8 DEF g
<1> QED BY <1>1, <1>2

\* The worst of some levels is one of them and no other is above it.
LEMMA WorstLevel ==
  ASSUME NEW S, S \subseteq Level, S # {}
  PROVE  Max(S) \in S /\ \A x \in S : x <= Max(S)
<1>1. \E m \in S : \A x \in S : m >= x
  <2>1. CASE 4 \in S
    BY <2>1 DEF Level, Degraded
  <2>2. CASE 4 \notin S /\ 3 \in S
    BY <2>2 DEF Level, Degraded
  <2>3. CASE 4 \notin S /\ 3 \notin S /\ 2 \in S
    BY <2>3 DEF Level, Degraded
  <2>4. CASE 4 \notin S /\ 3 \notin S /\ 2 \notin S /\ 1 \in S
    BY <2>4 DEF Level, Degraded
  <2>5. CASE 4 \notin S /\ 3 \notin S /\ 2 \notin S /\ 1 \notin S
    <3>1. \A x \in S : x = 0
      BY <2>5 DEF Level, Degraded
    <3>2. 0 \in S /\ \A x \in S : 0 >= x
      BY <3>1
    <3> QED BY <3>2
  <2> QED BY <2>1, <2>2, <2>3, <2>4, <2>5
<1>2. Max(S) \in S /\ \A x \in S : Max(S) >= x
  BY <1>1 DEF Max
<1> QED BY <1>2 DEF Level

-----------------------------------------------------------------------------
(* The reducer.                                                             *)

\* Readings of its own generation make the reducer believe what it may.
LEMMA ReadingsBelieved ==
  ASSUME NEW s, NEW readings, DOMAIN s = SensedFields, DOMAIN readings = Zone,
         \A z \in Zone : GuardShape(s.guard[z]) /\ ReadingOf(s.obs, readings[z])
  PROVE  /\ Believed(WithReadings(s, readings)) /\ WithReadings(s, readings).obs = s.obs
         /\ \A z \in Zone : WithReadings(s, readings).reading[z] = readings[z]
<1> DEFINE guards == [z \in Zone |-> GuardUpdate(s.guard[z], readings[z])]
           worst == WorstThermalState(guards)
           u == WithReadings(s, readings)
<1>1. u = [s EXCEPT !.reading = readings, !.guard = guards, !.state = worst]
  BY DEF WithReadings
<1>2. ASSUME NEW z \in Zone
      PROVE  /\ GuardShape(guards[z]) /\ Trusted(guards[z], readings[z])
             /\ worst # Degraded => /\ guards[z].state # Degraded
                                    /\ guards[z].state = 3 => worst = 3
  <2>1. \A y \in Zone : GuardShape(guards[y]) /\ Trusted(guards[y], readings[y])
    BY UpdateTrusted DEF ReadingOf
  <2> DEFINE S == {guards[y].state : y \in Zone}
  <2>2. S \subseteq Level /\ guards[z].state \in S
    BY <2>1 DEF GuardShape
  <2>3. worst = Max(S)
    BY DEF WorstThermalState
  <2> HIDE DEF guards, S, worst
  <2>4. worst \in S /\ \A x \in S : x <= worst
    BY <2>2, <2>3, WorstLevel
  <2>5. worst \in 0 .. 4 /\ guards[z].state \in 0 .. 4 /\ guards[z].state <= worst
    BY <2>2, <2>4 DEF Level, Degraded
  <2> QED BY <2>1, <2>5 DEF Degraded
<1>3. DOMAIN guards = Zone
  OBVIOUS
<1> HIDE DEF guards, worst, u
<1>4. /\ DOMAIN u = SensedFields /\ u.obs = s.obs /\ u.reading = readings /\ u.guard = guards
      /\ u.state = worst
  BY <1>1 DEF SensedFields
<1>5. Believed(u)
  BY <1>2, <1>3, <1>4 DEF Believed
<1> QED BY <1>4, <1>5 DEF u

\* A reducer whose sensors are not available believes nothing, under any
\* generation.
LEMMA Unavailable ==
  ASSUME NEW s, DOMAIN s = SensedFields, \A z \in Zone : GuardShape(s.guard[z])
  PROVE  /\ Believed(MarkUnavailable(s))
         /\ \A n : Believed([MarkUnavailable(s) EXCEPT !.obs = n])
<1> DEFINE none == [z \in Zone |-> Unread]
           w == WithReadings(s, none)
           u == [w EXCEPT !.state = Degraded]
<1>1. u = MarkUnavailable(s)
  BY DEF MarkUnavailable
<1>2. \A n, z \in Zone : ReadingOf(n, none[z])
  BY DEF ReadingOf, Unread, Temperature
<1>3. DOMAIN none = Zone
  OBVIOUS
<1> HIDE DEF none
<1>4. Believed(WithReadings(s, none)) /\ \A z \in Zone : WithReadings(s, none).reading[z] = none[z]
  <2>1. \A z \in Zone : ReadingOf(s.obs, none[z])
    BY DEF ReadingOf, Unread, Temperature, none
  <2> QED BY <1>3, <2>1, ReadingsBelieved
<1> HIDE DEF w
<1>5. Believed(w) /\ \A z \in Zone : w.reading[z] = none[z]
  BY <1>4 DEF w
<1>6. /\ DOMAIN w = SensedFields /\ DOMAIN w.reading = Zone /\ DOMAIN w.guard = Zone
      /\ \A z \in Zone : GuardShape(w.guard[z])
  BY <1>5 DEF Believed
<1>7. ASSUME NEW v, DOMAIN v = SensedFields, v.reading = w.reading, v.guard = w.guard,
             v.state = Degraded
      PROVE  Believed(v)
  <2>1. \A z \in Zone : ReadingOf(v.obs, v.reading[z])
    BY <1>5, <1>7 DEF ReadingOf, Unread, Temperature, none
  <2> QED BY <1>6, <1>7, <2>1 DEF Believed
<1>8. /\ DOMAIN u = SensedFields /\ u.reading = w.reading /\ u.guard = w.guard
      /\ u.state = Degraded
  BY <1>6 DEF SensedFields
<1> HIDE DEF u
<1>9. ASSUME NEW n PROVE Believed([u EXCEPT !.obs = n])
  <2> DEFINE v == [u EXCEPT !.obs = n]
  <2>1. /\ DOMAIN v = SensedFields /\ v.reading = w.reading /\ v.guard = w.guard
        /\ v.state = Degraded
    BY <1>8 DEF SensedFields
  <2> HIDE DEF v
  <2>2. Believed(v)
    BY <1>7, <2>1
  <2> QED BY <2>2 DEF v
<1>10. Believed(u)
  BY <1>7, <1>8
<1> QED BY <1>1, <1>9, <1>10

-----------------------------------------------------------------------------
(* The steps.                                                               *)

\* A step that leaves the reducer and the heat alone adds samples of the heat.
LEMMA SampleStep ==
  ASSUME TelemetryInv, heat' = heat, sensed' = sensed,
         DOMAIN thread' = {"pc", "gen", "obs", "due", "held"},
         \A m \in mail' \cup thread'.held :
           m \in mail \cup thread.held \/ \E obs : m \in {SensorSample(obs), Failed(obs)}
  PROVE  TelemetryInv'
<1>1. \A obs : Sample(SensorSample(obs)) /\ Sample(Failed(obs))
  BY DEF Sample, SensorSample, Failed, TelemetryInv
<1> QED BY <1>1 DEF TelemetryInv

\* The thread and the control only move samples of the heat.
LEMMA ThreadStep ==
  ASSUME TelemetryInv,
         Bridge \/ WakeForSettings \/ WakeToStop \/ ReadSensors \/ PublishIfCurrent
           \/ ThreadPanics \/ ThreadHangs \/ StopObservers
  PROVE  TelemetryInv'
<1>1. DOMAIN thread = {"pc", "gen", "obs", "due", "held"}
  BY DEF TelemetryInv
<1>2. CASE Bridge \/ StopObservers
  BY <1>1, <1>2, SampleStep DEF Bridge, StopObservers
<1>3. ASSUME thread' = AdoptSettings(thread)
      PROVE  DOMAIN thread' = {"pc", "gen", "obs", "due", "held"} /\ thread'.held = {}
  BY <1>1, <1>3 DEF AdoptSettings
<1>4. CASE WakeForSettings
  BY <1>3, <1>4, SampleStep DEF WakeForSettings
<1>5. CASE WakeToStop \/ ThreadHangs
  <2>1. DOMAIN thread' = {"pc", "gen", "obs", "due", "held"} /\ thread'.held = thread.held
    BY <1>1, <1>5 DEF WakeToStop, ThreadHangs
  <2> QED BY <1>5, <2>1, SampleStep DEF WakeToStop, ThreadHangs
<1>6. CASE ReadSensors
  <2>1. /\ DOMAIN thread' = {"pc", "gen", "obs", "due", "held"}
        /\ thread'.held = {SensorSample(thread.obs)}
    BY <1>1, <1>6 DEF ReadSensors
  <2> QED BY <1>6, <2>1, SampleStep DEF ReadSensors
<1>7. CASE PublishIfCurrent
  <2>1. CASE thread' = AdoptSettings(thread) /\ mail' = mail
    BY <1>3, <1>7, <2>1, SampleStep DEF PublishIfCurrent
  <2>2. CASE ~(thread' = AdoptSettings(thread) /\ mail' = mail)
    <3>1. /\ DOMAIN thread' = {"pc", "gen", "obs", "due", "held"} /\ thread'.held = {}
          /\ mail' = mail \/ mail' = thread.held
      BY <1>1, <1>7, <2>2 DEF PublishIfCurrent
    <3> QED BY <1>7, <3>1, SampleStep DEF PublishIfCurrent
  <2> QED BY <2>1, <2>2
<1>8. CASE ThreadPanics
  <2>1. /\ DOMAIN thread' = {"pc", "gen", "obs", "due", "held"} /\ thread'.held = {}
        /\ mail' = {Failed(settings.obs)}
    BY <1>1, <1>8 DEF ThreadPanics
  <2> QED BY <1>8, <2>1, SampleStep DEF ThreadPanics
<1> QED BY <1>2, <1>4, <1>5, <1>6, <1>7, <1>8

\* What the reducer makes of a sample, of a reload and of a wake.
LEMMA ReducerStep ==
  ASSUME TelemetryInv, ReduceThermal \/ ReloadObservers \/ WakeDistrusts
  PROVE  TelemetryInv'
<1>1. Believed(sensed) /\ heat \in [Zone -> Temperature]
  BY DEF TelemetryInv
<1>2. /\ DOMAIN sensed = SensedFields /\ DOMAIN sensed.guard = Zone
      /\ \A z \in Zone : GuardShape(sensed.guard[z])
  BY <1>1 DEF Believed
<1>3. mail' \subseteq mail /\ thread' = thread /\ heat' = heat
  BY DEF ReduceThermal, ReloadObservers, WakeDistrusts
<1>4. ASSUME Believed(sensed') PROVE TelemetryInv'
  BY <1>3, <1>4 DEF TelemetryInv
<1>5. CASE ReduceThermal
  <2>1. PICK m \in mail :
          sensed' = IF ~Accepted(m) THEN sensed
                    ELSE IF ~m.ok THEN MarkUnavailable(sensed)
                    ELSE WithReadings(sensed, [z \in Zone |-> [temp |-> m.heat[z], age |-> m.age,
                                                               obs |-> m.obs]])
    BY <1>5 DEF ReduceThermal
  <2> DEFINE readings == [z \in Zone |-> [temp |-> m.heat[z], age |-> m.age, obs |-> m.obs]]
  <2>2. CASE sensed' = sensed
    BY <1>1, <1>4, <2>2
  <2>3. CASE sensed' = MarkUnavailable(sensed)
    <3>1. Believed(MarkUnavailable(sensed))
      BY <1>2, Unavailable
    <3> QED BY <1>4, <2>3, <3>1
  <2>4. CASE Accepted(m) /\ sensed' = WithReadings(sensed, readings)
    <3>1. m.heat \in [Zone -> Temperature] /\ m.obs = sensed.obs
      BY <2>4 DEF TelemetryInv, Sample, Accepted
    <3>2. DOMAIN readings = Zone /\ \A z \in Zone : ReadingOf(sensed.obs, readings[z])
      BY <3>1 DEF ReadingOf
    <3> HIDE DEF readings
    <3>3. Believed(WithReadings(sensed, readings))
      BY <1>2, <3>2, ReadingsBelieved
    <3> QED BY <1>4, <2>4, <3>3
  <2> QED BY <2>1, <2>2, <2>3, <2>4
<1>6. CASE WakeDistrusts
  <2>1. Believed(MarkUnavailable(sensed))
    BY <1>2, Unavailable
  <2> QED BY <1>4, <1>6, <2>1 DEF WakeDistrusts
<1>7. CASE ReloadObservers
  <2> DEFINE fresh == [z \in Zone |-> NewGuard]
             s == [sensed EXCEPT !.guard = fresh]
  <2>1. DOMAIN s = SensedFields /\ s.guard = fresh
    BY <1>2 DEF SensedFields
  <2>2. \A z \in Zone : GuardShape(fresh[z])
    BY DEF NewGuard, GuardShape, Level, Degraded
  <2>3. PICK n : sensed' = [MarkUnavailable(s) EXCEPT !.obs = n]
    BY <1>7 DEF ReloadObservers
  <2> HIDE DEF s, fresh
  <2>4. Believed([MarkUnavailable(s) EXCEPT !.obs = n])
    BY <2>1, <2>2, Unavailable
  <2> QED BY <1>4, <2>3, <2>4
<1> QED BY <1>5, <1>6, <1>7

\* Readings and samples grow older and keep what was read.
LEMMA TickStep ==
  ASSUME TelemetryInv, TelemetryTick
  PROVE  TelemetryInv'
<1> DEFINE readings == [z \in Zone |-> [sensed.reading[z] EXCEPT !.age = Aged(@, StaleAfter + 1)]]
           guards == [z \in Zone |-> [sensed.guard[z] EXCEPT
                        !.pending = {[p EXCEPT !.since = Aged(@, Dwell)] : p \in @}]]
           s == [sensed EXCEPT !.guard = guards]
<1>1. Believed(sensed) /\ heat \in [Zone -> Temperature]
  BY DEF TelemetryInv
<1>2. sensed' = WithReadings(s, readings) /\ mail' = mail /\ heat' = heat
  BY DEF TelemetryTick
<1>3. ASSUME NEW z \in Zone
      PROVE  GuardShape(guards[z]) /\ ReadingOf(sensed.obs, readings[z])
  <2>1. ReadingOf(sensed.obs, sensed.reading[z]) /\ GuardShape(sensed.guard[z])
    BY <1>1 DEF Believed
  <2>2. GuardShape(guards[z])
    BY <2>1 DEF GuardShape
  <2>3. ReadingOf(sensed.obs, readings[z])
    BY <2>1 DEF ReadingOf
  <2> QED BY <2>2, <2>3
<1>4. DOMAIN readings = Zone
  OBVIOUS
<1> HIDE DEF readings, guards
<1>5. DOMAIN s = SensedFields /\ s.guard = guards /\ s.obs = sensed.obs
  BY <1>1 DEF Believed, SensedFields
<1> HIDE DEF s
<1>6. Believed(sensed')
  BY <1>2, <1>3, <1>4, <1>5, ReadingsBelieved
<1>7. /\ DOMAIN thread' = {"pc", "gen", "obs", "due", "held"}
      /\ thread'.held = {[m EXCEPT !.age = Aged(@, StaleAfter + 1)] : m \in thread.held}
  BY DEF TelemetryTick, TelemetryInv
<1>8. ASSUME NEW m \in thread'.held PROVE Sample(m)
  <2>1. PICK k \in thread.held : m = [k EXCEPT !.age = Aged(@, StaleAfter + 1)]
    BY <1>7
  <2>2. Sample(k)
    BY DEF TelemetryInv
  <2> QED BY <2>1, <2>2 DEF Sample
<1> QED BY <1>1, <1>2, <1>6, <1>7, <1>8 DEF TelemetryInv

\* The world changes and the reducer does not see it yet.
LEMMA WorldStep ==
  ASSUME TelemetryInv, HeatChanges \/ CadenceChanges
  PROVE  TelemetryInv'
<1>1. CASE CadenceChanges
  BY <1>1 DEF CadenceChanges, TelemetryInv
<1>2. CASE HeatChanges
  <2>1. PICK z \in Zone, t \in {{}} \cup {{n} : n \in 0 .. Threshold[3]} :
          heat' = [heat EXCEPT ![z] = t]
    BY <1>2 DEF HeatChanges
  <2>2. t \in Temperature
    BY TelemetryConstants DEF Temperature
  <2>3. heat' \in [Zone -> Temperature]
    BY <2>1, <2>2 DEF TelemetryInv
  <2>4. thread' = thread /\ mail' = mail /\ sensed' = sensed
    BY <1>2 DEF HeatChanges
  <2> QED BY <2>3, <2>4 DEF TelemetryInv
<1> QED BY <1>1, <1>2

\* The caps of the sensor-failure envelope are left only on readings of the
\* sensors now configured, none older than the limit, and a critical reading is
\* acted on at once, however reloads, panics, hangs, wakes and late publications
\* follow each other (reduce_thermal, publish_if_current,
\* refresh_thermal_staleness).
THEOREM OnlyTrustedReadings == TelemetrySpec => []TelemetryTrusted
<1>1. TelemetryInit => TelemetryInv
  <2> SUFFICES ASSUME TelemetryInit PROVE TelemetryInv
    OBVIOUS
  <2>1. heat \in [Zone -> Temperature]
    BY DEF TelemetryInit, Temperature
  <2>2. DOMAIN thread = {"pc", "gen", "obs", "due", "held"} /\ thread.held = {} /\ mail = {}
    BY DEF TelemetryInit
  <2> DEFINE first == [NewGuard EXCEPT !.state = Degraded]
             none == [z \in Zone |-> Unread]
             fresh == [z \in Zone |-> first]
  <2>3. sensed = [obs |-> 1, reading |-> none, guard |-> fresh, state |-> Degraded]
    BY DEF TelemetryInit
  <2>4. GuardShape(first)
    BY DEF NewGuard, GuardShape, Level, Degraded
  <2>5. ReadingOf(1, Unread)
    BY DEF Unread, ReadingOf, Temperature
  <2> HIDE DEF first
  <2>6. Believed(sensed)
    BY <2>3, <2>4, <2>5 DEF Believed, SensedFields
  <2> QED BY <2>1, <2>2, <2>6 DEF TelemetryInv
<1>2. TelemetryInv /\ [TelemetryNext]_telemetryVars => TelemetryInv'
  <2> SUFFICES ASSUME TelemetryInv, [TelemetryNext]_telemetryVars PROVE TelemetryInv'
    OBVIOUS
  <2>1. CASE UNCHANGED telemetryVars
    BY <2>1 DEF TelemetryInv, telemetryVars
  <2>2. CASE TelemetryNext
    BY <2>2, ThreadStep, ReducerStep, TickStep, WorldStep DEF TelemetryNext
  <2> QED BY <2>1, <2>2
<1>3. TelemetryInv => TelemetryTrusted
  <2> SUFFICES ASSUME TelemetryInv, sensed.state # Degraded, NEW z \in Zone
               PROVE  /\ Usable(sensed.reading[z]) /\ sensed.reading[z].obs = sensed.obs
                      /\ \A t \in sensed.reading[z].temp : t >= Threshold[3] => sensed.state = 3
    BY DEF TelemetryTrusted
  <2>1. /\ ReadingOf(sensed.obs, sensed.reading[z]) /\ Trusted(sensed.guard[z], sensed.reading[z])
        /\ sensed.guard[z].state # Degraded
        /\ sensed.guard[z].state = 3 => sensed.state = 3
    BY DEF TelemetryInv, Believed
  <2> QED BY <2>1 DEF Trusted, ReadingOf, Usable
<1> QED BY <1>1, <1>2, <1>3, PTL DEF TelemetrySpec

-----------------------------------------------------------------------------
(* EnergyGovernor: natural numbers and finite sets of them.                *)

\* Natural numbers that are some have a least one: < is well-founded.
LEMMA LeastNatural ==
  ASSUME NEW S \in SUBSET Nat, S # {}
  PROVE  \E x \in S : \A y \in S : x <= y
<1> DEFINE R == OpToRel(<, Nat)
<1>1. IsWellFoundedOn(R, Nat)
  BY NatLessThanWellFounded
<1>2. \A x, y \in Nat : <<y, x>> \in R <=> y < x
  BY DEF OpToRel
<1> HIDE DEF R
<1>3. PICK x \in S : \A y \in S : ~(<<y, x>> \in R)
  BY <1>1, WFMin
<1>4. \A y \in S : ~(y < x)
  BY <1>2, <1>3
<1>5. \A y \in S : x <= y
  BY <1>4
<1> QED BY <1>5

\* The least of some natural numbers is what MinOf finds.
LEMMA MinOfNaturals ==
  ASSUME NEW S \in SUBSET Nat, S # {}
  PROVE  MinOf(S) \in S /\ \A y \in S : MinOf(S) <= y
BY LeastNatural DEF MinOf

\* Natural numbers that have an upper bound have a greatest one.
LEMMA MaxOfBounded ==
  ASSUME NEW S \in SUBSET Nat, S # {}, NEW n \in Nat, \A y \in S : y <= n
  PROVE  MaxOf(S) \in S /\ \A y \in S : y <= MaxOf(S)
<1> DEFINE U == {m \in Nat : \A y \in S : y <= m}
<1>1. PICK x \in U : \A y \in U : x <= y
  <2>1. U \in SUBSET Nat /\ n \in U
    OBVIOUS
  <2> QED BY <2>1, LeastNatural
<1>2. x \in S
  <2> SUFFICES ASSUME x \notin S PROVE FALSE
    OBVIOUS
  <2>1. \A y \in S : y <= x - 1
    BY <1>1
  <2>2. PICK y \in S : TRUE
    OBVIOUS
  <2>3. x - 1 \in Nat
    BY <2>1, <2>2, <1>1
  <2> QED BY <2>1, <2>3, <1>1
<1> QED BY <1>1, <1>2 DEF MaxOf

\* A finite set of natural numbers has an upper bound.
LEMMA FiniteIsBounded ==
  ASSUME NEW S \in SUBSET Nat, IsFiniteSet(S)
  PROVE  \E n \in Nat : \A y \in S : y <= n
<1>1. PICK n \in Nat : ExistsSurjection(1 .. n, S)
  BY FS_NatSurjection
<1>2. PICK f \in [1 .. n -> S] : \A y \in S : \E i \in 1 .. n : f[i] = y
  BY <1>1 DEF ExistsSurjection, Surjection
<1> DEFINE Open == {m \in 0 .. n : ~\E b \in Nat : \A i \in 1 .. m : f[i] <= b}
<1>3. CASE Open = {}
  <2>1. n \in 0 .. n
    OBVIOUS
  <2>2. \E b \in Nat : \A i \in 1 .. n : f[i] <= b
    BY <2>1, <1>3
  <2> QED BY <2>2, <1>2
<1>4. CASE Open # {}
  <2>1. PICK m \in Open : \A y \in Open : m <= y
    <3>1. Open \in SUBSET Nat
      OBVIOUS
    <3> QED BY <3>1, <1>4, LeastNatural
  <2>2. m \in 0 .. n /\ ~\E b \in Nat : \A i \in 1 .. m : f[i] <= b
    BY <2>1, Zenon
  <2>3. m # 0
    <3>1. \A i \in 1 .. 0 : f[i] <= 0
      OBVIOUS
    <3> QED BY <3>1, <2>2
  <2>4. m - 1 \in 0 .. n /\ m - 1 \notin Open
    <3>1. m - 1 \in 0 .. n /\ ~(m <= m - 1)
      BY <2>3, <2>2
    <3> QED BY <3>1, <2>1, Zenon
  <2>5. PICK b \in Nat : \A i \in 1 .. m - 1 : f[i] <= b
    BY <2>4
  <2>6. f[m] \in Nat
    <3>1. m \in 1 .. n
      BY <2>2, <2>3
    <3> QED BY <3>1, <1>2
  <2>7. \A i \in 1 .. m : f[i] <= b + f[m]
    <3> TAKE i \in 1 .. m
    <3>1. CASE i = m
      BY <3>1, <2>5, <2>6
    <3>2. CASE i # m
      <4>1. i \in 1 .. m - 1 /\ i \in 1 .. n
        BY <3>2, <2>2
      <4>2. f[i] <= b /\ f[i] \in Nat
        BY <4>1, <2>5, <1>2
      <4> QED BY <4>2, <2>6
    <3> QED BY <3>1, <3>2
  <2>8. b + f[m] \in Nat
    BY <2>6
  <2> QED BY <2>2, <2>7, <2>8
<1> QED BY <1>3, <1>4

\* The elements of S that are before s.
Below(S, R, s) == {t \in S : <<t, s>> \in R}

\* In a finite set with a strict total order every rank is taken exactly once.
LEMMA Ranks ==
  ASSUME NEW S, IsFiniteSet(S), NEW R,
         \A s, t \in S : s = t \/ <<s, t>> \in R \/ <<t, s>> \in R,
         \A s \in S : <<s, s>> \notin R,
         \A s, t, u \in S : <<s, t>> \in R /\ <<t, u>> \in R => <<s, u>> \in R
  PROVE  /\ Cardinality(S) \in Nat
         /\ \A s \in S : Cardinality(Below(S, R, s)) \in 0 .. Cardinality(S) - 1
         /\ \A s, t \in S :
              <<s, t>> \in R => Cardinality(Below(S, R, s)) < Cardinality(Below(S, R, t))
         /\ \A n \in 1 .. Cardinality(S) :
              \E s \in S : Cardinality(Below(S, R, s)) = n - 1
<1> DEFINE rank(s) == Cardinality(Below(S, R, s))
<1>1. Cardinality(S) \in Nat
  BY FS_CardinalityType
<1>2. \A s \in S : /\ Below(S, R, s) \in SUBSET S /\ IsFiniteSet(Below(S, R, s))
                  /\ rank(s) \in Nat
  BY FS_Subset, FS_CardinalityType DEF Below
<1>3. \A s \in S : rank(s) \in 0 .. Cardinality(S) - 1
  <2> TAKE s \in S
  <2>1. Below(S, R, s) \in SUBSET S /\ s \notin Below(S, R, s)
    BY DEF Below
  <2>2. rank(s) <= Cardinality(S) /\ rank(s) # Cardinality(S)
    BY <2>1, FS_Subset
  <2> QED BY <2>2, <1>1, <1>2
<1>4. \A s, t \in S : <<s, t>> \in R => rank(s) < rank(t)
  <2> SUFFICES ASSUME NEW s \in S, NEW t \in S, <<s, t>> \in R PROVE rank(s) < rank(t)
    OBVIOUS
  <2>1. Below(S, R, s) \in SUBSET Below(S, R, t)
    BY DEF Below
  <2>2. s \in Below(S, R, t) /\ s \notin Below(S, R, s)
    BY DEF Below
  <2>3. rank(s) <= rank(t) /\ rank(s) # rank(t)
    BY <2>1, <2>2, <1>2, FS_Subset
  <2> QED BY <2>3, <1>2
<1>5. \A n \in 1 .. Cardinality(S) : \E s \in S : rank(s) = n - 1
  <2> DEFINE N == 1 .. Cardinality(S)
             f == [s \in S |-> rank(s) + 1]
  <2>1. f \in Injection(S, N)
    <3>1. f \in [S -> N]
      BY <1>1, <1>3
    <3>2. \A s, t \in S : f[s] = f[t] => s = t
      <4> SUFFICES ASSUME NEW s \in S, NEW t \in S, f[s] = f[t], s # t PROVE FALSE
        OBVIOUS
      <4>1. rank(s) = rank(t)
        BY <1>2
      <4>2. rank(s) < rank(t) \/ rank(t) < rank(s)
        BY <1>4
      <4> QED BY <4>1, <4>2, <1>2
    <3> QED BY <3>1, <3>2 DEF Injection, IsInjective
  <2>2. IsFiniteSet(N) /\ Cardinality(N) = Cardinality(S)
    BY <1>1, FS_Interval
  <2> HIDE DEF f, N
  <2>3. f \in Surjection(S, N)
    BY <2>1, <2>2, FS_Injection
  <2>4. \A n \in N : \E s \in S : f[s] = n
    BY <2>3 DEF Surjection
  <2> USE DEF f, N
  <2> SUFFICES ASSUME NEW n \in N PROVE \E s \in S : rank(s) = n - 1
    OBVIOUS
  <2>5. PICK s \in S : f[s] = n
    BY <2>4
  <2>6. rank(s) = n - 1
    BY <2>5, <1>2, <1>1
  <2> QED BY <2>6
<1> QED BY <1>1, <1>3, <1>4, <1>5

-----------------------------------------------------------------------------
(* Operating points.                                                       *)

\* The operating points of a target have a lowest and a highest one.
LEMMA Extremes ==
  ASSUME NEW c \in Targets, NEW T \in SUBSET Opps[c], T # {}
  PROVE  /\ T \subseteq Nat
         /\ MinOf(T) \in T /\ \A y \in T : MinOf(T) <= y
         /\ MaxOf(T) \in T /\ \A y \in T : y <= MaxOf(T)
<1>1. Opps[c] \subseteq Nat /\ IsFiniteSet(Opps[c])
  BY GovernorConstants
<1>2. PICK n \in Nat : \A y \in Opps[c] : y <= n
  BY <1>1, FiniteIsBounded
<1>3. T \in SUBSET Nat /\ \A y \in T : y <= n
  BY <1>1, <1>2
<1> QED BY <1>3, MinOfNaturals, MaxOfBounded

\* The hardware limits of a target are operating points around all others.
LEMMA HardwareLimits ==
  ASSUME NEW c \in Targets
  PROVE  /\ Hardware[c].min \in Opps[c] /\ Hardware[c].max \in Opps[c]
         /\ Opps[c] \subseteq Nat
         /\ \A f \in Opps[c] : Hardware[c].min <= f /\ f <= Hardware[c].max
<1>1. Opps[c] # {} /\ Opps[c] \in SUBSET Opps[c]
  BY GovernorConstants
<1> QED BY <1>1, Extremes DEF Hardware

\* Snapping down finds a point that is not above, if there is one.
LEMMA SnapDownFinds ==
  ASSUME NEW c \in Targets, NEW T \in SUBSET Opps[c], NEW f
  PROVE  /\ SnapDown(T, f) \subseteq T
         /\ \A x \in SnapDown(T, f) : x <= f
         /\ (\E x \in T : x <= f) => \E x \in T : SnapDown(T, f) = {x} /\ x <= f
<1> DEFINE below == {x \in T : x <= f}
<1>1. below \in SUBSET Opps[c]
  OBVIOUS
<1>2. CASE below = {}
  BY <1>2 DEF SnapDown
<1>3. CASE below # {}
  <2>1. MaxOf(below) \in below
    BY <1>1, <1>3, Extremes
  <2>2. SnapDown(T, f) = {MaxOf(below)}
    BY <1>3 DEF SnapDown
  <2> QED BY <2>1, <2>2
<1> QED BY <1>2, <1>3

\* The extremes of one number.
LEMMA MaxOfSingleton ==
  ASSUME NEW x \in Nat
  PROVE  MaxOf({x}) = x /\ MinOf({x}) = x
<1>1. \A y \in {x} : y <= x /\ x <= y
  OBVIOUS
<1> QED BY <1>1 DEF MaxOf, MinOf

\* An override keeps to the cap and is not reversed.
LEMMA Constrained ==
  ASSUME NEW c \in Targets, NEW asked, asked.min \in Nat, asked.max \in Nat,
         NEW cap \in Nat, Hardware[c].min <= cap
  PROVE  LET l == Constrain(c, asked, cap)
         IN  l.min \in Nat /\ l.max \in Nat /\ l.min <= l.max /\ l.max <= cap
<1> DEFINE hw == Hardware[c]
           hard == Higher(hw.min, Lower(cap, hw.max))
           top == Higher(hw.min, Lower(asked.max, hard))
           max == MaxOf(SnapDown(Opps[c], top))
           low == Higher(hw.min, Lower(asked.min, max))
           up == SnapUp(Opps[c], low)
<1>1. hw.min \in Nat /\ hw.max \in Nat /\ hw.min <= hw.max
  BY HardwareLimits
<1>2. hard \in Nat /\ hard <= cap /\ hw.min <= hard
  BY <1>1 DEF Higher, Lower
<1>3. top \in Nat /\ top <= hard /\ hw.min <= top
  BY <1>1, <1>2 DEF Higher, Lower
<1>4. max \in Nat /\ max <= top
  <2>1. hw.min \in Opps[c] /\ hw.min <= top /\ Opps[c] \in SUBSET Opps[c]
    BY <1>3, HardwareLimits
  <2>2. PICK x \in Opps[c] : SnapDown(Opps[c], top) = {x} /\ x <= top
    BY <2>1, SnapDownFinds
  <2>3. x \in Nat
    BY HardwareLimits
  <2> QED BY <2>2, <2>3, MaxOfSingleton
<1>5. up # {} => MinOf(up) \in Nat
  <2> SUFFICES ASSUME up # {} PROVE MinOf(up) \in Nat
    OBVIOUS
  <2> DEFINE above == {x \in Opps[c] : x >= low}
  <2>1. above # {} /\ up = {MinOf(above)}
    BY DEF SnapUp
  <2>2. above \in SUBSET Opps[c]
    OBVIOUS
  <2>3. MinOf(above) \in Nat
    BY <2>1, <2>2, Extremes
  <2> QED BY <2>1, <2>3, MaxOfSingleton
<1> HIDE DEF up, max, top, hard, low, hw
<1>6. Constrain(c, asked, cap) =
        [min |-> IF up = {} THEN max ELSE Lower(MinOf(up), max), max |-> max]
  BY DEF Constrain, up, max, top, hard, low, hw
<1>7. /\ Constrain(c, asked, cap).max = max
      /\ Constrain(c, asked, cap).min = IF up = {} THEN max ELSE Lower(MinOf(up), max)
  BY <1>6
<1>8. max <= cap
  BY <1>2, <1>3, <1>4
<1>9. CASE up = {}
  BY <1>4, <1>7, <1>8, <1>9
<1>10. CASE up # {}
  <2>1. Lower(MinOf(up), max) \in Nat /\ Lower(MinOf(up), max) <= max
    BY <1>4, <1>5, <1>10 DEF Lower
  <2> QED BY <2>1, <1>4, <1>7, <1>8, <1>10
<1> QED BY <1>9, <1>10

-----------------------------------------------------------------------------
(* The models.                                                             *)

\* Products of natural numbers grow with their factors.
LEMMA Times ==
  ASSUME NEW a \in Nat, NEW b \in Nat, NEW x \in Nat, NEW y \in Nat, a <= b, x <= y
  PROVE  a * x \in Nat /\ b * y \in Nat /\ a * x <= b * y
<1>1. a * x \in Nat /\ b * x \in Nat /\ b * y \in Nat
  OBVIOUS
<1>2. a * x <= b * x
  <2>1. b - a \in Nat /\ (b - a) * x \in Nat
    OBVIOUS
  <2>2. b * x = a * x + (b - a) * x
    OBVIOUS
  <2> QED BY <2>1, <2>2, <1>1
<1>3. b * x <= b * y
  <2>1. y - x \in Nat /\ b * (y - x) \in Nat
    OBVIOUS
  <2>2. b * y = b * x + b * (y - x)
    OBVIOUS
  <2> QED BY <2>1, <2>2, <1>1
<1> QED BY <1>1, <1>2, <1>3

\* The reference curve does not fall.
LEMMA CurveRises ==
  ASSUME NEW m, m.plain \in Nat, m.sweet \in Nat, m.plain <= m.sweet,
         NEW f \in Nat, NEW g \in Nat, f <= g
  PROVE  CurvePower(m, f) \in Nat /\ CurvePower(m, f) <= CurvePower(m, g)
<1> DEFINE p == m.plain
           w == m.sweet
<1>1. CurvePower(m, f) = IF f <= p THEN w * p * f ELSE IF f <= w THEN w * f * f ELSE f * f * f
  BY DEF CurvePower
<1>2. CurvePower(m, g) = IF g <= p THEN w * p * g ELSE IF g <= w THEN w * g * g ELSE g * g * g
  BY DEF CurvePower
<1>3. p \in Nat /\ w \in Nat /\ p <= w
  OBVIOUS
<1> HIDE DEF p, w
<1>4. CASE f <= p
  <2>1. CurvePower(m, f) = w * p * f /\ w * p \in Nat /\ w * p * f \in Nat
    BY <1>1, <1>3, <1>4
  <2>2. CASE g <= p
    <3>1. CurvePower(m, g) = w * p * g
      BY <1>2, <2>2
    <3> QED BY <3>1, <2>1, Times
  <2>3. CASE ~(g <= p) /\ g <= w
    <3>1. CurvePower(m, g) = w * g * g
      BY <1>2, <2>3
    <3>2. w * p <= w * g /\ w * g \in Nat
      BY <2>3, <1>3, Times
    <3>3. w * p * f <= w * g * g
      BY <3>2, <2>1, Times
    <3> QED BY <3>1, <3>3, <2>1
  <2>4. CASE ~(g <= p) /\ ~(g <= w)
    <3>1. CurvePower(m, g) = g * g * g
      BY <1>2, <2>4
    <3>2. w * p <= g * g /\ g * g \in Nat
      BY <2>4, <1>3, Times
    <3>3. w * p * f <= g * g * g
      BY <3>2, <2>1, Times
    <3> QED BY <3>1, <3>3, <2>1
  <2> QED BY <2>2, <2>3, <2>4
<1>5. CASE ~(f <= p) /\ f <= w
  <2>1. CurvePower(m, f) = w * f * f /\ w * f \in Nat /\ w * f * f \in Nat
    BY <1>1, <1>3, <1>5
  <2>2. CASE g <= w
    <3>1. CurvePower(m, g) = w * g * g
      BY <1>2, <1>3, <1>5, <2>2
    <3>2. w * f <= w * g /\ w * g \in Nat
      BY <1>3, Times
    <3>3. w * f * f <= w * g * g
      BY <3>2, <2>1, Times
    <3> QED BY <3>1, <3>3, <2>1
  <2>3. CASE ~(g <= w)
    <3>1. CurvePower(m, g) = g * g * g
      BY <1>2, <1>3, <1>5, <2>3
    <3>2. w * f <= g * g /\ g * g \in Nat
      BY <2>3, <1>3, Times
    <3>3. w * f * f <= g * g * g
      BY <3>2, <2>1, Times
    <3> QED BY <3>1, <3>3, <2>1
  <2> QED BY <2>2, <2>3
<1>6. CASE ~(f <= w)
  <2>1. CurvePower(m, f) = f * f * f /\ CurvePower(m, g) = g * g * g
    BY <1>1, <1>2, <1>3, <1>6
  <2>2. f * f <= g * g /\ f * f \in Nat /\ g * g \in Nat
    BY Times
  <2>3. f * f * f <= g * g * g /\ f * f * f \in Nat
    BY <2>2, Times
  <2> QED BY <2>1, <2>3
<1> QED BY <1>3, <1>4, <1>5, <1>6

\* The nearest operating point is one.
LEMMA SnapNearestFinds ==
  ASSUME NEW c \in Targets, NEW f \in Int
  PROVE  SnapNearest(Opps[c], f) \in Opps[c]
<1>1. Opps[c] \subseteq Nat /\ Opps[c] # {}
  BY GovernorConstants
<1> DEFINE D == {Distance(x, f) : x \in Opps[c]}
<1>2. \A x \in Opps[c] : Distance(x, f) \in Nat
  BY <1>1 DEF Distance
<1>3. PICK d \in D : \A e \in D : d <= e
  <2>1. D \in SUBSET Nat /\ D # {}
    BY <1>1, <1>2
  <2> QED BY <2>1, LeastNatural
<1> DEFINE X == {x \in Opps[c] : Distance(x, f) = d}
<1>4. PICK x \in X : \A y \in X : x <= y
  <2>1. X \in SUBSET Nat /\ X # {}
    BY <1>1, <1>3
  <2> QED BY <2>1, LeastNatural
<1>5. \A y \in Opps[c] : \/ Distance(x, f) < Distance(y, f)
                         \/ Distance(x, f) = Distance(y, f) /\ x <= y
  <2> TAKE y \in Opps[c]
  <2>1. Distance(x, f) = d /\ d <= Distance(y, f) /\ d \in Nat /\ Distance(y, f) \in Nat
    BY <1>2, <1>3, <1>4
  <2>2. d = Distance(y, f) => x <= y
    BY <1>4
  <2> QED BY <2>1, <2>2
<1> QED BY <1>4, <1>5 DEF SnapNearest

\* The sparse points between two corners are integers.
LEMMA BetweenIsInt ==
  ASSUME NEW a \in Nat, NEW b \in Nat, NEW k \in Nat, NEW n \in Nat \ {0}
  PROVE  Between(a, b, k, n) \in Int
<1>1. (b - a) * k \in Int
  OBVIOUS
<1>2. ((b - a) * k) \div n \in Int
  BY <1>1
<1> QED BY <1>2 DEF Between

\* Costs per capacity are compared without a division.
LEMMA Cancels ==
  ASSUME NEW d \in Nat \ {0}, NEW x \in Nat, NEW y \in Nat
  PROVE  /\ d * x <= d * y => x <= y
         /\ d * x < d * y => x < y
<1>1. CASE x <= y
  <2>1. x = y => d * x = d * y
    OBVIOUS
  <2>2. d * x \in Nat /\ d * y \in Nat
    OBVIOUS
  <2> QED BY <1>1, <2>1, <2>2
<1>2. CASE ~(x <= y)
  <2>1. d * (y + 1) <= d * x
    BY <1>2, Times
  <2>2. d * (y + 1) = d * y + d /\ d * y \in Nat /\ d * x \in Nat
    OBVIOUS
  <2> QED BY <2>1, <2>2
<1> QED BY <1>1, <1>2

\* Being cheaper per performance carries over.
LEMMA CostTransitive ==
  ASSUME NEW a \in Nat, NEW b \in Nat \ {0}, NEW x \in Nat, NEW y \in Nat \ {0},
         NEW u \in Nat, NEW v \in Nat \ {0}, a * y <= x * b, x * v <= u * y
  PROVE  /\ a * v <= u * b
         /\ a * y < x * b \/ x * v < u * y => a * v < u * b
<1>1. a * v \in Nat /\ u * b \in Nat /\ a * y \in Nat /\ x * b \in Nat
      /\ x * v \in Nat /\ u * y \in Nat
  OBVIOUS
<1>2. (a * y) * v <= (x * b) * v /\ (x * v) * b <= (u * y) * b
  BY <1>1, Times
<1>3. /\ (a * y) * v = y * (a * v) /\ (x * b) * v = (x * v) * b
      /\ (u * y) * b = y * (u * b)
  OBVIOUS
<1>4. y * (a * v) \in Nat /\ y * (u * b) \in Nat /\ (x * v) * b \in Nat
  BY <1>1
<1>5. y * (a * v) <= y * (u * b)
  BY <1>2, <1>3, <1>4
<1>6. a * y < x * b => y * (a * v) < y * (u * b)
  <2> SUFFICES ASSUME a * y < x * b PROVE y * (a * v) < y * (u * b)
    OBVIOUS
  <2>1. a * y + 1 <= x * b /\ a * y + 1 \in Nat
    BY <1>1
  <2>2. (a * y + 1) * v <= (x * b) * v
    BY <2>1, <1>1, Times
  <2>3. (a * y + 1) * v = (a * y) * v + v
    BY <1>1
  <2> QED BY <2>2, <2>3, <1>2, <1>3, <1>4
<1>7. x * v < u * y => y * (a * v) < y * (u * b)
  <2> SUFFICES ASSUME x * v < u * y PROVE y * (a * v) < y * (u * b)
    OBVIOUS
  <2>1. x * v + 1 <= u * y /\ x * v + 1 \in Nat
    BY <1>1
  <2>2. (x * v + 1) * b <= (u * y) * b
    BY <2>1, <1>1, Times
  <2>3. (x * v + 1) * b = (x * v) * b + b
    BY <1>1
  <2> QED BY <2>2, <2>3, <1>2, <1>3, <1>4
<1> QED BY <1>1, <1>5, <1>6, <1>7, Cancels

\* Some point of a measured model has the lowest cost.
LEMMA CheapestExists ==
  ASSUME NEW S \in SUBSET Nat, S # {}, IsFiniteSet(S), NEW p,
         \A f \in S : p[f].power \in Nat /\ p[f].capacity \in Nat \ {0}
  PROVE  \E f \in S : \A g \in S : p[f].power * p[g].capacity <= p[g].power * p[f].capacity
<1> DEFINE cost(f, g) == p[f].power * p[g].capacity
           dearer(f, g) == cost(f, g) < cost(g, f) \/ (cost(f, g) = cost(g, f) /\ f < g)
           R == {q \in S \X S : dearer(q[1], q[2])}
<1>1. \A f, g \in S : cost(f, g) \in Nat
  <2> TAKE f, g \in S
  <2>1. p[f].power \in Nat /\ p[g].capacity \in Nat
    OBVIOUS
  <2> QED BY <2>1
<1>2. \A s, t, u \in S : cost(s, t) <= cost(t, s) /\ cost(t, u) <= cost(u, t) =>
         /\ cost(s, u) <= cost(u, s)
         /\ cost(s, t) < cost(t, s) \/ cost(t, u) < cost(u, t) => cost(s, u) < cost(u, s)
  <2> SUFFICES ASSUME NEW s \in S, NEW t \in S, NEW u \in S,
                      cost(s, t) <= cost(t, s), cost(t, u) <= cost(u, t)
               PROVE  /\ cost(s, u) <= cost(u, s)
                      /\ cost(s, t) < cost(t, s) \/ cost(t, u) < cost(u, t) =>
                           cost(s, u) < cost(u, s)
    OBVIOUS
  <2> DEFINE a == p[s].power
             b == p[s].capacity
             x == p[t].power
             y == p[t].capacity
             w == p[u].power
             v == p[u].capacity
  <2>1. a \in Nat /\ b \in Nat \ {0} /\ x \in Nat /\ y \in Nat \ {0}
        /\ w \in Nat /\ v \in Nat \ {0} /\ a * y <= x * b /\ x * v <= w * y
    OBVIOUS
  <2> HIDE DEF a, b, x, y, w, v
  <2>2. a * v <= w * b /\ (a * y < x * b \/ x * v < w * y => a * v < w * b)
    BY <2>1, CostTransitive
  <2> QED BY <2>2 DEF a, b, x, y, w, v
<1> HIDE DEF cost
<1>3. \A f, g \in S : <<f, g>> \in R <=> dearer(f, g)
  OBVIOUS
<1>4. \A s, t \in S : s = t \/ <<s, t>> \in R \/ <<t, s>> \in R
  <2> TAKE s, t \in S
  <2>1. s = t \/ dearer(s, t) \/ dearer(t, s)
    BY <1>1
  <2> QED BY <2>1, <1>3
<1>5. \A s \in S : <<s, s>> \notin R
  BY <1>1, <1>3
<1>6. \A s, t, u \in S : <<s, t>> \in R /\ <<t, u>> \in R => <<s, u>> \in R
  <2> SUFFICES ASSUME NEW s \in S, NEW t \in S, NEW u \in S, dearer(s, t), dearer(t, u)
               PROVE  dearer(s, u)
    BY <1>3
  <2>1. cost(s, t) <= cost(t, s) /\ cost(t, u) <= cost(u, t)
    BY <1>1
  <2>2. /\ cost(s, u) <= cost(u, s)
        /\ cost(s, t) < cost(t, s) \/ cost(t, u) < cost(u, t) => cost(s, u) < cost(u, s)
    BY <2>1, <1>2
  <2>3. cost(s, u) \in Nat /\ cost(u, s) \in Nat
    BY <1>1
  <2>4. CASE cost(s, t) < cost(t, s) \/ cost(t, u) < cost(u, t)
    BY <2>2, <2>4
  <2>5. CASE ~(cost(s, t) < cost(t, s) \/ cost(t, u) < cost(u, t))
    <3>1. s < t /\ t < u
      BY <2>5, <2>1, <1>1
    <3>2. s < u
      BY <3>1
    <3> QED BY <3>2, <2>2, <2>3
  <2> QED BY <2>4, <2>5
<1> HIDE DEF R
<1>7. \A n \in 1 .. Cardinality(S) : \E s \in S : Cardinality(Below(S, R, s)) = n - 1
  BY <1>4, <1>5, <1>6, Ranks
<1>8. Cardinality(S) \in Nat /\ Cardinality(S) # 0
  BY FS_CardinalityType, FS_EmptySet
<1>9. 1 \in 1 .. Cardinality(S)
  BY <1>8
<1>10. PICK s \in S : Cardinality(Below(S, R, s)) = 1 - 1
  BY <1>7, <1>9
<1>11. Below(S, R, s) = {}
  <2>1. Below(S, R, s) \in SUBSET S
    BY DEF Below
  <2>2. IsFiniteSet(Below(S, R, s))
    BY <2>1, FS_Subset
  <2> QED BY <2>2, <1>10, FS_EmptySet
<1>12. \A t \in S : ~dearer(t, s)
  BY <1>11, <1>3 DEF Below
<1>13. \A t \in S : cost(s, t) <= cost(t, s)
  BY <1>12, <1>1
<1> QED BY <1>13 DEF cost

\* What the path needs of an expanded model.
ModelShape(c, m) ==
  /\ m.control \subseteq Opps[c] /\ m.control # {} /\ m.plain \in Nat
  /\ \A f \in Opps[c] : m.power[f] \in Nat
  /\ \A f, g \in Opps[c] : f <= g => m.power[f] <= m.power[g]

\* A reference curve expands to such a model.
LEMMA ReferenceShape ==
  ASSUME NEW c \in Targets, NEW m, m.free \in Nat, m.plain \in Nat, m.sweet \in Nat,
         m.plain <= m.sweet
  PROVE  ModelShape(c, ExpandReference(Opps[c], m))
<1> DEFINE S == Opps[c]
           free == SnapNearest(S, m.free)
           plain == SnapNearest(S, m.plain)
           sweet == SnapNearest(S, m.sweet)
           F == {free, plain} \cup {Between(plain, sweet, k, 3) : k \in 1..3}
                  \cup {Between(sweet, MaxOf(S), k, 4) : k \in 1..4}
           e == ExpandReference(S, m)
<1>1. S \subseteq Nat /\ S # {} /\ S \in SUBSET S
  BY GovernorConstants
<1>2. free \in S /\ plain \in S /\ sweet \in S /\ MaxOf(S) \in S
  BY <1>1, SnapNearestFinds, Extremes
<1>3. F \subseteq Int
  <2>1. plain \in Nat /\ sweet \in Nat /\ MaxOf(S) \in Nat /\ free \in Nat
    BY <1>1, <1>2
  <2> HIDE DEF plain, sweet, free, S
  <2>2. \A k \in 1..3 : Between(plain, sweet, k, 3) \in Int
    <3> TAKE k \in 1..3
    <3>1. k \in Nat /\ 3 \in Nat \ {0}
      OBVIOUS
    <3> QED BY <3>1, <2>1, BetweenIsInt
  <2>3. \A k \in 1..4 : Between(sweet, MaxOf(S), k, 4) \in Int
    <3> TAKE k \in 1..4
    <3>1. k \in Nat /\ 4 \in Nat \ {0}
      OBVIOUS
    <3> QED BY <3>1, <2>1, BetweenIsInt
  <2> QED BY <2>1, <2>2, <2>3
<1>4. SparseOpps(S, free, plain, sweet) = {SnapNearest(S, f) : f \in F}
  BY DEF SparseOpps
<1>5. free \in F
  OBVIOUS
<1> HIDE DEF F
<1>6. SparseOpps(S, free, plain, sweet) \subseteq S /\ SparseOpps(S, free, plain, sweet) # {}
  BY <1>3, <1>4, <1>5, SnapNearestFinds
<1>7. /\ e.power = [f \in S |-> CurvePower(m, f)] /\ e.plain = plain
      /\ e.control = SparseOpps(S, free, plain, sweet)
  BY DEF ExpandReference
<1> HIDE DEF free, plain, sweet, e
<1>8. \A f \in S : e.power[f] = CurvePower(m, f)
  BY <1>7
<1>9. \A f \in S : e.power[f] \in Nat
  BY <1>1, <1>8, CurveRises
<1>10. \A f, g \in S : f <= g => e.power[f] <= e.power[g]
  BY <1>1, <1>8, CurveRises
<1>11. e.plain \in Nat
  BY <1>1, <1>2, <1>7
<1> QED BY <1>6, <1>7, <1>9, <1>10, <1>11 DEF ModelShape, e

\* So do measured points.
LEMMA MeasuredShape ==
  ASSUME NEW c \in Targets, NEW p, Opps[c] \subseteq DOMAIN p, PointsValid(p),
         \A f \in DOMAIN p : p[f].power \in Nat /\ p[f].capacity \in Nat
  PROVE  ModelShape(c, ExpandMeasured(Opps[c], p))
<1> DEFINE S == Opps[c]
           T == {f \in S : \A g \in S : p[f].power * p[g].capacity <= p[g].power * p[f].capacity}
           e == ExpandMeasured(S, p)
<1>1. S \in SUBSET Nat /\ S # {} /\ IsFiniteSet(S)
  BY GovernorConstants
<1>2. \A f \in S : p[f].power \in Nat /\ p[f].capacity \in Nat \ {0}
  BY DEF PointsValid
<1>3. \A f, g \in S : f < g => p[f].power <= p[g].power
  BY DEF PointsValid
<1>4. T # {} /\ T \in SUBSET S
  BY <1>1, <1>2, CheapestExists
<1>5. e.power = [f \in S |-> p[f].power] /\ e.plain = MinOf(T) /\ e.control = S
  BY DEF ExpandMeasured
<1> HIDE DEF T, e
<1>6. e.plain \in Nat
  BY <1>1, <1>4, <1>5, Extremes
<1>7. \A f \in S : e.power[f] = p[f].power /\ e.power[f] \in Nat
  BY <1>2, <1>5
<1>8. \A f, g \in S : f <= g => e.power[f] <= e.power[g]
  <2> SUFFICES ASSUME NEW f \in S, NEW g \in S, f <= g PROVE e.power[f] <= e.power[g]
    OBVIOUS
  <2>1. f = g \/ f < g
    BY <1>1
  <2> QED BY <2>1, <1>3, <1>7
<1> QED BY <1>1, <1>5, <1>6, <1>7, <1>8 DEF ModelShape, e

\* So does every model of an accepted configuration.
LEMMA AcceptedModels ==
  ASSUME NEW k \in Configurations, Acceptable(k), NEW c \in Cluster
  PROVE  ModelShape(c, ModelOf(c, k.model[c]))
<1>1. c \in Targets
  BY DEF Targets
<1>2. ModelValid(k.model[c]) /\ Expandable(c, k.model[c])
  BY DEF Acceptable
<1>3. CASE k.model[c].kind = "measured"
  <2>1. PointsValid(k.model[c].point) /\ Opps[c] \subseteq DOMAIN k.model[c].point
    BY <1>2, <1>3 DEF ModelValid, Expandable
  <2>2. \A f \in DOMAIN k.model[c].point :
          k.model[c].point[f].power \in Nat /\ k.model[c].point[f].capacity \in Nat
    BY <1>3, GovernorConstants
  <2>3. ModelOf(c, k.model[c]) = ExpandMeasured(Opps[c], k.model[c].point)
    BY <1>3 DEF ModelOf
  <2> QED BY <1>1, <2>1, <2>2, <2>3, MeasuredShape
<1>4. CASE k.model[c].kind # "measured"
  <2>1. k.model[c].free \in Nat /\ k.model[c].plain \in Nat /\ k.model[c].sweet \in Nat
    BY <1>4, GovernorConstants
  <2>2. k.model[c].plain <= k.model[c].sweet
    BY <1>2, <1>4 DEF ModelValid
  <2>3. ModelOf(c, k.model[c]) = ExpandReference(Opps[c], k.model[c])
    BY <1>4 DEF ModelOf
  <2> QED BY <1>1, <2>1, <2>2, <2>3, ReferenceShape
<1> QED BY <1>3, <1>4

-----------------------------------------------------------------------------
(* The safety caps.                                                        *)

\* The cap of a throttled target is one of its operating points.
LEMMA MiddleIsOffered ==
  ASSUME NEW c \in Targets
  PROVE  MiddleOpp(c) \in Opps[c]
<1> DEFINE S == Opps[c]
           R == {q \in S \X S : q[1] < q[2]}
           h == Cardinality(S) \div 2
<1>1. S \in SUBSET Nat /\ S # {} /\ IsFiniteSet(S)
  BY GovernorConstants
<1>2. \A f, g \in S : <<f, g>> \in R <=> f < g
  OBVIOUS
<1>3. \A s, t \in S : s = t \/ <<s, t>> \in R \/ <<t, s>> \in R
  <2> TAKE s, t \in S
  <2>1. s = t \/ s < t \/ t < s
    BY <1>1
  <2> QED BY <2>1, <1>2
<1>4. \A s \in S : <<s, s>> \notin R
  BY <1>1, <1>2
<1>5. \A s, t, u \in S : <<s, t>> \in R /\ <<t, u>> \in R => <<s, u>> \in R
  BY <1>1, <1>2
<1> HIDE DEF R
<1>6. \A n \in 1 .. Cardinality(S) : \E s \in S : Cardinality(Below(S, R, s)) = n - 1
  BY <1>1, <1>3, <1>4, <1>5, Ranks
<1>7. Cardinality(S) \in Nat /\ Cardinality(S) # 0
  BY <1>1, FS_CardinalityType, FS_EmptySet
<1>8. h + 1 \in 1 .. Cardinality(S) /\ (h + 1) - 1 = h
  BY <1>7
<1>9. PICK s \in S : Cardinality(Below(S, R, s)) = h
  <2>1. PICK s \in S : Cardinality(Below(S, R, s)) = (h + 1) - 1
    BY <1>6, <1>8
  <2> QED BY <2>1, <1>8
<1>10. Below(S, R, s) = {g \in S : g < s}
  BY <1>2 DEF Below
<1> QED BY <1>9, <1>10 DEF MiddleOpp

\* No cap is below the lowest operating point.
LEMMA SafetyCapInRange ==
  ASSUME NEW k \in Configurations, Acceptable(k), NEW c \in Targets, NEW s \in Thermal
  PROVE  /\ SafetyCap(s, c, k.limit[c]) \in Nat
         /\ Hardware[c].min <= SafetyCap(s, c, k.limit[c])
<1> DEFINE l == k.limit[c]
           lowest == Hardware[c].min
           High == {n \in Nat : lowest <= n}
<1>1. lowest \in Nat /\ Hardware[c].max \in High /\ lowest \in High /\ Opps[c] \subseteq High
  BY HardwareLimits
<1>2. l.admin \subseteq Nat /\ l.critical \subseteq Nat /\ l.failure \subseteq Nat
  BY GovernorConstants
<1>3. CapsValid(c, l)
  BY DEF Acceptable
<1>4. l.admin \subseteq High /\ l.critical \subseteq High /\ l.failure \subseteq High
  BY <1>2, <1>3 DEF CapsValid
<1>5. CriticalCap(c, l) \in High /\ FailureCap(c, l) \in High
  BY <1>1, <1>2, <1>4, MinOfNaturals DEF CriticalCap, FailureCap, Optional
<1>6. c \in Cluster => l.efficient \in High /\ l.reference \in High
  <2> SUFFICES ASSUME c \in Cluster PROVE l.efficient \in High /\ l.reference \in High
    OBVIOUS
  <2>1. FrequencyPolicyValid(c, l)
    BY DEF Acceptable
  <2>2. l.floor \in Nat /\ l.reference \in Nat /\ l.efficient \in Nat
    BY GovernorConstants
  <2> QED BY <2>1, <2>2, <1>1 DEF FrequencyPolicyValid
<1>7. ThermalCap(s, c, l) \subseteq High
  <2>1. s \in {"normal", "warning", "throttled", "critical", "degraded"}
    BY GovernorConstants
  <2>2. MiddleOpp(c) \in High
    BY <1>1, MiddleIsOffered
  <2>3. c \in Cluster => Lower(l.reference, l.efficient) \in High
    BY <1>6 DEF Lower
  <2> HIDE DEF High, l
  <2> QED BY <2>1, <2>2, <2>3, <1>5, <1>6 DEF ThermalCap
<1> DEFINE T == l.admin \cup ThermalCap(s, c, l) \cup {Hardware[c].max}
<1>8. T \subseteq High /\ T # {}
  BY <1>1, <1>4, <1>7
<1>9. High \subseteq Nat
  OBVIOUS
<1> HIDE DEF T
<1>10. MinOf(T) \in High
  BY <1>8, <1>9, MinOfNaturals
<1> QED BY <1>10 DEF SafetyCap, T

-----------------------------------------------------------------------------
(* The path.                                                               *)

\* A step of the path raises its cluster to the next control point.
StepShape(model, s) ==
  /\ s.cluster \in Cluster /\ s.key \in Nat /\ s.lower \in Raised(model[s.cluster])
  /\ s.upper \in model[s.cluster].control /\ s.lower < s.upper
  /\ \A g \in model[s.cluster].control : g > s.lower => s.upper <= g

\* The steps of an accepted configuration have that shape.
LEMMA StepsShape ==
  ASSUME NEW k \in Configurations, NEW model, \A c \in Cluster : ModelShape(c, model[c]),
         NEW s \in BudgetSteps(k, model)
  PROVE  /\ StepShape(model, s)
         /\ s = BudgetStep(k, model, s.cluster, s.lower)
         /\ s.lower \in Nat /\ s.cluster \in Nat
<1>1. PICK c \in Cluster : \E f \in Raised(model[c]) : s = BudgetStep(k, model, c, f)
  BY DEF BudgetSteps
<1>2. PICK f \in Raised(model[c]) : s = BudgetStep(k, model, c, f)
  BY <1>1
<1> DEFINE up == {g \in model[c].control : g > f}
<1>3. /\ s.key = model[c].power[f] * Penalty(k.model[c].cores) /\ s.cluster = c
      /\ s.lower = f /\ s.upper = MinOf(up)
  BY <1>2 DEF BudgetStep
<1>4. c \in Targets /\ c \in Nat /\ Opps[c] \subseteq Nat
  BY GovernorConstants DEF Targets
<1>5. ModelShape(c, model[c])
  OBVIOUS
<1>6. /\ model[c].control \in SUBSET Opps[c] /\ model[c].control # {}
      /\ f \in model[c].control /\ f # MaxOf(model[c].control)
  BY <1>5 DEF ModelShape, Raised
<1>7. up \in SUBSET Opps[c] /\ up # {}
  <2>1. MaxOf(model[c].control) \in model[c].control /\ f <= MaxOf(model[c].control)
    BY <1>4, <1>6, Extremes
  <2>2. MaxOf(model[c].control) \in up
    BY <2>1, <1>4, <1>6
  <2> QED BY <2>2, <1>6
<1>8. MinOf(up) \in up /\ \A g \in up : MinOf(up) <= g
  BY <1>4, <1>7, Extremes
<1>9. s.key \in Nat
  <2>1. model[c].power[f] \in Nat
    BY <1>5, <1>6 DEF ModelShape
  <2>2. k.model[c].cores \in Nat
    BY GovernorConstants
  <2>3. Penalty(k.model[c].cores) \in Nat
    BY <2>2 DEF Penalty, Lower
  <2> QED BY <2>1, <2>3, <1>3
<1>10. f \in Nat
  BY <1>4, <1>6
<1>11. s.upper \in model[c].control /\ f < s.upper /\ \A g \in model[c].control : g > f => s.upper <= g
  BY <1>3, <1>8, <1>10
<1> QED BY <1>2, <1>3, <1>4, <1>9, <1>10, <1>11 DEF StepShape

\* And they are finitely many.
LEMMA StepsFinite ==
  ASSUME NEW k \in Configurations, NEW model, \A c \in Cluster : ModelShape(c, model[c])
  PROVE  IsFiniteSet(BudgetSteps(k, model))
<1> DEFINE S == BudgetSteps(k, model)
           O == {Opps[c] : c \in Cluster}
           U == UNION O
           h == [c \in Cluster |-> Opps[c]]
           f == [s \in S |-> <<s.cluster, s.lower>>]
<1>1. IsFiniteSet(Cluster) /\ \A c \in Cluster : IsFiniteSet(Opps[c])
  BY GovernorConstants DEF Targets
<1>2. h \in Surjection(Cluster, O)
  BY DEF Surjection
<1>3. IsFiniteSet(O)
  BY <1>1, <1>2, FS_Surjection
<1>4. IsFiniteSet(U)
  BY <1>1, <1>3, FS_UNION
<1>5. IsFiniteSet(Cluster \X U)
  BY <1>1, <1>4, FS_Product
<1>6. \A s \in S : s.cluster \in Cluster /\ s.lower \in U
  <2> TAKE s \in S
  <2>1. StepShape(model, s)
    BY StepsShape
  <2>2. s.cluster \in Cluster /\ s.lower \in Opps[s.cluster]
    BY <2>1 DEF StepShape, ModelShape, Raised
  <2> QED BY <2>2
<1>7. \A s, t \in S : s.cluster = t.cluster /\ s.lower = t.lower => s = t
  BY StepsShape
<1> HIDE DEF S, U
<1>8. f \in Injection(S, Cluster \X U)
  BY <1>6, <1>7 DEF Injection, IsInjective
<1> QED BY <1>5, <1>8, FS_Injection DEF S

\* Of two steps of a cluster the one from the lower point does not cost more.
LEMMA CostRises ==
  ASSUME NEW k \in Configurations, NEW model, \A c \in Cluster : ModelShape(c, model[c]),
         NEW s \in BudgetSteps(k, model), NEW t \in BudgetSteps(k, model),
         s.cluster = t.cluster, s.lower <= t.lower
  PROVE  s.key <= t.key
<1> DEFINE c == s.cluster
           n == Penalty(k.model[c].cores)
<1>1. /\ c \in Cluster /\ s.lower \in model[c].control /\ t.lower \in model[c].control
      /\ s = BudgetStep(k, model, c, s.lower) /\ t = BudgetStep(k, model, c, t.lower)
  BY StepsShape DEF StepShape, Raised
<1>2. s.key = model[c].power[s.lower] * n /\ t.key = model[c].power[t.lower] * n
  BY <1>1 DEF BudgetStep
<1>3. /\ model[c].power[s.lower] \in Nat /\ model[c].power[t.lower] \in Nat
      /\ model[c].power[s.lower] <= model[c].power[t.lower]
  BY <1>1 DEF ModelShape
<1>4. n \in Nat
  <2>1. k.model[c].cores \in Nat
    BY <1>1, GovernorConstants
  <2> QED BY <2>1 DEF Penalty, Lower
<1> HIDE DEF n, c
<1>5. n <= n
  BY <1>4
<1> QED BY <1>2, <1>3, <1>4, <1>5, Times

\* The path has every step once, those of a cluster from its lowest point up.
PathShape(model, path) ==
  /\ Len(path) \in Nat /\ DOMAIN path = 1 .. Len(path)
  /\ \A n \in 1 .. Len(path) : StepShape(model, path[n])
  /\ \A n, m \in 1 .. Len(path) :
       n < m /\ path[n].cluster = path[m].cluster => path[n].lower < path[m].lower
  /\ \A c \in Cluster : \A f \in Raised(model[c]) :
       \E n \in 1 .. Len(path) : path[n].cluster = c /\ path[n].lower = f

\* Sorted by rank, the steps of each cluster keep their order.
LEMMA PathShaped ==
  ASSUME NEW k \in Configurations, NEW model, \A c \in Cluster : ModelShape(c, model[c])
  PROVE  PathShape(model, Path(BudgetSteps(k, model)))
<1> DEFINE S == BudgetSteps(k, model)
           R == {q \in S \X S : Before(q[1], q[2])}
           N == Cardinality(S)
           path == Path(S)
           rank(s) == Cardinality(Below(S, R, s))
<1>1. IsFiniteSet(S)
  BY StepsFinite
<1>2. \A s \in S : StepShape(model, s) /\ s.lower \in Nat /\ s.cluster \in Nat /\ s.key \in Nat
  BY StepsShape DEF StepShape
<1>3. \A s, t \in S : s.cluster = t.cluster /\ s.lower = t.lower => s = t
  BY StepsShape
<1>4. \A s, t \in S : s.cluster = t.cluster /\ s.lower <= t.lower => s.key <= t.key
  BY CostRises
<1>5. \A c \in Cluster : \A f \in Raised(model[c]) :
        BudgetStep(k, model, c, f) \in S
        /\ BudgetStep(k, model, c, f).cluster = c /\ BudgetStep(k, model, c, f).lower = f
  <2> SUFFICES ASSUME NEW c \in Cluster, NEW f \in Raised(model[c])
               PROVE  /\ BudgetStep(k, model, c, f) \in S
                      /\ BudgetStep(k, model, c, f).cluster = c
                      /\ BudgetStep(k, model, c, f).lower = f
    OBVIOUS
  <2>1. BudgetStep(k, model, c, f) \in S
    BY DEF BudgetSteps
  <2> QED BY <2>1 DEF BudgetStep
<1> HIDE DEF S
<1>6. \A s, t \in S : <<s, t>> \in R <=> Before(s, t)
  OBVIOUS
<1>7. \A s, t \in S : s = t \/ <<s, t>> \in R \/ <<t, s>> \in R
  <2> TAKE s, t \in S
  <2>1. s = t \/ Before(s, t) \/ Before(t, s)
    BY <1>2, <1>3 DEF Before
  <2> QED BY <2>1, <1>6
<1>8. \A s \in S : <<s, s>> \notin R
  BY <1>2, <1>6 DEF Before
<1>9. \A s, t, u \in S : <<s, t>> \in R /\ <<t, u>> \in R => <<s, u>> \in R
  <2> SUFFICES ASSUME NEW s \in S, NEW t \in S, NEW u \in S, Before(s, t), Before(t, u)
               PROVE  Before(s, u)
    BY <1>6
  <2> QED BY <1>2 DEF Before
<1> HIDE DEF R
<1>10. /\ N \in Nat
       /\ \A s \in S : rank(s) \in 0 .. N - 1
       /\ \A s, t \in S : <<s, t>> \in R => rank(s) < rank(t)
       /\ \A n \in 1 .. N : \E s \in S : rank(s) = n - 1
  BY <1>1, <1>7, <1>8, <1>9, Ranks
<1>11. \A s \in S : Below(S, R, s) = {t \in S : Before(t, s)}
  BY <1>6 DEF Below
<1>12. path = [n \in 1 .. N |-> CHOOSE s \in S : Cardinality({t \in S : Before(t, s)}) = n - 1]
  BY DEF Path
<1> HIDE DEF path, N
<1>13. Len(path) = N /\ DOMAIN path = 1 .. N
  BY <1>10, <1>12
<1>14. \A n \in 1 .. N : path[n] \in S /\ rank(path[n]) = n - 1
  <2> TAKE n \in 1 .. N
  <2>1. path[n] = CHOOSE s \in S : Cardinality({t \in S : Before(t, s)}) = n - 1
    BY <1>12
  <2>2. \E s \in S : Cardinality({t \in S : Before(t, s)}) = n - 1
    BY <1>10, <1>11
  <2>3. path[n] \in S /\ Cardinality({t \in S : Before(t, path[n])}) = n - 1
    BY <2>1, <2>2
  <2> QED BY <2>3, <1>11
<1> HIDE DEF rank
<1>15. \A s \in S : \E n \in 1 .. N : path[n] = s
  <2> TAKE s \in S
  <2>1. rank(s) + 1 \in 1 .. N /\ (rank(s) + 1) - 1 = rank(s)
    BY <1>10
  <2>2. path[rank(s) + 1] \in S /\ rank(path[rank(s) + 1]) = rank(s)
    BY <2>1, <1>14
  <2>3. path[rank(s) + 1] = s
    <3> SUFFICES ASSUME path[rank(s) + 1] # s PROVE FALSE
      OBVIOUS
    <3>1. rank(s) < rank(path[rank(s) + 1]) \/ rank(path[rank(s) + 1]) < rank(s)
      BY <2>2, <1>7, <1>10
    <3> QED BY <3>1, <2>2, <1>10
  <2> QED BY <2>1, <2>3
<1>16. \A n, m \in 1 .. N :
         n < m /\ path[n].cluster = path[m].cluster => path[n].lower < path[m].lower
  <2> SUFFICES ASSUME NEW n \in 1 .. N, NEW m \in 1 .. N, n < m,
                      path[n].cluster = path[m].cluster
               PROVE  path[n].lower < path[m].lower
    OBVIOUS
  <2>1. path[n] \in S /\ path[m] \in S /\ rank(path[n]) < rank(path[m])
        /\ rank(path[n]) \in Nat /\ rank(path[m]) \in Nat
    <3>1. path[n] \in S /\ rank(path[n]) = n - 1 /\ path[m] \in S /\ rank(path[m]) = m - 1
      BY <1>14
    <3> QED BY <3>1, <1>10
  <2>2. path[n] # path[m] /\ ~Before(path[m], path[n])
    <3>1. <<path[m], path[n]>> \notin R
      <4>1. ~(rank(path[m]) < rank(path[n]))
        BY <2>1
      <4> QED BY <4>1, <2>1, <1>10, Zenon
    <3>2. ~(rank(path[n]) < rank(path[n]))
      BY <2>1
    <3> QED BY <3>1, <3>2, <2>1, <1>6, Zenon
  <2>3. Before(path[n], path[m])
    BY <2>1, <2>2, <1>6, <1>7
  <2>4. path[n].lower # path[m].lower
    BY <2>1, <2>2, <1>3
  <2>5. path[m].lower <= path[n].lower => path[m].key <= path[n].key
    BY <2>1, <1>4
  <2> QED BY <2>1, <2>3, <2>4, <2>5, <1>2 DEF Before
<1>17. \A c \in Cluster : \A f \in Raised(model[c]) :
         \E n \in 1 .. N : path[n].cluster = c /\ path[n].lower = f
  BY <1>5, <1>15
<1>18. \A n \in 1 .. N : StepShape(model, path[n])
  BY <1>2, <1>14
<1>19. PathShape(model, path)
  BY <1>10, <1>13, <1>16, <1>17, <1>18, Zenon DEF PathShape
<1> QED BY <1>19 DEF path, S

\* What the governor needs of a loaded configuration.
EnergyShape(e) ==
  /\ \A c \in Cluster : ModelShape(c, e.model[c]) /\ e.floor[c] \in Nat
  /\ PathShape(e.model, e.path)
  /\ \A s \in Thermal : \A c \in Targets : e.cap[s][c] \in Nat /\ Hardware[c].min <= e.cap[s][c]

\* Loading an accepted configuration provides that.
LEMMA LoadedShape ==
  ASSUME NEW k \in Configurations, Acceptable(k)
  PROVE  EnergyShape(Load(k))
<1> DEFINE model == [c \in Cluster |-> ModelOf(c, k.model[c])]
           e == Load(k)
<1>1. /\ e.model = model
      /\ e.floor = [c \in Cluster |-> k.limit[c].floor]
      /\ e.cap = [s \in Thermal |-> [c \in Targets |-> SafetyCap(s, c, k.limit[c])]]
      /\ e.path = Path(BudgetSteps(k, model))
  BY DEF Load
<1>2. \A c \in Cluster : ModelShape(c, model[c])
  BY AcceptedModels
<1> HIDE DEF model, e
<1>3. PathShape(e.model, e.path)
  BY <1>1, <1>2, PathShaped
<1>4. \A c \in Cluster : e.floor[c] \in Nat
  BY <1>1, GovernorConstants
<1>5. \A s \in Thermal : \A c \in Targets : e.cap[s][c] \in Nat /\ Hardware[c].min <= e.cap[s][c]
  BY <1>1, SafetyCapInRange
<1> QED BY <1>1, <1>2, <1>3, <1>4, <1>5 DEF EnergyShape, e

-----------------------------------------------------------------------------
(* The caps along the path.                                                *)

\* What the k-th step changes: its cluster goes from its lower to its upper
\* point, and the others stay.
LEMMA StepChangesCaps ==
  ASSUME EnergyShape(energy), NEW k \in 1 .. Len(energy.path)
  PROVE  LET s == energy.path[k]
         IN  /\ s.cluster \in Cluster /\ s.lower \in Nat /\ s.upper \in Nat
             /\ CapsAfter(k)[s.cluster] = {s.upper}
             /\ CapsAfter(k - 1)[s.cluster] = {s.lower}
             /\ \A d \in Cluster \ {s.cluster} : CapsAfter(k)[d] = CapsAfter(k - 1)[d]
<1> DEFINE path == energy.path
           N == Len(path)
           s == path[k]
           c == s.cluster
           C == Control(c)
           On(d, i) == {n \in 1 .. i : path[n].cluster = d}
           taken(d, i) == {path[n].upper : n \in On(d, i)}
           steps(d) == {n \in DOMAIN path : path[n].cluster = d}
<1>1. PathShape(energy.model, path) /\ N \in Nat /\ DOMAIN path = 1 .. N
  BY DEF EnergyShape, PathShape
<1>2. \A n \in 1 .. N : StepShape(energy.model, path[n])
  BY <1>1 DEF PathShape
<1>3. \A d \in Cluster : /\ d \in Targets /\ Opps[d] \subseteq Nat
                         /\ Control(d) \in SUBSET Opps[d] /\ Control(d) # {}
  BY GovernorConstants DEF EnergyShape, ModelShape, Control, Targets
<1>4. \A n \in 1 .. N : path[n].cluster = c =>
        /\ path[n].lower \in C /\ path[n].upper \in C /\ path[n].lower < path[n].upper
        /\ path[n].lower >= energy.model[c].plain
        /\ \A g \in C : g > path[n].lower => path[n].upper <= g
  BY <1>2 DEF StepShape, Raised, Control
<1>5. c \in Cluster /\ s.lower \in C /\ s.upper \in C /\ s.lower < s.upper
      /\ s.lower >= energy.model[c].plain
  BY <1>2, <1>4 DEF StepShape
<1>6. C \subseteq Nat /\ energy.model[c].plain \in Nat
  BY <1>3, <1>5 DEF EnergyShape, ModelShape
<1>7. \A n \in 1 .. N : \A m \in 1 .. N :
        path[n].cluster = c /\ path[m].cluster = c /\ n < m => path[n].lower < path[m].lower
  BY <1>1 DEF PathShape
<1>8. \A f \in C : f >= energy.model[c].plain /\ f < s.lower =>
        \E n \in 1 .. N : path[n].cluster = c /\ path[n].lower = f
  <2> SUFFICES ASSUME NEW f \in C, f >= energy.model[c].plain, f < s.lower
               PROVE  \E n \in 1 .. N : path[n].cluster = c /\ path[n].lower = f
    OBVIOUS
  <2>1. s.lower <= MaxOf(C)
    BY <1>3, <1>5, Extremes
  <2>2. MaxOf(C) \in C
    BY <1>3, <1>5, Extremes
  <2>3. f # MaxOf(C)
    <3>1. f \in Nat /\ s.lower \in Nat /\ MaxOf(C) \in Nat
      BY <2>2, <1>5, <1>6
    <3> HIDE DEF C, s
    <3> QED BY <2>1, <3>1
  <2>4. f \in Raised(energy.model[c])
    BY <2>3 DEF Raised, Control
  <2>5. \A d \in Cluster : \A g \in Raised(energy.model[d]) :
          \E n \in 1 .. N : path[n].cluster = d /\ path[n].lower = g
    BY <1>1 DEF PathShape
  <2> HIDE DEF N, c, s, C
  <2> QED BY <2>4, <2>5, <1>5
<1>9. \A i \in 0 .. N : \A d \in Cluster :
        CapsAfter(i)[d] =
          {IF taken(d, i) # {} THEN MaxOf(taken(d, i))
           ELSE IF steps(d) = {} THEN MaxOf(Control(d)) ELSE path[MinOf(steps(d))].lower}
  BY DEF CapsAfter
<1>10. k \in 0 .. N /\ k - 1 \in 0 .. N /\ k \in 1 .. N /\ path[k] = s
  BY <1>1
<1>11. \A d, i : \A n : n \in On(d, i) <=> n \in 1 .. i /\ path[n].cluster = d
  OBVIOUS
<1>12. \A d, i : \A u : u \in taken(d, i) <=> \E n \in On(d, i) : u = path[n].upper
  OBVIOUS
<1>13. \A d : \A n : n \in steps(d) <=> n \in 1 .. N /\ path[n].cluster = d
  BY <1>1
<1>14. s.cluster = c
  OBVIOUS
<1> HIDE DEF N, c, s, C, On, taken, steps
<1> HIDE DEF path
<1>15. /\ s.lower \in Nat /\ s.upper \in Nat /\ s.lower < s.upper
       /\ energy.model[c].plain \in Nat /\ \A u \in C : u \in Nat
  BY <1>5, <1>6
<1>16. \A n \in On(c, k - 1) : /\ n \in 1 .. N /\ path[n].cluster = c /\ n < k
                               /\ path[n].upper \in C /\ path[n].upper <= s.lower
  <2> TAKE n \in On(c, k - 1)
  <2>1. n \in 1 .. N /\ n < k /\ path[n].cluster = c
    BY <1>10, <1>1, <1>11
  <2>2. path[n].lower < s.lower
    BY <2>1, <1>7, <1>10, <1>14
  <2> QED BY <2>1, <2>2, <1>4, <1>5, <1>6
<1>17. CapsAfter(k)[c] = {s.upper}
  <2>1. k \in On(c, k) /\ \A n \in On(c, k) : n = k \/ n \in On(c, k - 1)
    BY <1>10, <1>1, <1>11, <1>14
  <2>2. s.upper \in taken(c, k)
    BY <2>1, <1>10, <1>12
  <2>3. \A u \in taken(c, k) : u <= s.upper /\ u \in C
    <3> TAKE u \in taken(c, k)
    <3>1. PICK n \in On(c, k) : u = path[n].upper
      BY <1>12
    <3>2. CASE n = k
      <4>1. u = s.upper
        BY <3>1, <3>2, <1>10
      <4>2. s.upper \in C /\ s.upper \in Nat
        BY <1>5, <1>6
      <4> QED BY <4>1, <4>2
    <3>3. CASE n \in On(c, k - 1)
      <4>1. u \in C /\ u <= s.lower
        BY <3>1, <3>3, <1>16
      <4> QED BY <4>1, <1>15
    <3> QED BY <3>2, <3>3, <2>1
  <2>4. MaxOf(taken(c, k)) = s.upper
    <3>1. \A u \in taken(c, k) : (\A v \in taken(c, k) : v <= u) => u = s.upper
      <4> SUFFICES ASSUME NEW u \in taken(c, k), \A v \in taken(c, k) : v <= u
                   PROVE  u = s.upper
        OBVIOUS
      <4>1. u <= s.upper /\ s.upper <= u /\ u \in C
        BY <2>2, <2>3
      <4> QED BY <4>1, <1>15
    <3>2. \A v \in taken(c, k) : v <= s.upper
      BY <2>3
    <3> QED BY <3>1, <3>2, <2>2 DEF MaxOf
  <2>5. taken(c, k) # {}
    BY <2>2
  <2> QED BY <2>4, <2>5, <1>5, <1>9, <1>10
<1>18. CapsAfter(k - 1)[c] = {s.lower}
  <2>1. CASE On(c, k - 1) = {}
    <3>1. taken(c, k - 1) = {}
      BY <2>1, <1>12
    <3>2. steps(c) \in SUBSET Nat /\ k \in steps(c)
      BY <1>1, <1>10, <1>13, <1>14
    <3>3. \A n \in steps(c) : k <= n
      <4> TAKE n \in steps(c)
      <4>1. n \in 1 .. N /\ n \notin 1 .. k - 1
        BY <2>1, <1>11, <1>13
      <4> QED BY <4>1, <1>10
    <3>4. MinOf(steps(c)) \in steps(c) /\ MinOf(steps(c)) <= k
      BY <3>2, MinOfNaturals
    <3>5. MinOf(steps(c)) = k
      <4>1. k <= MinOf(steps(c)) /\ MinOf(steps(c)) \in Nat /\ k \in Nat
        BY <3>2, <3>3, <3>4
      <4> QED BY <4>1, <3>4
    <3>6. steps(c) # {}
      BY <3>2
    <3> QED BY <3>1, <3>5, <3>6, <1>5, <1>9, <1>10
  <2>2. CASE On(c, k - 1) # {}
    <3>1. PICK n0 \in On(c, k - 1) : TRUE
      BY <2>2
    <3> DEFINE D == {g \in C : g < s.lower}
    <3>2. path[n0].lower \in D /\ path[n0].lower >= energy.model[c].plain
      <4>1. n0 \in 1 .. N /\ path[n0].cluster = c /\ n0 < k
        BY <3>1, <1>16
      <4>2. path[n0].lower < s.lower
        BY <4>1, <1>7, <1>10, <1>14
      <4> QED BY <4>1, <4>2, <1>4
    <3>3. D \in SUBSET Opps[c]
      BY <1>3, <1>5 DEF C
    <3>4. MaxOf(D) \in D /\ \A g \in D : g <= MaxOf(D)
      <4>1. c \in Targets /\ D # {}
        BY <3>2, <1>3, <1>5
      <4> HIDE DEF D
      <4> QED BY <4>1, <3>3, Extremes
    <3>5. MaxOf(D) \in C /\ MaxOf(D) < s.lower /\ MaxOf(D) \in Nat
          /\ MaxOf(D) >= energy.model[c].plain
      <4>1. MaxOf(D) \in C /\ MaxOf(D) < s.lower /\ path[n0].lower <= MaxOf(D)
            /\ path[n0].lower \in C
        BY <3>2, <3>4
      <4> HIDE DEF D
      <4> QED BY <4>1, <3>2, <1>15
    <3>6. \A g \in C : g < s.lower => g <= MaxOf(D)
      BY <3>4
    <3> HIDE DEF D
    <3>7. PICK n \in 1 .. N : path[n].cluster = c /\ path[n].lower = MaxOf(D)
      BY <3>5, <1>8
    <3>8. n < k
      <4>1. n # k
        BY <3>5, <3>7, <1>5, <1>6, <1>10
      <4>2. k < n => s.lower < MaxOf(D)
        BY <3>7, <1>7, <1>10, <1>14
      <4>3. ~(k < n)
        BY <4>2, <3>5, <1>15
      <4> QED BY <4>1, <4>3, <1>10
    <3>9. n \in On(c, k - 1)
      BY <3>7, <3>8, <1>10, <1>1, <1>11
    <3>10. path[n].upper = s.lower
      <4>1. path[n].upper <= s.lower /\ path[n].upper \in C /\ MaxOf(D) < path[n].upper
        BY <3>7, <3>9, <1>4, <1>16
      <4>2. path[n].upper \in Nat /\ MaxOf(D) \in Nat
        BY <4>1, <3>5, <1>6
      <4>3. ~(path[n].upper <= MaxOf(D))
        BY <4>1, <4>2
      <4>4. ~(path[n].upper < s.lower)
        BY <4>1, <4>3, <3>6
      <4> QED BY <4>1, <4>2, <4>4, <1>15
    <3>11. s.lower \in taken(c, k - 1)
      BY <3>9, <3>10, <1>12
    <3>12. \A u \in taken(c, k - 1) : u <= s.lower /\ u \in C
      BY <1>16, <1>12
    <3>13. MaxOf(taken(c, k - 1)) = s.lower
      <4>1. \A u \in taken(c, k - 1) : (\A v \in taken(c, k - 1) : v <= u) => u = s.lower
        <5> SUFFICES ASSUME NEW u \in taken(c, k - 1), \A v \in taken(c, k - 1) : v <= u
                     PROVE  u = s.lower
          OBVIOUS
        <5>1. u <= s.lower /\ s.lower <= u /\ u \in C
          BY <3>11, <3>12
        <5> QED BY <5>1, <1>15
      <4>2. \A v \in taken(c, k - 1) : v <= s.lower
        BY <3>12
      <4> QED BY <4>1, <4>2, <3>11 DEF MaxOf
    <3>14. taken(c, k - 1) # {}
      BY <3>11
    <3> QED BY <3>13, <3>14, <1>5, <1>9, <1>10
  <2> QED BY <2>1, <2>2
<1>19. \A d \in Cluster \ {c} : CapsAfter(k)[d] = CapsAfter(k - 1)[d]
  <2> TAKE d \in Cluster \ {c}
  <2>1. \A n : n \in On(d, k) <=> n \in On(d, k - 1)
    <3> TAKE n
    <3>1. n \in On(d, k - 1) => n \in On(d, k)
      BY <1>10, <1>11
    <3>2. n \in On(d, k) => n \in On(d, k - 1)
      <4> SUFFICES ASSUME n \in On(d, k) PROVE n \in On(d, k - 1)
        OBVIOUS
      <4>1. n \in 1 .. k /\ path[n].cluster = d /\ n # k
        BY <1>10, <1>11, <1>14
      <4> QED BY <4>1, <1>10, <1>11
    <3> QED BY <3>1, <3>2
  <2>2. taken(d, k) = taken(d, k - 1)
    <3>1. \A u : u \in taken(d, k) <=> u \in taken(d, k - 1)
      BY <2>1, <1>12
    <3> QED BY <3>1
  <2> QED BY <2>2, <1>9, <1>10
<1>20. s.lower \in Nat /\ s.upper \in Nat
  BY <1>5, <1>6
<1> QED BY <1>5, <1>17, <1>18, <1>19, <1>20 DEF s, c, path

\* At the end of the path every cluster is at its highest control point.
LEMMA WholePath ==
  ASSUME EnergyShape(energy)
  PROVE  CapsAfter(Len(energy.path)) = TopCaps
<1> DEFINE path == energy.path
           N == Len(path)
           taken(d) == {path[n].upper : n \in {m \in 1 .. N : path[m].cluster = d}}
           steps(d) == {n \in DOMAIN path : path[n].cluster = d}
<1>1. PathShape(energy.model, path) /\ N \in Nat /\ DOMAIN path = 1 .. N
  BY DEF EnergyShape, PathShape
<1>2. CapsAfter(N) = [d \in Cluster |->
        {IF taken(d) # {} THEN MaxOf(taken(d))
         ELSE IF steps(d) = {} THEN MaxOf(Control(d)) ELSE path[MinOf(steps(d))].lower}]
  BY DEF CapsAfter
<1>3. \A d : \A u : u \in taken(d) <=>
        \E n \in 1 .. N : path[n].cluster = d /\ u = path[n].upper
  OBVIOUS
<1>4. \A d : \A n : n \in steps(d) <=> n \in 1 .. N /\ path[n].cluster = d
  BY <1>1
<1> HIDE DEF N, taken, steps
<1> HIDE DEF path
<1>5. \A c \in Cluster : taken(c) # {} => MaxOf(taken(c)) = MaxOf(Control(c))
  <2> SUFFICES ASSUME NEW c \in Cluster, taken(c) # {}
               PROVE  MaxOf(taken(c)) = MaxOf(Control(c))
    OBVIOUS
  <2> DEFINE C == Control(c)
             M == MaxOf(C)
             D == {g \in C : g < M}
  <2>1. c \in Targets /\ C \in SUBSET Opps[c] /\ C # {} /\ energy.model[c].plain \in Nat
    BY DEF EnergyShape, ModelShape, Control, Targets
  <2> HIDE DEF C
  <2>2. C \subseteq Nat /\ M \in C /\ \A g \in C : g <= M
    BY <2>1, Extremes
  <2>3. \A n \in 1 .. N : path[n].cluster = c =>
          /\ path[n].lower \in C /\ path[n].upper \in C /\ path[n].lower < path[n].upper
          /\ path[n].lower >= energy.model[c].plain
          /\ \A g \in C : g > path[n].lower => path[n].upper <= g
    <3>1. \A n \in 1 .. N : StepShape(energy.model, path[n])
      BY <1>1 DEF PathShape, N
    <3> QED BY <3>1 DEF StepShape, Raised, Control, C
  <2>4. PICK n0 \in 1 .. N : path[n0].cluster = c
    BY <1>3
  <2>5. /\ path[n0].lower \in Nat /\ path[n0].upper \in Nat /\ path[n0].upper <= M /\ M \in Nat
        /\ path[n0].lower \in C /\ path[n0].lower < path[n0].upper
        /\ path[n0].lower >= energy.model[c].plain
    BY <2>2, <2>3, <2>4
  <2>6. path[n0].lower \in D
    BY <2>5
  <2>7. D \in SUBSET Opps[c]
    BY <2>1
  <2>8. MaxOf(D) \in D /\ \A g \in D : g <= MaxOf(D)
    <3> HIDE DEF D
    <3> QED BY <2>1, <2>6, <2>7, Extremes
  <2>9. MaxOf(D) \in C /\ MaxOf(D) < M /\ path[n0].lower <= MaxOf(D)
        /\ \A g \in C : g < M => g <= MaxOf(D)
    BY <2>6, <2>8
  <2> HIDE DEF D
  <2> HIDE DEF M
  <2>10. MaxOf(D) \in Nat /\ \A g \in C : g \in Nat
    BY <2>9, <2>2
  <2>11. MaxOf(D) >= energy.model[c].plain /\ MaxOf(D) # M
    BY <2>9, <2>5, <2>1, <2>10
  <2>12. MaxOf(D) \in Raised(energy.model[c])
    BY <2>9, <2>11 DEF Raised, C, M, Control
  <2>13. PICK n \in 1 .. N : path[n].cluster = c /\ path[n].lower = MaxOf(D)
    BY <2>12, <1>1 DEF PathShape, N
  <2>14. path[n].upper \in C /\ MaxOf(D) < path[n].upper /\ path[n].upper <= M
    BY <2>13, <2>2, <2>3
  <2>15. path[n].upper \in Nat /\ ~(path[n].upper < M)
    BY <2>14, <2>9, <2>10
  <2>16. path[n].upper = M
    BY <2>14, <2>15, <2>5
  <2>17. M \in taken(c)
    BY <2>13, <2>16, <1>3
  <2>18. \A u \in taken(c) : u \in C /\ u <= M
    <3> TAKE u \in taken(c)
    <3>1. PICK m \in 1 .. N : path[m].cluster = c /\ u = path[m].upper
      BY <1>3
    <3> QED BY <3>1, <2>2, <2>3
  <2>19. \A u \in taken(c) : (\A v \in taken(c) : v <= u) => u = M
    <3> SUFFICES ASSUME NEW u \in taken(c), \A v \in taken(c) : v <= u PROVE u = M
      OBVIOUS
    <3>1. u <= M /\ M <= u /\ u \in Nat
      BY <2>10, <2>17, <2>18
    <3> QED BY <3>1, <2>5
  <2>20. MaxOf(taken(c)) = M
    BY <2>17, <2>18, <2>19 DEF MaxOf
  <2> QED BY <2>20 DEF M, C
<1>6. \A c \in Cluster : taken(c) = {} => steps(c) = {}
  <2> SUFFICES ASSUME NEW c \in Cluster, NEW n \in steps(c) PROVE taken(c) # {}
    OBVIOUS
  <2>1. n \in 1 .. N /\ path[n].cluster = c
    BY <1>4
  <2>2. path[n].upper \in taken(c)
    BY <2>1, <1>3, Zenon
  <2> QED BY <2>2
<1>7. CapsAfter(N) = [c \in Cluster |-> {MaxOf(Control(c))}]
  <2>1. \A c \in Cluster :
          (IF taken(c) # {} THEN MaxOf(taken(c))
           ELSE IF steps(c) = {} THEN MaxOf(Control(c)) ELSE path[MinOf(steps(c))].lower)
            = MaxOf(Control(c))
    BY <1>5, <1>6
  <2> QED BY <2>1, <1>2
<1> QED BY <1>7 DEF TopCaps, N, path

-----------------------------------------------------------------------------
(* The governor.                                                           *)

GovernorFields == {"cap", "cursor", "pathLen", "capacity", "remaining", "ramp", "integrate",
                   "last", "dwell", "load"}
\* The caps follow the path, and what was chosen last are numbers.
GovernorShape(g) ==
  /\ DOMAIN g = GovernorFields
  /\ DOMAIN g.cap = Cluster /\ \A c \in Cluster : g.cap[c] \subseteq Nat
  /\ DOMAIN g.last = Cluster /\ \A c \in Cluster : \A l \in g.last[c] : l.min \in Nat
  /\ g.cursor = {} \/ \E k \in 1 .. Len(energy.path) :
                         g.cursor = {k} /\ g.cap \in {CapsAfter(k), CapsAfter(k - 1)}

\* A new governor.
LEMMA NewShape == GovernorShape(NewGovernor)
BY DEF GovernorShape, NewGovernor, GovernorFields

\* Fields of no concern.
LEMMA SameShape ==
  ASSUME NEW g, GovernorShape(g), NEW h, DOMAIN h = GovernorFields,
         h.cap = g.cap, h.cursor = g.cursor, h.last = g.last
  PROVE  GovernorShape(h)
BY DEF GovernorShape

\* A new path starts at its end, with every cap at the top.
LEMMA ResetShape ==
  ASSUME EnergyShape(energy), NEW g, GovernorShape(g)
  PROVE  GovernorShape(ResetPath(g))
<1> DEFINE N == Len(energy.path)
           h == ResetPath(g)
<1>1. CASE g.pathLen = N
  BY <1>1 DEF ResetPath
<1>2. CASE g.pathLen # N
  <2>1. h = [g EXCEPT !.pathLen = N, !.cap = TopCaps,
                      !.cursor = IF N = 0 THEN {} ELSE {N}]
    BY <1>2 DEF ResetPath
  <2>2. DOMAIN g = GovernorFields
    BY DEF GovernorShape
  <2> HIDE DEF h, N
  <2>3. /\ DOMAIN h = GovernorFields /\ h.cap = TopCaps /\ h.last = g.last
        /\ h.cursor = IF N = 0 THEN {} ELSE {N}
    BY <2>1, <2>2 DEF GovernorFields
  <2>4. CapsAfter(N) = TopCaps
    BY WholePath DEF N
  <2>5. N # 0 => N \in 1 .. N
    <3>1. N \in Nat
      BY DEF EnergyShape, PathShape, N
    <3> QED BY <3>1
  <2>6. DOMAIN TopCaps = Cluster /\ \A c \in Cluster : TopCaps[c] \subseteq Nat
    <3>1. \A c \in Cluster : MaxOf(Control(c)) \in Nat
      <4> TAKE c \in Cluster
      <4>1. c \in Targets /\ Control(c) \in SUBSET Opps[c] /\ Control(c) # {}
        BY DEF EnergyShape, ModelShape, Control, Targets
      <4> QED BY <4>1, Extremes
    <3> QED BY <3>1 DEF TopCaps
  <2>7. GovernorShape(h)
    BY <2>3, <2>4, <2>5, <2>6 DEF GovernorShape, N
  <2> QED BY <2>7 DEF h
<1> QED BY <1>1, <1>2

\* A step of the budget moves the caps and the cursor together.
LEMMA AdjustShape ==
  ASSUME EnergyShape(energy), NEW g, GovernorShape(g), NEW estimate, NEW limit
  PROVE  GovernorShape(AdjustBudgetCap(g, estimate, limit))
<1> DEFINE N == Len(energy.path)
           h == AdjustBudgetCap(g, estimate, limit)
<1>1. CASE g.cursor = {}
  BY <1>1 DEF AdjustBudgetCap
<1>2. CASE g.cursor # {}
  <2>1. PICK k \in 1 .. N : g.cursor = {k} /\ g.cap \in {CapsAfter(k), CapsAfter(k - 1)}
    BY <1>2 DEF GovernorShape
  <2> DEFINE s == energy.path[k]
  <2>2. (CHOOSE n \in g.cursor : TRUE) = k
    BY <2>1
  <2>3. h = IF 10 * estimate > 11 * limit
            THEN [g EXCEPT !.cap[s.cluster] = {s.lower}, !.cursor = {Higher(1, k - 1)}]
            ELSE IF 10 * estimate < 9 * limit
            THEN [g EXCEPT !.cap[s.cluster] = {s.upper}, !.cursor = {Lower(N, k + 1)}]
            ELSE g
    BY <1>2, <2>2 DEF AdjustBudgetCap
  <2>4. /\ DOMAIN g = GovernorFields /\ DOMAIN g.cap = Cluster
        /\ \A c \in Cluster : g.cap[c] \subseteq Nat
        /\ DOMAIN g.last = Cluster /\ \A c \in Cluster : \A l \in g.last[c] : l.min \in Nat
    BY DEF GovernorShape
  <2>5. N \in Nat /\ k \in 1 .. N
    BY DEF EnergyShape, PathShape
  <2>6. /\ s.cluster \in Cluster /\ s.lower \in Nat /\ s.upper \in Nat
        /\ CapsAfter(k)[s.cluster] = {s.upper}
        /\ CapsAfter(k - 1)[s.cluster] = {s.lower}
        /\ \A d \in Cluster \ {s.cluster} : CapsAfter(k)[d] = CapsAfter(k - 1)[d]
    BY StepChangesCaps
  <2> DEFINE A(i) == CapsAfter(i)
  <2>7. \A i : A(i) = [d \in Cluster |-> A(i)[d]]
    BY DEF CapsAfter
  <2> HIDE DEF s, h, N, A
  <2>8. A(k) = CapsAfter(k) /\ A(k - 1) = CapsAfter(k - 1)
    BY DEF A
  <2>9. g.cap = [d \in Cluster |-> g.cap[d]]
    BY <2>1, <2>7, <2>8
  <2>10. \A d \in Cluster \ {s.cluster} : g.cap[d] = A(k)[d] /\ g.cap[d] = A(k - 1)[d]
    BY <2>1, <2>6, <2>8
  <2>11. [g.cap EXCEPT ![s.cluster] = {s.lower}] = CapsAfter(k - 1)
    BY <2>6, <2>7, <2>8, <2>9, <2>10
  <2>12. [g.cap EXCEPT ![s.cluster] = {s.upper}] = CapsAfter(k)
    BY <2>6, <2>7, <2>8, <2>9, <2>10
  <2>13. CASE 10 * estimate > 11 * limit
    <3>1. h = [g EXCEPT !.cap[s.cluster] = {s.lower}, !.cursor = {Higher(1, k - 1)}]
      BY <2>3, <2>13
    <3>2. /\ DOMAIN h = GovernorFields /\ h.last = g.last /\ h.cursor = {Higher(1, k - 1)}
          /\ h.cap = [g.cap EXCEPT ![s.cluster] = {s.lower}]
      BY <3>1, <2>4 DEF GovernorFields
    <3>3. DOMAIN h.cap = Cluster /\ \A c \in Cluster : h.cap[c] \subseteq Nat
      BY <3>2, <2>4, <2>6
    <3>4. CASE k = 1
      <4>1. Higher(1, k - 1) = k
        BY <3>4 DEF Higher
      <4>2. h.cursor = {k} /\ h.cap = CapsAfter(k - 1)
        BY <3>2, <4>1, <2>11
      <4> QED BY <4>2, <3>2, <3>3, <2>4, <2>5 DEF GovernorShape, h, N
    <3>5. CASE k # 1
      <4>1. Higher(1, k - 1) = k - 1 /\ k - 1 \in 1 .. N
        BY <3>5, <2>5 DEF Higher
      <4>2. h.cursor = {k - 1} /\ h.cap = CapsAfter(k - 1)
        BY <3>2, <4>1, <2>11
      <4> QED BY <4>1, <4>2, <3>2, <3>3, <2>4, <2>5 DEF GovernorShape, h, N
    <3> QED BY <3>4, <3>5
  <2>14. CASE ~(10 * estimate > 11 * limit) /\ 10 * estimate < 9 * limit
    <3>1. h = [g EXCEPT !.cap[s.cluster] = {s.upper}, !.cursor = {Lower(N, k + 1)}]
      BY <2>3, <2>14
    <3>2. /\ DOMAIN h = GovernorFields /\ h.last = g.last /\ h.cursor = {Lower(N, k + 1)}
          /\ h.cap = [g.cap EXCEPT ![s.cluster] = {s.upper}]
      BY <3>1, <2>4 DEF GovernorFields
    <3>3. DOMAIN h.cap = Cluster /\ \A c \in Cluster : h.cap[c] \subseteq Nat
      BY <3>2, <2>4, <2>6
    <3>4. CASE k = N
      <4>1. Lower(N, k + 1) = k
        BY <3>4, <2>5 DEF Lower
      <4>2. h.cursor = {k} /\ h.cap = CapsAfter(k)
        BY <3>2, <4>1, <2>12
      <4> QED BY <4>2, <3>2, <3>3, <2>4, <2>5 DEF GovernorShape, h, N
    <3>5. CASE k # N
      <4>1. Lower(N, k + 1) = k + 1 /\ k + 1 \in 1 .. N /\ (k + 1) - 1 = k
        BY <3>5, <2>5 DEF Lower
      <4>2. h.cursor = {k + 1} /\ h.cap = CapsAfter((k + 1) - 1)
        BY <3>2, <4>1, <2>12
      <4> QED BY <4>1, <4>2, <3>2, <3>3, <2>4, <2>5 DEF GovernorShape, h, N
    <3> QED BY <3>4, <3>5
  <2>15. CASE ~(10 * estimate > 11 * limit) /\ ~(10 * estimate < 9 * limit)
    BY <2>3, <2>15 DEF h
  <2> QED BY <2>13, <2>14, <2>15
<1> QED BY <1>1, <1>2

\* The budget, with its bucket and its path.
LEMMA BudgetShape ==
  ASSUME EnergyShape(energy), NEW g, GovernorShape(g), NEW i
  PROVE  GovernorShape(Budget(DwellAged(g, i.dt), i))
<1> DEFINE aged == DwellAged(g, i.dt)
           budget == i.par.budget
           reset == ResetPath(aged)
           filled == FillBucket(reset, budget)
           spent == IF aged.integrate THEN Integrate(filled, budget, i.estimate, i.dt) ELSE filled
<1>1. GovernorShape(aged)
  <2>1. DOMAIN g = GovernorFields
    BY DEF GovernorShape
  <2>2. DOMAIN aged = GovernorFields /\ aged.cap = g.cap /\ aged.cursor = g.cursor
        /\ aged.last = g.last
    BY <2>1 DEF DwellAged, GovernorFields
  <2> QED BY <2>2, SameShape
<1> HIDE DEF aged
<1>2. GovernorShape(reset)
  BY <1>1, ResetShape
<1> HIDE DEF reset
<1>3. GovernorShape(filled)
  <2>1. DOMAIN reset = GovernorFields
    BY <1>2 DEF GovernorShape
  <2>2. DOMAIN filled = GovernorFields /\ filled.cap = reset.cap
        /\ filled.cursor = reset.cursor /\ filled.last = reset.last
    BY <2>1 DEF FillBucket, GovernorFields
  <2> QED BY <1>2, <2>2, SameShape
<1> HIDE DEF filled
<1>4. GovernorShape(Integrate(filled, budget, i.estimate, i.dt))
  <2> DEFINE h == Integrate(filled, budget, i.estimate, i.dt)
  <2>1. DOMAIN filled = GovernorFields
    BY <1>3 DEF GovernorShape
  <2>2. DOMAIN h = GovernorFields /\ h.cap = filled.cap
        /\ h.cursor = filled.cursor /\ h.last = filled.last
    BY <2>1 DEF Integrate, GovernorFields
  <2> HIDE DEF h
  <2>3. GovernorShape(h)
    BY <1>3, <2>2, SameShape
  <2> QED BY <2>3 DEF h
<1>5. GovernorShape(spent)
  BY <1>3, <1>4
<1> HIDE DEF spent
<1>6. GovernorShape(AdjustBudgetCap(spent, i.estimate, SelectedLimit(spent, budget)))
  BY <1>5, AdjustShape
<1>7. Budget(aged, i) = IF i.par.burst THEN reset
                        ELSE AdjustBudgetCap(spent, i.estimate, SelectedLimit(spent, budget))
  BY DEF Budget, spent, filled, reset
<1> QED BY <1>2, <1>6, <1>7 DEF aged

\* The ramp touches none of it.
LEMMA RampShape ==
  ASSUME NEW g, GovernorShape(g), NEW i, NEW asked
  PROVE  GovernorShape(Ramp(g, i, asked))
<1> DEFINE h == Ramp(g, i, asked)
<1>1. DOMAIN g = GovernorFields
  BY DEF GovernorShape
<1>2. DOMAIN h = GovernorFields /\ h.cap = g.cap /\ h.cursor = g.cursor /\ h.last = g.last
  BY <1>1 DEF Ramp, GovernorFields
<1> HIDE DEF h
<1>3. GovernorShape(h)
  BY <1>2, SameShape
<1> QED BY <1>3 DEF h

-----------------------------------------------------------------------------
(* What is chosen.                                                         *)

\* A choice for every cluster, not reversed and under a cap.
Chosen(p, cap) ==
  \A c \in Cluster : /\ p[c].min \in Nat /\ p[c].max \in Nat
                     /\ p[c].min <= p[c].max /\ p[c].max <= cap[c]

\* The points the governor plans with.
LEMMA ControlPoints ==
  ASSUME EnergyShape(energy), NEW c \in Cluster
  PROVE  /\ c \in Targets /\ Control(c) \in SUBSET Opps[c] /\ Control(c) # {}
         /\ Opps[c] \subseteq Nat /\ energy.model[c].plain \in Nat
BY GovernorConstants DEF EnergyShape, ModelShape, Control, Targets

\* A demand finds a point.
LEMMA FirstMeetingFinds ==
  ASSUME EnergyShape(energy), NEW c \in Cluster, NEW p
  PROVE  FirstMeeting(c, p) \in Nat
<1> DEFINE T == {f \in Control(c) : Performance(c, f) >= p} \cup {MaxOf(Control(c))}
<1>1. c \in Targets /\ Control(c) \in SUBSET Opps[c] /\ Control(c) # {} /\ Opps[c] \subseteq Nat
  BY ControlPoints
<1>2. MaxOf(Control(c)) \in Control(c)
  BY <1>1, Extremes
<1>3. T \in SUBSET Opps[c] /\ T # {}
  BY <1>1, <1>2
<1> HIDE DEF T
<1>4. MinOf(T) \in Nat
  BY <1>1, <1>3, Extremes
<1> QED BY <1>4 DEF FirstMeeting, T

\* What the budget leaves of the demand.
LEMMA BudgetedIsChosen ==
  ASSUME EnergyShape(energy), NEW g, GovernorShape(g), NEW i,
         \A c \in Cluster : i.cap[c] \in Nat
  PROVE  Chosen(Budgeted(g, i), i.cap)
<1> SUFFICES ASSUME NEW c \in Cluster
             PROVE  LET b == Budgeted(g, i)[c]
                    IN  b.min \in Nat /\ b.max \in Nat /\ b.min <= b.max /\ b.max <= i.cap[c]
  BY DEF Chosen
<1> DEFINE cap == IF i.par.burst \/ g.cap[c] = {} THEN i.cap[c]
                  ELSE Lower(MinOf(g.cap[c]), i.cap[c])
           low == Demand(i, c)
<1>1. cap \in Nat /\ cap <= i.cap[c]
  <2>1. g.cap[c] \subseteq Nat
    BY DEF GovernorShape
  <2>2. g.cap[c] # {} => MinOf(g.cap[c]) \in Nat
    BY <2>1, MinOfNaturals
  <2>3. i.cap[c] \in Nat
    OBVIOUS
  <2> QED BY <2>2, <2>3 DEF Lower
<1>2. low \in Nat
  BY FirstMeetingFinds DEF Demand
<1>3. Budgeted(g, i)[c] = [min |-> Lower(low, cap), max |-> cap]
  BY DEF Budgeted
<1> HIDE DEF low, cap
<1>4. Lower(low, cap) \in Nat /\ Lower(low, cap) <= cap
  BY <1>1, <1>2 DEF Lower
<1> QED BY <1>1, <1>3, <1>4

\* What the ramp leaves is a number.
LEMMA RampLimitedIsNatural ==
  ASSUME EnergyShape(energy), NEW g, NEW c \in Cluster, NEW asked,
         asked.min \in Nat, asked.max \in Nat
  PROVE  RampLimited(g, c, asked) \in Nat
<1> DEFINE ctl == Control(c)
           down == SnapDown(ctl, Sweet(c))
           sweet == MaxOf(down \cup {MinOf(ctl)})
           high == SnapDown(ctl, asked.max)
           top == IF high = {} THEN MaxOf(ctl) ELSE MaxOf(high)
           below == {f \in ctl : f <= Lower(asked.min, asked.max) /\ Reached(g, c, f, sweet, top)}
<1>1. c \in Targets /\ ctl \in SUBSET Opps[c] /\ ctl # {} /\ Opps[c] \subseteq Nat
  BY ControlPoints
<1>2. MinOf(ctl) \in ctl
  BY <1>1, Extremes
<1>3. down \cup {MinOf(ctl)} \in SUBSET Opps[c] /\ down \cup {MinOf(ctl)} # {}
  BY <1>1, <1>2, SnapDownFinds
<1>4. sweet \in Nat
  <2> HIDE DEF down, ctl
  <2> QED BY <1>1, <1>3, Extremes
<1>5. below \in SUBSET Opps[c]
  BY <1>1
<1>6. below # {} => MaxOf(below) \in Nat
  <2> HIDE DEF below
  <2> QED BY <1>1, <1>5, Extremes
<1>7. Lower(asked.min, asked.max) \in Nat
  BY DEF Lower
<1>8. Lower(sweet, asked.max) \in Nat
  <2> HIDE DEF sweet
  <2> QED BY <1>4 DEF Lower
<1>9. RampLimited(g, c, asked) =
        IF Power(c, top) <= Power(c, sweet) THEN Lower(asked.min, asked.max)
        ELSE IF below = {} THEN Lower(sweet, asked.max) ELSE MaxOf(below)
  BY DEF RampLimited
<1> HIDE DEF sweet, top, below
<1> QED BY <1>6, <1>7, <1>8, <1>9

\* Ramp and residency lower a floor at most to another number.
LEMMA PlannedIsChosen ==
  ASSUME EnergyShape(energy), NEW g, GovernorShape(g), NEW i, NEW asked, NEW cap,
         Chosen(asked, cap)
  PROVE  Chosen(Planned(g, i, asked), cap)
<1> SUFFICES ASSUME NEW c \in Cluster
             PROVE  LET b == Planned(g, i, asked)[c]
                    IN  b.min \in Nat /\ b.max \in Nat /\ b.min <= b.max /\ b.max <= cap[c]
  BY DEF Chosen
<1> DEFINE floor == IF RampBypassed(g, i) \/ asked[c].min <= Sweet(c) THEN asked[c].min
                    ELSE RampLimited(g, c, asked[c])
           low == DwellFloor(g, i, c, floor, asked[c].max)
<1>1. asked[c].min \in Nat /\ asked[c].max \in Nat /\ asked[c].max <= cap[c]
  BY DEF Chosen
<1>2. floor \in Nat
  BY <1>1, RampLimitedIsNatural
<1>3. PreviousFloor(g, c) \in Nat
  <2> DEFINE T == {l.min : l \in g.last[c]}
  <2>1. T \subseteq Nat
    BY DEF GovernorShape
  <2>2. g.last[c] # {} => T # {}
    OBVIOUS
  <2>3. energy.floor[c] \in Nat
    BY DEF EnergyShape
  <2>4. PreviousFloor(g, c) = IF g.last[c] = {} THEN energy.floor[c] ELSE MinOf(T)
    BY DEF PreviousFloor
  <2> HIDE DEF T
  <2> QED BY <2>1, <2>2, <2>3, <2>4, MinOfNaturals
<1>4. Planned(g, i, asked)[c] = [min |-> low, max |-> asked[c].max]
  BY DEF Planned
<1> HIDE DEF floor
<1>5. low = Lower(PreviousFloor(g, c), asked[c].max) \/ low = Lower(floor, asked[c].max)
  BY DEF DwellFloor
<1>6. low \in Nat /\ low <= asked[c].max
  <2> HIDE DEF low
  <2> QED BY <1>1, <1>2, <1>3, <1>5 DEF Lower
<1> HIDE DEF low
<1> QED BY <1>1, <1>4, <1>6

\* Where a slower cluster stops is a number, whatever the faster one runs at.
LEMMA CeilingIsNatural ==
  ASSUME EnergyShape(energy), NEW c \in Cluster, NEW asked, asked.max \in Nat, NEW floor
  PROVE  Ceiling(asked, c, floor) \in Nat /\ Ceiling(asked, c, floor) <= asked.max
<1> DEFINE T == {asked.max} \cup {EfficiencyCap(c, d, floor[d]) : d \in energy.faster[c]}
<1>1. \A d \in energy.faster[c] : EfficiencyCap(c, d, floor[d]) \in Nat
  <2> TAKE d \in energy.faster[c]
  <2> DEFINE at == MaxOf(SnapDown(Opps[d], floor[d]) \cup {MinOf(Opps[d])})
             dear == {f \in Control(c) : Dearer(c, f, d, at)}
             stop == IF dear = {} THEN MaxOf(Control(c)) ELSE MinOf(dear)
  <2>1. /\ c \in Targets /\ Control(c) \in SUBSET Opps[c] /\ Control(c) # {}
        /\ energy.model[c].plain \in Nat
    BY ControlPoints
  <2>2. dear \in SUBSET Opps[c]
    BY <2>1
  <2>3. EfficiencyCap(c, d, floor[d]) = Higher(stop, energy.model[c].plain)
    BY DEF EfficiencyCap
  <2> HIDE DEF dear
  <2>4. dear # {} => MinOf(dear) \in Nat
    BY <2>1, <2>2, Extremes
  <2>5. MaxOf(Control(c)) \in Nat
    BY <2>1, Extremes
  <2>6. stop \in Nat
    BY <2>4, <2>5
  <2> HIDE DEF stop
  <2> QED BY <2>1, <2>3, <2>6 DEF Higher
<1>2. T \in SUBSET Nat /\ asked.max \in T
  BY <1>1
<1>3. Ceiling(asked, c, floor) = MinOf(T)
  BY DEF Ceiling
<1> HIDE DEF T
<1>4. MinOf(T) \in T /\ \A y \in T : MinOf(T) <= y
  BY <1>2, MinOfNaturals
<1> QED BY <1>2, <1>3, <1>4

\* The efficiency ceiling only lowers, whatever the faster clusters run at.
LEMMA EfficientIsChosen ==
  ASSUME EnergyShape(energy), NEW asked, NEW cap, Chosen(asked, cap),
         \A c \in Cluster : cap[c] \in Nat
  PROVE  Chosen(Efficient(asked), cap)
<1>1. \E floor : \A c \in Cluster :
        LET top == Ceiling(asked[c], c, floor)
        IN  Efficient(asked)[c] = [min |-> Lower(asked[c].min, top), max |-> top]
  BY DEF Efficient
<1>2. PICK floor : \A c \in Cluster :
        LET top == Ceiling(asked[c], c, floor)
        IN  Efficient(asked)[c] = [min |-> Lower(asked[c].min, top), max |-> top]
  BY <1>1
<1> SUFFICES ASSUME NEW c \in Cluster
             PROVE  LET b == Efficient(asked)[c]
                    IN  b.min \in Nat /\ b.max \in Nat /\ b.min <= b.max /\ b.max <= cap[c]
  BY DEF Chosen
<1> DEFINE top == Ceiling(asked[c], c, floor)
<1>3. asked[c].min \in Nat /\ asked[c].max \in Nat /\ asked[c].max <= cap[c]
  BY DEF Chosen
<1>4. top \in Nat /\ top <= asked[c].max
  BY <1>3, CeilingIsNatural
<1>5. Efficient(asked)[c] = [min |-> Lower(asked[c].min, top), max |-> top]
  BY <1>2
<1> HIDE DEF top
<1>6. Lower(asked[c].min, top) \in Nat /\ Lower(asked[c].min, top) <= top
  BY <1>3, <1>4 DEF Lower
<1>7. cap[c] \in Nat
  OBVIOUS
<1>8. top <= cap[c]
  BY <1>3, <1>4, <1>7
<1> QED BY <1>4, <1>5, <1>6, <1>8

\* What an evaluation selects is a choice under its caps.
LEMMA SelectedIsChosen ==
  ASSUME EnergyShape(energy), NEW g, GovernorShape(g), NEW i,
         \A c \in Cluster : i.cap[c] \in Nat
  PROVE  Chosen(Selected(g, i), i.cap)
<1>1. Chosen(Planned(g, i, Budgeted(g, i)), i.cap)
  BY BudgetedIsChosen, PlannedIsChosen
<1>2. Chosen(Efficient(Planned(g, i, Budgeted(g, i))), i.cap)
  BY <1>1, EfficientIsChosen
<1> QED BY <1>1, <1>2 DEF Selected

\* What is recorded of a choice.
LEMMA RecordShape ==
  ASSUME NEW g, GovernorShape(g), NEW i, NEW chosen, \A c \in Cluster : chosen[c].min \in Nat
  PROVE  GovernorShape(Record(g, i, chosen))
<1> DEFINE h == Record(g, i, chosen)
<1>1. DOMAIN g = GovernorFields
  BY DEF GovernorShape
<1>2. /\ DOMAIN h = GovernorFields /\ h.cap = g.cap /\ h.cursor = g.cursor
      /\ h.last = [c \in Cluster |-> {chosen[c]}]
  BY <1>1 DEF Record, GovernorFields
<1> HIDE DEF h
<1>3. DOMAIN h.last = Cluster /\ \A c \in Cluster : \A l \in h.last[c] : l.min \in Nat
  BY <1>2
<1>4. GovernorShape(h)
  BY <1>2, <1>3 DEF GovernorShape
<1> QED BY <1>4 DEF h

-----------------------------------------------------------------------------
(* The invariant.                                                          *)

\* A loaded configuration, caps that follow its path, numbers in what was chosen
\* and what a client set, and a plan within its caps.
GovernorInv ==
  /\ EnergyShape(energy) /\ GovernorShape(gov) /\ PlanWithinCaps
  /\ DOMAIN manual = Targets
  /\ \A c \in Targets : \A m \in manual[c] : m.min \in Nat /\ m.max \in Nat

\* An override to the hardware limits is one to numbers.
LEMMA HardwareIsNatural ==
  ASSUME NEW c \in Targets
  PROVE  Hardware[c].min \in Nat /\ Hardware[c].max \in Nat
BY HardwareLimits

\* A planned target keeps to its cap, with an override or without.
LEMMA OverridesWithinCaps ==
  ASSUME EnergyShape(energy), DOMAIN manual = Targets,
         \A c \in Targets : \A m \in manual[c] : m.min \in Nat /\ m.max \in Nat,
         NEW s \in Thermal, NEW o \in Observations, NEW i, i.cap = energy.cap[s], i.observed = o,
         NEW chosen, Chosen(chosen, i.cap), NEW c \in Wanted(i)
  PROVE  LET l == WithOverrides(i, chosen)[c]
         IN  l.min <= l.max /\ l.max <= energy.cap[s][c]
<1>1. c \in Targets
  BY DEF Wanted, Targets
<1>2. CASE c \in Cluster /\ manual[c] = {}
  <2>1. WithOverrides(i, chosen)[c] = chosen[c]
    BY <1>2 DEF WithOverrides
  <2> QED BY <2>1, <1>2 DEF Chosen
<1>3. CASE ~(c \in Cluster /\ manual[c] = {})
  <2> DEFINE M == IF manual[c] = {} THEN {i.observed[c]} ELSE manual[c]
             asked == CHOOSE m \in M : TRUE
  <2>1. \A m \in M : m.min \in Nat /\ m.max \in Nat
    <3>1. CASE manual[c] = {}
      <4>1. c \in ManualOnly
        BY <1>1, <1>3, <3>1 DEF Targets
      <4> QED BY <3>1, <4>1, GovernorConstants
    <3>2. CASE manual[c] # {}
      BY <1>1, <3>2
    <3> QED BY <3>1, <3>2
  <2>2. M # {}
    OBVIOUS
  <2>3. WithOverrides(i, chosen)[c] = Constrain(c, asked, i.cap[c])
    BY <1>3 DEF WithOverrides
  <2> HIDE DEF M
  <2>4. asked \in M
    BY <2>2
  <2>5. asked.min \in Nat /\ asked.max \in Nat
    BY <2>1, <2>4
  <2> HIDE DEF asked
  <2>6. energy.cap[s][c] \in Nat /\ Hardware[c].min <= energy.cap[s][c]
    BY <1>1 DEF EnergyShape
  <2> QED BY <1>1, <2>3, <2>5, <2>6, Constrained
<1> QED BY <1>2, <1>3

\* The next state's governor, in the same configuration.
LEMMA ShapeKept ==
  ASSUME NEW g, GovernorShape(g), energy' = energy, gov' = g
  PROVE  GovernorShape(gov)'
<1>1. \A k : CapsAfter(k)' = CapsAfter(k)
  BY DEF CapsAfter, Control
<1>2. g.cursor = {} \/ \E k \in 1 .. Len(energy.path) :
                          g.cursor = {k} /\ g.cap \in {CapsAfter(k), CapsAfter(k - 1)}
  BY DEF GovernorShape
<1>3. gov'.cursor = {} \/ \E k \in 1 .. Len(energy'.path) :
                          gov'.cursor = {k} /\ gov'.cap \in {CapsAfter(k)', CapsAfter(k - 1)'}
  BY <1>1, <1>2
<1> QED BY <1>3 DEF GovernorShape

\* A whole evaluation.
LEMMA EvaluationSound ==
  ASSUME GovernorInv, NEW x \in GovInput, EvaluateGovernor(Input(x))
  PROVE  GovernorInv'
<1> DEFINE i == Input(x)
           budgeted == Budget(DwellAged(gov, i.dt), i)
           g == Ramp(budgeted, i, Budgeted(budgeted, i))
           chosen == Selected(g, i)
<1>1. x.thermal \in Thermal /\ x.observed \in Observations
  BY DEF GovInput
<1>2. i.thermal = x.thermal /\ i.observed = x.observed /\ i.cap = energy.cap[x.thermal]
  BY DEF Input
<1>3. /\ gov' = Record(g, i, chosen)
      /\ plan' = {[thermal |-> i.thermal, limits |-> WithOverrides(i, chosen)]}
      /\ energy' = energy /\ manual' = manual
  BY DEF EvaluateGovernor
<1> HIDE DEF i
<1>4. EnergyShape(energy) /\ GovernorShape(gov)
  BY DEF GovernorInv
<1>5. GovernorShape(budgeted)
  BY <1>4, BudgetShape
<1> HIDE DEF budgeted
<1>6. GovernorShape(g)
  BY <1>5, RampShape
<1> HIDE DEF g
<1>7. \A c \in Cluster : i.cap[c] \in Nat
  BY <1>1, <1>2, <1>4 DEF EnergyShape, Targets
<1>8. Chosen(chosen, i.cap)
  BY <1>4, <1>6, <1>7, SelectedIsChosen
<1> HIDE DEF chosen
<1>9. GovernorShape(Record(g, i, chosen))
  BY <1>6, <1>8, RecordShape DEF Chosen
<1>10. GovernorShape(gov)'
  BY <1>3, <1>9, ShapeKept
<1>11. PlanWithinCaps'
  <2> DEFINE limits == WithOverrides(i, chosen)
  <2>1. DOMAIN limits = Wanted(i)
    BY DEF WithOverrides
  <2>2. \A c \in Wanted(i) : limits[c].min <= limits[c].max
                             /\ limits[c].max <= energy.cap[x.thermal][c]
    BY <1>1, <1>2, <1>4, <1>8, OverridesWithinCaps DEF GovernorInv
  <2> HIDE DEF limits
  <2>3. plan' = {[thermal |-> x.thermal, limits |-> limits]}
    BY <1>2, <1>3 DEF limits
  <2> QED BY <1>3, <2>1, <2>2, <2>3 DEF PlanWithinCaps
<1> QED BY <1>3, <1>4, <1>10, <1>11 DEF GovernorInv

\* The first configuration is an accepted one.
LEMMA GovernorInvInit == GovInit => GovernorInv
<1> SUFFICES ASSUME GovInit PROVE GovernorInv
  OBVIOUS
<1>1. EnergyShape(energy)
  BY LoadedShape DEF GovInit
<1>2. GovernorShape(gov)
  BY NewShape DEF GovInit
<1> QED BY <1>1, <1>2 DEF GovInit, GovernorInv, PlanWithinCaps

\* Every step keeps the invariant.
LEMMA GovernorInvStep == GovernorInv /\ [GovNext]_govVars => GovernorInv'
<1> SUFFICES ASSUME GovernorInv, [GovNext]_govVars PROVE GovernorInv'
  OBVIOUS
<1>1. ASSUME NEW x \in GovInput, EvaluateGovernor(Input(x)) PROVE GovernorInv'
  BY <1>1, EvaluationSound
<1>2. ASSUME NEW k \in Configurations, ReloadGovernor(k) PROVE GovernorInv'
  <2>1. energy' = Load(k) /\ gov' = NewGovernor /\ plan' = {} /\ manual' = manual
        /\ Acceptable(k)
    BY <1>2 DEF ReloadGovernor
  <2>2. EnergyShape(energy')
    BY <2>1, LoadedShape
  <2>3. EnergyShape(energy)'
    BY <2>2
  <2>4. GovernorShape(gov)'
    BY <2>1 DEF GovernorShape, NewGovernor, GovernorFields
  <2> QED BY <2>1, <2>3, <2>4 DEF GovernorInv, PlanWithinCaps
<1>3. ASSUME NEW c \in Overridable, NEW m \in {{}, {Hardware[c]}}, SetOverride(c, m)
      PROVE  GovernorInv'
  <2>1. energy' = energy /\ gov' = gov /\ plan' = plan /\ manual' = [manual EXCEPT ![c] = m]
    BY <1>3 DEF SetOverride
  <2>2. c \in Targets /\ \A l \in m : l.min \in Nat /\ l.max \in Nat
    BY GovernorConstants, HardwareIsNatural
  <2>3. DOMAIN manual = Targets
    BY DEF GovernorInv
  <2>4. DOMAIN manual' = Targets
        /\ \A d \in Targets : \A l \in manual'[d] : l.min \in Nat /\ l.max \in Nat
    BY <2>1, <2>2, <2>3 DEF GovernorInv
  <2>5. GovernorShape(gov)'
    BY <2>1, ShapeKept DEF GovernorInv
  <2>6. PlanWithinCaps'
    BY <2>1 DEF GovernorInv, PlanWithinCaps
  <2> QED BY <2>1, <2>4, <2>5, <2>6 DEF GovernorInv
<1>4. CASE SkipInterval
  <2>1. energy' = energy /\ gov' = [gov EXCEPT !.integrate = FALSE] /\ plan' = plan
        /\ manual' = manual
    BY <1>4 DEF SkipInterval
  <2>2. GovernorShape(gov)
    BY DEF GovernorInv
  <2>3. /\ DOMAIN gov' = GovernorFields /\ gov'.cap = gov.cap /\ gov'.cursor = gov.cursor
        /\ gov'.last = gov.last
    BY <2>1, <2>2 DEF GovernorShape, GovernorFields
  <2>4. GovernorShape(gov')
    BY <2>2, <2>3, SameShape
  <2>5. GovernorShape(gov)'
    BY <2>1, <2>2, <2>3, SameShape, ShapeKept
  <2>6. PlanWithinCaps'
    BY <2>1 DEF GovernorInv, PlanWithinCaps
  <2> QED BY <2>1, <2>5, <2>6 DEF GovernorInv
<1>5. CASE UNCHANGED govVars
  <2>1. GovernorShape(gov)'
    BY <1>5, ShapeKept DEF govVars, GovernorInv
  <2> QED BY <1>5, <2>1 DEF govVars, GovernorInv, PlanWithinCaps
<1> QED BY <1>1, <1>2, <1>3, <1>4, <1>5 DEF GovNext

\* And it says what is to be shown.
LEMMA InvGivesSound == GovernorInv => GovernorSound
BY DEF GovernorInv, GovernorShape, GovernorSound, CapsFollowPath

\* For any clusters, operating points, energy models, limits and observations:
\* however budget, bursts, reloads and overrides mix, the caps stay at a prefix
\* of the cost-ordered path (`adjust_reference_budget_cap`) and no plan exceeds
\* the safety caps it was made for (`constrain_frequency_limits`).
THEOREM SoundGovernor == GovSpec => []GovernorSound
BY GovernorInvInit, GovernorInvStep, InvGivesSound, PTL DEF GovSpec
=============================================================================
