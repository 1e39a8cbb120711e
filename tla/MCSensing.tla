----------------------------- MODULE MCSensing -----------------------------
(***************************************************************************)
(* From measurements to decisions, for TLC: the thermal telemetry, the     *)
(* load detector, the energy governor, and the scalar actuator that writes *)
(* what does not go through the frequency lane.  They share no state here  *)
(* and are explored one at a time: part says which one runs.               *)
(***************************************************************************)
EXTENDS MCScalarActuator, EnergyGovernor, Telemetry, LoadDetector

VARIABLE part

\* Two clusters that share an energy budget, the second one measured, dearer and
\* with a gap in its table; and a target without an automatic policy.
TwoClusters == {1, 2}
OneDevice == {3}
Tables == <<{1, 2, 3}, {1, 2, 4}, {1, 2}>>
Reference(sweet) ==
  [kind |-> "reference", free |-> 1, plain |-> 1, sweet |-> sweet, typical |-> 3, scale |-> 1,
   cores |-> 4]
Points == [kind |-> "measured", cores |-> 2,
           point |-> 1 :> [capacity |-> 3, power |-> 9] @@ 2 :> [capacity |-> 6, power |-> 14]
                     @@ 4 :> [capacity |-> 12, power |-> 64]]
\* The first cluster keeps the default caps, the second has caps of its own
\* between its operating points.
Limits ==
  <<[floor |-> 1, reference |-> 2, efficient |-> 3, admin |-> {}, critical |-> {}, failure |-> {}],
    [floor |-> 1, reference |-> 4, efficient |-> 3, admin |-> {}, critical |-> {3},
     failure |-> {2}],
    [admin |-> {}, critical |-> {}, failure |-> {}]>>
Scene(burst, efficient) ==
  [burst |-> burst, efficient |-> efficient, budget |-> [slow |-> {}, fast |-> {}, capacity |-> {}]]
Configured(models, limits, delay) ==
  [model |-> models, limit |-> limits, predict |-> 1, ramp |-> delay, residency |-> delay,
   profile |-> [burst |-> FALSE, efficient |-> FALSE,
                budget |-> [slow |-> 2, fast |-> 4, capacity |-> 1]],
   patch |-> "boost" :> Scene({TRUE}, {}) @@ "touch" :> Scene({}, {TRUE})]
\* Two that differ in a curve, the administrator's caps and the delays, and two
\* that are refused: a curve with its corners reversed, a cap below the floor.
Candidates4 ==
  {Configured(<<Reference(2), Points>>, Limits, 2),
   Configured(<<Reference(3), Points>>, [Limits EXCEPT ![1].admin = {2}, ![3].admin = {1}], 0),
   Configured(<<[Reference(3) EXCEPT !.plain = 4], Points>>, Limits, 2),
   Configured(<<Reference(2), Points>>, [Limits EXCEPT ![2].failure = {0}], 2)}
LowOrHigh == {<<0, 0>>, <<2, 6>>, <<3, 12>>}
OffOrBusy == {<<{0}, {0}>>, <<{0, 2}, {2}>>}
Readbacks == {[d \in OneDevice |-> [min |-> 1, max |-> 2]]}

\* Warm, hot and critical.
Thresholds == <<1, 2, 3>>

-----------------------------------------------------------------------------

MCInit ==
  /\ part \in {"scalars", "governor", "telemetry", "load"}
  /\ Init /\ (part # "scalars" => scene = Race)
  /\ GovInit /\ TelemetryInit /\ LoadInit
MCNext ==
  \/ part = "scalars" /\ Next /\ UNCHANGED <<part, govVars, telemetryVars, loadVars>>
  \/ part = "governor" /\ GovNext /\ UNCHANGED <<part, vars, telemetryVars, loadVars>>
  \/ part = "telemetry" /\ TelemetryNext /\ UNCHANGED <<part, vars, govVars, loadVars>>
  \/ part = "load" /\ LoadNext /\ UNCHANGED <<part, vars, govVars, telemetryVars>>
\* TelemetryFairness and LoadFairness, each where its part runs.
MCFairness ==
  /\ WF_telemetryVars(part = "telemetry" /\ Bridge)
  /\ WF_telemetryVars(part = "telemetry" /\ TelemetryTick)
  /\ WF_telemetryVars(part = "telemetry" /\ (WakeForSettings \/ WakeToStop))
  /\ WF_telemetryVars(part = "telemetry" /\ ReadSensors)
  /\ WF_telemetryVars(part = "telemetry" /\ PublishIfCurrent)
  /\ WF_telemetryVars(part = "telemetry" /\ ReduceThermal)
  /\ WF_loadVars(part = "load" /\ LoadTick)
  /\ SF_loadVars(part = "load" /\ ReduceLoad /\ measured'.ema \subseteq {load})
MCSpec ==
  MCInit /\ [][MCNext]_<<part, vars, govVars, telemetryVars, loadVars>> /\ MCFairness

\* ThermalSettles, where the telemetry runs.
TelemetrySettles == <>[](part = "telemetry" => ThermalSettled)
=============================================================================
