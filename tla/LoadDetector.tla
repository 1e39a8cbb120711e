---------------------------- MODULE LoadDetector ----------------------------
(***************************************************************************)
(* What the reducer makes of load samples: utilisation since the last      *)
(* sample, the sampling cadence, and the persistent boost of a heavy load  *)
(* (reduce_load of crates/uperf-daemon/src/runtime.rs, HeavyLoadDetector   *)
(* of crates/uperf-core/src/policy.rs, AdaptiveSampler of energy.rs).      *)
(*                                                                         *)
(* A load is 0 (below the exit and idle thresholds), 1 (between) or 2      *)
(* (above the enter and active thresholds).                                *)
(***************************************************************************)
EXTENDS Naturals, FiniteSets, FiniteSetsExt

CONSTANTS
  LoadStale,       \* age at which load telemetry is stale
  HeavyDwell,      \* time below the exit threshold before a boost ends
  MaxFaults        \* bound on failures, changes of the load and reloads

VARIABLES
  load,        \* the load of the machine
  sampling,    \* whether the load thread still delivers samples
  measured,    \* the reducer's load fields
  fast,        \* the cadence last sent to the load thread
  faults

loadVars == <<load, sampling, measured, fast, faults>>

Unmeasured == [loads |-> {}, previous |-> FALSE, ema |-> {}, heavy |-> FALSE, below |-> {},
               boost |-> FALSE, age |-> 0, enabled |-> TRUE]

\* The average after a sample lies between the last one and the sample.
Averages(old, sample) ==
  UNION {Min({e, sample})..Max({e, sample}) : e \in old} \cup (IF old = {} THEN {sample} ELSE {})

\* Heavy at the enter threshold, idle after a dwell below the exit threshold.
HeavyUpdate(m, ema) ==
  LET since == IF m.below = {} THEN {0} ELSE m.below
      ended == m.heavy /\ ema = 0 /\ \E b \in since : b >= HeavyDwell
  IN [m EXCEPT !.ema = {ema},
               !.heavy = IF m.heavy THEN ~ended ELSE ema = 2,
               !.below = IF m.heavy /\ ema = 0 /\ ~ended THEN since ELSE {}]

\* The sampler is active above one threshold and idle below another.
CadenceFast(was, n) == IF n = 2 THEN TRUE ELSE IF n = 0 THEN FALSE ELSE was

InvalidateLoad(m) ==
  [m EXCEPT !.loads = {}, !.previous = FALSE, !.ema = {}, !.heavy = FALSE, !.below = {},
            !.boost = FALSE]

-----------------------------------------------------------------------------
\* The first sample only gives the counters the next one is compared with.
ReduceLoad ==
  /\ sampling
  /\ IF ~measured.previous
     THEN measured' = [measured EXCEPT !.previous = TRUE, !.age = 0] /\ UNCHANGED fast
     ELSE /\ fast' = CadenceFast(fast, load)
          /\ \E ema \in Averages(measured.ema, load) :
               LET next == IF measured.enabled THEN HeavyUpdate(measured, ema)
                           ELSE [measured EXCEPT !.ema = {}, !.heavy = FALSE, !.below = {}]
               IN measured' = [next EXCEPT !.loads = {load}, !.age = 0, !.boost = next.heavy]
  /\ UNCHANGED <<load, sampling, faults>>

\* A failed read; or a new sample whose counters went backwards.
ReduceLoadFailed ==
  /\ sampling /\ faults < MaxFaults /\ faults' = faults + 1
  /\ \E age \in {0, measured.age} : measured' = [InvalidateLoad(measured) EXCEPT !.age = age]
  /\ fast' = FALSE
  /\ UNCHANGED <<load, sampling>>

\* The reducer's tick: telemetry that went stale takes the boost with it.
Older(n, top) == Min({n + 1, top})
\* Mutant: a stale load is only noted.
LoadTickForgets ==
  /\ measured' = [measured EXCEPT !.age = Older(@, LoadStale + 1),
                                  !.below = {Older(b, HeavyDwell) : b \in @}]
  /\ UNCHANGED <<load, sampling, fast, faults>>
LoadTick ==
  LET grown == [measured EXCEPT !.age = Older(@, LoadStale + 1),
                                !.below = {Older(b, HeavyDwell) : b \in @}]
      stale == grown.age > LoadStale /\ (grown.loads # {} \/ grown.boost)
  IN /\ measured' = IF stale THEN InvalidateLoad(grown) ELSE grown
     /\ fast' = IF stale THEN FALSE ELSE fast
     /\ UNCHANGED <<load, sampling, faults>>

\* A reload may turn the detector on or off and starts at the idle cadence;
\* sleep takes every hint away.
ReloadLoad ==
  /\ faults < MaxFaults /\ faults' = faults + 1
  /\ \E on \in BOOLEAN : measured' = [measured EXCEPT !.enabled = on]
  /\ fast' = FALSE
  /\ UNCHANGED <<load, sampling>>
SleepClearsBoost ==
  /\ faults < MaxFaults /\ faults' = faults + 1
  /\ measured' = [measured EXCEPT !.boost = FALSE]
  /\ UNCHANGED <<load, sampling, fast>>

LoadChanges ==
  /\ faults < MaxFaults /\ faults' = faults + 1
  /\ \/ load' \in 0..2 \ {load} /\ UNCHANGED sampling
     \/ sampling /\ sampling' = FALSE /\ UNCHANGED load
  /\ UNCHANGED <<measured, fast>>

-----------------------------------------------------------------------------
LoadInit ==
  /\ load = 0 /\ sampling = TRUE /\ measured = Unmeasured /\ fast = FALSE /\ faults = 0

LoadNext ==
  ReduceLoad \/ ReduceLoadFailed \/ LoadTick \/ ReloadLoad \/ SleepClearsBoost \/ LoadChanges

\* The ticker fires; a thread that samples delivers; a constant load pulls the
\* average to it.
LoadFairness ==
  /\ WF_loadVars(LoadTick)
  /\ SF_loadVars(ReduceLoad /\ measured'.ema \subseteq {load})

LoadSpec == LoadInit /\ [][LoadNext]_loadVars /\ LoadFairness

-----------------------------------------------------------------------------
\* The persistent boost of a heavy load ends: once the machine is idle, the
\* detector is off or no sample arrives any more, it is cleared for good
\* (reduce_load, refresh_load_staleness).
HeavyBoostEnds ==
  <>[](load = 0 \/ ~measured.enabled \/ ~sampling => ~measured.boost)
=============================================================================
