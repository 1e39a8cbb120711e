--------------------------- MODULE FrequencyLane ---------------------------
(***************************************************************************)
(* The frequency lane of crates/uperf-daemon: the state task               *)
(* (RuntimeActor), the dedicated worker thread it feeds through a          *)
(* latest-wins watch channel, the safety fence both sides share with the   *)
(* thermal guard, and the observer that reads the limits back.             *)
(*                                                                         *)
(* A range is its maximum, a level 1 .. Top; 0 means "not in the plan" or  *)
(* "no reading".  Automatic targets are always planned; a manual-only      *)
(* target is planned while it has an override or a thermal cap.            *)
(* Sleep, reload and shutdown are in MutationBarrier; the transaction one  *)
(* batch makes is in FrequencyActuator and is one write per target here.   *)
(***************************************************************************)
EXTENDS Integers, Sequences, FiniteSets

CONSTANTS
  Automatic,       \* targets the governor drives
  ManualOnly,      \* targets only overrides and safety caps touch
  Top,             \* highest level, the hardware range
  MaxCorrections,  \* MAX_EXTERNAL_DRIFT_CORRECTIONS
  EventCapacity,   \* size of the channel of the worker's events
  MaxInput,        \* bound: changes of the policy's inputs
  MaxFail,         \* bound: failed batches and panics
  MaxExternal      \* bound: writes of other controllers

ASSUME LaneConstants ==
  /\ Automatic \cap ManualOnly = {}
  /\ Top \in Nat \ {0}
  /\ MaxCorrections \in Nat \ {0} /\ EventCapacity \in Nat \ {0}
  /\ MaxInput \in Nat /\ MaxFail \in Nat /\ MaxExternal \in Nat

Target == Automatic \cup ManualOnly
None == 0
Plan == [Target -> 0 .. Top]
NoPlan == [t \in Target |-> None]
Least(a, b) == IF a < b THEN a ELSE b

VARIABLES
  goal, override, thermal,       \* policy inputs: governor, overrides, thermal caps
  desired, applied, observed,    \* the actor's three views of the targets
  drift,                         \* external_frequency_drift: corrections, -1 without entry
  suppressed,                    \* its suppressed flags
  pending, requested, nextId,    \* frequency_command_pending, frequency_requested
  backoff, readOnly,
  slot,                          \* the unseen command in the watch channel
  job, phase, target, todo, start, out,  \* the worker
  results,                       \* events on their way to the actor
  fence,                         \* FrequencySafetyFence.upper_caps
  safety, safetyCaps, waitingCaps, \* the safety update: stage, its caps, the next ones
  kernel, owned, degraded,       \* limits in force, durable claims, actuator mode
  sample,                        \* the observer's unread sample
  rewrites,                      \* history: corrections written under the present drift entry
  inputs, fails, externals

actorVars == <<desired, applied, observed, drift, suppressed, rewrites, pending, requested,
               nextId, backoff, readOnly>>
inputVars == <<goal, override, thermal, inputs>>
workVars == <<job, phase, target, todo, start, out>>
safetyVars == <<fence, safety, safetyCaps, waitingCaps>>
kernelVars == <<kernel, owned, degraded>>
restVars == <<sample, fails, externals>>
vars == <<inputVars, actorVars, slot, workVars, results, safetyVars, kernelVars, restVars>>

NoWork == [restore |-> {}, apply |-> {}]
NoCommand == [id |-> 0, plan |-> NoPlan, applied |-> NoPlan, drifting |-> {}]

-----------------------------------------------------------------------------
(* evaluate_and_reconcile, over the state the handler has built so far.    *)

\* PolicyEngine: what the inputs ask for.  The baseline of a capped target
\* without an override is the hardware range.
PlanOf(g, o, c) ==
  [t \in Target |->
    LET wish == IF t \in Automatic THEN g[t]
                ELSE IF o[t] # None THEN o[t]
                ELSE IF c[t] # None THEN Top ELSE None
    IN  IF c[t] = None THEN wish ELSE Least(wish, c[t])]

\* frequency_needs_reconcile.
Needs(d, a, ob, s) ==
  \E t \in Target :
    \/ d[t] # a[t]
    \/ d[t] # None /\ ob[t] \notin {None, d[t]} /\ ~s[t]

\* correctable_drift_targets.
Correctable(d, a, ob, s) ==
  {t \in Target : d[t] # None /\ a[t] = d[t] /\ ob[t] \notin {None, d[t]} /\ ~s[t]}

\* submit_frequency_reconcile returns early for the intent already queued.
Coalesced(d, p, r) == p # 0 /\ r = d

\* dr, su and rw: the drift entries and their history, bo: the backoff, p and r:
\* the command queued, all as the handler left them.
Evaluate(dr, su, rw, bo, p, r) ==
  LET d == PlanOf(goal', override', thermal')
      keeps(t) == d[t] # None /\ d[t] = desired[t] /\ applied'[t] = d[t]
      s == [t \in Target |-> keeps(t) /\ su[t]]
  IN  /\ desired' = d
      /\ drift' = [t \in Target |-> IF keeps(t) THEN dr[t] ELSE -1]
      /\ suppressed' = s
      /\ rewrites' = [t \in Target |-> IF keeps(t) THEN rw[t] ELSE 0]
      /\ backoff' = bo
      /\ IF /\ safety' = "none" /\ ~readOnly' /\ ~bo
            /\ Needs(d, applied', observed', s)
            /\ ~Coalesced(d, p, r)
         THEN /\ nextId' = nextId + 1
              /\ pending' = nextId + 1
              /\ requested' = d
              /\ slot' = [id |-> nextId + 1, plan |-> d, applied |-> applied',
                          drifting |-> Correctable(d, applied', observed', s)]
         ELSE /\ pending' = p /\ requested' = r
              /\ UNCHANGED <<nextId, slot>>

-----------------------------------------------------------------------------
(* The state task's handlers.                                              *)

Reevaluate(bo) == Evaluate(drift, suppressed, rewrites, bo, pending, requested)

\* A governor step, or an override command (a read-only daemon refuses it).
Decide ==
  /\ inputs < MaxInput /\ inputs' = inputs + 1
  /\ \/ goal' \in [Automatic -> 1 .. Top] /\ goal' # goal /\ UNCHANGED override
     \/ ~readOnly /\ override' \in [ManualOnly -> 0 .. Top] /\ override' # override
        /\ UNCHANGED goal
  /\ UNCHANGED <<thermal, applied, observed, readOnly, safetyVars, workVars, results,
                 kernelVars, restVars>>
  /\ Reevaluate(backoff)

\* Mutant: caps that arrive during an update are dropped.
AskCapsDropped ==
  /\ IF safety = "none"
     THEN safety' = "started" /\ safetyCaps' = thermal'
     ELSE UNCHANGED <<safety, safetyCaps>>
  /\ UNCHANGED waitingCaps

\* request_frequency_safety_update: one update is in flight, the newest caps
\* wait for it.  A poisoned fence ends it for good.
AskCaps ==
  IF safety = "none"
  THEN safety' = "started" /\ safetyCaps' = thermal' /\ UNCHANGED waitingCaps
  ELSE /\ waitingCaps' = IF safety = "failed" THEN {} ELSE {thermal'}
       /\ UNCHANGED <<safety, safetyCaps>>

\* Normal, Warning (automatic targets only), and the stricter states.
ThermalCaps ==
  {NoPlan} \cup {[t \in Target |-> IF t \in S THEN level ELSE None] :
                   S \in {Automatic, Target}, level \in 1 .. Top - 1}

\* A thermal sample changes the caps: update_thermal_caps.
Thermal ==
  /\ inputs < MaxInput /\ inputs' = inputs + 1
  /\ thermal' \in ThermalCaps /\ thermal' # thermal
  /\ AskCaps
  /\ UNCHANGED <<goal, override, applied, observed, readOnly, fence, workVars, results,
                 kernelVars, restVars>>
  /\ Reevaluate(/\ backoff
                /\ \A t \in Target : thermal'[t] # None =>
                                       thermal[t] # None /\ thermal'[t] >= thermal[t])

\* finish_frequency_safety_update.
FinishSafety ==
  /\ \/ /\ safety = "done" /\ waitingCaps # {}
        /\ safety' = "started" /\ waitingCaps' = {} /\ safetyCaps' \in waitingCaps
        /\ UNCHANGED <<actorVars, slot, inputVars>>
     \/ /\ safety = "done" /\ waitingCaps = {}
        /\ safety' = "none"
        /\ UNCHANGED <<safetyCaps, waitingCaps, applied, observed, readOnly, inputVars>>
        /\ Reevaluate(backoff)
     \/ /\ safety = "poisoned"
        /\ safety' = "failed" /\ waitingCaps' = {} /\ readOnly' = TRUE
        /\ UNCHANGED <<safetyCaps, inputVars, slot, desired, applied, observed, drift,
                       suppressed, rewrites, pending, requested, nextId, backoff>>
  /\ UNCHANGED <<fence, workVars, results, kernelVars, restVars>>

\* Mutant: a failed command stays the one the actor waits for.
AnswersOk(event) == event.id = pending /\ event.res = "ok"

\* The event is for the command the actor waits for, not for one it replaced.
Answers(event) == event.id = pending \/ event.res = "failed"

\* finish_frequency_worker, finish_frequency_reconcile, finish_worker_transition.
FinishWorker ==
  /\ results # <<>> /\ results' = Tail(results)
  /\ LET event == Head(results)
         p == IF Answers(event) THEN 0 ELSE pending
         r == IF Answers(event) THEN NoPlan ELSE requested
         ok == event.res = "ok"
         fixed(t) == ok /\ t \in event.drifting /\ drift[t] >= 0 /\ desired[t] = event.plan[t]
         dr == [t \in Target |-> IF fixed(t) THEN drift[t] + 1 ELSE drift[t]]
         bo == IF event.res = "failed" THEN backoff ELSE ~ok
     IN  /\ readOnly' = (readOnly \/ degraded \/ event.res = "failed" \/ event.id > pending)
         /\ applied' = IF event.res = "failed" THEN applied ELSE event.applied
         /\ observed' = [t \in Target |->
              IF ~ok THEN observed[t]
              ELSE IF event.applied[t] # None THEN event.applied[t]
              ELSE IF applied[t] # None THEN None ELSE observed[t]]
         /\ UNCHANGED <<inputVars, safetyVars>>
         /\ IF Needs(desired, applied', observed', suppressed)
            THEN Evaluate(dr, suppressed, rewrites, bo, p, r)
            ELSE /\ drift' = dr /\ backoff' = bo /\ pending' = p /\ requested' = r
                 /\ UNCHANGED <<desired, suppressed, rewrites, nextId, slot>>
  /\ UNCHANGED <<workVars, kernelVars, restVars>>

\* Mutant: every sample that differs starts a new entry.
CorrectionsForgotten(t) == 0

\* observe_external_frequency_drift keeps the count of an entry.
Corrections(t) == IF drift[t] < 0 THEN 0 ELSE drift[t]

\* reduce_frequencies: a sample of the observer, however old.
Observe ==
  /\ sample # NoPlan /\ sample' = NoPlan
  /\ observed' = sample
  /\ LET differs(t) == /\ desired[t] # None /\ applied[t] = desired[t]
                       /\ sample[t] # desired[t]
         dr == [t \in Target |-> IF differs(t) THEN Corrections(t) ELSE -1]
         rw == [t \in Target |-> IF differs(t) /\ drift[t] >= 0 THEN rewrites[t] ELSE 0]
     IN  /\ UNCHANGED <<inputVars, applied, readOnly, safetyVars>>
         /\ Evaluate(dr, [t \in Target |-> dr[t] >= MaxCorrections], rw, backoff,
                     pending, requested)
  /\ UNCHANGED <<workVars, results, kernelVars, fails, externals>>

\* on_tick after the retry delay has passed.
Retry ==
  /\ backoff
  /\ UNCHANGED <<inputVars, applied, observed, readOnly, safetyVars, workVars, results,
                 kernelVars, restVars>>
  /\ Reevaluate(FALSE)

-----------------------------------------------------------------------------
(* The worker thread: run_frequency_worker and reconcile_frequencies.      *)

\* A worker whose event finds the channel full takes nothing before it is sent:
\* the event beyond the capacity is the one it is blocked on.
Take ==
  /\ phase = "idle" /\ slot # NoCommand /\ Len(results) <= EventCapacity
  /\ job' = slot /\ slot' = NoCommand /\ phase' = "gate"
  /\ UNCHANGED <<inputVars, actorVars, target, todo, start, out, results, safetyVars,
                 kernelVars, restVars>>

\* Mutant: the plan is trusted to respect the caps.
UnderCapsTrusting(plan) == plan

\* The plan under the caps of the fence.  A capped target outside the plan is
\* held at the cap from wherever it is.
UnderCaps(plan) ==
  [t \in Target |-> IF fence[t] = None THEN plan[t]
                    ELSE IF plan[t] = None THEN Least(kernel[t], fence[t])
                    ELSE Least(plan[t], fence[t])]

\* Gate and fence are taken; the fence is held until the batch is over.
Begin ==
  /\ phase = "gate" /\ phase' = "write"
  /\ target' = UnderCaps(job.plan)
  /\ todo' = [restore |-> {t \in Target : job.applied[t] # None /\ target'[t] = None},
              apply |-> {t \in Target : target'[t] \notin {None, kernel[t]}}]
  /\ start' = [kernel |-> kernel, owned |-> owned]
  /\ out' = [t \in Target |-> IF target'[t] \in {None, kernel[t]} THEN target'[t]
                              ELSE job.applied[t]]
  /\ UNCHANGED <<inputVars, actorVars, slot, job, results, safetyVars, kernelVars, restVars>>

\* restore_targets gives back what the plan no longer holds.
GiveBack(t) ==
  /\ phase = "write" /\ t \in todo.restore
  /\ kernel' = IF t \in owned THEN [kernel EXCEPT ![t] = Top] ELSE kernel
  /\ owned' = owned \ {t}
  /\ todo' = [todo EXCEPT !.restore = @ \ {t}]
  /\ UNCHANGED <<inputVars, actorVars, slot, job, phase, target, start, out, results,
                 safetyVars, degraded, restVars>>

\* apply_owned_batch_fast or apply_batch, one target.
Write(t) ==
  /\ phase = "write" /\ todo.restore = {} /\ t \in todo.apply
  /\ kernel' = [kernel EXCEPT ![t] = target[t]]
  /\ owned' = owned \cup {t}
  /\ todo' = [todo EXCEPT !.apply = @ \ {t}]
  /\ rewrites' = IF t \in job.drifting /\ job.plan[t] = desired[t]
                 THEN [rewrites EXCEPT ![t] = @ + 1] ELSE rewrites
  /\ UNCHANGED <<inputVars, desired, applied, observed, drift, suppressed, pending, requested,
                 nextId, backoff, readOnly, slot, job, phase, target, start, out, results,
                 safetyVars, degraded, restVars>>

Send(res, a) ==
  results' = Append(results, [id |-> job.id, res |-> res, plan |-> job.plan, applied |-> a,
                              drifting |-> job.drifting])

Leave(ph) == phase' = ph /\ job' = NoCommand /\ target' = NoPlan /\ out' = NoPlan
             /\ todo' = NoWork /\ start' = [kernel |-> NoPlan, owned |-> {}]

Done ==
  /\ phase = "write" /\ todo = NoWork
  /\ Send("ok", target) /\ Leave("idle")
  /\ UNCHANGED <<inputVars, actorVars, slot, safetyVars, kernelVars, restVars>>

\* The batch fails: it is rolled back, or the actuator degrades where it is,
\* or the worker panics and poisons gate and fence.
Fail ==
  /\ phase = "write" /\ fails < MaxFail /\ fails' = fails + 1
  /\ \/ /\ todo.restore = {}
        /\ kernel' = [t \in Target |-> IF target[t] # None THEN start.kernel[t] ELSE kernel[t]]
        /\ owned' = {t \in Target : IF target[t] # None THEN t \in start.owned ELSE t \in owned}
        /\ Send("error", out) /\ Leave("idle") /\ UNCHANGED degraded
     \/ /\ degraded' = TRUE
        /\ Send("error", IF todo.restore = {} THEN out ELSE job.applied) /\ Leave("idle")
        /\ UNCHANGED <<kernel, owned>>
     \/ Send("failed", out) /\ Leave("dead") /\ UNCHANGED kernelVars
  /\ UNCHANGED <<inputVars, actorVars, slot, safetyVars, sample, externals>>

\* replace_frequency_safety_caps waits for the fence.
ReplaceCaps ==
  /\ safety = "started" /\ phase # "write"
  /\ IF phase = "dead" THEN safety' = "poisoned" /\ UNCHANGED fence
     ELSE safety' = "done" /\ fence' = safetyCaps
  /\ UNCHANGED <<inputVars, actorVars, slot, workVars, results, safetyCaps, waitingCaps,
                 kernelVars, restVars>>

-----------------------------------------------------------------------------
(* The observer thread, and other controllers between two batches.         *)

Sample ==
  /\ sample # kernel /\ sample' = kernel
  /\ UNCHANGED <<inputVars, actorVars, slot, workVars, results, safetyVars, kernelVars, fails,
                 externals>>

External(t) ==
  /\ externals < MaxExternal /\ externals' = externals + 1
  /\ phase # "write"
  /\ \E v \in (1 .. Top) \ {kernel[t]} : kernel' = [kernel EXCEPT ![t] = v]
  /\ UNCHANGED <<inputVars, actorVars, slot, workVars, results, safetyVars, owned, degraded,
                 sample, fails>>

-----------------------------------------------------------------------------

\* The daemon has just been activated: its first plan is on its way.
Init ==
  /\ goal = [t \in Automatic |-> 1] /\ override = [t \in ManualOnly |-> None]
  /\ thermal = NoPlan /\ fence = NoPlan
  /\ desired = PlanOf(goal, override, thermal)
  /\ applied = NoPlan /\ observed = NoPlan
  /\ drift = [t \in Target |-> -1] /\ suppressed = [t \in Target |-> FALSE]
  /\ rewrites = [t \in Target |-> 0]
  /\ pending = 1 /\ requested = desired /\ nextId = 1
  /\ backoff = FALSE /\ readOnly = FALSE
  /\ slot = [id |-> 1, plan |-> desired, applied |-> NoPlan, drifting |-> {}]
  /\ job = NoCommand /\ phase = "idle" /\ target = NoPlan
  /\ todo = NoWork /\ start = [kernel |-> NoPlan, owned |-> {}] /\ out = NoPlan
  /\ results = <<>>
  /\ safety = "none" /\ safetyCaps = NoPlan /\ waitingCaps = {}
  /\ kernel = [t \in Target |-> Top] /\ owned = {} /\ degraded = FALSE
  /\ sample = NoPlan /\ inputs = 0 /\ fails = 0 /\ externals = 0

Next ==
  \/ Decide \/ Thermal \/ FinishSafety \/ FinishWorker \/ Observe \/ Retry
  \/ Take \/ Begin \/ Done \/ Fail \/ ReplaceCaps \/ Sample
  \/ \E t \in Target : GiveBack(t) \/ Write(t) \/ External(t)

Spec == Init /\ [][Next]_vars

\* The actor, the worker, the blocking pool and the observer keep running;
\* inputs, failures and other controllers may stop.
LaneFairness ==
  /\ WF_vars(FinishSafety) /\ WF_vars(FinishWorker) /\ WF_vars(Observe)
  /\ WF_vars(Retry) /\ WF_vars(Take) /\ WF_vars(Begin) /\ WF_vars(Done)
  /\ WF_vars(ReplaceCaps) /\ WF_vars(Sample)
  /\ WF_vars(\E t \in Target : GiveBack(t) \/ Write(t))

FairSpec == Spec /\ LaneFairness

-----------------------------------------------------------------------------
(* Properties.                                                             *)

\* Shape of the state; the corrections of one entry stay bounded.
TypeOK ==
  /\ goal \in [Automatic -> 1 .. Top] /\ override \in [ManualOnly -> 0 .. Top]
  /\ {thermal, fence, safetyCaps, desired, applied, observed, requested, sample} \subseteq Plan
  /\ kernel \in [Target -> 1 .. Top] /\ owned \subseteq Target
  /\ {slot, job} \subseteq [id : 0 .. nextId, plan : Plan, applied : Plan,
                            drifting : SUBSET Target]
  /\ pending \in 0 .. nextId /\ nextId \in Nat
  /\ drift \in [Target -> -1 .. MaxCorrections + EventCapacity + 1]
  /\ suppressed \in [Target -> BOOLEAN] /\ rewrites \in [Target -> Nat]
  /\ phase \in {"idle", "gate", "write", "dead"}
  /\ safety \in {"none", "started", "done", "poisoned", "failed"}
  /\ waitingCaps \subseteq Plan /\ Cardinality(waitingCaps) <= 1
  /\ {backoff, readOnly, degraded} \subseteq BOOLEAN

\* "There is no point at which a newly published safety generation can be
\* followed by an old-generation write" (FrequencySafetyFence): whatever plan
\* and caps a command was built from, the worker writes nothing above the caps
\* the fence holds.
WritesUnderCaps ==
  [][\A t \in Target :
       phase = "write" /\ phase' = "write" /\ kernel'[t] # kernel[t] /\ fence[t] # None =>
         kernel'[t] <= fence[t]]_vars

\* No change of the caps is lost between the actor and the fence, however many
\* arrive while an update waits for a running batch.
CapsReachFence == safety = "none" => fence = thermal

\* The actor never disowns its worker: an event is always for the command it
\* waits for or for an older one that was replaced (finish_frequency_worker
\* would make the daemon read-only otherwise).
EventsExpected ==
  \A k \in DOMAIN results : results[k].res # "failed" => results[k].id <= pending

\* Neither side of the lane loses the other: caps, commands and events.
LaneSound == TypeOK /\ CapsReachFence /\ EventsExpected

\* Another controller that undoes every write is corrected a bounded number of
\* times before the actor gives in (external_frequency_drift), whatever else queues
\* commands meanwhile: MaxCorrections, the commands that were on their way to the
\* actor, in the worker or in the watch channel when the last of them was counted,
\* and the batches that failed.
RewritesBounded ==
  \A t \in Target : drift[t] >= 0 =>
    rewrites[t] <= MaxCorrections + EventCapacity + 1 + fails

Settled ==
  /\ ~readOnly /\ ~backoff /\ pending = 0 /\ results = <<>> /\ safety = "none"
  /\ ~Needs(desired, applied, observed, suppressed)

\* "A manual-only target is normally left untouched": when the actor has
\* nothing left to do it holds no claim on a target outside its plan.
NoForgottenTarget == Settled => \A t \in owned : desired[t] # None

AtPlan == readOnly \/ \A t \in Target : desired[t] # None => kernel[t] = desired[t]

\* When the inputs stop changing and no batch fails any more, every planned
\* target ends up at its planned limit, or the daemon is read-only.
Converges == <>[]AtPlan
=============================================================================
