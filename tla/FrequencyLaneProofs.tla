------------------------ MODULE FrequencyLaneProofs ------------------------
(***************************************************************************)
(* Proofs about FrequencyLane, for any targets, levels, corrections, channel *)
(* size, inputs, failures and foreign writes:                                *)
(*   Spec => []LaneSound          (SoundLane)                                *)
(*   Spec => WritesUnderCaps      (CappedWrites)                             *)
(*   Spec => []RewritesBounded    (BoundedRewrites)                          *)
(*                                                                          *)
(* That no cap is lost needs where the newest caps are while an update is    *)
(* under way (CapsOnTheirWay); that every event is expected needs the order  *)
(* of the numbers in the channel, in the worker and in the watch channel     *)
(* (Ordered).  A write stays under the fence because the batch's target does *)
(* and the fence cannot change before it is over (Fenced).  Rewrites are     *)
(* bounded because every correction that was written is counted by the       *)
(* actor or on its way to be (Counted), and because a target is only         *)
(* corrected while its count is low (Hesitant).                              *)
(***************************************************************************)
EXTENDS FrequencyLane, FiniteSetTheorems, TLAPS

Command == [id : Nat, plan : Plan, applied : Plan, drifting : SUBSET Target]
Event == [id : Nat, res : {"ok", "error", "failed"}, plan : Plan, applied : Plan,
          drifting : SUBSET Target]

Busy == phase \in {"gate", "write"}

\* The state's shape; in a batch, what is left to do agrees with the target.
InputTypes ==
  /\ goal \in [Automatic -> 1 .. Top] /\ override \in [ManualOnly -> 0 .. Top] /\ thermal \in Plan
ActorTypes ==
  /\ desired \in Plan /\ applied \in Plan /\ observed \in Plan /\ requested \in Plan
  /\ drift \in [Target -> Int] /\ (\A t \in Target : drift[t] >= -1)
  /\ suppressed \in [Target -> BOOLEAN] /\ rewrites \in [Target -> Nat]
  /\ pending \in Nat /\ nextId \in Nat /\ pending <= nextId
  /\ backoff \in BOOLEAN /\ readOnly \in BOOLEAN
  /\ slot \in Command /\ slot.id <= nextId
WorkTypes ==
  /\ phase \in {"idle", "gate", "write", "dead"}
  /\ job \in Command /\ job.id <= nextId
  /\ target \in Plan /\ out \in Plan
  /\ todo \in [restore : SUBSET Target, apply : SUBSET Target]
  /\ start \in [kernel : Plan, owned : SUBSET Target]
  /\ phase = "write" => start.kernel \in [Target -> 1 .. Top]
  /\ \A t \in todo.apply : target[t] # None
  /\ \A t \in todo.restore : target[t] = None
  /\ results \in Seq(Event)
WorldTypes ==
  /\ fence \in Plan /\ safetyCaps \in Plan
  /\ safety \in {"none", "started", "done", "poisoned", "failed"}
  /\ kernel \in [Target -> 1 .. Top] /\ owned \subseteq Target /\ degraded \in BOOLEAN
  /\ sample \in Plan /\ fails \in Nat
Types == InputTypes /\ ActorTypes /\ WorkTypes /\ WorldTypes

\* Where the newest caps are.
CapsOnTheirWay ==
  /\ waitingCaps \in {{}, {thermal}}
  /\ safety = "none" => waitingCaps = {} /\ fence = thermal
  /\ safety = "started" /\ waitingCaps = {} => safetyCaps = thermal
  /\ safety = "done" /\ waitingCaps = {} => fence = thermal

\* Commands and events in the order of their numbers: pn is the number the actor
\* waits for, sl the command in the watch channel, rs the events.
InOrder(pn, sl, rs) ==
  /\ Busy => 0 < job.id /\ job.id <= pn
  /\ phase # "dead" /\ sl # NoCommand => sl.id = pn /\ pn > 0
  /\ Busy /\ sl # NoCommand => job.id < sl.id
  /\ \A k \in 1 .. Len(rs) :
       /\ 0 < rs[k].id /\ rs[k].id <= pn
       /\ Busy => rs[k].id < job.id
       /\ phase # "dead" /\ sl # NoCommand => rs[k].id < sl.id
       /\ rs[k].res = "failed" => phase = "dead" /\ k = Len(rs)
       /\ \A i \in 1 .. Len(rs) : i < k => rs[i].id < rs[k].id
Ordered == InOrder(pending, slot, results)

\* The batch's target respects the fence the worker holds.
Fenced ==
  phase = "write" => \A t \in Target : fence[t] # None => target[t] # None /\ target[t] <= fence[t]

\* An entry is about a target at its plan, and the actor only corrects while
\* the count is low.
Hesitant ==
  \A t \in Target :
    /\ drift[t] >= 0 => desired[t] # None /\ applied[t] = desired[t]
    /\ t \in Correctable(desired, applied, observed, suppressed) => drift[t] < MaxCorrections

\* One event at most is beyond the channel, or in the making.
Room == Len(results) + (IF Busy THEN 1 ELSE 0) <= EventCapacity + 1

\* Events and commands that will be counted for t while its plan is l.
Corrects(e, t, l) == t \in e.drifting /\ e.plan[t] = l
Coming(rs, t, l) == {k \in 1 .. Len(rs) : Corrects(rs[k], t, l) /\ rs[k].res = "ok"}
InJob(t, l) == IF Busy /\ Corrects(job, t, l) THEN 1 ELSE 0
InSlot(t, l) == IF slot # NoCommand /\ Corrects(slot, t, l) THEN 1 ELSE 0
Written(t, l) == IF phase = "write" /\ Corrects(job, t, l) /\ t \notin todo.apply THEN 1 ELSE 0

\* n corrections counted, w written, c on their way to the actor.
Covered(t, l, n, w, c) ==
  /\ w <= n + c + Written(t, l) + fails
  /\ n + c + InJob(t, l) + InSlot(t, l) <= MaxCorrections + EventCapacity + 1
Counted ==
  \A t \in Target : drift[t] >= 0 =>
    Covered(t, desired[t], drift[t], rewrites[t], Cardinality(Coming(results, t, desired[t])))

Promises == Ordered /\ Hesitant /\ Room /\ Counted
IInv == Types /\ CapsOnTheirWay /\ Fenced /\ Promises

-----------------------------------------------------------------------------
(* What the operators return.                                               *)

\* Least is the smaller of its arguments.
LEMMA LeastType ==
  ASSUME NEW a \in Int, NEW b \in Int
  PROVE  Least(a, b) \in {a, b} /\ Least(a, b) <= a /\ Least(a, b) <= b
BY DEF Least

\* What the actor decides is a plan.
LEMMA PlanOfType ==
  ASSUME NEW g \in [Automatic -> 1 .. Top], NEW o \in [ManualOnly -> 0 .. Top], NEW c \in Plan
  PROVE  PlanOf(g, o, c) \in Plan
<1>1. Top \in Nat /\ Top >= 1
  BY LaneConstants
<1>2. ASSUME NEW t \in Target
      PROVE  PlanOf(g, o, c)[t] \in 0 .. Top
  <2>1. c[t] \in 0 .. Top
    BY DEF Plan
  <2> DEFINE wish == IF t \in Automatic THEN g[t]
                     ELSE IF o[t] # None THEN o[t]
                     ELSE IF c[t] # None THEN Top ELSE None
  <2>2. wish \in 0 .. Top
    <3>1. CASE t \in Automatic
      BY <1>1, <3>1
    <3>2. CASE t \notin Automatic
      <4>1. o[t] \in 0 .. Top
        BY <3>2 DEF Target
      <4> QED BY <1>1, <3>2, <4>1 DEF None
    <3> QED BY <3>1, <3>2
  <2>3. PlanOf(g, o, c)[t] = IF c[t] = None THEN wish ELSE Least(wish, c[t])
    BY Zenon DEF PlanOf
  <2> HIDE DEF wish
  <2> QED BY <1>1, <2>1, <2>2, <2>3 DEF Least
<1>3. PlanOf(g, o, c) = [t \in Target |-> PlanOf(g, o, c)[t]]
  BY DEF PlanOf
<1> QED BY <1>2, <1>3 DEF Plan

\* What an evaluation leaves: a plan, the entries that still apply, and either
\* the queue as it was or a new command in the watch channel.
LEMMA EvaluateEffect ==
  ASSUME NEW dr \in [Target -> Int], NEW su \in [Target -> BOOLEAN], NEW rw \in [Target -> Nat],
         NEW bo, NEW p, NEW r, Evaluate(dr, su, rw, bo, p, r),
         InputTypes', desired \in Plan, applied' \in Plan, observed' \in Plan
  PROVE  /\ desired' \in Plan /\ drift' \in [Target -> Int] /\ suppressed' \in [Target -> BOOLEAN]
         /\ rewrites' \in [Target -> Nat] /\ backoff' = bo
         /\ \A t \in Target :
              \/ /\ desired'[t] # None /\ desired'[t] = desired[t] /\ applied'[t] = desired[t]
                 /\ drift'[t] = dr[t] /\ suppressed'[t] = su[t] /\ rewrites'[t] = rw[t]
              \/ drift'[t] = -1 /\ rewrites'[t] = 0
         /\ \/ pending' = p /\ requested' = r /\ nextId' = nextId /\ slot' = slot
            \/ /\ pending' = nextId + 1 /\ requested' = desired' /\ nextId' = nextId + 1
               /\ slot' = [id |-> nextId + 1, plan |-> desired', applied |-> applied',
                           drifting |-> Correctable(desired', applied', observed', suppressed')]
               /\ ~readOnly'
<1> DEFINE d == PlanOf(goal', override', thermal')
           keeps(t) == d[t] # None /\ d[t] = desired[t] /\ applied'[t] = d[t]
           s == [t \in Target |-> keeps(t) /\ su[t]]
<1>1. desired' = d /\ suppressed' = s /\ backoff' = bo
      /\ drift' = [t \in Target |-> IF keeps(t) THEN dr[t] ELSE -1]
      /\ rewrites' = [t \in Target |-> IF keeps(t) THEN rw[t] ELSE 0]
  BY DEF Evaluate
<1>2. d \in Plan
  BY PlanOfType DEF InputTypes
<1>3. \/ pending' = p /\ requested' = r /\ nextId' = nextId /\ slot' = slot
      \/ /\ pending' = nextId + 1 /\ requested' = d /\ nextId' = nextId + 1
         /\ slot' = [id |-> nextId + 1, plan |-> d, applied |-> applied',
                     drifting |-> Correctable(d, applied', observed', s)]
         /\ ~readOnly'
  BY DEF Evaluate
<1>4. drift' \in [Target -> Int] /\ rewrites' \in [Target -> Nat] /\ suppressed' \in [Target -> BOOLEAN]
  BY <1>1
<1>5. ASSUME NEW t \in Target
      PROVE  \/ /\ desired'[t] # None /\ desired'[t] = desired[t] /\ applied'[t] = desired[t]
                /\ drift'[t] = dr[t] /\ suppressed'[t] = su[t] /\ rewrites'[t] = rw[t]
             \/ drift'[t] = -1 /\ rewrites'[t] = 0
  <2> HIDE DEF d
  <2> QED BY <1>1
<1> QED BY <1>1, <1>2, <1>3, <1>4, <1>5

\* The queue after an evaluation.
LEMMA EvaluateQueue ==
  ASSUME NEW dr, NEW su, NEW rw, NEW bo, NEW p, NEW r, Evaluate(dr, su, rw, bo, p, r)
  PROVE  \/ pending' = p /\ slot' = slot
         \/ pending' = nextId + 1 /\ slot'.id = nextId + 1
BY DEF Evaluate

\* The actor's variables stay well typed through an evaluation.
LEMMA EvaluateTypes ==
  ASSUME NEW dr \in [Target -> Int], NEW su \in [Target -> BOOLEAN], NEW rw \in [Target -> Nat],
         NEW bo \in BOOLEAN, NEW p \in Nat, NEW r \in Plan, Evaluate(dr, su, rw, bo, p, r),
         \A t \in Target : dr[t] >= -1, p <= nextId,
         InputTypes', ActorTypes, applied' \in Plan, observed' \in Plan, readOnly' \in BOOLEAN
  PROVE  ActorTypes' /\ nextId' >= nextId
<1>1. desired \in Plan /\ nextId \in Nat /\ slot \in Command /\ slot.id \in Nat /\ slot.id <= nextId
  BY DEF ActorTypes, Command
<1>2. /\ desired' \in Plan /\ drift' \in [Target -> Int] /\ suppressed' \in [Target -> BOOLEAN]
      /\ rewrites' \in [Target -> Nat] /\ backoff' = bo
      /\ \A t \in Target : drift'[t] = dr[t] \/ drift'[t] = -1
      /\ \/ pending' = p /\ requested' = r /\ nextId' = nextId /\ slot' = slot
         \/ /\ pending' = nextId + 1 /\ requested' = desired' /\ nextId' = nextId + 1
            /\ slot' = [id |-> nextId + 1, plan |-> desired', applied |-> applied',
                        drifting |-> Correctable(desired', applied', observed', suppressed')]
  BY <1>1, EvaluateEffect
<1>3. \A t \in Target : drift'[t] >= -1
  BY <1>2
<1>4. requested' \in Plan /\ pending' \in Nat /\ nextId' \in Nat /\ pending' <= nextId' /\ nextId' >= nextId
  BY <1>1, <1>2
<1>5. slot' \in Command /\ slot'.id <= nextId'
  <2>1. Correctable(desired', applied', observed', suppressed') \in SUBSET Target
    BY DEF Correctable
  <2> QED BY <1>1, <1>2, <2>1 DEF Command
<1> QED BY <1>2, <1>3, <1>4, <1>5 DEF ActorTypes

\* The batch's target respects every cap of the fence.
LEMMA UnderCapsType ==
  ASSUME NEW plan \in Plan, fence \in Plan, kernel \in [Target -> 1 .. Top]
  PROVE  /\ UnderCaps(plan) \in Plan
         /\ \A t \in Target : fence[t] # None =>
              UnderCaps(plan)[t] # None /\ UnderCaps(plan)[t] <= fence[t]
<1>1. Top \in Nat
  BY LaneConstants
<1>2. ASSUME NEW t \in Target
      PROVE  /\ UnderCaps(plan)[t] \in 0 .. Top
             /\ fence[t] # None => UnderCaps(plan)[t] # None /\ UnderCaps(plan)[t] <= fence[t]
  <2>1. plan[t] \in 0 .. Top /\ fence[t] \in 0 .. Top /\ kernel[t] \in 1 .. Top
    BY DEF Plan
  <2>2. UnderCaps(plan)[t] = IF fence[t] = None THEN plan[t]
                             ELSE IF plan[t] = None THEN Least(kernel[t], fence[t])
                             ELSE Least(plan[t], fence[t])
    BY DEF UnderCaps
  <2> QED BY <1>1, <2>1, <2>2 DEF Least, None
<1>3. UnderCaps(plan) = [t \in Target |-> UnderCaps(plan)[t]]
  BY DEF UnderCaps
<1> QED BY <1>2, <1>3 DEF Plan

\* What Leave clears.
LEMMA LeaveTypes ==
  ASSUME NEW ph \in {"idle", "dead"}, Leave(ph), nextId \in Nat, results' \in Seq(Event)
  PROVE  (WorkTypes' \/ nextId' # nextId) /\ phase' = ph
<1>1. Top \in Nat
  BY LaneConstants
<1>2. NoPlan \in Plan /\ NoCommand \in Command /\ NoCommand.id = 0
  BY <1>1 DEF NoPlan, Plan, None, NoCommand, Command
<1>3. phase' = ph /\ job' = NoCommand /\ target' = NoPlan /\ out' = NoPlan
      /\ todo' = [restore |-> {}, apply |-> {}] /\ start' = [kernel |-> NoPlan, owned |-> {}]
  BY DEF Leave, NoWork
<1>4. /\ todo' \in [restore : SUBSET Target, apply : SUBSET Target]
      /\ start' \in [kernel : Plan, owned : SUBSET Target]
      /\ todo'.restore = {} /\ todo'.apply = {}
  BY <1>2, <1>3
<1> QED BY <1>2, <1>3, <1>4 DEF WorkTypes

\* A report of the worker is an event about its command.
LEMMA EventTypes ==
  ASSUME NEW res \in {"ok", "error", "failed"}, NEW a \in Plan, Send(res, a), WorkTypes
  PROVE  /\ results' \in Seq(Event)
         /\ \E e \in Event : /\ results' = Append(results, e) /\ e.id = job.id /\ e.res = res
                             /\ e.plan = job.plan /\ e.applied = a /\ e.drifting = job.drifting
<1> DEFINE e == [id |-> job.id, res |-> res, plan |-> job.plan, applied |-> a,
                 drifting |-> job.drifting]
<1>1. e \in Event
  BY DEF Event, WorkTypes, Command
<1>2. results' = Append(results, e) /\ results \in Seq(Event)
  BY DEF Send, WorkTypes
<1>3. e.id = job.id /\ e.res = res /\ e.plan = job.plan /\ e.applied = a /\ e.drifting = job.drifting
  OBVIOUS
<1> HIDE DEF e
<1> QED BY <1>1, <1>2, <1>3

-----------------------------------------------------------------------------
(* Types.                                                                   *)

\* The lane starts well typed.
LEMMA InitTypes == Init => Types
<1> SUFFICES ASSUME Init PROVE Types
  OBVIOUS
<1>1. Top \in Nat /\ Top >= 1
  BY LaneConstants
<1>2. NoPlan \in Plan /\ NoCommand \in Command /\ NoCommand.id = 0
  BY <1>1 DEF NoPlan, Plan, None, NoCommand, Command
<1>3. InputTypes
  BY <1>1, <1>2 DEF Init, InputTypes, None
<1>4. desired \in Plan
  BY <1>3, PlanOfType DEF Init, InputTypes
<1>5. slot \in Command /\ slot.id = 1
  BY <1>2, <1>4 DEF Init, Command
<1>6. ActorTypes
  <2>1. /\ drift \in [Target -> Int] /\ (\A t \in Target : drift[t] >= -1)
        /\ suppressed \in [Target -> BOOLEAN] /\ rewrites \in [Target -> Nat]
    BY DEF Init
  <2>2. /\ applied = NoPlan /\ observed = NoPlan /\ requested = desired
        /\ pending = 1 /\ nextId = 1 /\ backoff = FALSE /\ readOnly = FALSE
    BY DEF Init
  <2>3. /\ applied \in Plan /\ observed \in Plan /\ requested \in Plan
        /\ pending \in Nat /\ nextId \in Nat /\ pending <= nextId /\ slot.id <= nextId
    BY <1>2, <1>4, <1>5, <2>2
  <2>4. backoff \in BOOLEAN /\ readOnly \in BOOLEAN
    BY <2>2
  <2> QED BY <1>4, <1>5, <2>1, <2>3, <2>4 DEF ActorTypes
<1>7. WorkTypes
  BY <1>2 DEF Init, WorkTypes, NoWork
<1>8. WorldTypes
  <2>1. kernel \in [Target -> 1 .. Top]
    BY <1>1 DEF Init
  <2>2. /\ fence = NoPlan /\ safetyCaps = NoPlan /\ safety = "none" /\ owned = {}
        /\ degraded = FALSE /\ sample = NoPlan /\ fails = 0
    BY DEF Init
  <2> QED BY <1>2, <2>1, <2>2 DEF WorldTypes
<1> QED BY <1>3, <1>6, <1>7, <1>8 DEF Types

\* Steps of the state task.
LEMMA ActorStepTypes ==
  ASSUME Types, CapsOnTheirWay,
         Decide \/ Thermal \/ FinishSafety \/ FinishWorker \/ Observe \/ Retry
  PROVE  Types'
<1>1. Top \in Nat /\ Top >= 1
  BY LaneConstants
<1>2. InputTypes /\ ActorTypes /\ WorkTypes /\ WorldTypes
  BY DEF Types
<1>3. /\ drift \in [Target -> Int] /\ suppressed \in [Target -> BOOLEAN] /\ rewrites \in [Target -> Nat]
      /\ (\A t \in Target : drift[t] >= -1) /\ pending \in Nat /\ requested \in Plan /\ backoff \in BOOLEAN
      /\ pending <= nextId /\ nextId \in Nat /\ job \in Command /\ job.id \in Nat
  BY <1>2 DEF ActorTypes, WorkTypes, Command
\* The worker's variables: unchanged, but for the events the actor takes.
<1>4. ASSUME UNCHANGED workVars, results' \in Seq(Event), nextId' \in Nat, nextId' >= nextId
      PROVE  WorkTypes'
  BY <1>2, <1>3, <1>4 DEF WorkTypes, workVars
<1>5. CASE Decide
  <2>1. InputTypes'
    BY <1>2, <1>5 DEF Decide, InputTypes
  <2>2. ActorTypes' /\ nextId' >= nextId
    <3>1. applied' \in Plan /\ observed' \in Plan /\ readOnly' \in BOOLEAN
      BY <1>2, <1>5 DEF Decide, ActorTypes
    <3>2. Evaluate(drift, suppressed, rewrites, backoff, pending, requested)
      BY <1>5 DEF Decide, Reevaluate
    <3> QED BY <1>2, <1>3, <2>1, <3>1, <3>2, EvaluateTypes
  <2>3. WorkTypes'
    BY <1>2, <1>4, <1>5, <2>2 DEF Decide, ActorTypes, WorkTypes
  <2>4. WorldTypes'
    BY <1>2, <1>5 DEF Decide, WorldTypes, safetyVars, kernelVars, restVars
  <2> QED BY <2>1, <2>2, <2>3, <2>4 DEF Types
<1>6. CASE Thermal
  <2>1. InputTypes'
    <3>1. ThermalCaps \subseteq Plan
      BY <1>1 DEF ThermalCaps, Plan, NoPlan, None
    <3> QED BY <1>2, <1>6, <3>1 DEF Thermal, InputTypes
  <2>2. ActorTypes' /\ nextId' >= nextId
    <3> DEFINE bo == /\ backoff
                     /\ \A t \in Target : thermal'[t] # None =>
                                            thermal[t] # None /\ thermal'[t] >= thermal[t]
    <3>1. applied' \in Plan /\ observed' \in Plan /\ readOnly' \in BOOLEAN
      BY <1>2, <1>6 DEF Thermal, ActorTypes
    <3>2. Evaluate(drift, suppressed, rewrites, bo, pending, requested)
      BY <1>6 DEF Thermal, Reevaluate
    <3>3. bo \in BOOLEAN
      OBVIOUS
    <3> HIDE DEF bo
    <3> QED BY <1>2, <1>3, <2>1, <3>1, <3>2, <3>3, EvaluateTypes
  <2>3. WorkTypes'
    BY <1>2, <1>4, <1>6, <2>2 DEF Thermal, ActorTypes, WorkTypes
  <2>4. WorldTypes'
    BY <1>2, <1>6, <2>1 DEF Thermal, AskCaps, WorldTypes, InputTypes, kernelVars, restVars
  <2> QED BY <2>1, <2>2, <2>3, <2>4 DEF Types
<1>7. CASE FinishSafety
  <2>1. InputTypes'
    BY <1>2, <1>7 DEF FinishSafety, InputTypes, inputVars
  <2>2. ActorTypes' /\ nextId' >= nextId
    <3>1. CASE safety = "done" /\ waitingCaps # {}
      BY <1>2, <1>3, <1>7, <3>1 DEF FinishSafety, ActorTypes, actorVars
    <3>2. CASE safety = "done" /\ waitingCaps = {}
      <4>1. applied' \in Plan /\ observed' \in Plan /\ readOnly' \in BOOLEAN
        BY <1>2, <1>7, <3>2 DEF FinishSafety, ActorTypes
      <4>2. Evaluate(drift, suppressed, rewrites, backoff, pending, requested)
        BY <1>7, <3>2 DEF FinishSafety, Reevaluate
      <4> QED BY <1>2, <1>3, <2>1, <4>1, <4>2, EvaluateTypes
    <3>3. CASE safety = "poisoned"
      BY <1>2, <1>3, <1>7, <3>3 DEF FinishSafety, ActorTypes
    <3> QED BY <1>7, <3>1, <3>2, <3>3 DEF FinishSafety
  <2>3. WorkTypes'
    BY <1>2, <1>4, <1>7, <2>2 DEF FinishSafety, ActorTypes, WorkTypes
  <2>4. WorldTypes'
    <3>1. waitingCaps \subseteq Plan
      BY <1>2 DEF CapsOnTheirWay, InputTypes
    <3> QED BY <1>2, <1>7, <3>1 DEF FinishSafety, WorldTypes, kernelVars, restVars
  <2> QED BY <2>1, <2>2, <2>3, <2>4 DEF Types
<1>8. CASE Retry
  <2>1. InputTypes'
    BY <1>2, <1>8 DEF Retry, InputTypes, inputVars
  <2>2. ActorTypes' /\ nextId' >= nextId
    <3>1. applied' \in Plan /\ observed' \in Plan /\ readOnly' \in BOOLEAN
      BY <1>2, <1>8 DEF Retry, ActorTypes
    <3>2. Evaluate(drift, suppressed, rewrites, FALSE, pending, requested)
      BY <1>8 DEF Retry, Reevaluate
    <3> QED BY <1>2, <1>3, <2>1, <3>1, <3>2, EvaluateTypes
  <2>3. WorkTypes'
    BY <1>2, <1>4, <1>8, <2>2 DEF Retry, ActorTypes, WorkTypes
  <2>4. WorldTypes'
    BY <1>2, <1>8 DEF Retry, WorldTypes, safetyVars, kernelVars, restVars
  <2> QED BY <2>1, <2>2, <2>3, <2>4 DEF Types
<1>9. CASE Observe
  <2> DEFINE differs(t) == desired[t] # None /\ applied[t] = desired[t] /\ sample[t] # desired[t]
             dr == [t \in Target |-> IF differs(t) THEN Corrections(t) ELSE -1]
             su == [t \in Target |-> dr[t] >= MaxCorrections]
             rw == [t \in Target |-> IF differs(t) /\ drift[t] >= 0 THEN rewrites[t] ELSE 0]
  <2>1. InputTypes'
    BY <1>2, <1>9 DEF Observe, InputTypes, inputVars
  <2>2. ActorTypes' /\ nextId' >= nextId
    <3>1. applied' \in Plan /\ observed' \in Plan /\ readOnly' \in BOOLEAN
      BY <1>2, <1>9 DEF Observe, ActorTypes, WorldTypes
    <3>2. Evaluate(dr, su, rw, backoff, pending, requested)
      BY <1>9 DEF Observe
    <3>3. dr \in [Target -> Int] /\ \A t \in Target : dr[t] >= -1
      BY <1>3 DEF Corrections
    <3>4. rw \in [Target -> Nat] /\ su \in [Target -> BOOLEAN]
      BY <1>3
    <3> HIDE DEF dr, su, rw
    <3> QED BY <1>2, <1>3, <2>1, <3>1, <3>2, <3>3, <3>4, EvaluateTypes
  <2>3. WorkTypes'
    BY <1>2, <1>4, <1>9, <2>2 DEF Observe, ActorTypes, WorkTypes
  <2>4. WorldTypes'
    <3>1. NoPlan \in Plan
      BY <1>1 DEF NoPlan, Plan, None
    <3> QED BY <1>2, <1>9, <3>1 DEF Observe, WorldTypes, safetyVars, kernelVars
  <2> QED BY <2>1, <2>2, <2>3, <2>4 DEF Types
<1>10. CASE FinishWorker
  <2> DEFINE event == Head(results)
             p == IF Answers(event) THEN 0 ELSE pending
             r == IF Answers(event) THEN NoPlan ELSE requested
             ok == event.res = "ok"
             fixed(t) == ok /\ t \in event.drifting /\ drift[t] >= 0 /\ desired[t] = event.plan[t]
             dr == [t \in Target |-> IF fixed(t) THEN drift[t] + 1 ELSE drift[t]]
             bo == IF event.res = "failed" THEN backoff ELSE ~ok
  <2>1. InputTypes'
    BY <1>2, <1>10 DEF FinishWorker, InputTypes, inputVars
  <2>2. event \in Event /\ results' \in Seq(Event) /\ event.applied \in Plan
    <3>1. results \in Seq(Event) /\ results # << >> /\ results' = Tail(results)
      BY <1>2, <1>10 DEF FinishWorker, WorkTypes
    <3>2. event \in Event /\ results' \in Seq(Event)
      BY <3>1
    <3> QED BY <3>2 DEF Event
  <2>3. ActorTypes' /\ nextId' >= nextId
    <3>1. applied' = IF event.res = "failed" THEN applied ELSE event.applied
      BY <1>10 DEF FinishWorker
    <3>2. observed' = [t \in Target |->
              IF ~ok THEN observed[t]
              ELSE IF event.applied[t] # None THEN event.applied[t]
              ELSE IF applied[t] # None THEN None ELSE observed[t]]
      BY <1>10 DEF FinishWorker
    <3>3. readOnly' \in BOOLEAN
      BY <1>10 DEF FinishWorker
    <3>4. \/ Evaluate(dr, suppressed, rewrites, bo, p, r)
          \/ /\ drift' = dr /\ backoff' = bo /\ pending' = p /\ requested' = r
             /\ UNCHANGED <<desired, suppressed, rewrites, nextId, slot>>
      BY <1>10 DEF FinishWorker
    <3>5. p \in Nat /\ p <= nextId /\ r \in Plan /\ bo \in BOOLEAN
      <4>1. NoPlan \in Plan
        BY <1>1 DEF NoPlan, Plan, None
      <4>2. bo \in BOOLEAN
        <5> HIDE DEF event
        <5> QED BY <1>3
      <4>3. CASE Answers(event)
        <5>1. p = 0 /\ r = NoPlan
          BY <4>3
        <5> HIDE DEF event, p, r, bo
        <5> QED BY <1>3, <4>1, <4>2, <5>1
      <4>4. CASE ~Answers(event)
        <5>1. p = pending /\ r = requested
          BY <4>4
        <5> HIDE DEF event, p, r, bo
        <5> QED BY <1>3, <4>2, <5>1
      <4> QED BY <4>3, <4>4
    <3>6. dr \in [Target -> Int] /\ \A t \in Target : dr[t] >= -1
      <4> HIDE DEF event
      <4> QED BY <1>3
    <3> HIDE DEF event, p, r, ok, dr, bo
    <3>7. applied' \in Plan
      BY <1>2, <2>2, <3>1 DEF ActorTypes
    <3>8. observed' \in Plan
      BY <1>1, <1>2, <2>2, <3>2 DEF ActorTypes, Plan, None
    <3>9. CASE Evaluate(dr, suppressed, rewrites, bo, p, r)
      BY <1>2, <1>3, <2>1, <3>3, <3>5, <3>6, <3>7, <3>8, <3>9, EvaluateTypes
    <3>10. CASE /\ drift' = dr /\ backoff' = bo /\ pending' = p /\ requested' = r
                /\ UNCHANGED <<desired, suppressed, rewrites, nextId, slot>>
      BY <1>2, <1>3, <3>3, <3>5, <3>6, <3>7, <3>8, <3>10 DEF ActorTypes
    <3> QED BY <3>4, <3>9, <3>10
  <2> HIDE DEF event
  <2>4. WorkTypes'
    BY <1>2, <1>4, <1>10, <2>2, <2>3 DEF FinishWorker, ActorTypes
  <2>5. WorldTypes'
    BY <1>2, <1>10 DEF FinishWorker, WorldTypes, safetyVars, kernelVars, restVars
  <2> QED BY <2>1, <2>3, <2>4, <2>5 DEF Types
<1> QED BY <1>5, <1>6, <1>7, <1>8, <1>9, <1>10

\* Steps of the worker, the safety update, the observer and other controllers.
LEMMA OtherStepTypes ==
  ASSUME Types,
         \/ Take \/ Begin \/ Done \/ Fail \/ ReplaceCaps \/ Sample
         \/ \E t \in Target : GiveBack(t) \/ Write(t) \/ External(t)
  PROVE  Types'
<1>1. Top \in Nat /\ Top >= 1
  BY LaneConstants
<1>2. InputTypes /\ ActorTypes /\ WorkTypes /\ WorldTypes
  BY DEF Types
<1>3. NoPlan \in Plan /\ NoCommand \in Command /\ NoCommand.id = 0
  BY <1>1 DEF NoPlan, Plan, None, NoCommand, Command
<1>4. nextId \in Nat /\ kernel \in [Target -> 1 .. Top] /\ kernel \in Plan
  BY <1>1, <1>2 DEF ActorTypes, WorldTypes, Plan
<1>5. ASSUME UNCHANGED inputVars PROVE InputTypes'
  BY <1>2, <1>5 DEF InputTypes, inputVars
<1>6. ASSUME UNCHANGED actorVars, UNCHANGED slot PROVE ActorTypes'
  BY <1>2, <1>6 DEF ActorTypes, actorVars
<1>7. ASSUME UNCHANGED safetyVars, UNCHANGED kernelVars, UNCHANGED restVars PROVE WorldTypes'
  BY <1>2, <1>7 DEF WorldTypes, safetyVars, kernelVars, restVars
<1>8. CASE Take
  <2>1. InputTypes' /\ WorldTypes'
    BY <1>5, <1>7, <1>8 DEF Take
  <2>2. ActorTypes'
    BY <1>2, <1>3, <1>8 DEF Take, ActorTypes, actorVars
  <2>3. WorkTypes'
    <3>1. /\ job' = slot /\ phase' = "gate" /\ nextId' = nextId
          /\ UNCHANGED <<target, todo, start, out, results>>
      BY <1>8 DEF Take, actorVars
    <3> QED BY <1>2, <3>1 DEF ActorTypes, WorkTypes
  <2> QED BY <2>1, <2>2, <2>3 DEF Types
<1>9. CASE Begin
  <2>1. InputTypes' /\ WorldTypes' /\ ActorTypes'
    BY <1>5, <1>6, <1>7, <1>9 DEF Begin
  <2>2. WorkTypes'
    <3>1. /\ phase' = "write" /\ target' = UnderCaps(job.plan) /\ UNCHANGED <<job, results, nextId>>
          /\ todo' = [restore |-> {t \in Target : job.applied[t] # None /\ target'[t] = None},
                      apply |-> {t \in Target : target'[t] \notin {None, kernel[t]}}]
          /\ start' = [kernel |-> kernel, owned |-> owned]
          /\ out' = [t \in Target |-> IF target'[t] \in {None, kernel[t]} THEN target'[t]
                                      ELSE job.applied[t]]
      BY <1>9 DEF Begin, actorVars
    <3>2. job.plan \in Plan /\ job.applied \in Plan
      BY <1>2 DEF WorkTypes, Command
    <3>3. target' \in Plan
      BY <1>2, <3>1, <3>2, UnderCapsType DEF WorldTypes
    <3>4. out' \in Plan
      BY <3>1, <3>2, <3>3 DEF Plan
    <3>5. /\ todo' \in [restore : SUBSET Target, apply : SUBSET Target]
          /\ \A t \in todo'.apply : target'[t] # None
          /\ \A t \in todo'.restore : target'[t] = None
      BY <3>1
    <3>6. start' \in [kernel : Plan, owned : SUBSET Target] /\ start'.kernel \in [Target -> 1 .. Top]
      BY <1>2, <1>4, <3>1 DEF WorldTypes
    <3> QED BY <1>2, <3>1, <3>3, <3>4, <3>5, <3>6 DEF WorkTypes
  <2> QED BY <2>1, <2>2 DEF Types
<1>10. ASSUME NEW t \in Target, GiveBack(t) PROVE Types'
  <2>1. InputTypes' /\ ActorTypes'
    BY <1>5, <1>6, <1>10 DEF GiveBack
  <2>2. kernel' \in [Target -> 1 .. Top] /\ owned' \subseteq Target
    BY <1>1, <1>2, <1>10 DEF GiveBack, WorldTypes
  <2>3. WorldTypes'
    BY <1>2, <1>10, <2>2 DEF GiveBack, WorldTypes, safetyVars, restVars
  <2>4. /\ todo' \in [restore : SUBSET Target, apply : SUBSET Target]
        /\ todo'.apply = todo.apply /\ todo'.restore \subseteq todo.restore
    BY <1>2, <1>10 DEF GiveBack, WorkTypes
  <2>5. UNCHANGED <<job, phase, target, start, out, results, nextId>>
    BY <1>10 DEF GiveBack, actorVars
  <2>6. WorkTypes'
    BY <1>2, <2>4, <2>5 DEF WorkTypes
  <2> QED BY <2>1, <2>3, <2>6 DEF Types
<1>11. ASSUME NEW t \in Target, Write(t) PROVE Types'
  <2>1. InputTypes'
    BY <1>5, <1>11 DEF Write
  <2>2. ActorTypes'
    <3>1. rewrites' \in [Target -> Nat]
      BY <1>2, <1>11 DEF Write, ActorTypes
    <3> QED BY <1>2, <1>11, <3>1 DEF Write, ActorTypes
  <2>3. kernel' \in [Target -> 1 .. Top] /\ owned' \subseteq Target
    <3>1. target[t] \in 1 .. Top
      BY <1>1, <1>2, <1>11 DEF Write, WorkTypes, Plan, None
    <3> QED BY <1>2, <1>11, <3>1 DEF Write, WorldTypes
  <2>4. WorldTypes'
    BY <1>2, <1>11, <2>3 DEF Write, WorldTypes, safetyVars, restVars
  <2>5. /\ todo' \in [restore : SUBSET Target, apply : SUBSET Target]
        /\ todo'.apply \subseteq todo.apply /\ todo'.restore = todo.restore
    BY <1>2, <1>11 DEF Write, WorkTypes
  <2>6. UNCHANGED <<job, phase, target, start, out, results, nextId>>
    BY <1>11 DEF Write
  <2>7. WorkTypes'
    BY <1>2, <2>5, <2>6 DEF WorkTypes
  <2> QED BY <2>1, <2>2, <2>4, <2>7 DEF Types
<1>12. CASE Done
  <2>1. InputTypes' /\ WorldTypes' /\ ActorTypes'
    BY <1>5, <1>6, <1>7, <1>12 DEF Done
  <2>2. results' \in Seq(Event)
    BY <1>2, <1>12, EventTypes DEF Done, WorkTypes
  <2>3. WorkTypes'
    BY <1>4, <1>12, <2>2, LeaveTypes DEF Done, actorVars
  <2> QED BY <2>1, <2>3 DEF Types
<1>13. CASE Fail
  <2>1. InputTypes' /\ ActorTypes'
    BY <1>5, <1>6, <1>13 DEF Fail
  <2>2. \E ph \in {"idle", "dead"} : Leave(ph)
    BY <1>13 DEF Fail
  <2>3. \E res \in {"error", "failed"}, a \in {out, job.applied} : Send(res, a)
    BY <1>13 DEF Fail
  <2>4. out \in Plan /\ job.applied \in Plan
    BY <1>2 DEF WorkTypes, Command
  <2>5. results' \in Seq(Event)
    BY <1>2, <2>3, <2>4, EventTypes
  <2>6. WorkTypes'
    BY <1>4, <1>13, <2>2, <2>5, LeaveTypes DEF Fail, actorVars
  <2>7. kernel' \in [Target -> 1 .. Top] /\ owned' \subseteq Target /\ degraded' \in BOOLEAN
    <3>1. start.kernel \in [Target -> 1 .. Top] /\ degraded \in BOOLEAN /\ owned \subseteq Target
      BY <1>2, <1>13 DEF Fail, WorkTypes, WorldTypes
    <3> QED BY <1>4, <1>13, <3>1 DEF Fail, kernelVars
  <2>8. WorldTypes'
    BY <1>2, <1>13, <2>7 DEF Fail, WorldTypes, safetyVars
  <2> QED BY <2>1, <2>6, <2>8 DEF Types
<1>14. CASE ReplaceCaps
  <2>1. InputTypes' /\ ActorTypes'
    BY <1>5, <1>6, <1>14 DEF ReplaceCaps
  <2>2. WorkTypes'
    BY <1>2, <1>14 DEF ReplaceCaps, WorkTypes, workVars, actorVars
  <2>3. WorldTypes'
    BY <1>2, <1>14 DEF ReplaceCaps, WorldTypes, kernelVars, restVars
  <2> QED BY <2>1, <2>2, <2>3 DEF Types
<1>15. CASE Sample
  <2>1. InputTypes' /\ ActorTypes'
    BY <1>5, <1>6, <1>15 DEF Sample
  <2>2. WorkTypes'
    BY <1>2, <1>15 DEF Sample, WorkTypes, workVars, actorVars
  <2>3. WorldTypes'
    BY <1>2, <1>4, <1>15 DEF Sample, WorldTypes, safetyVars, kernelVars
  <2> QED BY <2>1, <2>2, <2>3 DEF Types
<1>16. ASSUME NEW t \in Target, External(t) PROVE Types'
  <2>1. InputTypes' /\ ActorTypes'
    BY <1>5, <1>6, <1>16 DEF External
  <2>2. WorkTypes'
    BY <1>2, <1>16 DEF External, WorkTypes, workVars, actorVars
  <2>3. kernel' \in [Target -> 1 .. Top]
    BY <1>4, <1>16 DEF External
  <2>4. WorldTypes'
    BY <1>2, <1>16, <2>3 DEF External, WorldTypes, safetyVars
  <2> QED BY <2>1, <2>2, <2>4 DEF Types
<1> QED BY <1>8, <1>9, <1>10, <1>11, <1>12, <1>13, <1>14, <1>15, <1>16

\* Every step of the lane keeps the types.
LEMMA TypesStep ==
  ASSUME Types, CapsOnTheirWay, [Next]_vars
  PROVE  Types'
<1>1. CASE Decide \/ Thermal \/ FinishSafety \/ FinishWorker \/ Observe \/ Retry
  BY <1>1, ActorStepTypes
<1>2. CASE \/ Take \/ Begin \/ Done \/ Fail \/ ReplaceCaps \/ Sample
           \/ \E t \in Target : GiveBack(t) \/ Write(t) \/ External(t)
  BY <1>2, OtherStepTypes
<1>3. CASE UNCHANGED vars
  <2>1. UNCHANGED <<inputVars, actorVars, slot, workVars, results, safetyVars, kernelVars, restVars>>
    BY <1>3 DEF vars
  <2>2. InputTypes'
    BY <2>1 DEF inputVars, Types, InputTypes
  <2>3. ActorTypes'
    BY <2>1 DEF actorVars, Types, ActorTypes
  <2>4. WorkTypes'
    BY <2>1 DEF workVars, actorVars, Types, WorkTypes
  <2>5. WorldTypes'
    BY <2>1 DEF safetyVars, kernelVars, restVars, Types, WorldTypes
  <2> QED BY <2>2, <2>3, <2>4, <2>5 DEF Types
<1> QED BY <1>1, <1>2, <1>3 DEF Next

-----------------------------------------------------------------------------
(* Caps.                                                                    *)

\* What the steps that are not about the caps leave alone.
LEMMA CapsKept ==
  ASSUME \/ Decide \/ FinishWorker \/ Observe \/ Retry \/ Take \/ Begin \/ Done \/ Fail \/ Sample
         \/ UNCHANGED vars
         \/ \E t \in Target : GiveBack(t) \/ Write(t) \/ External(t)
  PROVE  UNCHANGED <<thermal, safetyVars>>
<1>1. CASE Decide BY <1>1 DEF Decide
<1>2. CASE FinishWorker BY <1>2 DEF FinishWorker, inputVars
<1>3. CASE Observe BY <1>3 DEF Observe, inputVars
<1>4. CASE Retry BY <1>4 DEF Retry, inputVars
<1>5. CASE Take BY <1>5 DEF Take, inputVars
<1>6. CASE Begin BY <1>6 DEF Begin, inputVars
<1>7. CASE Done BY <1>7 DEF Done, inputVars
<1>8. CASE Fail BY <1>8 DEF Fail, inputVars
<1>9. CASE Sample BY <1>9 DEF Sample, inputVars
<1>10. CASE UNCHANGED vars BY <1>10 DEF vars, inputVars
<1>11. CASE \E t \in Target : GiveBack(t) \/ Write(t) \/ External(t)
  BY <1>11 DEF GiveBack, Write, External, inputVars
<1> QED BY <1>1, <1>2, <1>3, <1>4, <1>5, <1>6, <1>7, <1>8, <1>9, <1>10, <1>11

\* The newest caps are in force, in the update, or waiting for it.
LEMMA CapsStep ==
  ASSUME CapsOnTheirWay, [Next]_vars
  PROVE  CapsOnTheirWay'
<1>1. CASE Thermal
  BY <1>1 DEF Thermal, AskCaps, CapsOnTheirWay
<1>2. CASE FinishSafety
  BY <1>2 DEF FinishSafety, inputVars, CapsOnTheirWay
<1>3. CASE ReplaceCaps
  BY <1>3 DEF ReplaceCaps, inputVars, CapsOnTheirWay
<1>4. CASE UNCHANGED <<thermal, safetyVars>>
  BY <1>4 DEF safetyVars, CapsOnTheirWay
<1> QED BY <1>1, <1>2, <1>3, <1>4, CapsKept DEF Next

\* The actor's steps leave the worker alone.
LEMMA WorkKept ==
  ASSUME Decide \/ Thermal \/ FinishSafety \/ FinishWorker \/ Observe \/ Retry
  PROVE  UNCHANGED <<fence, workVars, kernelVars, fails>>
<1>1. CASE Decide BY <1>1 DEF Decide, safetyVars, restVars
<1>2. CASE Thermal BY <1>2 DEF Thermal, restVars
<1>3. CASE FinishSafety BY <1>3 DEF FinishSafety, restVars
<1>4. CASE FinishWorker BY <1>4 DEF FinishWorker, safetyVars, restVars
<1>5. CASE Observe BY <1>5 DEF Observe, safetyVars
<1>6. CASE Retry BY <1>6 DEF Retry, safetyVars, restVars
<1> QED BY <1>1, <1>2, <1>3, <1>4, <1>5, <1>6

\* Every step keeps a write inside the caps it was fenced with.
LEMMA FencedStep ==
  ASSUME Types, Fenced, [Next]_vars
  PROVE  Fenced'
<1>1. CASE UNCHANGED <<fence, phase, target>>
  BY <1>1 DEF Fenced
<1>2. CASE phase' # "write"
  BY <1>2 DEF Fenced
<1>3. CASE Decide \/ Thermal \/ FinishSafety \/ FinishWorker \/ Observe \/ Retry
  BY <1>1, <1>3, WorkKept DEF workVars
<1>4. CASE Take
  BY <1>2, <1>4 DEF Take
<1>5. CASE Begin
  <2>1. fence \in Plan /\ kernel \in [Target -> 1 .. Top] /\ job.plan \in Plan
    BY DEF Types, WorldTypes, WorkTypes, Command
  <2>2. target' = UnderCaps(job.plan) /\ fence' = fence
    BY <1>5 DEF Begin, safetyVars
  <2> QED BY <2>1, <2>2, UnderCapsType DEF Fenced
<1>6. CASE Done
  BY <1>2, <1>6 DEF Done, Leave
<1>7. CASE Fail
  BY <1>2, <1>7 DEF Fail, Leave
<1>8. CASE ReplaceCaps
  BY <1>2, <1>8 DEF ReplaceCaps, workVars
<1>9. CASE Sample
  BY <1>1, <1>9 DEF Sample, workVars, safetyVars
<1>10. CASE \E t \in Target : GiveBack(t) \/ Write(t) \/ External(t)
  BY <1>1, <1>10 DEF GiveBack, Write, External, workVars, safetyVars
<1>11. CASE UNCHANGED vars
  BY <1>1, <1>11 DEF vars, workVars, safetyVars
<1> QED BY <1>3, <1>4, <1>5, <1>6, <1>7, <1>8, <1>9, <1>10, <1>11 DEF Next

-----------------------------------------------------------------------------
(* Counting events.                                                         *)

\* The reports that name a target are finitely many, at most the reports that wait.
LEMMA ComingSize ==
  ASSUME NEW rs \in Seq(Event), NEW t, NEW l
  PROVE  /\ IsFiniteSet(Coming(rs, t, l))
         /\ Cardinality(Coming(rs, t, l)) \in Nat /\ Cardinality(Coming(rs, t, l)) <= Len(rs)
<1>1. Len(rs) \in Nat
  OBVIOUS
<1>2. IsFiniteSet(1 .. Len(rs)) /\ Cardinality(1 .. Len(rs)) = Len(rs)
  <2>1. IsFiniteSet(1 .. Len(rs)) /\ Cardinality(1 .. Len(rs)) = IF 1 > Len(rs) THEN 0 ELSE Len(rs) - 1 + 1
    <3>1. 1 \in Int /\ Len(rs) \in Int
      BY <1>1
    <3> QED BY <3>1, FS_Interval
  <2>2. (IF 1 > Len(rs) THEN 0 ELSE Len(rs) - 1 + 1) = Len(rs)
    BY <1>1
  <2> QED BY <2>1, <2>2
<1>3. Coming(rs, t, l) \subseteq 1 .. Len(rs)
  BY DEF Coming
<1>4. IsFiniteSet(Coming(rs, t, l)) /\ Cardinality(Coming(rs, t, l)) <= Cardinality(1 .. Len(rs))
  BY <1>2, <1>3, FS_Subset
<1>5. Cardinality(Coming(rs, t, l)) \in Nat
  BY <1>4, FS_CardinalityType
<1> QED BY <1>2, <1>4, <1>5

\* Sending an event adds it to those on their way.
LEMMA ComingAppend ==
  ASSUME NEW rs \in Seq(Event), NEW e \in Event, NEW t, NEW l
  PROVE  Cardinality(Coming(Append(rs, e), t, l)) =
           Cardinality(Coming(rs, t, l)) + IF Corrects(e, t, l) /\ e.res = "ok" THEN 1 ELSE 0
<1>1. Len(rs) \in Nat /\ Len(Append(rs, e)) = Len(rs) + 1 /\ Append(rs, e)[Len(rs) + 1] = e
      /\ \A k \in 1 .. Len(rs) : Append(rs, e)[k] = rs[k]
  OBVIOUS
<1>2. IsFiniteSet(Coming(rs, t, l)) /\ Cardinality(Coming(rs, t, l)) \in Nat
  BY ComingSize
<1>3. CASE Corrects(e, t, l) /\ e.res = "ok"
  <2>1. Coming(Append(rs, e), t, l) = Coming(rs, t, l) \cup {Len(rs) + 1}
    BY <1>1, <1>3 DEF Coming
  <2>2. Len(rs) + 1 \notin Coming(rs, t, l)
    BY <1>1 DEF Coming
  <2> QED BY <1>2, <1>3, <2>1, <2>2, FS_AddElement
<1>4. CASE ~(Corrects(e, t, l) /\ e.res = "ok")
  <2>1. Coming(Append(rs, e), t, l) = Coming(rs, t, l)
    BY <1>1, <1>4 DEF Coming
  <2> QED BY <1>2, <1>4, <2>1
<1> QED BY <1>3, <1>4

\* Receiving the first event takes it from those on their way.
LEMMA ComingTail ==
  ASSUME NEW rs \in Seq(Event), rs # << >>, NEW t, NEW l
  PROVE  Cardinality(Coming(rs, t, l)) =
           Cardinality(Coming(Tail(rs), t, l))
             + IF Corrects(Head(rs), t, l) /\ Head(rs).res = "ok" THEN 1 ELSE 0
<1>1. Len(rs) \in Nat /\ Len(rs) >= 1 /\ Len(Tail(rs)) = Len(rs) - 1 /\ Head(rs) = rs[1]
      /\ (\A k \in 1 .. Len(rs) - 1 : Tail(rs)[k] = rs[k + 1]) /\ Tail(rs) \in Seq(Event)
  OBVIOUS
<1> DEFINE A == Coming(Tail(rs), t, l)
           B == Coming(rs, t, l) \ {1}
           f == [k \in A |-> k + 1]
<1>2. IsFiniteSet(A) /\ Cardinality(A) \in Nat /\ IsFiniteSet(Coming(rs, t, l))
      /\ Cardinality(Coming(rs, t, l)) \in Nat
  BY <1>1, ComingSize
<1>3. \A k \in A : k \in Nat /\ k + 1 \in B
  BY <1>1 DEF Coming
<1>4. \A j \in B : j \in Nat /\ j - 1 \in A /\ j = (j - 1) + 1
  BY <1>1 DEF Coming
<1>5. f \in Bijection(A, B)
  <2> HIDE DEF A, B
  <2>1. f \in [A -> B] /\ \A k \in A : f[k] = k + 1
    BY <1>3
  <2>2. f \in Injection(A, B)
    <3>1. \A i \in A, k \in A : f[i] = f[k] => i = k
      BY <1>3, <2>1
    <3> HIDE DEF f
    <3> QED BY <2>1, <3>1 DEF Injection, IsInjective
  <2>3. f \in Surjection(A, B)
    <3>1. \A j \in B : \E k \in A : f[k] = j
      BY <1>4, <2>1
    <3> QED BY <2>1, <3>1 DEF Surjection
  <2> QED BY <2>2, <2>3 DEF Bijection
<1>6. Cardinality(B) = Cardinality(A) /\ IsFiniteSet(B)
  <2>1. ExistsBijection(A, B)
    BY <1>5 DEF ExistsBijection
  <2> HIDE DEF A, B
  <2> QED BY <1>2, <2>1, FS_Bijection
<1>7. CASE Corrects(Head(rs), t, l) /\ Head(rs).res = "ok"
  <2>1. 1 \in Coming(rs, t, l)
    BY <1>1, <1>7 DEF Coming
  <2>2. Cardinality(B) = Cardinality(Coming(rs, t, l)) - 1
    BY <1>2, <2>1, FS_RemoveElement
  <2> HIDE DEF B
  <2> QED BY <1>2, <1>6, <1>7, <2>2
<1>8. CASE ~(Corrects(Head(rs), t, l) /\ Head(rs).res = "ok")
  <2>1. B = Coming(rs, t, l)
    BY <1>1, <1>8 DEF Coming
  <2> HIDE DEF B
  <2> QED BY <1>2, <1>6, <1>8, <2>1
<1> QED BY <1>7, <1>8

-----------------------------------------------------------------------------
(* Order.                                                                   *)

\* A new command is younger than everything on its way.
LEMMA EvaluateOrder ==
  ASSUME Types, NEW p \in Nat, p <= nextId, NEW rs \in Seq(Event), InOrder(p, slot, rs),
         UNCHANGED <<phase, job>>,
         \/ pending' = p /\ slot' = slot
         \/ pending' = nextId + 1 /\ slot'.id = nextId + 1
  PROVE  InOrder(pending', slot', rs)
<1>1. nextId \in Nat /\ job.id \in Nat /\ job.id <= nextId
  BY DEF Types, ActorTypes, WorkTypes, Command
<1>2. \A k \in 1 .. Len(rs) : rs[k].id \in Nat
  <2>1. \A k \in 1 .. Len(rs) : rs[k] \in Event
    OBVIOUS
  <2> QED BY <2>1 DEF Event
<1>3. CASE pending' = p /\ slot' = slot
  BY <1>3
<1>4. CASE pending' = nextId + 1 /\ slot'.id = nextId + 1
  <2>1. \A k \in 1 .. Len(rs) :
         /\ 0 < rs[k].id /\ rs[k].id <= p
         /\ Busy => rs[k].id < job.id
         /\ rs[k].res = "failed" => phase = "dead" /\ k = Len(rs)
         /\ \A i \in 1 .. Len(rs) : i < k => rs[i].id < rs[k].id
    BY DEF InOrder
  <2>2. \A k \in 1 .. Len(rs) : rs[k].id <= pending' /\ rs[k].id < slot'.id
    BY <1>1, <1>2, <1>4, <2>1
  <2>3. Busy => 0 < job.id /\ job.id <= pending' /\ job.id < slot'.id
    BY <1>1, <1>4 DEF InOrder
  <2>4. slot'.id = pending' /\ pending' > 0
    BY <1>1, <1>4
  <2> QED BY <2>1, <2>2, <2>3, <2>4 DEF InOrder
<1> QED BY <1>3, <1>4

\* The answer to the command the actor waits for is the last event, and nothing
\* of that command or a later one is left.
LEMMA AnswerOrder ==
  ASSUME Types, Ordered, results # << >>
  PROVE  InOrder(IF Answers(Head(results)) THEN 0 ELSE pending, slot, Tail(results))
<1>1. results \in Seq(Event) /\ pending \in Nat
  BY DEF Types, ActorTypes, WorkTypes
<1>2. /\ Len(results) \in Nat /\ Len(results) >= 1 /\ Len(Tail(results)) = Len(results) - 1
      /\ Head(results) = results[1]
      /\ \A k \in 1 .. Len(results) - 1 : Tail(results)[k] = results[k + 1]
  BY <1>1
<1>3. \A k \in 1 .. Len(results) : results[k].id \in Nat
  <2>1. \A k \in 1 .. Len(results) : results[k] \in Event
    BY <1>1
  <2> QED BY <2>1 DEF Event
<1>4. \A k \in 1 .. Len(results) :
       /\ 0 < results[k].id /\ results[k].id <= pending
       /\ Busy => results[k].id < job.id
       /\ phase # "dead" /\ slot # NoCommand => results[k].id < slot.id
       /\ results[k].res = "failed" => phase = "dead" /\ k = Len(results)
       /\ \A i \in 1 .. Len(results) : i < k => results[i].id < results[k].id
  BY DEF Ordered, InOrder
<1>5. /\ Busy => 0 < job.id /\ job.id <= pending
      /\ phase # "dead" /\ slot # NoCommand => slot.id = pending /\ pending > 0
      /\ Busy /\ slot # NoCommand => job.id < slot.id
  BY DEF Ordered, InOrder
<1> DEFINE n == Len(results)
           first == results[1]
           rest == Tail(results)
<1>8. n \in Nat /\ n >= 1 /\ 1 \in 1 .. n /\ Len(rest) = n - 1 /\ first.id \in Nat
      /\ (\A k \in 1 .. n - 1 : rest[k] = results[k + 1])
  <2>1. n \in Nat /\ n >= 1 /\ 1 \in 1 .. n /\ Len(rest) = n - 1
    BY <1>2
  <2>2. first.id \in Nat
    <3>1. Len(results) \in Nat /\ Len(results) >= 1
      BY <1>2
    <3>2. 1 \in 1 .. Len(results)
      BY SMTT(60), <3>1
    <3> QED BY <1>3, <3>2
  <2> QED BY <1>2, <2>1, <2>2
<1>9. /\ first.id <= pending /\ (Busy => first.id < job.id)
      /\ (phase # "dead" /\ slot # NoCommand => first.id < slot.id)
      /\ (first.res = "failed" => phase = "dead" /\ 1 = n)
  BY <1>4, <1>8
<1>10. ASSUME n >= 2 PROVE first.id < results[2].id /\ results[2].id <= pending /\ results[2].id \in Nat
  <2>1. 2 \in 1 .. Len(results) /\ 1 \in 1 .. Len(results) /\ 1 < 2
    BY <1>8, <1>10
  <2>2. results[2].id \in Nat /\ results[2].id <= pending /\ results[1].id < results[2].id
    BY <1>3, <1>4, <2>1
  <2> QED BY <2>2
<1> HIDE DEF n, first, rest
<1>6. CASE Answers(Head(results))
  <2>1. first.id = pending \/ first.res = "failed"
    BY <1>2, <1>6 DEF Answers, first
  <2>2. n = 1 /\ ~Busy /\ (phase = "dead" \/ slot = NoCommand)
    <3>1. CASE first.res = "failed"
      BY <1>9, <3>1 DEF Busy
    <3>2. CASE first.id = pending
      <4>1. n = 1
        BY <1>1, <1>8, <1>10, <3>2
      <4>2. ~Busy
        <5>1. job.id \in Nat
          BY DEF Types, WorkTypes, Command
        <5> QED BY <1>1, <1>5, <1>9, <3>2, <5>1
      <4>3. phase = "dead" \/ slot = NoCommand
        BY <1>1, <1>5, <1>9, <3>2
      <4> QED BY <4>1, <4>2, <4>3
    <3> QED BY <2>1, <3>1, <3>2
  <2>3. 1 .. Len(rest) = {}
    BY <1>8, <2>2
  <2>4. InOrder(0, slot, rest)
    BY <2>2, <2>3 DEF InOrder
  <2> QED BY <1>6, <2>4 DEF rest
<1>7. CASE ~Answers(Head(results))
  <2>1. ASSUME NEW k \in 1 .. Len(rest)
        PROVE  /\ 0 < rest[k].id /\ rest[k].id <= pending
               /\ Busy => rest[k].id < job.id
               /\ phase # "dead" /\ slot # NoCommand => rest[k].id < slot.id
               /\ rest[k].res = "failed" => phase = "dead" /\ k = Len(rest)
    <3>1. k + 1 \in 1 .. Len(results) /\ rest[k] = results[k + 1]
      BY <1>8 DEF n
    <3>2. k + 1 = Len(results) => k = Len(rest)
      BY <1>8 DEF n
    <3> QED BY <1>4, <3>1, <3>2
  <2>2. ASSUME NEW k \in 1 .. Len(rest), NEW i \in 1 .. Len(rest), i < k
        PROVE  rest[i].id < rest[k].id
    <3>1. k + 1 \in 1 .. Len(results) /\ rest[k] = results[k + 1]
          /\ i + 1 \in 1 .. Len(results) /\ rest[i] = results[i + 1] /\ i + 1 < k + 1
      BY <1>8, <2>2 DEF n
    <3> QED BY <1>4, <3>1
  <2>3. InOrder(pending, slot, rest)
    BY <1>5, <2>1, <2>2 DEF InOrder
  <2> QED BY <1>7, <2>3 DEF rest
<1> QED BY <1>6, <1>7

-----------------------------------------------------------------------------
(* The state task's steps.                                                  *)

\* An evaluation keeps only entries it may still correct.
LEMMA EvaluateHesitant ==
  ASSUME NEW dr \in [Target -> Int], NEW su \in [Target -> BOOLEAN], NEW rw \in [Target -> Nat],
         NEW bo, NEW p, NEW r, Evaluate(dr, su, rw, bo, p, r), Types, Types',
         \A t \in Target : t \in Correctable(desired, applied', observed', su) => dr[t] < MaxCorrections
  PROVE  Hesitant'
<1> SUFFICES ASSUME NEW t \in Target
             PROVE  /\ drift'[t] >= 0 => desired'[t] # None /\ applied'[t] = desired'[t]
                    /\ t \in Correctable(desired', applied', observed', suppressed') =>
                         drift'[t] < MaxCorrections
  BY DEF Hesitant
<1>1. MaxCorrections \in Nat
  BY LaneConstants
<1>2. InputTypes' /\ desired \in Plan /\ applied' \in Plan /\ observed' \in Plan
  BY DEF Types, ActorTypes
<1>3. \/ /\ desired'[t] # None /\ desired'[t] = desired[t] /\ applied'[t] = desired[t]
         /\ drift'[t] = dr[t] /\ suppressed'[t] = su[t]
      \/ drift'[t] = -1
  BY <1>2, EvaluateEffect
<1>4. CASE drift'[t] = -1
  BY <1>1, <1>4
<1>5. CASE /\ desired'[t] # None /\ desired'[t] = desired[t] /\ applied'[t] = desired[t]
           /\ drift'[t] = dr[t] /\ suppressed'[t] = su[t]
  BY <1>5 DEF Correctable
<1> QED BY <1>3, <1>4, <1>5

\* A command that corrects is sent while the count leaves room for it.
LEMMA EvaluateCounted ==
  ASSUME NEW dr \in [Target -> Int], NEW su \in [Target -> BOOLEAN], NEW rw \in [Target -> Nat],
         NEW bo, NEW p, NEW r, Evaluate(dr, su, rw, bo, p, r), Types, Types', Hesitant', Room',
         UNCHANGED <<workVars, fails>>,
         \A t \in Target : dr[t] >= 0 =>
           Covered(t, desired[t], dr[t], rw[t], Cardinality(Coming(results', t, desired[t])))
  PROVE  Counted'
<1> SUFFICES ASSUME NEW t \in Target, drift'[t] >= 0
             PROVE  Covered(t, desired[t], drift[t], rewrites[t],
                            Cardinality(Coming(results, t, desired[t])))'
  BY DEF Counted
<1> DEFINE l == desired[t]
           c == Cardinality(Coming(results', t, l))
<1>1. MaxCorrections \in Nat /\ EventCapacity \in Nat
  BY LaneConstants
<1>2. InputTypes' /\ desired \in Plan /\ applied' \in Plan /\ observed' \in Plan
  BY DEF Types, ActorTypes
<1>3. /\ \/ desired'[t] = l /\ drift'[t] = dr[t] /\ rewrites'[t] = rw[t]
         \/ drift'[t] = -1
      /\ \/ slot' = slot
         \/ slot' = [id |-> nextId + 1, plan |-> desired', applied |-> applied',
                     drifting |-> Correctable(desired', applied', observed', suppressed')]
  BY <1>2, EvaluateEffect
<1>4. desired'[t] = l /\ drift'[t] = dr[t] /\ rewrites'[t] = rw[t]
  BY <1>3
<1>5. Covered(t, l, dr[t], rw[t], c) /\ dr[t] \in Int /\ rw[t] \in Nat
  BY <1>4
<1>6. results' \in Seq(Event) /\ Len(results') \in Nat
  BY DEF Types, WorkTypes
<1>7. c \in Nat /\ c <= Len(results')
  BY <1>6, ComingSize
<1>8. /\ Written(t, l)' = Written(t, l) /\ InJob(t, l)' = InJob(t, l)
      /\ Busy' = Busy /\ fails' = fails
  BY <1>4 DEF workVars, Written, InJob, Corrects, Busy
<1>9. rw[t] <= dr[t] + c + Written(t, l)' + fails'
  BY <1>5, <1>8 DEF Covered
<1>10. dr[t] + c + InJob(t, l)' + InSlot(t, l)' <= MaxCorrections + EventCapacity + 1
  <2>1. CASE InSlot(t, l)' = InSlot(t, l)
    BY <1>5, <1>8, <2>1 DEF Covered
  <2>2. CASE InSlot(t, l)' # InSlot(t, l)
    <3>1. slot' = [id |-> nextId + 1, plan |-> desired', applied |-> applied',
                   drifting |-> Correctable(desired', applied', observed', suppressed')]
      BY <1>3, <2>2 DEF InSlot, Corrects
    <3>2. InSlot(t, l)' \in {0, 1} /\ InSlot(t, l) \in {0, 1}
      BY DEF InSlot
    <3>3. CASE InSlot(t, l)' = 0
      BY <1>1, <1>5, <1>7, <1>8, <2>2, <3>2, <3>3 DEF Covered, InJob
    <3>4. CASE InSlot(t, l)' = 1
      <4>1. t \in Correctable(desired', applied', observed', suppressed')
        BY <3>1, <3>4 DEF InSlot, Corrects
      <4>2. dr[t] < MaxCorrections
        BY <1>4, <4>1 DEF Hesitant
      <4>3. c + InJob(t, l)' <= EventCapacity + 1
        BY <1>1, <1>6, <1>7 DEF Room, InJob
      <4>4. InJob(t, l)' \in {0, 1}
        BY DEF InJob
      <4> HIDE DEF l, c
      <4> QED BY <1>1, <1>5, <1>7, <3>4, <4>2, <4>3, <4>4
    <3> QED BY <3>2, <3>3, <3>4
  <2> QED BY <2>1, <2>2
<1>11. Cardinality(Coming(results, t, desired[t]))' = c
  BY <1>4 DEF Coming, Corrects
<1> HIDE DEF c
<1> QED BY <1>4, <1>9, <1>10, <1>11 DEF Covered

\* Decide, Thermal, FinishSafety and Retry: the entries are evaluated as they are.
LEMMA ReevaluateStep ==
  ASSUME Types, Types', Promises, NEW bo, Reevaluate(bo),
         UNCHANGED <<applied, observed, results, workVars, fails>>
  PROVE  Promises'
<1>1. /\ drift \in [Target -> Int] /\ suppressed \in [Target -> BOOLEAN] /\ rewrites \in [Target -> Nat]
      /\ pending \in Nat /\ pending <= nextId /\ results \in Seq(Event)
  BY DEF Types, ActorTypes, WorkTypes
<1>2. Evaluate(drift, suppressed, rewrites, bo, pending, requested)
  BY DEF Reevaluate
<1>3. UNCHANGED <<phase, job, results>> /\ Busy' = Busy /\ Room'
  BY DEF workVars, Busy, Room, Promises
<1>4. Ordered'
  <2>1. \/ pending' = pending /\ slot' = slot
        \/ pending' = nextId + 1 /\ slot'.id = nextId + 1
    BY <1>2, EvaluateQueue
  <2>2. InOrder(pending', slot', results)
    BY <1>1, <1>3, <2>1, EvaluateOrder DEF Promises, Ordered
  <2> QED BY <1>3, <2>2 DEF Ordered, InOrder
<1>5. Hesitant'
  <2>1. \A t \in Target : t \in Correctable(desired, applied', observed', suppressed) =>
          drift[t] < MaxCorrections
    BY DEF Promises, Hesitant
  <2> QED BY <1>1, <1>2, <2>1, EvaluateHesitant
<1>6. Counted'
  <2>1. \A t \in Target : drift[t] >= 0 =>
          Covered(t, desired[t], drift[t], rewrites[t], Cardinality(Coming(results', t, desired[t])))
    BY DEF Promises, Counted
  <2> QED BY <1>1, <1>2, <1>3, <1>5, <2>1, EvaluateCounted
<1> QED BY <1>3, <1>4, <1>5, <1>6 DEF Promises

\* A sample of the observer: an entry goes on counting, and a new one finds at
\* most the channel, the worker and the watch channel full of older corrections.
LEMMA ObserveStep ==
  ASSUME Types, Types', Promises, Observe
  PROVE  Promises'
<1> DEFINE differs(t) == desired[t] # None /\ applied[t] = desired[t] /\ sample[t] # desired[t]
           dr == [t \in Target |-> IF differs(t) THEN Corrections(t) ELSE -1]
           su == [t \in Target |-> dr[t] >= MaxCorrections]
           rw == [t \in Target |-> IF differs(t) /\ drift[t] >= 0 THEN rewrites[t] ELSE 0]
<1>1. /\ drift \in [Target -> Int] /\ rewrites \in [Target -> Nat] /\ fails \in Nat
      /\ pending \in Nat /\ pending <= nextId /\ results \in Seq(Event) /\ MaxCorrections \in Nat \ {0}
      /\ EventCapacity \in Nat /\ Len(results) \in Nat
  BY LaneConstants DEF Types, ActorTypes, WorkTypes, WorldTypes
<1>2. Evaluate(dr, su, rw, backoff, pending, requested) /\ UNCHANGED <<results, workVars, fails>>
  BY DEF Observe
<1>3. UNCHANGED <<phase, job, results>> /\ Busy' = Busy /\ Room'
  BY <1>2 DEF workVars, Busy, Room, Promises
<1>4. dr \in [Target -> Int] /\ su \in [Target -> BOOLEAN] /\ rw \in [Target -> Nat]
  <2>1. dr \in [Target -> Int]
    BY <1>1 DEF Corrections
  <2>2. rw \in [Target -> Nat] /\ su \in [Target -> BOOLEAN]
    BY <1>1
  <2> QED BY <2>1, <2>2
<1>5. ASSUME NEW t \in Target
      PROVE  /\ su[t] = (dr[t] >= MaxCorrections)
             /\ dr[t] >= 0 => \/ drift[t] >= 0 /\ dr[t] = drift[t] /\ rw[t] = rewrites[t]
                              \/ dr[t] = 0 /\ rw[t] = 0
  BY <1>1 DEF Corrections
<1> HIDE DEF dr, su, rw
<1>6. Ordered'
  <2>1. \/ pending' = pending /\ slot' = slot
        \/ pending' = nextId + 1 /\ slot'.id = nextId + 1
    BY <1>2, EvaluateQueue
  <2>2. InOrder(pending', slot', results)
    BY <1>1, <1>3, <2>1, EvaluateOrder DEF Promises, Ordered
  <2> QED BY <1>3, <2>2 DEF Ordered, InOrder
<1>7. Hesitant'
  <2>1. \A t \in Target : t \in Correctable(desired, applied', observed', su) =>
          dr[t] < MaxCorrections
    BY <1>1, <1>4, <1>5 DEF Correctable
  <2> QED BY <1>2, <1>4, <2>1, EvaluateHesitant
<1>8. Counted'
  <2>1. ASSUME NEW t \in Target, dr[t] >= 0
        PROVE  Covered(t, desired[t], dr[t], rw[t], Cardinality(Coming(results', t, desired[t])))
    <3> DEFINE c == Cardinality(Coming(results, t, desired[t]))
    <3>1. c \in Nat /\ c <= Len(results)
      BY <1>1, ComingSize
    <3>2. CASE drift[t] >= 0 /\ dr[t] = drift[t] /\ rw[t] = rewrites[t]
      BY <1>3, <3>2 DEF Promises, Counted
    <3>3. CASE dr[t] = 0 /\ rw[t] = 0
      <4>1. /\ Written(t, desired[t]) \in {0, 1} /\ InJob(t, desired[t]) \in {0, 1}
            /\ InSlot(t, desired[t]) \in {0, 1}
        BY DEF Written, InJob, InSlot
      <4>2. c + InJob(t, desired[t]) <= EventCapacity + 1
        BY <1>1, <3>1 DEF Promises, Room, InJob
      <4> HIDE DEF c
      <4>3. Covered(t, desired[t], 0, 0, c)
        BY <1>1, <3>1, <4>1, <4>2 DEF Covered
      <4> QED BY <1>3, <3>3, <4>3 DEF c
    <3> QED BY <1>5, <2>1, <3>2, <3>3
  <2> QED BY <1>2, <1>3, <1>4, <1>7, <2>1, EvaluateCounted
<1> QED BY <1>3, <1>6, <1>7, <1>8 DEF Promises

\* An event of the worker: what was on its way is counted.
LEMMA FinishWorkerStep ==
  ASSUME Types, Types', Promises, FinishWorker
  PROVE  Promises'
<1> DEFINE event == Head(results)
           p == IF Answers(event) THEN 0 ELSE pending
           r == IF Answers(event) THEN NoPlan ELSE requested
           ok == event.res = "ok"
           fixed(t) == ok /\ t \in event.drifting /\ drift[t] >= 0 /\ desired[t] = event.plan[t]
           dr == [t \in Target |-> IF fixed(t) THEN drift[t] + 1 ELSE drift[t]]
           bo == IF event.res = "failed" THEN backoff ELSE ~ok
<1>1. /\ drift \in [Target -> Int] /\ suppressed \in [Target -> BOOLEAN] /\ rewrites \in [Target -> Nat]
      /\ pending \in Nat /\ nextId \in Nat /\ pending <= nextId /\ results \in Seq(Event)
      /\ desired \in Plan /\ MaxCorrections \in Nat /\ \A t \in Target : drift[t] >= -1
  BY LaneConstants DEF Types, ActorTypes, WorkTypes
<1>2. results # << >> /\ results' = Tail(results) /\ UNCHANGED <<workVars, fails>>
  BY DEF FinishWorker, restVars
<1>3. /\ applied' = IF event.res = "failed" THEN applied ELSE event.applied
      /\ observed' = [t \in Target |->
              IF ~ok THEN observed[t]
              ELSE IF event.applied[t] # None THEN event.applied[t]
              ELSE IF applied[t] # None THEN None ELSE observed[t]]
  BY DEF FinishWorker
<1>4. \/ Evaluate(dr, suppressed, rewrites, bo, p, r)
      \/ /\ drift' = dr /\ pending' = p
         /\ ~Needs(desired, applied', observed', suppressed)
         /\ UNCHANGED <<desired, suppressed, rewrites, nextId, slot>>
  BY DEF FinishWorker
<1>5. p \in Nat /\ p <= nextId
  <2> HIDE DEF event
  <2> QED BY <1>1
<1>6. /\ dr \in [Target -> Int]
      /\ \A t \in Target : dr[t] = drift[t] + IF drift[t] >= 0 /\ Corrects(event, t, desired[t]) /\ ok
                                              THEN 1 ELSE 0
  <2> HIDE DEF event
  <2> QED BY <1>1 DEF Corrects
<1>7. InOrder(p, slot, results')
  BY <1>2, AnswerOrder DEF Promises
<1>8. ASSUME NEW t \in Target
      PROVE  Cardinality(Coming(results, t, desired[t])) = Cardinality(Coming(results', t, desired[t]))
                + IF Corrects(event, t, desired[t]) /\ ok THEN 1 ELSE 0
  BY <1>1, <1>2, ComingTail
<1> HIDE DEF event, p, r, ok, dr, bo
<1>9. UNCHANGED <<phase, job>> /\ Busy' = Busy
  BY <1>2 DEF workVars, Busy
<1>10. results' \in Seq(Event) /\ Len(results') <= Len(results) /\ Len(results') \in Nat
  BY <1>1, <1>2
<1>11. Room'
  <2>1. EventCapacity \in Nat /\ Len(results) \in Nat
    BY <1>1, LaneConstants
  <2> QED BY <1>9, <1>10, <2>1 DEF Promises, Room
<1>12. \A t \in Target : t \in Correctable(desired, applied', observed', suppressed) => dr[t] < MaxCorrections
  <2> SUFFICES ASSUME NEW t \in Target, t \in Correctable(desired, applied', observed', suppressed)
               PROVE  dr[t] < MaxCorrections
    OBVIOUS
  <2>1. desired[t] # None /\ applied'[t] = desired[t] /\ observed'[t] \notin {None, desired[t]}
        /\ ~suppressed[t]
    BY DEF Correctable
  <2>2. ~ok
    <3> SUFFICES ASSUME ok PROVE FALSE
      OBVIOUS
    <3>1. event.res # "failed" /\ event.applied[t] = desired[t]
      BY <1>3, <2>1 DEF ok
    <3>2. observed'[t] = event.applied[t]
      BY <1>3, <2>1, <3>1
    <3> QED BY <2>1, <3>1, <3>2
  <2>3. dr[t] = drift[t] /\ observed'[t] = observed[t]
    BY <1>1, <1>3, <1>6, <2>2
  <2>4. CASE drift[t] >= 0
    <3>1. applied[t] = desired[t]
      BY <2>4 DEF Promises, Hesitant
    <3>2. t \in Correctable(desired, applied, observed, suppressed)
      BY <2>1, <2>3, <3>1 DEF Correctable
    <3> QED BY <2>3, <3>2 DEF Promises, Hesitant
  <2>5. CASE ~(drift[t] >= 0)
    BY <1>1, <2>3, <2>5
  <2> QED BY <2>4, <2>5
<1>13. ASSUME NEW t \in Target, dr[t] >= 0
       PROVE  Covered(t, desired[t], dr[t], rewrites[t], Cardinality(Coming(results', t, desired[t])))
  <2> DEFINE c == Cardinality(Coming(results, t, desired[t]))
             d == Cardinality(Coming(results', t, desired[t]))
             hit == Corrects(event, t, desired[t]) /\ ok
  <2>1. c = d + (IF hit THEN 1 ELSE 0) /\ c \in Nat /\ d \in Nat
    BY <1>1, <1>8, <1>10, ComingSize
  <2>2. drift[t] >= 0 /\ dr[t] = drift[t] + (IF hit THEN 1 ELSE 0) /\ drift[t] \in Int
    BY <1>1, <1>6, <1>13
  <2>3. Covered(t, desired[t], drift[t], rewrites[t], c)
    BY <2>2 DEF Promises, Counted
  <2> HIDE DEF c, d, hit
  <2>4. dr[t] + d = drift[t] + c
    BY <2>1, <2>2
  <2>5. Covered(t, desired[t], dr[t], rewrites[t], d)
    BY <2>3, <2>4 DEF Covered
  <2> QED BY <2>5 DEF d
<1>14. CASE Evaluate(dr, suppressed, rewrites, bo, p, r)
  <2>1. Hesitant'
    BY <1>1, <1>6, <1>12, <1>14, EvaluateHesitant
  <2>2. Counted'
    BY <1>1, <1>2, <1>6, <1>11, <1>13, <1>14, <2>1, EvaluateCounted
  <2>3. \/ pending' = p /\ slot' = slot
        \/ pending' = nextId + 1 /\ slot'.id = nextId + 1
    BY <1>14, EvaluateQueue
  <2>4. InOrder(pending', slot', results')
    BY <1>5, <1>7, <1>9, <1>10, <2>3, EvaluateOrder
  <2>5. Ordered'
    BY <1>9, <2>4 DEF Ordered, InOrder
  <2> QED BY <1>11, <2>1, <2>2, <2>5 DEF Promises
<1>15. CASE /\ drift' = dr /\ pending' = p
            /\ ~Needs(desired, applied', observed', suppressed)
            /\ UNCHANGED <<desired, suppressed, rewrites, nextId, slot>>
  <2>1. Hesitant'
    <3> SUFFICES ASSUME NEW t \in Target
                 PROVE  /\ drift'[t] >= 0 => desired'[t] # None /\ applied'[t] = desired'[t]
                        /\ t \in Correctable(desired', applied', observed', suppressed') =>
                             drift'[t] < MaxCorrections
      BY DEF Hesitant
    <3>1. applied'[t] = desired[t] /\ t \notin Correctable(desired, applied', observed', suppressed)
      BY <1>15 DEF Needs, Correctable
    <3>2. drift'[t] >= 0 => drift[t] >= 0
      BY <1>1, <1>6, <1>15
    <3>3. drift[t] >= 0 => desired[t] # None
      BY DEF Promises, Hesitant
    <3> QED BY <1>15, <3>1, <3>2, <3>3
  <2>2. Counted'
    <3>1. ASSUME NEW t \in Target
          PROVE  /\ Written(t, desired[t])' = Written(t, desired[t])
                 /\ InJob(t, desired[t])' = InJob(t, desired[t])
                 /\ InSlot(t, desired[t])' = InSlot(t, desired[t])
                 /\ Coming(results, t, desired[t])' = Coming(results', t, desired[t])
      BY <1>2, <1>9, <1>15 DEF workVars, Written, InJob, InSlot, Corrects, Coming
    <3> QED BY <1>2, <1>13, <1>15, <3>1 DEF Counted, Covered
  <2>3. Ordered'
    BY <1>7, <1>9, <1>15 DEF Ordered, InOrder
  <2> QED BY <1>11, <2>1, <2>2, <2>3 DEF Promises
<1> QED BY <1>4, <1>14, <1>15

-----------------------------------------------------------------------------
(* The worker's steps.                                                      *)

\* Steps that touch nothing the promises are about.
LEMMA IdleStep ==
  ASSUME Promises, UNCHANGED <<desired, applied, observed, drift, suppressed, rewrites, pending, slot,
                               results, phase, job, fails>>, todo'.apply = todo.apply
  PROVE  Promises'
<1>1. Ordered' /\ Room'
  BY DEF Promises, Ordered, InOrder, Room, Busy
<1>2. Hesitant'
  BY DEF Promises, Hesitant
<1>3. Counted'
  BY DEF Promises, Counted, Covered, Written, InJob, InSlot, Busy
<1> QED BY <1>1, <1>2, <1>3 DEF Promises

\* The command moves from the watch channel to the worker.
LEMMA TakeStep ==
  ASSUME Types, Promises, Take
  PROVE  Promises'
<1>1. /\ phase = "idle" /\ phase' = "gate" /\ slot # NoCommand /\ job' = slot /\ slot' = NoCommand
      /\ Len(results) <= EventCapacity
      /\ UNCHANGED <<desired, applied, observed, drift, suppressed, rewrites, pending, results, fails>>
  BY DEF Take, actorVars, restVars
<1>2. slot.id \in Nat /\ pending \in Nat /\ results \in Seq(Event) /\ EventCapacity \in Nat
      /\ Len(results) \in Nat
  BY LaneConstants DEF Types, ActorTypes, WorkTypes, Command
<1>3. Ordered'
  BY <1>1, <1>2 DEF Promises, Ordered, InOrder, Busy
<1>4. Room'
  BY <1>1, <1>2 DEF Room
<1>5. Hesitant'
  BY <1>1 DEF Promises, Hesitant
<1>6. Counted'
  <2> SUFFICES ASSUME NEW t \in Target, drift[t] >= 0
               PROVE  Covered(t, desired[t], drift[t], rewrites[t],
                              Cardinality(Coming(results, t, desired[t])))'
    BY <1>1 DEF Counted
  <2>1. Covered(t, desired[t], drift[t], rewrites[t], Cardinality(Coming(results, t, desired[t])))
    BY DEF Promises, Counted
  <2>2. /\ Written(t, desired[t])' = 0 /\ Written(t, desired[t]) = 0
        /\ InJob(t, desired[t])' = InSlot(t, desired[t]) /\ InJob(t, desired[t]) = 0
        /\ InSlot(t, desired[t])' = 0 /\ InSlot(t, desired[t]) \in {0, 1}
    BY <1>1 DEF Written, InJob, InSlot, Busy, Corrects
  <2>3. Coming(results, t, desired[t])' = Coming(results, t, desired[t])
    BY <1>1 DEF Coming, Corrects
  <2>4. drift[t] \in Int /\ Cardinality(Coming(results, t, desired[t])) \in Nat
    BY <1>2, ComingSize DEF Types, ActorTypes
  <2> QED BY <1>1, <2>1, <2>2, <2>3, <2>4 DEF Covered
<1> QED BY <1>3, <1>4, <1>5, <1>6 DEF Promises

\* The batch begins: what it need not write is as good as written.
LEMMA BeginStep ==
  ASSUME Types, Promises, Begin
  PROVE  Promises'
<1>1. /\ phase = "gate" /\ phase' = "write" /\ job' = job /\ slot' = slot
      /\ UNCHANGED <<desired, applied, observed, drift, suppressed, rewrites, pending, results, fails>>
  BY DEF Begin, actorVars, restVars
<1>2. Busy /\ Busy'
  BY <1>1 DEF Busy
<1>3. Ordered' /\ Room'
  BY <1>1, <1>2 DEF Promises, Ordered, InOrder, Room
<1>4. Hesitant'
  BY <1>1 DEF Promises, Hesitant
<1>5. Counted'
  <2> SUFFICES ASSUME NEW t \in Target, drift[t] >= 0
               PROVE  Covered(t, desired[t], drift[t], rewrites[t],
                              Cardinality(Coming(results, t, desired[t])))'
    BY <1>1 DEF Counted
  <2>1. Covered(t, desired[t], drift[t], rewrites[t], Cardinality(Coming(results, t, desired[t])))
    BY DEF Promises, Counted
  <2>2. /\ Written(t, desired[t])' \in {0, 1} /\ Written(t, desired[t]) = 0
        /\ InJob(t, desired[t])' = InJob(t, desired[t])
        /\ InSlot(t, desired[t])' = InSlot(t, desired[t])
    BY <1>1, <1>2 DEF Written, InJob, InSlot, Corrects
  <2>3. Coming(results, t, desired[t])' = Coming(results, t, desired[t])
    BY <1>1 DEF Coming, Corrects
  <2>4. drift[t] \in Int /\ Cardinality(Coming(results, t, desired[t])) \in Nat /\ rewrites[t] \in Nat
        /\ fails \in Nat
    BY ComingSize DEF Types, ActorTypes, WorkTypes, WorldTypes
  <2> QED BY <1>1, <2>1, <2>2, <2>3, <2>4 DEF Covered
<1> QED BY <1>3, <1>4, <1>5 DEF Promises

\* A correction is written once in a batch.
LEMMA WriteStep ==
  ASSUME Types, Promises, NEW x \in Target, Write(x)
  PROVE  Promises'
<1>1. /\ phase = "write" /\ phase' = "write" /\ job' = job /\ slot' = slot /\ x \in todo.apply
      /\ UNCHANGED <<desired, applied, observed, drift, suppressed, pending, results, fails>>
      /\ rewrites' = IF Corrects(job, x, desired[x])
                     THEN [rewrites EXCEPT ![x] = @ + 1] ELSE rewrites
      /\ todo'.apply = todo.apply \ {x}
  BY DEF Write, restVars, Corrects, Types, WorkTypes
<1>2. Busy /\ Busy'
  BY <1>1 DEF Busy
<1>3. Ordered' /\ Room'
  BY <1>1, <1>2 DEF Promises, Ordered, InOrder, Room
<1>4. Hesitant'
  BY <1>1 DEF Promises, Hesitant
<1>5. Counted'
  <2> SUFFICES ASSUME NEW t \in Target, drift[t] >= 0
               PROVE  Covered(t, desired[t], drift[t], rewrites[t],
                              Cardinality(Coming(results, t, desired[t])))'
    BY <1>1 DEF Counted
  <2>1. Covered(t, desired[t], drift[t], rewrites[t], Cardinality(Coming(results, t, desired[t])))
    BY DEF Promises, Counted
  <2>2. /\ InJob(t, desired[t])' = InJob(t, desired[t])
        /\ InSlot(t, desired[t])' = InSlot(t, desired[t])
    BY <1>1, <1>2 DEF InJob, InSlot, Corrects
  <2>3. Coming(results, t, desired[t])' = Coming(results, t, desired[t])
    BY <1>1 DEF Coming, Corrects
  <2>4. drift[t] \in Int /\ Cardinality(Coming(results, t, desired[t])) \in Nat /\ rewrites[t] \in Nat
        /\ fails \in Nat /\ rewrites \in [Target -> Nat]
    BY ComingSize DEF Types, ActorTypes, WorkTypes, WorldTypes
  <2>5. /\ Written(t, desired[t])' \in {0, 1} /\ Written(t, desired[t]) \in {0, 1}
        /\ rewrites'[t] - rewrites[t] <= Written(t, desired[t])' - Written(t, desired[t])
    <3>1. CASE t = x
      BY <1>1, <2>4, <3>1 DEF Written, Corrects
    <3>2. CASE t # x
      BY <1>1, <2>4, <3>2 DEF Written, Corrects
    <3> QED BY <3>1, <3>2
  <2>6. rewrites'[t] \in Nat
    BY <1>1, <2>4
  <2> QED BY <1>1, <2>1, <2>2, <2>3, <2>4, <2>5, <2>6 DEF Covered
<1> QED BY <1>3, <1>4, <1>5 DEF Promises

\* The batch is over: its event carries the correction, or a failure accounts
\* for it.
LEMMA SendStep ==
  ASSUME Types, Promises, phase = "write", NEW res, NEW a \in Plan, NEW ph, Send(res, a), Leave(ph),
         UNCHANGED <<actorVars, slot>>,
         \/ res = "ok" /\ ph = "idle" /\ fails' = fails
         \/ res = "error" /\ ph = "idle" /\ fails' = fails + 1
         \/ res = "failed" /\ ph = "dead" /\ fails' = fails + 1
  PROVE  Promises'
<1>1. PICK e \in Event : /\ results' = Append(results, e) /\ e.id = job.id /\ e.res = res
                         /\ e.plan = job.plan /\ e.drifting = job.drifting
  BY EventTypes DEF Types
<1>2. /\ UNCHANGED <<desired, applied, observed, drift, suppressed, rewrites, pending, slot>>
      /\ phase' = ph /\ Busy /\ ~Busy'
  BY DEF actorVars, Leave, Busy
<1>3. /\ results \in Seq(Event) /\ pending \in Nat /\ job.id \in Nat /\ slot.id \in Nat
      /\ Len(results) \in Nat /\ EventCapacity \in Nat /\ fails \in Nat
  BY LaneConstants DEF Types, ActorTypes, WorkTypes, WorldTypes, Command
<1> DEFINE n == Len(results)
<1>4. /\ Len(results') = n + 1 /\ results'[n + 1] = e
      /\ \A k \in 1 .. n : results'[k] = results[k]
  BY <1>1, <1>3
<1>5. Ordered'
  <2>1. /\ 0 < job.id /\ job.id <= pending
        /\ phase # "dead" /\ slot # NoCommand => slot.id = pending /\ pending > 0
        /\ slot # NoCommand => job.id < slot.id
        /\ \A k \in 1 .. n :
             /\ 0 < results[k].id /\ results[k].id <= pending
             /\ results[k].id < job.id
             /\ phase # "dead" /\ slot # NoCommand => results[k].id < slot.id
             /\ results[k].res # "failed"
             /\ \A i \in 1 .. n : i < k => results[i].id < results[k].id
    BY <1>2 DEF Promises, Ordered, InOrder
  <2> HIDE DEF n
  <2>2. n \in Nat
    BY <1>3 DEF n
  <2>3. ASSUME NEW k \in 1 .. n + 1
        PROVE  /\ 0 < results'[k].id /\ results'[k].id <= pending
               /\ slot # NoCommand => results'[k].id < slot.id
               /\ results'[k].res = "failed" => phase' = "dead" /\ k = n + 1
               /\ \A i \in 1 .. n + 1 : i < k => results'[i].id < results'[k].id
    <3>1. CASE k = n + 1
      BY <1>1, <1>2, <1>4, <2>1, <2>2, <3>1
    <3>2. CASE k \in 1 .. n
      BY <1>4, <2>1, <2>2, <3>2
    <3> QED BY <2>2, <3>1, <3>2
  <2> QED BY <1>2, <1>4, <2>1, <2>3 DEF Ordered, InOrder
<1>6. Room'
  BY <1>2, <1>3, <1>4 DEF Promises, Room
<1>7. Hesitant'
  BY <1>2 DEF Promises, Hesitant
<1>8. Counted'
  <2> SUFFICES ASSUME NEW t \in Target, drift[t] >= 0
               PROVE  Covered(t, desired[t], drift[t], rewrites[t],
                              Cardinality(Coming(results, t, desired[t])))'
    BY <1>2 DEF Counted
  <2> DEFINE l == desired[t]
             c == Cardinality(Coming(results, t, l))
             d == Cardinality(Coming(Append(results, e), t, l))
  <2>1. Covered(t, l, drift[t], rewrites[t], c)
    BY DEF Promises, Counted
  <2>2. d = c + (IF Corrects(job, t, l) /\ res = "ok" THEN 1 ELSE 0) /\ c \in Nat
    <3>1. Corrects(e, t, l) = Corrects(job, t, l) /\ e.res = res
      BY <1>1 DEF Corrects
    <3>2. d = c + IF Corrects(e, t, l) /\ e.res = "ok" THEN 1 ELSE 0
      BY <1>3, ComingAppend
    <3>3. c \in Nat
      BY <1>3, ComingSize
    <3> HIDE DEF c, d, l
    <3> QED BY <3>1, <3>2, <3>3
  <2>3. Cardinality(Coming(results, t, desired[t]))' = d
    BY <1>1, <1>2 DEF Coming, Corrects
  <2>4. /\ Written(t, l)' = 0 /\ InJob(t, l)' = 0 /\ InSlot(t, l)' = InSlot(t, l)
        /\ Written(t, l) <= (IF Corrects(job, t, l) THEN 1 ELSE 0) /\ Written(t, l) \in {0, 1}
        /\ InJob(t, l) = (IF Corrects(job, t, l) THEN 1 ELSE 0) /\ InSlot(t, l) \in {0, 1}
        /\ desired'[t] = l
    BY <1>2 DEF Written, InJob, InSlot, Corrects, Busy
  <2>5. drift[t] \in Int /\ rewrites[t] \in Nat /\ MaxCorrections \in Nat
    BY LaneConstants DEF Types, ActorTypes
  <2> DEFINE w == Written(t, l)
             j == InJob(t, l)
             i == InSlot(t, l)
  <2>8. /\ rewrites[t] <= drift[t] + c + w + fails
        /\ drift[t] + c + j + i <= MaxCorrections + EventCapacity + 1
        /\ w \in {0, 1} /\ j \in {0, 1} /\ i \in {0, 1} /\ w <= j
        /\ InSlot(t, l)' = i
    <3> HIDE DEF c, d
    <3> QED BY <2>1, <2>4 DEF Covered
  <2>9. d = c + (IF res = "ok" THEN j ELSE 0)
    <3> HIDE DEF c, d
    <3> QED BY <2>2, <2>4
  <2> DEFINE u == drift[t]
             x == rewrites[t]
             m == MaxCorrections + EventCapacity + 1
             f == fails
             g == fails'
  <2>10. /\ u \in Int /\ x \in Nat /\ m \in Nat /\ f \in Nat /\ c \in Nat
         /\ w \in Nat /\ j \in Nat /\ i \in Nat /\ w <= j
         /\ x <= u + c + w + f /\ u + c + j + i <= m
    <3> HIDE DEF c, d, w, j, i
    <3>1. m \in Nat /\ u \in Int /\ x \in Nat /\ f \in Nat
      BY <1>3, <2>5
    <3> QED BY <2>2, <2>8, <3>1
  <2>11. \/ d = c + j /\ g = f
         \/ d = c /\ g = f + 1 /\ w <= 1
    <3> HIDE DEF c, d, w, j, i
    <3>1. w <= 1 /\ c + 0 = c
      BY <2>2, <2>8
    <3> QED BY <2>9, <3>1
  <2> HIDE DEF c, d, w, j, i, u, x, m, f, g
  <2>12. x <= u + d + 0 + g /\ u + d + 0 + i <= m
    <3>1. CASE d = c + j /\ g = f
      BY <2>10, <3>1
    <3>2. CASE d = c /\ g = f + 1 /\ w <= 1
      BY <2>10, <3>2
    <3> QED BY <2>11, <3>1, <3>2
  <2>6. rewrites[t] <= drift[t] + d + 0 + fails'
    BY <2>12 DEF x, u, g
  <2>7. drift[t] + d + 0 + InSlot(t, l)' <= MaxCorrections + EventCapacity + 1
    BY <2>8, <2>12 DEF u, m
  <2> QED BY <1>2, <2>3, <2>4, <2>6, <2>7 DEF Covered
<1> QED BY <1>5, <1>6, <1>7, <1>8 DEF Promises

\* Every step keeps what drift and repairs promise.
LEMMA PromisesStep ==
  ASSUME Types, Types', Promises, [Next]_vars
  PROVE  Promises'
<1>1. CASE Decide
  BY <1>1, ReevaluateStep DEF Decide, restVars
<1>2. CASE Thermal
  <2>1. \E bo : Reevaluate(bo)
    BY <1>2 DEF Thermal
  <2>2. UNCHANGED <<applied, observed, results, workVars, fails>>
    BY <1>2 DEF Thermal, restVars
  <2> QED BY <2>1, <2>2, ReevaluateStep
<1>3. CASE FinishSafety
  <2>1. UNCHANGED <<results, workVars, fails>>
    BY <1>3 DEF FinishSafety, restVars
  <2>2. CASE safety = "done" /\ waitingCaps = {}
    BY <1>3, <2>1, <2>2, ReevaluateStep DEF FinishSafety
  <2>3. CASE ~(safety = "done" /\ waitingCaps = {})
    <3>1. UNCHANGED <<desired, applied, observed, drift, suppressed, rewrites, pending, slot>>
      BY <1>3, <2>3 DEF FinishSafety, actorVars
    <3> QED BY <2>1, <3>1, IdleStep DEF workVars
  <2> QED BY <2>2, <2>3
<1>4. CASE FinishWorker
  BY <1>4, FinishWorkerStep
<1>5. CASE Observe
  BY <1>5, ObserveStep
<1>6. CASE Retry
  BY <1>6, ReevaluateStep DEF Retry, restVars
<1>7. CASE Take
  BY <1>7, TakeStep
<1>8. CASE Begin
  BY <1>8, BeginStep
<1>9. CASE Done
  <2>1. /\ phase = "write" /\ Send("ok", target) /\ Leave("idle") /\ fails' = fails
        /\ UNCHANGED <<actorVars, slot>> /\ target \in Plan
    BY <1>9 DEF Done, restVars, Types, WorkTypes
  <2> QED BY <2>1, SendStep
<1>10. CASE Fail
  <2>1. out \in Plan /\ job.applied \in Plan
    BY DEF Types, WorkTypes, Command
  <2>2. phase = "write" /\ fails' = fails + 1 /\ UNCHANGED <<actorVars, slot>>
    BY <1>10 DEF Fail
  <2>3. \/ \E a \in {out, job.applied} : Send("error", a) /\ Leave("idle")
        \/ Send("failed", out) /\ Leave("dead")
    BY <1>10 DEF Fail
  <2> QED BY <2>1, <2>2, <2>3, SendStep
<1>11. CASE ReplaceCaps
  BY <1>11, IdleStep DEF ReplaceCaps, actorVars, workVars, restVars
<1>12. CASE Sample
  BY <1>12, IdleStep DEF Sample, actorVars, workVars
<1>13. ASSUME NEW t \in Target, GiveBack(t) PROVE Promises'
  <2>1. todo'.apply = todo.apply
    BY <1>13 DEF GiveBack, Types, WorkTypes
  <2> QED BY <1>13, <2>1, IdleStep DEF GiveBack, actorVars, restVars
<1>14. ASSUME NEW t \in Target, Write(t) PROVE Promises'
  BY <1>14, WriteStep
<1>15. ASSUME NEW t \in Target, External(t) PROVE Promises'
  BY <1>15, IdleStep DEF External, actorVars, workVars
<1>16. CASE UNCHANGED vars
  BY <1>16, IdleStep DEF vars, actorVars, workVars, restVars
<1> QED BY <1>1, <1>2, <1>3, <1>4, <1>5, <1>6, <1>7, <1>8, <1>9, <1>10, <1>11, <1>12, <1>13, <1>14,
           <1>15, <1>16 DEF Next

-----------------------------------------------------------------------------
(* The theorems.                                                            *)

\* The lane starts in its invariant.
LEMMA InitIInv == Init => IInv
<1> SUFFICES ASSUME Init PROVE IInv
  OBVIOUS
<1>1. Types
  BY InitTypes
<1>2. CapsOnTheirWay
  BY DEF Init, CapsOnTheirWay
<1>3. phase = "idle" /\ results = << >> /\ slot.id = 1 /\ pending = 1
  BY DEF Init
<1>4. Len(results) = 0 /\ 1 .. Len(results) = {}
  BY <1>3
<1>5. Fenced /\ ~Busy
  BY <1>3 DEF Fenced, Busy
<1>6. Ordered
  BY <1>3, <1>4, <1>5 DEF Ordered, InOrder
<1>7. Room
  BY <1>4, <1>5, LaneConstants DEF Room
<1>8. \A t \in Target : drift[t] = -1
  BY DEF Init
<1>9. Counted
  BY <1>8 DEF Counted
<1>10. Hesitant
  BY <1>8, LaneConstants DEF Hesitant
<1> QED BY <1>1, <1>2, <1>5, <1>6, <1>7, <1>9, <1>10 DEF IInv, Promises

\* Every step of the lane keeps its invariant.
LEMMA StepIInv == IInv /\ [Next]_vars => IInv'
BY TypesStep, CapsStep, FencedStep, PromisesStep DEF IInv

\* The counts stay bounded.
LEMMA CountsBounded ==
  ASSUME IInv, NEW t \in Target, drift[t] >= 0
  PROVE  /\ drift[t] <= MaxCorrections + EventCapacity + 1
         /\ rewrites[t] <= MaxCorrections + EventCapacity + 1 + fails
<1> DEFINE l == desired[t]
           c == Cardinality(Coming(results, t, l))
<1>1. /\ drift[t] \in Int /\ rewrites[t] \in Nat /\ fails \in Nat /\ results \in Seq(Event)
      /\ MaxCorrections \in Nat /\ EventCapacity \in Nat
  BY LaneConstants DEF IInv, Types, ActorTypes, WorkTypes, WorldTypes
<1>2. c \in Nat
  BY <1>1, ComingSize
<1>3. Covered(t, l, drift[t], rewrites[t], c)
  BY DEF IInv, Promises, Counted
<1>4. /\ Written(t, l) \in {0, 1} /\ InJob(t, l) \in {0, 1} /\ InSlot(t, l) \in {0, 1}
      /\ Written(t, l) <= InJob(t, l)
  BY DEF Written, InJob, InSlot, Busy
<1> DEFINE w == Written(t, l)
           j == InJob(t, l)
           i == InSlot(t, l)
<1>5. /\ rewrites[t] <= drift[t] + c + w + fails
      /\ drift[t] + c + j + i <= MaxCorrections + EventCapacity + 1
      /\ w \in {0, 1} /\ j \in {0, 1} /\ i \in {0, 1} /\ w <= j
  <2> HIDE DEF l, c
  <2> QED BY <1>3, <1>4 DEF Covered
<1> DEFINE n == drift[t]
           x == rewrites[t]
           m == MaxCorrections + EventCapacity + 1
           f == fails
<1>6. /\ n \in Int /\ x \in Nat /\ m \in Nat /\ f \in Nat /\ c \in Nat
      /\ w \in Nat /\ j \in Nat /\ i \in Nat /\ w <= j
      /\ x <= n + c + w + f /\ n + c + j + i <= m
  BY <1>1, <1>2, <1>5
<1> HIDE DEF c, w, j, i, n, x, m, f
<1>7. n <= m /\ x <= m + f
  BY <1>6
<1> QED BY <1>7 DEF n, x, m, f

\* The invariant implies the soundness the run checks.
LEMMA IInvSound == IInv => LaneSound
<1> SUFFICES ASSUME IInv PROVE LaneSound
  OBVIOUS
<1>1. InputTypes /\ ActorTypes /\ WorkTypes /\ WorldTypes /\ CapsOnTheirWay /\ Ordered
  BY DEF IInv, Types, Promises
<1>2. CapsReachFence
  BY <1>1 DEF CapsOnTheirWay, CapsReachFence
<1>3. EventsExpected
  <2>1. DOMAIN results = 1 .. Len(results)
    BY <1>1 DEF WorkTypes
  <2> QED BY <1>1, <2>1 DEF Ordered, InOrder, EventsExpected
<1>4. drift \in [Target -> -1 .. MaxCorrections + EventCapacity + 1]
  <2>1. \A t \in Target : drift[t] \in -1 .. MaxCorrections + EventCapacity + 1
    <3> SUFFICES ASSUME NEW t \in Target PROVE drift[t] \in -1 .. MaxCorrections + EventCapacity + 1
      OBVIOUS
    <3>1. drift[t] \in Int /\ drift[t] >= -1 /\ MaxCorrections \in Nat /\ EventCapacity \in Nat
      BY <1>1, LaneConstants DEF ActorTypes
    <3> QED BY <3>1, CountsBounded
  <2> QED BY <1>1, <2>1 DEF ActorTypes
<1>5. waitingCaps \subseteq Plan /\ Cardinality(waitingCaps) <= 1
  <2>1. CASE waitingCaps = {}
    BY <2>1, FS_EmptySet
  <2>2. CASE waitingCaps = {thermal}
    BY <1>1, <2>2, FS_Singleton DEF InputTypes
  <2> QED BY <1>1, <2>1, <2>2 DEF CapsOnTheirWay
<1>6. {slot, job} \subseteq [id : 0 .. nextId, plan : Plan, applied : Plan, drifting : SUBSET Target]
  <2>1. nextId \in Nat /\ slot \in Command /\ slot.id <= nextId /\ job \in Command /\ job.id <= nextId
    BY <1>1 DEF ActorTypes, WorkTypes
  <2>2. ASSUME NEW c \in Command, c.id <= nextId
        PROVE  c \in [id : 0 .. nextId, plan : Plan, applied : Plan, drifting : SUBSET Target]
    <3>1. c.id \in 0 .. nextId
      BY <2>1, <2>2 DEF Command
    <3> QED BY <3>1 DEF Command
  <2> QED BY <2>1, <2>2
<1>7. /\ goal \in [Automatic -> 1 .. Top] /\ override \in [ManualOnly -> 0 .. Top]
      /\ {thermal, fence, safetyCaps, desired, applied, observed, requested, sample} \subseteq Plan
      /\ kernel \in [Target -> 1 .. Top] /\ owned \subseteq Target
      /\ phase \in {"idle", "gate", "write", "dead"}
      /\ safety \in {"none", "started", "done", "poisoned", "failed"}
  BY <1>1 DEF InputTypes, ActorTypes, WorkTypes, WorldTypes
<1>8. /\ pending \in 0 .. nextId /\ nextId \in Nat
      /\ suppressed \in [Target -> BOOLEAN] /\ rewrites \in [Target -> Nat]
  BY <1>1 DEF ActorTypes
<1>9. {backoff, readOnly, degraded} \subseteq BOOLEAN
  BY <1>1 DEF ActorTypes, WorldTypes
<1>10. TypeOK
  BY <1>4, <1>5, <1>6, <1>7, <1>8, <1>9 DEF TypeOK
<1> QED BY <1>2, <1>3, <1>10 DEF LaneSound

\* No change of the thermal caps is lost between the state task and the fence
\* (request_frequency_safety_update, finish_frequency_safety_update), and every
\* event of the worker is for the command the actor waits for or for one it
\* replaced (finish_frequency_worker), whatever interleaves.
THEOREM SoundLane == Spec => []LaneSound
<1>1. Spec => []IInv
  BY InitIInv, StepIInv, PTL DEF Spec
<1> QED BY <1>1, IInvSound, PTL

\* A controller that undoes every write is fought a bounded number of times,
\* whatever commands, samples, events and failures interleave
\* (observe_external_frequency_drift, correctable_drift_targets).
THEOREM BoundedRewrites == Spec => []RewritesBounded
<1>1. Spec => []IInv
  BY InitIInv, StepIInv, PTL DEF Spec
<1>2. IInv => RewritesBounded
  BY CountsBounded DEF RewritesBounded
<1> QED BY <1>1, <1>2, PTL

\* The worker writes nothing above the caps its safety fence holds, however old
\* the plan it was given (reconcile_frequencies, FrequencySafetyFence).
THEOREM CappedWrites == Spec => WritesUnderCaps
<1> DEFINE Capped == \A t \in Target :
             phase = "write" /\ phase' = "write" /\ kernel'[t] # kernel[t] /\ fence[t] # None =>
               kernel'[t] <= fence[t]
<1>1. Spec => []IInv
  BY InitIInv, StepIInv, PTL DEF Spec
<1>2. IInv /\ [Next]_vars => [Capped]_vars
  <2> SUFFICES ASSUME IInv, Next, NEW t \in Target, phase = "write", phase' = "write",
                      kernel'[t] # kernel[t], fence[t] # None
               PROVE  kernel'[t] <= fence[t]
    OBVIOUS
  <2>1. /\ target[t] # None /\ target[t] <= fence[t]
        /\ kernel \in [Target -> 1 .. Top] /\ \A u \in todo.restore : target[u] = None
    BY DEF IInv, Fenced, Types, WorkTypes, WorldTypes
  <2>2. CASE Decide \/ Thermal \/ FinishSafety \/ FinishWorker \/ Observe \/ Retry
    BY <2>2, WorkKept DEF kernelVars
  <2>3. CASE Take \/ Begin \/ Done \/ Fail \/ ReplaceCaps \/ Sample
    BY <2>3 DEF Take, Begin, Done, Fail, ReplaceCaps, Sample, Leave, kernelVars
  <2>4. ASSUME NEW u \in Target, GiveBack(u) PROVE FALSE
    <3>1. u # t
      BY <2>1, <2>4 DEF GiveBack
    <3> QED BY <2>1, <2>4, <3>1 DEF GiveBack
  <2>5. ASSUME NEW u \in Target, Write(u) PROVE kernel'[t] <= fence[t]
    BY <2>1, <2>5 DEF Write
  <2>6. ASSUME NEW u \in Target, External(u) PROVE FALSE
    BY <2>6 DEF External
  <2> QED BY <2>2, <2>3, <2>4, <2>5, <2>6 DEF Next
<1>3. []IInv /\ [][Next]_vars => [][Capped]_vars
  BY <1>2, PTL
<1> QED BY <1>1, <1>3, PTL DEF Spec, WritesUnderCaps
=============================================================================
