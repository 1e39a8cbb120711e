----------------------- MODULE MutationBarrierProofs -----------------------
(***************************************************************************)
(* Proofs about MutationBarrier, for any number of jobs, sleep and wake     *)
(* requests, reloads, failures and panics:                                  *)
(*   Spec => []BarriersHold        (SafeBarriers)                           *)
(*   Spec => []LastTransitionWins  (TransitionsDecide)                      *)
(*                                                                          *)
(* Neither is inductive.  What a restore or a new configuration may rely on  *)
(* is that pending = 0 means "the frequency worker has nothing": a command   *)
(* in the watch channel carries the pending number, the job in hand carries  *)
(* no newer one, and the answers on their way to the actor are all older     *)
(* than both (Tracked).  That a restored machine owns nothing needs what a   *)
(* finished restore_all established while its result waits (Clean), and that *)
(* the last transition decides needs the resume the actor keeps for after    *)
(* the restore (Wished).                                                     *)
(*                                                                          *)
(* The parts are constant operators of the actor record a, the worker w, its *)
(* job j, the results r, the claims o and the history v, so that a handler,  *)
(* which maps records to sets of records, is shown to preserve each of them  *)
(* once, whoever calls it.                                                   *)
(***************************************************************************)
EXTENDS MutationBarrier, TLAPS

Command == [kind : {"none", "reconcile", "quiesce"}, id : Nat, config : Nat]

ActorRecord ==
  [suspended : BOOLEAN, restored : BOOLEAN, restoreRequested : BOOLEAN,
   failed : BOOLEAN, pendingResume : BOOLEAN, sleepers : BOOLEAN,
   stoppers : BOOLEAN, accepting : BOOLEAN, stop : BOOLEAN,
   control : SUBSET {"persist", "identity"},
   pending : Nat, quiesce : Nat, quiesced : BOOLEAN, nextId : Nat, jobs : Nat,
   readOnly : BOOLEAN, workerFailed : BOOLEAN, config : Nat,
   reload : {"none", "loading", "pending"},
   slot : Command, sched : {"none", "gate", "hold", "ok", "panicked"},
   schedConfig : Nat, restore : {"none", "gate", "hold", "ok", "err"}]

Event == [kind : {"reconcile", "quiesce", "failed"}, id : Nat]

Alive(w) == w \notin {"dead", "gone"}

\* Numbers the actor keeps were handed out by it.
Numbered(a) ==
  /\ a.pending <= a.nextId /\ a.quiesce <= a.nextId /\ a.slot.id <= a.nextId
  /\ a.slot.kind = "none" => a.slot = NoCommand

\* The frequency worker's commands, its job and its answers, in order.
Tracked(a, w, j, r) ==
  /\ w \in {"gate", "hold"} <=> j.kind = "reconcile"
  /\ j.kind # "quiesce" /\ j.id <= a.nextId
  /\ Alive(w) /\ a.slot.kind # "none" => a.slot.id = a.pending /\ a.pending > 0
  /\ j.kind = "reconcile" => 0 < j.id /\ j.id <= a.pending
  /\ j.kind = "reconcile" /\ a.slot.kind # "none" => j.id < a.slot.id
  /\ \A i \in 1 .. Len(r) :
       /\ r[i].kind = "failed" => ~Alive(w)
       /\ r[i].id <= a.nextId
       /\ Alive(w) /\ a.slot.kind # "none" => r[i].id < a.slot.id
       /\ j.kind = "reconcile" => r[i].id < j.id

\* No lane can write.
NoFrequencyWriter(a, w, j) == Alive(w) => a.slot.kind # "reconcile" /\ j.kind # "reconcile"
Still(a, w, j) == NoFrequencyWriter(a, w, j) /\ a.sched \notin {"gate", "hold"}

Clean(a, w, j, o) ==
  /\ a.restore # "none" => Still(a, w, j)
  /\ a.restore = "ok" => o = {}
  /\ a.suspended /\ a.restored => o = {} /\ Still(a, w, j)
  /\ a.stop /\ ~a.failed => o = {} /\ Still(a, w, j)

Current(a, w, j) ==
  /\ Alive(w) /\ a.slot.kind = "reconcile" => a.slot.config = a.config
  /\ Alive(w) /\ j.kind = "reconcile" => j.config = a.config
  /\ a.sched # "none" => a.schedConfig = a.config

Restoring(a) == a.restoreRequested \/ a.restore # "none"
Wished(a, v) ==
  a.accepting =>
    /\ ~a.stoppers /\ ~a.stop
    /\ ~(a.restoreRequested /\ a.restore # "none")
    /\ Restoring(a) => a.suspended /\ (a.pendingResume <=> v = "wake")
    /\ ~Restoring(a) => (a.suspended <=> v = "sleep")

Sound(a, w, j, r, o, v) ==
  /\ a \in ActorRecord /\ j \in Command /\ r \in Seq(Event) /\ Numbered(a)
  /\ Tracked(a, w, j, r) /\ Clean(a, w, j, o) /\ Current(a, w, j) /\ Wished(a, v)

Surroundings ==
  /\ worker \in {"idle", "gate", "hold", "dead", "gone"}
  /\ gate \in {"free", "frequency", "scheduler", "restore"} /\ poisoned \in BOOLEAN
  /\ owned \subseteq Lane /\ degraded \in BOOLEAN
  /\ wish \in {"sleep", "wake"}

\* The inductive invariant.
IInv == Surroundings /\ Sound(actor, worker, job, results, owned, wish)

-----------------------------------------------------------------------------
(* What the parts of the handlers preserve.                                 *)

Numbers(a, j, r) ==
  /\ a \in ActorRecord /\ j \in Command /\ r \in Seq(Event)
  /\ a.nextId \in Nat /\ a.nextId + 1 \in Nat /\ a.jobs \in Nat /\ a.jobs + 1 \in Nat
  /\ a.pending \in Nat /\ a.quiesce \in Nat /\ a.config \in Nat /\ a.config + 1 \in Nat
  /\ a.slot \in Command /\ a.slot.id \in Nat /\ j.id \in Nat
  /\ \A i \in 1 .. Len(r) : r[i].id \in Nat

\* The numbers in a sound state are natural numbers.
LEMMA SoundNumbers ==
  ASSUME NEW a, NEW w, NEW j, NEW r, NEW o, NEW v, Sound(a, w, j, r, o, v)
  PROVE  Numbers(a, j, r)
<1>1. a \in ActorRecord /\ j \in Command /\ r \in Seq(Event)
  BY DEF Sound
<1>2. a.nextId \in Nat /\ a.jobs \in Nat /\ a.pending \in Nat /\ a.quiesce \in Nat /\ a.config \in Nat
      /\ a.slot \in Command
  BY <1>1 DEF ActorRecord
<1>3. a.slot.id \in Nat /\ j.id \in Nat
  BY <1>1, <1>2 DEF Command
<1>4. ASSUME NEW i \in 1 .. Len(r) PROVE r[i].id \in Nat
  <2>1. r[i] \in Event
    BY <1>1
  <2> QED BY <2>1 DEF Event
<1> QED BY <1>1, <1>2, <1>3, <1>4 DEF Numbers

\* Health flags are no concern of a barrier.
LEMMA HealthSound ==
  ASSUME NEW a, NEW w, NEW j, NEW r, NEW o, NEW v, Sound(a, w, j, r, o, v)
  PROVE  /\ Sound(FailReconcileWorker(a), w, j, r, o, v)
         /\ Sound(RefreshActuatorHealth(a), w, j, r, o, v)
<1>1. a \in ActorRecord
  BY DEF Sound
<1>2. ASSUME NEW g \in BOOLEAN, NEW f \in BOOLEAN
      PROVE  Sound([a EXCEPT !.workerFailed = f, !.readOnly = g], w, j, r, o, v)
  <2> DEFINE b == [a EXCEPT !.workerFailed = f, !.readOnly = g]
  <2>1. b \in ActorRecord
    BY <1>1 DEF ActorRecord
  <2> QED BY <1>1, <2>1 DEF Sound, Numbered, Tracked, Clean, Still, NoFrequencyWriter,
       Current, Wished, Restoring, ActorRecord
<1>3. RefreshActuatorHealth(a) =
        [a EXCEPT !.workerFailed = a.workerFailed, !.readOnly = degraded \/ a.failed \/ a.workerFailed]
  BY <1>1 DEF ActorRecord, RefreshActuatorHealth
<1>4. a.workerFailed \in BOOLEAN /\ (degraded \/ a.failed \/ a.workerFailed) \in BOOLEAN
  BY <1>1 DEF ActorRecord
<1> QED BY <1>2, <1>3, <1>4 DEF FailReconcileWorker

\* Nothing keeps the actor from submitting work.
Running(a) == ~a.suspended /\ a.accepting /\ a.restore = "none"

\* A submission to the frequency worker keeps the actor sound.
LEMMA SubmitFrequencySound ==
  ASSUME NEW a, NEW j, NEW r, NEW o, NEW v, Sound(a, worker, j, r, o, v), Running(a)
  PROVE  Sound(SubmitFrequency(a), worker, j, r, o, v) /\ Running(SubmitFrequency(a))
<1>1. Numbers(a, j, r)
  BY SoundNumbers
<1> USE <1>1 DEF Numbers
<1>2. CASE worker = "gone"
  <2> DEFINE b == [a EXCEPT !.nextId = a.nextId + 1]
  <2>1. b \in ActorRecord
    BY DEF ActorRecord
  <2>2. Numbered(b) /\ Tracked(b, worker, j, r)
    BY SMTT(60), <1>2 DEF Sound, Numbered, Tracked, ActorRecord, Alive
  <2>3. Clean(b, worker, j, o) /\ Current(b, worker, j) /\ Wished(b, v)
    BY DEF Sound, Clean, Still, NoFrequencyWriter, Current, Wished, Restoring, ActorRecord
  <2>4. Sound(b, worker, j, r, o, v)
    BY <2>1, <2>2, <2>3 DEF Sound
  <2>5. Running(FailReconcileWorker(b))
    BY DEF Running, FailReconcileWorker, ActorRecord
  <2> QED BY <1>2, <2>4, <2>5, HealthSound DEF SubmitFrequency
<1>3. CASE worker # "gone"
  <2> DEFINE c == [kind |-> "reconcile", id |-> a.nextId + 1, config |-> a.config]
             b == [a EXCEPT !.nextId = a.nextId + 1, !.jobs = a.jobs + 1, !.slot = c,
                     !.pending = a.nextId + 1, !.quiesce = 0, !.quiesced = FALSE]
  <2>1. c \in Command /\ c.id = a.nextId + 1 /\ c.config = a.config /\ c.kind = "reconcile"
    BY DEF Command
  <2>2. SubmitFrequency(a) = b
    BY <1>3 DEF SubmitFrequency
  <2> HIDE DEF c
  <2>3. b \in ActorRecord
    BY <2>1 DEF ActorRecord
  <2>4. Numbered(b)
    BY <2>1 DEF ActorRecord, Numbered
  <2>5. Tracked(b, worker, j, r)
    BY SMTT(60), <2>1 DEF ActorRecord, Sound, Tracked, Numbered
  <2>6. Clean(b, worker, j, o) /\ Current(b, worker, j) /\ Wished(b, v) /\ Running(b)
    BY <2>1 DEF ActorRecord, Sound, Clean, Current, Wished, Restoring, Running, Still,
      NoFrequencyWriter
  <2> QED BY <2>2, <2>3, <2>4, <2>5, <2>6 DEF Sound
<1> QED BY <1>2, <1>3

\* A submission to the scheduler lane keeps the actor sound.
LEMMA SubmitSchedulerSound ==
  ASSUME NEW a, NEW j, NEW r, NEW o, NEW v, Sound(a, worker, j, r, o, v), Running(a)
  PROVE  Sound(SubmitScheduler(a), worker, j, r, o, v)
<1>1. Numbers(a, j, r)
  BY SoundNumbers
<1> USE <1>1 DEF Numbers
<1>2. CASE a.sched # "none"
  BY <1>2 DEF SubmitScheduler
<1>3. CASE a.sched = "none"
  <2> DEFINE b == [a EXCEPT !.sched = "gate", !.schedConfig = a.config, !.jobs = a.jobs + 1]
  <2>1. b \in ActorRecord
    BY DEF ActorRecord
  <2>2. Numbered(b) /\ Tracked(b, worker, j, r)
    BY DEF Sound, Numbered, Tracked, ActorRecord
  <2>3. Clean(b, worker, j, o) /\ Current(b, worker, j) /\ Wished(b, v)
    BY DEF Sound, Clean, Still, NoFrequencyWriter, Current, Wished, Restoring, Running, ActorRecord
  <2> QED BY <1>3, <2>1, <2>2, <2>3 DEF Sound, SubmitScheduler
<1> QED BY <1>2, <1>3

\* An evaluation keeps the actor sound, whatever it submits.
LEMMA EvaluateSound ==
  ASSUME NEW a, NEW j, NEW r, NEW o, NEW v, Sound(a, worker, j, r, o, v), NEW b \in Evaluate(a)
  PROVE  Sound(b, worker, j, r, o, v)
<1>1. CASE b = a
  BY <1>1
<1>2. CASE ~Blocked(a) /\ b \in {SubmitFrequency(a), SubmitScheduler(a),
                                 SubmitScheduler(SubmitFrequency(a))}
  <2>1. Running(a)
    BY <1>2 DEF Blocked, Running
  <2>2. Sound(SubmitFrequency(a), worker, j, r, o, v) /\ Running(SubmitFrequency(a))
    BY <2>1, SubmitFrequencySound
  <2> QED BY <1>2, <2>1, <2>2, SubmitSchedulerSound
<1> QED BY <1>1, <1>2 DEF Evaluate

\* The barrier's command takes the place of whatever the worker has not taken.
LEMMA RequestQuiesceSound ==
  ASSUME NEW a, NEW j, NEW r, NEW o, NEW v, Sound(a, worker, j, r, o, v)
  PROVE  LET q == RequestQuiesce(a)
         IN  /\ Sound(q, worker, j, r, o, v)
             /\ q.restore = a.restore /\ q.restoreRequested = a.restoreRequested
<1>1. Numbers(a, j, r)
  BY SoundNumbers
<1> USE <1>1 DEF Numbers
<1>2. CASE a.quiesced \/ a.quiesce # 0
  BY <1>2 DEF RequestQuiesce
<1>3. CASE ~(a.quiesced \/ a.quiesce # 0) /\ worker = "gone"
  <2> DEFINE b == [a EXCEPT !.nextId = a.nextId + 1, !.pending = 0, !.quiesced = TRUE]
  <2>1. b \in ActorRecord
    BY DEF ActorRecord
  <2>2. Numbered(b) /\ Tracked(b, worker, j, r)
    BY SMTT(60), <1>3 DEF Sound, Numbered, Tracked, ActorRecord, Alive
  <2>3. Clean(b, worker, j, o) /\ Current(b, worker, j) /\ Wished(b, v)
    BY DEF Sound, Clean, Still, NoFrequencyWriter, Current, Wished, Restoring, ActorRecord
  <2>4. Sound(b, worker, j, r, o, v)
    BY <2>1, <2>2, <2>3 DEF Sound
  <2>5. /\ FailReconcileWorker(b).restore = a.restore
        /\ FailReconcileWorker(b).restoreRequested = a.restoreRequested
    BY DEF FailReconcileWorker, ActorRecord
  <2>6. RequestQuiesce(a) = FailReconcileWorker(b)
    BY <1>3 DEF RequestQuiesce
  <2> QED BY <2>4, <2>5, <2>6, HealthSound
<1>4. CASE ~(a.quiesced \/ a.quiesce # 0) /\ worker # "gone"
  <2> DEFINE c == [kind |-> "quiesce", id |-> a.nextId + 1, config |-> a.config]
             b == [a EXCEPT !.nextId = a.nextId + 1, !.pending = a.nextId + 1,
                     !.quiesce = a.nextId + 1, !.slot = c]
  <2>1. c \in Command /\ c.id = a.nextId + 1 /\ c.config = a.config /\ c.kind = "quiesce"
    BY DEF Command
  <2>2. RequestQuiesce(a) = b
    BY <1>4 DEF RequestQuiesce
  <2> HIDE DEF c
  <2>3. b \in ActorRecord
    BY <2>1 DEF ActorRecord
  <2>4. Numbered(b)
    BY SMTT(60), <2>1 DEF ActorRecord, Numbered
  <2>5. Tracked(b, worker, j, r)
    BY SMTT(60), <2>1 DEF ActorRecord, Sound, Tracked, Numbered
  <2>6. Clean(b, worker, j, o) /\ Current(b, worker, j) /\ Wished(b, v)
    BY SMTT(60), <2>1 DEF ActorRecord, Sound, Clean, Current, Wished, Restoring, Still, NoFrequencyWriter
  <2>7. b.restore = a.restore /\ b.restoreRequested = a.restoreRequested
    BY DEF ActorRecord
  <2> QED BY <2>2, <2>3, <2>4, <2>5, <2>6, <2>7 DEF Sound
<1> QED BY <1>2, <1>3, <1>4

\* The heart of the barrier: nothing pending and no scheduler task means that
\* no lane can write.
LEMMA QuietIsStill ==
  ASSUME NEW a, NEW w, NEW j, NEW r, NEW o, NEW v, Sound(a, w, j, r, o, v), Quiet(a)
  PROVE  Still(a, w, j)
<1>1. Numbers(a, j, r)
  BY SoundNumbers
<1> QED BY <1>1 DEF Numbers, Sound, Tracked, Quiet, Still, NoFrequencyWriter, Alive

\* Driving the barrier keeps the actor sound.
LEMMA DriveSound ==
  ASSUME NEW a, NEW j, NEW r, NEW o, NEW v, Sound(a, worker, j, r, o, v), NEW b \in Drive(a)
  PROVE  Sound(b, worker, j, r, o, v)
<1>1. CASE a.restore # "none" \/ ~BarrierRequested(a)
  BY <1>1 DEF Drive
<1>2. CASE ~(a.restore # "none" \/ ~BarrierRequested(a))
  <2> DEFINE q == RequestQuiesce(a)
  <2>1. Sound(q, worker, j, r, o, v) /\ q.restore = "none"
    BY <1>2, RequestQuiesceSound
  <2>2. Numbers(q, j, r)
    BY <2>1, SoundNumbers
  <2>3. b \in IF ~Quiet(q) THEN {q} ELSE IF q.restoreRequested THEN {StartRestore(q)}
              ELSE CompleteReload(q)
    BY <1>2 DEF Drive
  <2> HIDE DEF q
  <2> USE <2>2 DEF Numbers
  <2>4. CASE ~Quiet(q)
    BY <2>1, <2>3, <2>4
  <2>5. CASE Quiet(q) /\ q.restoreRequested
    <3> DEFINE s == [q EXCEPT !.restoreRequested = FALSE, !.restore = "gate"]
    <3>1. b = s
      BY <2>3, <2>5 DEF StartRestore
    <3>2. Still(q, worker, j)
      BY <2>1, <2>5, QuietIsStill
    <3>3. s \in ActorRecord
      BY DEF ActorRecord
    <3>4. Numbered(s) /\ Tracked(s, worker, j, r)
      BY <2>1 DEF Sound, Numbered, Tracked, ActorRecord
    <3>5. Clean(s, worker, j, o) /\ Current(s, worker, j) /\ Wished(s, v)
      BY ZenonT(60), <2>1, <2>5, <3>2 DEF Sound, Clean, Still, NoFrequencyWriter, Current, Wished, Restoring,
        ActorRecord
    <3> QED BY <2>1, <3>1, <3>3, <3>4, <3>5 DEF Sound
  <2>6. CASE Quiet(q) /\ ~q.restoreRequested
    <3> DEFINE s == [q EXCEPT !.reload = "none", !.config = q.config + 1]
    <3>1. b \in Evaluate(s)
      BY <2>3, <2>6 DEF CompleteReload
    <3>2. Still(q, worker, j) /\ q.sched = "none"
      BY <2>1, <2>6, QuietIsStill DEF Quiet
    <3>3. s \in ActorRecord
      BY DEF ActorRecord
    <3>4. Numbered(s) /\ Tracked(s, worker, j, r)
      BY <2>1 DEF Sound, Numbered, Tracked, ActorRecord
    <3>5. Clean(s, worker, j, o)
      BY ZenonT(60), <2>1 DEF Sound, Clean, Still, NoFrequencyWriter, ActorRecord
    <3>6. Wished(s, v)
      BY <2>1 DEF Sound, Wished, Restoring, ActorRecord
    <3>7. Current(s, worker, j)
      BY <3>2 DEF Still, NoFrequencyWriter, Current, ActorRecord
    <3>8. Sound(s, worker, j, r, o, v)
      BY <2>1, <3>3, <3>4, <3>5, <3>6, <3>7 DEF Sound
    <3> QED BY <3>1, <3>8, EvaluateSound
  <2> QED BY <2>4, <2>5, <2>6
<1> QED BY <1>1, <1>2

\* The end of a transition of the worker keeps the actor sound.
LEMMA FinishWorkerTransitionSound ==
  ASSUME NEW a, NEW j, NEW r, NEW o, NEW v, Sound(a, worker, j, r, o, v),
         NEW b \in FinishWorkerTransition(a)
  PROVE  Sound(b, worker, j, r, o, v)
<1>1. Sound(RefreshActuatorHealth(a), worker, j, r, o, v)
  BY HealthSound
<1>2. b \in Drive(RefreshActuatorHealth(a)) \cup Evaluate(RefreshActuatorHealth(a))
  BY DEF FinishWorkerTransition
<1> QED BY <1>1, <1>2, DriveSound, EvaluateSound

-----------------------------------------------------------------------------
(* What the handlers preserve.                                              *)

\* Reload and control flags, and a closed control plane, disturb no barrier.
LEMMA FlagsSound ==
  ASSUME NEW a, NEW w, NEW j, NEW r, NEW o, NEW v, Sound(a, w, j, r, o, v)
  PROVE  /\ \A x \in {"none", "loading", "pending"} : Sound([a EXCEPT !.reload = x], w, j, r, o, v)
         /\ \A x \in SUBSET {"persist", "identity"} : Sound([a EXCEPT !.control = x], w, j, r, o, v)
         /\ Sound([a EXCEPT !.accepting = FALSE], w, j, r, o, v)
<1>1. a \in ActorRecord
  BY DEF Sound
<1>2. ASSUME NEW x \in {"none", "loading", "pending"}
      PROVE  Sound([a EXCEPT !.reload = x], w, j, r, o, v)
  <2> DEFINE b == [a EXCEPT !.reload = x]
  <2>1. b \in ActorRecord
    BY <1>1 DEF ActorRecord
  <2>2. Numbered(b) /\ Tracked(b, w, j, r)
    BY <1>1 DEF Sound, Numbered, Tracked, ActorRecord
  <2>3. Clean(b, w, j, o) /\ Current(b, w, j)
    BY <1>1 DEF Sound, Clean, Still, NoFrequencyWriter, Current, ActorRecord
  <2>4. Wished(b, v)
    BY <1>1 DEF Sound, Wished, Restoring, ActorRecord
  <2> QED BY <2>1, <2>2, <2>3, <2>4 DEF Sound
<1>3. ASSUME NEW x \in SUBSET {"persist", "identity"}
      PROVE  Sound([a EXCEPT !.control = x], w, j, r, o, v)
  <2> DEFINE b == [a EXCEPT !.control = x]
  <2>1. b \in ActorRecord
    BY <1>1 DEF ActorRecord
  <2>2. Numbered(b) /\ Tracked(b, w, j, r)
    BY <1>1 DEF Sound, Numbered, Tracked, ActorRecord
  <2>3. Clean(b, w, j, o) /\ Current(b, w, j)
    BY <1>1 DEF Sound, Clean, Still, NoFrequencyWriter, Current, ActorRecord
  <2>4. Wished(b, v)
    BY <1>1 DEF Sound, Wished, Restoring, ActorRecord
  <2> QED BY <2>1, <2>2, <2>3, <2>4 DEF Sound
<1>4. Sound([a EXCEPT !.accepting = FALSE], w, j, r, o, v)
  <2> DEFINE b == [a EXCEPT !.accepting = FALSE]
  <2>1. b \in ActorRecord
    BY <1>1 DEF ActorRecord
  <2>2. Numbered(b) /\ Tracked(b, w, j, r)
    BY <1>1 DEF Sound, Numbered, Tracked, ActorRecord
  <2>3. Clean(b, w, j, o) /\ Current(b, w, j)
    BY <1>1 DEF Sound, Clean, Still, NoFrequencyWriter, Current, ActorRecord
  <2>4. Wished(b, v)
    BY <1>1 DEF Wished, ActorRecord
  <2> QED BY <2>1, <2>2, <2>3, <2>4 DEF Sound
<1> QED BY <1>2, <1>3, <1>4

\* The fields the worker's side of the invariant reads are those of a.
SameWork(a, b) ==
  /\ b.nextId = a.nextId /\ b.pending = a.pending /\ b.quiesce = a.quiesce /\ b.slot = a.slot
  /\ b.sched = a.sched /\ b.schedConfig = a.schedConfig /\ b.config = a.config

\* An actor with the same work in flight is as sound, if it is clean and wishes what it should.
LEMMA SameWorkSound ==
  ASSUME NEW a, NEW b \in ActorRecord, NEW w, NEW j, NEW r, NEW o, NEW v, NEW u,
         Sound(a, w, j, r, o, v), SameWork(a, b), Clean(b, w, j, o), Wished(b, u)
  PROVE  Sound(b, w, j, r, o, u)
BY DEF Sound, SameWork, Numbered, Tracked, Current

\* A sleep request: the machine is to sleep, whatever it was asked before.
LEMMA SleepRestoreSound ==
  ASSUME NEW a, NEW j, NEW r, NEW o, NEW v, Sound(a, worker, j, r, o, v),
         NEW b \in SleepRestore(a)
  PROVE  Sound(b, worker, j, r, o, "sleep")
<1>1. a \in ActorRecord /\ Clean(a, worker, j, o) /\ Wished(a, v)
  BY DEF Sound
<1>2. CASE a.stoppers
  <2>1. b = a
    BY <1>2 DEF SleepRestore
  <2>2. SameWork(a, a) /\ Wished(a, "sleep")
    BY <1>1, <1>2 DEF SameWork, Wished
  <2> QED BY <1>1, <2>1, <2>2, SameWorkSound
<1>3. CASE ~a.stoppers /\ a.suspended
  <2>1. \E s \in BOOLEAN : b = [a EXCEPT !.pendingResume = FALSE, !.sleepers = s]
    <3>1. a.sleepers \in BOOLEAN /\ a.restored \in BOOLEAN
      BY <1>1 DEF ActorRecord
    <3>2. CASE a.failed
      <4>1. b = [a EXCEPT !.pendingResume = FALSE]
        BY <1>3, <3>2 DEF SleepRestore
      <4>2. b = [a EXCEPT !.pendingResume = FALSE, !.sleepers = a.sleepers]
        BY <1>1, <4>1 DEF ActorRecord
      <4> QED BY <3>1, <4>2
    <3>3. CASE ~a.failed
      <4>1. b = [a EXCEPT !.pendingResume = FALSE, !.sleepers = a.sleepers \/ ~a.restored]
        BY <1>1, <1>3, <3>3 DEF SleepRestore, ActorRecord
      <4> QED BY <3>1, <4>1
    <3> QED BY <3>2, <3>3
  <2>2. PICK s \in BOOLEAN : b = [a EXCEPT !.pendingResume = FALSE, !.sleepers = s]
    BY <2>1
  <2>3. b \in ActorRecord /\ SameWork(a, b)
    BY ZenonT(60), <1>1, <2>2 DEF ActorRecord, SameWork
  <2>4. Clean(b, worker, j, o)
    BY <1>1, <2>2 DEF ActorRecord, Clean, Still, NoFrequencyWriter
  <2>5. Wished(b, "sleep")
    BY <1>1, <1>3, <2>2 DEF ActorRecord, Wished, Restoring
  <2> QED BY <2>3, <2>4, <2>5, SameWorkSound
<1>4. CASE ~a.stoppers /\ ~a.suspended /\ a.failed
  <2>1. b = [a EXCEPT !.pendingResume = FALSE, !.suspended = TRUE, !.restored = FALSE]
    BY <1>1, <1>4 DEF SleepRestore, EnterSuspended, ActorRecord
  <2>2. b \in ActorRecord /\ SameWork(a, b)
    BY ZenonT(60), <1>1, <2>1 DEF ActorRecord, SameWork
  <2>3. Clean(b, worker, j, o)
    BY <1>1, <2>1 DEF ActorRecord, Clean, Still, NoFrequencyWriter
  <2>4. Wished(b, "sleep")
    BY <1>1, <1>4, <2>1 DEF ActorRecord, Wished, Restoring
  <2> QED BY <2>2, <2>3, <2>4, SameWorkSound
<1>5. CASE ~a.stoppers /\ ~a.suspended /\ ~a.failed
  <2> DEFINE c == [a EXCEPT !.pendingResume = FALSE, !.suspended = TRUE, !.restored = FALSE,
                            !.sleepers = TRUE, !.restoreRequested = TRUE]
  <2>1. b \in Drive(c)
    BY <1>1, <1>5 DEF SleepRestore, EnterSuspended, ActorRecord
  <2>2. c \in ActorRecord /\ SameWork(a, c)
    BY ZenonT(60), <1>1 DEF ActorRecord, SameWork
  <2>3. Clean(c, worker, j, o)
    BY <1>1 DEF ActorRecord, Clean, Still, NoFrequencyWriter
  <2>4. Wished(c, "sleep")
    BY <1>1, <1>5 DEF ActorRecord, Wished, Restoring
  <2>5. Sound(c, worker, j, r, o, "sleep")
    BY <2>2, <2>3, <2>4, SameWorkSound
  <2> QED BY <2>1, <2>5, DriveSound
<1> QED BY <1>2, <1>3, <1>4, <1>5

\* A wake request: at once, or after the restore that runs.
LEMMA ResumeSound ==
  ASSUME NEW a, NEW j, NEW r, NEW o, NEW v, Sound(a, worker, j, r, o, v),
         NEW b \in Resume(a)
  PROVE  Sound(b, worker, j, r, o, "wake")
<1>1. a \in ActorRecord /\ Clean(a, worker, j, o) /\ Wished(a, v)
  BY DEF Sound
<1>2. CASE a.stoppers \/ ~a.accepting \/ ~a.suspended
  <2>1. b = a
    BY <1>2 DEF Resume
  <2>2. SameWork(a, a) /\ Wished(a, "wake")
    BY <1>1, <1>2 DEF SameWork, Wished
  <2> QED BY <1>1, <2>1, <2>2, SameWorkSound
<1>3. CASE ~(a.stoppers \/ ~a.accepting \/ ~a.suspended) /\ Restoring(a)
  <2>1. b = [a EXCEPT !.pendingResume = TRUE]
    BY <1>3 DEF Resume, Restoring
  <2>2. b \in ActorRecord /\ SameWork(a, b)
    BY <1>1, <2>1 DEF ActorRecord, SameWork
  <2>3. Clean(b, worker, j, o)
    BY <1>1, <2>1 DEF ActorRecord, Clean, Still, NoFrequencyWriter
  <2>4. Wished(b, "wake")
    BY <1>1, <1>3, <2>1 DEF ActorRecord, Wished, Restoring
  <2> QED BY <2>2, <2>3, <2>4, SameWorkSound
<1>4. CASE ~(a.stoppers \/ ~a.accepting \/ ~a.suspended) /\ ~Restoring(a)
  <2> DEFINE c == [a EXCEPT !.suspended = FALSE, !.restored = FALSE]
  <2>1. b \in Evaluate(c)
    BY <1>4 DEF Resume, ResumeFromSleep, Restoring
  <2>2. c \in ActorRecord /\ SameWork(a, c)
    BY <1>1 DEF ActorRecord, SameWork
  <2>3. Clean(c, worker, j, o)
    BY <1>1 DEF ActorRecord, Clean, Still, NoFrequencyWriter
  <2>4. Wished(c, "wake")
    BY <1>1, <1>4 DEF ActorRecord, Wished, Restoring
  <2>5. Sound(c, worker, j, r, o, "wake")
    BY <2>2, <2>3, <2>4, SameWorkSound
  <2> QED BY <2>1, <2>5, EvaluateSound
<1> QED BY <1>2, <1>3, <1>4

\* A stop: at once where nothing is left to restore, or by a restore of its own.
LEMMA StopSound ==
  ASSUME NEW a, NEW j, NEW r, NEW o, NEW v, Sound(a, worker, j, r, o, v), NEW b \in Stop(a)
  PROVE  Sound(b, worker, j, r, o, v)
<1>1. a \in ActorRecord /\ Clean(a, worker, j, o)
  BY DEF Sound
<1>2. CASE a.failed \/ (a.suspended /\ a.restored)
  <2>1. b = [a EXCEPT !.accepting = FALSE, !.pendingResume = FALSE, !.stop = TRUE]
    BY <1>1, <1>2 DEF Stop, ActorRecord
  <2>2. b \in ActorRecord /\ SameWork(a, b) /\ Wished(b, v)
    BY ZenonT(60), <1>1, <2>1 DEF ActorRecord, SameWork, Wished
  <2>3. Clean(b, worker, j, o)
    BY <1>1, <1>2, <2>1 DEF ActorRecord, Clean, Still, NoFrequencyWriter
  <2> QED BY <2>2, <2>3, SameWorkSound
<1>3. CASE ~(a.failed \/ (a.suspended /\ a.restored))
  <2> DEFINE rr == a.restoreRequested \/ a.restore = "none"
  <2>1. PICK c \in ActorRecord :
          /\ b \in Drive(c) /\ SameWork(a, c) /\ ~c.accepting
          /\ c.restore = a.restore /\ c.stop = a.stop /\ c.failed = a.failed
          /\ ~(c.suspended /\ c.restored)
    <3>1. CASE a.suspended
      <4> DEFINE c == [a EXCEPT !.accepting = FALSE, !.pendingResume = FALSE, !.stoppers = TRUE,
                                !.restoreRequested = rr]
      <4>1. b \in Drive(c)
        BY <1>1, <1>3, <3>1 DEF Stop, ActorRecord
      <4>2. c \in ActorRecord
        BY ZenonT(60), <1>1 DEF ActorRecord
      <4>3. /\ SameWork(a, c) /\ ~c.accepting /\ c.restore = a.restore /\ c.stop = a.stop
            /\ c.failed = a.failed /\ ~(c.suspended /\ c.restored)
        BY <1>1, <1>3, <3>1 DEF ActorRecord, SameWork
      <4> QED BY <4>1, <4>2, <4>3
    <3>2. CASE ~a.suspended
      <4> DEFINE c == [a EXCEPT !.accepting = FALSE, !.pendingResume = FALSE, !.suspended = TRUE,
                                !.restored = FALSE, !.stoppers = TRUE, !.restoreRequested = rr]
      <4>1. b \in Drive(c)
        BY <1>1, <1>3, <3>2 DEF Stop, ActorRecord, EnterSuspended
      <4>2. c \in ActorRecord
        BY ZenonT(60), <1>1 DEF ActorRecord
      <4>3. /\ SameWork(a, c) /\ ~c.accepting /\ c.restore = a.restore /\ c.stop = a.stop
            /\ c.failed = a.failed /\ ~(c.suspended /\ c.restored)
        BY <1>1, <1>3, <3>2 DEF ActorRecord, SameWork
      <4> QED BY <4>1, <4>2, <4>3
    <3> QED BY <3>1, <3>2
  <2>2. Clean(c, worker, j, o) /\ Wished(c, v)
    BY <1>1, <2>1 DEF Clean, Still, NoFrequencyWriter, SameWork, Wished
  <2>3. Sound(c, worker, j, r, o, v)
    BY <2>1, <2>2, SameWorkSound
  <2> QED BY <2>1, <2>3, DriveSound
<1> QED BY <1>2, <1>3

\* The end of a restore: a stop, else the wake request that came meanwhile, else
\* the next barrier.
LEMMA FinishRestoreSound ==
  ASSUME NEW a, NEW j, NEW r, NEW o, NEW v \in {"sleep", "wake"}, Sound(a, worker, j, r, o, v),
         a.restore \in {"ok", "err"}, NEW b \in FinishRestore(a, a.restore = "ok")
  PROVE  Sound(b, worker, j, r, o, v)
<1> DEFINE ok == a.restore = "ok"
           d == [a EXCEPT !.restore = "none", !.restored = ok, !.failed = ~ok, !.sleepers = FALSE]
           h == degraded \/ d.failed \/ d.workerFailed
           e == [d EXCEPT !.readOnly = h]
<1>1. a \in ActorRecord /\ Clean(a, worker, j, o) /\ Wished(a, v)
  BY DEF Sound
<1>2. d \in ActorRecord
  BY ZenonT(60), <1>1 DEF ActorRecord
<1>3. e \in ActorRecord
  <2>1. h \in BOOLEAN
    OBVIOUS
  <2> HIDE DEF d, h
  <2> QED BY <1>2, <2>1 DEF ActorRecord
<1>4. e = RefreshActuatorHealth(d)
  BY DEF RefreshActuatorHealth
<1>5. /\ e.stoppers = a.stoppers /\ e.pendingResume = a.pendingResume /\ e.accepting = a.accepting
      /\ e.suspended = a.suspended /\ e.restoreRequested = a.restoreRequested /\ e.stop = a.stop
      /\ e.restore = "none" /\ e.restored = ok /\ e.failed = ~ok /\ SameWork(a, e)
  <2> HIDE DEF h
  <2> QED BY <1>1 DEF ActorRecord, SameWork
<1>6. ok => o = {} /\ Still(a, worker, j)
  BY <1>1 DEF Clean
<1>7. b \in IF e.stoppers
            THEN {[e EXCEPT !.pendingResume = FALSE, !.stop = TRUE, !.stoppers = FALSE]}
            ELSE IF e.pendingResume
            THEN UNION {Drive(c) : c \in ResumeFromSleep([e EXCEPT !.pendingResume = FALSE])}
            ELSE Drive(e)
  BY <1>4 DEF FinishRestore
<1> HIDE DEF e, d, h, ok
<1>8. Clean(e, worker, j, o)
  BY <1>5, <1>6 DEF Clean, Still, NoFrequencyWriter, SameWork
<1>9. CASE e.stoppers
  <2>1. b = [e EXCEPT !.pendingResume = FALSE, !.stop = TRUE, !.stoppers = FALSE]
    BY <1>7, <1>9
  <2>2. b \in ActorRecord /\ SameWork(a, b) /\ ~b.accepting
    <3>1. b \in ActorRecord
      BY ZenonT(60), <1>3, <2>1 DEF ActorRecord
    <3>2. SameWork(e, b) /\ b.accepting = e.accepting
      BY <1>3, <2>1 DEF ActorRecord, SameWork
    <3> QED BY <1>1, <1>5, <1>9, <3>1, <3>2 DEF SameWork, Wished
  <2>3. /\ b.restore = "none" /\ b.suspended = e.suspended /\ b.restored = e.restored
        /\ b.failed = e.failed /\ b.slot = e.slot /\ b.sched = e.sched
    BY <1>3, <1>5, <2>1 DEF ActorRecord
  <2>4. Clean(b, worker, j, o)
    BY <1>5, <1>6, <2>3 DEF Clean, Still, NoFrequencyWriter, SameWork
  <2>5. Wished(b, v)
    BY <2>2 DEF Wished
  <2> QED BY <2>2, <2>4, <2>5, SameWorkSound
<1>10. CASE ~e.stoppers /\ e.pendingResume
  <2> DEFINE f == [e EXCEPT !.pendingResume = FALSE, !.suspended = FALSE, !.restored = FALSE]
  <2>1. PICK c \in Evaluate(f) : b \in Drive(c)
    <3>1. ResumeFromSleep([e EXCEPT !.pendingResume = FALSE]) = Evaluate(f)
      BY <1>3 DEF ResumeFromSleep, ActorRecord
    <3> QED BY <1>7, <1>10, <3>1
  <2>2. f \in ActorRecord /\ SameWork(a, f)
    BY ZenonT(60), <1>3, <1>5 DEF ActorRecord, SameWork
  <2>3. Clean(f, worker, j, o)
    BY <1>3, <1>8 DEF ActorRecord, Clean, Still, NoFrequencyWriter
  <2>4. Wished(f, v)
    BY <1>1, <1>3, <1>5, <1>10 DEF ActorRecord, Wished, Restoring
  <2>5. Sound(f, worker, j, r, o, v)
    BY <2>2, <2>3, <2>4, SameWorkSound
  <2> HIDE DEF f
  <2> QED BY <2>1, <2>5, EvaluateSound, DriveSound
<1>11. CASE ~e.stoppers /\ ~e.pendingResume
  <2>1. Wished(e, v)
    BY <1>1, <1>5, <1>11 DEF Wished, Restoring
  <2>2. Sound(e, worker, j, r, o, v)
    BY <1>3, <1>5, <1>8, <2>1, SameWorkSound
  <2> QED BY <1>7, <1>11, <2>2, DriveSound
<1> QED BY <1>9, <1>10, <1>11

\* The oldest answer of the frequency worker.
LEMMA HeadOfResults ==
  ASSUME NEW a, NEW w, NEW j, NEW r, NEW o, NEW v, Sound(a, w, j, r, o, v), r # << >>
  PROVE  /\ Sound(a, w, j, Tail(r), o, v)
         /\ Head(r) \in Event
         /\ Head(r).kind = "failed" => ~Alive(w)
         /\ Alive(w) /\ a.slot.kind # "none" => Head(r).id < a.slot.id
         /\ j.kind = "reconcile" => Head(r).id < j.id
<1>1. r \in Seq(Event) /\ Tracked(a, w, j, r)
  BY DEF Sound
<1>2. Tail(r) \in Seq(Event) /\ Head(r) = r[1] /\ Head(r) \in Event /\ 1 \in 1 .. Len(r)
  BY <1>1
<1>3. \A i \in 1 .. Len(Tail(r)) : Tail(r)[i] = r[i + 1] /\ i + 1 \in 1 .. Len(r)
  BY <1>1
<1>4. Tracked(a, w, j, Tail(r))
  BY <1>1, <1>3 DEF Tracked
<1> QED BY <1>1, <1>2, <1>4 DEF Sound, Tracked

\* An answer that ends the pending number finds the worker with nothing newer.
LEMMA AnswerSound ==
  ASSUME NEW a, NEW j, NEW t, NEW o, NEW v, Sound(a, worker, j, t, o, v),
         NEW e \in Event, e.kind = "failed" => ~Alive(worker),
         Alive(worker) /\ a.slot.kind # "none" => e.id < a.slot.id,
         j.kind = "reconcile" => e.id < j.id,
         NEW b \in FrequencyEvent(a, e)
  PROVE  Sound(b, worker, j, t, o, v)
<1>1. Numbers(a, j, t) /\ e.id \in Nat
  BY SoundNumbers DEF Event
<1>2. ASSUME NEW q \in Nat, NEW qd \in BOOLEAN, q <= a.nextId, e.id = a.pending \/ e.kind = "failed"
      PROVE  Sound([a EXCEPT !.pending = 0, !.quiesce = q, !.quiesced = qd], worker, j, t, o, v)
  <2> DEFINE c == [a EXCEPT !.pending = 0, !.quiesce = q, !.quiesced = qd]
  <2> USE <1>1 DEF Numbers
  <2>1. c \in ActorRecord
    BY DEF ActorRecord
  <2>2. Alive(worker) => a.slot.kind = "none"
    BY <1>2 DEF Sound, Tracked
  <2>3. j.kind # "reconcile"
    <3>1. CASE e.id = a.pending
      BY <3>1 DEF Sound, Tracked
    <3>2. CASE e.kind = "failed"
      BY <3>2 DEF Sound, Tracked, Alive
    <3> QED BY <1>2, <3>1, <3>2
  <2>4. Numbered(c)
    BY <1>2 DEF Sound, Numbered, ActorRecord
  <2>5. Tracked(c, worker, j, t)
    BY <2>2, <2>3 DEF Sound, Tracked, ActorRecord
  <2>6. Clean(c, worker, j, o) /\ Current(c, worker, j)
    BY SMTT(60) DEF Sound, Clean, Still, NoFrequencyWriter, Current, ActorRecord
  <2>7. Wished(c, v)
    BY DEF Sound, Wished, Restoring, ActorRecord
  <2> QED BY <2>1, <2>4, <2>5, <2>6, <2>7 DEF Sound
<1>3. CASE e.kind = "reconcile" /\ e.id <= a.pending
  <2> DEFINE c == [a EXCEPT !.pending = IF a.pending = e.id THEN 0 ELSE a.pending]
  <2>1. b \in FinishWorkerTransition(c)
    BY <1>3 DEF FrequencyEvent
  <2>2. Sound(c, worker, j, t, o, v)
    <3>1. CASE a.pending = e.id
      <4>1. a.quiesce \in Nat /\ a.quiesced \in BOOLEAN /\ a.quiesce <= a.nextId
        BY <1>1 DEF ActorRecord, Numbers, Sound, Numbered
      <4>2. c = [a EXCEPT !.pending = 0, !.quiesce = a.quiesce, !.quiesced = a.quiesced]
        BY <1>1, <3>1 DEF ActorRecord, Numbers
      <4> QED BY <1>2, <3>1, <4>1, <4>2
    <3>2. CASE a.pending # e.id
      <4>1. c = a
        BY <1>1, <3>2 DEF ActorRecord, Numbers
      <4> QED BY <4>1
    <3> QED BY <3>1, <3>2
  <2> HIDE DEF c
  <2> QED BY <2>1, <2>2, FinishWorkerTransitionSound
<1>4. CASE e.kind = "quiesce" /\ e.id = a.pending /\ e.id = a.quiesce
  <2> DEFINE c == [a EXCEPT !.pending = 0, !.quiesce = 0, !.quiesced = TRUE]
  <2>1. b \in FinishWorkerTransition(c)
    BY <1>4 DEF FrequencyEvent
  <2>2. 0 <= a.nextId
    BY <1>1 DEF Numbers
  <2>3. Sound(c, worker, j, t, o, v)
    BY <1>2, <1>4, <2>2
  <2> HIDE DEF c
  <2> QED BY <2>1, <2>3, FinishWorkerTransitionSound
<1>5. CASE e.kind = "failed"
  <2> DEFINE c == [a EXCEPT !.pending = 0, !.quiesce = 0, !.quiesced = TRUE]
  <2>1. b \in FinishWorkerTransition(FailReconcileWorker(c))
    BY <1>5 DEF FrequencyEvent
  <2>2. 0 <= a.nextId
    BY <1>1 DEF Numbers
  <2>3. Sound(c, worker, j, t, o, v)
    BY <1>2, <1>5, <2>2
  <2> HIDE DEF c
  <2>4. Sound(FailReconcileWorker(c), worker, j, t, o, v)
    BY <2>3, HealthSound
  <2> QED BY <2>1, <2>4, FinishWorkerTransitionSound
<1>6. CASE /\ ~(e.kind = "reconcile" /\ e.id <= a.pending)
           /\ ~(e.kind = "quiesce" /\ e.id = a.pending /\ e.id = a.quiesce)
           /\ e.kind # "failed"
  <2>1. b = FailReconcileWorker(a)
    BY <1>6 DEF FrequencyEvent
  <2> QED BY <2>1, HealthSound
<1> QED BY <1>3, <1>4, <1>5, <1>6

-----------------------------------------------------------------------------
(* The inductive invariant and the theorems.                                *)

\* The daemon starts in the invariant.
LEMMA InitSound == Init => IInv
<1> SUFFICES ASSUME Init PROVE IInv
  OBVIOUS
<1>1. actor \in ActorRecord /\ job \in Command /\ results \in Seq(Event)
  BY DEF Init, ActorRecord, Command, NoCommand
<1>2. Numbered(actor) /\ Tracked(actor, worker, job, results)
  BY DEF Init, Numbered, Tracked, NoCommand, Alive
<1>3. Clean(actor, worker, job, owned) /\ Current(actor, worker, job) /\ Wished(actor, wish)
  BY DEF Init, Clean, Current, Wished, Restoring, NoCommand
<1>4. Surroundings
  BY DEF Init, Surroundings, Lane
<1> QED BY <1>1, <1>2, <1>3, <1>4 DEF IInv, Sound

\* Every step of the state task: the handlers above, one after the other.
ActorStep ==
  \/ Reduce \/ StartReload \/ BeginShutdown \/ StopAttempt
  \/ \E sleeping \in BOOLEAN : PrepareForSleep(sleeping)
  \/ \E kind \in {"persist", "identity"} : StartControl(kind) \/ FinishControl(kind)
  \/ ReceiveReload \/ FinishFrequencyWorker \/ FinishSchedulerWorker \/ FinishRestoreWorker

\* Every step of the actor keeps the invariant.
LEMMA ActorStepSound == IInv /\ ActorStep => IInv'
<1> SUFFICES ASSUME IInv, ActorStep PROVE IInv'
  OBVIOUS
<1>1. Sound(actor, worker, job, results, owned, wish) /\ Surroundings /\ actor \in ActorRecord
  BY DEF IInv, Sound
<1> USE <1>1
<1>2. UNCHANGED <<worker, job, gate, poisoned, owned, degraded>>
  BY DEF ActorStep, Reduce, StartReload, BeginShutdown, StopAttempt, PrepareForSleep, StartControl,
    FinishControl, ReceiveReload, FinishFrequencyWorker, FinishSchedulerWorker, FinishRestoreWorker,
    Rest, threadVars, gateVars, actuatorVars
<1>3. ASSUME Sound(actor', worker, job, results', owned, wish'), wish' \in {"sleep", "wake"}
      PROVE  IInv'
  BY <1>2, <1>3 DEF IInv, Surroundings
<1>4. CASE Reduce
  <2>1. actor' \in Evaluate(actor) /\ results' = results /\ wish' = wish
    BY <1>4 DEF Reduce, Take, Rest, threadVars, boundVars
  <2> QED BY <1>3, <2>1, EvaluateSound DEF Surroundings
<1>5. CASE StartReload
  <2>1. actor' = [actor EXCEPT !.reload = "loading"] /\ results' = results /\ wish' = wish
    BY <1>5 DEF StartReload, Take, Rest, threadVars
  <2> QED BY <1>3, <2>1, FlagsSound DEF Surroundings
<1>6. CASE BeginShutdown
  <2>1. actor' = [actor EXCEPT !.accepting = FALSE] /\ results' = results /\ wish' = wish
    BY <1>6 DEF BeginShutdown, Take, Rest, threadVars, boundVars
  <2> QED BY <1>3, <2>1, FlagsSound DEF Surroundings
<1>7. CASE StopAttempt
  <2>1. actor' \in Stop(actor) /\ results' = results /\ wish' = wish
    BY <1>7 DEF StopAttempt, Take, Rest, threadVars, boundVars
  <2> QED BY <1>3, <2>1, StopSound DEF Surroundings
<1>8. ASSUME NEW sleeping \in BOOLEAN, PrepareForSleep(sleeping) PROVE IInv'
  <2>1. CASE sleeping
    <3>1. actor' \in SleepRestore(actor) /\ results' = results /\ wish' = "sleep"
      BY <1>8, <2>1 DEF PrepareForSleep, Take, Rest, threadVars
    <3> QED BY <1>3, <3>1, SleepRestoreSound
  <2>2. CASE ~sleeping
    <3>1. actor' \in Resume(actor) /\ results' = results /\ wish' = "wake"
      BY <1>8, <2>2 DEF PrepareForSleep, Take, Rest, threadVars
    <3> QED BY <1>3, <3>1, ResumeSound
  <2> QED BY <2>1, <2>2
<1>9. ASSUME NEW kind \in {"persist", "identity"}, StartControl(kind) PROVE IInv'
  <2>1. /\ actor' = [actor EXCEPT !.control = actor.control \cup {kind}]
        /\ results' = results /\ wish' = wish
    BY <1>9 DEF StartControl, Take, Rest, threadVars
  <2>2. actor.control \cup {kind} \in SUBSET {"persist", "identity"}
    BY DEF ActorRecord
  <2> QED BY <1>3, <2>1, <2>2, FlagsSound DEF Surroundings
<1>10. ASSUME NEW kind \in {"persist", "identity"}, FinishControl(kind) PROVE IInv'
  <2> DEFINE c == [actor EXCEPT !.control = actor.control \ {kind}]
  <2>1. actor' \in Evaluate(c) /\ results' = results /\ wish' = wish
    BY <1>10 DEF FinishControl, Take, Rest, threadVars, boundVars
  <2>2. actor.control \ {kind} \in SUBSET {"persist", "identity"}
    BY DEF ActorRecord
  <2>3. Sound(c, worker, job, results, owned, wish)
    BY <2>2, FlagsSound
  <2> HIDE DEF c
  <2> QED BY <1>3, <2>1, <2>3, EvaluateSound DEF Surroundings
<1>11. CASE ReceiveReload
  <2>1. /\ actor' = [actor EXCEPT !.reload = "none"] \/ actor' \in Drive([actor EXCEPT !.reload = "pending"])
        /\ results' = results /\ wish' = wish
    BY <1>11 DEF ReceiveReload, Take, Rest, threadVars, boundVars
  <2>2. /\ Sound([actor EXCEPT !.reload = "none"], worker, job, results, owned, wish)
        /\ Sound([actor EXCEPT !.reload = "pending"], worker, job, results, owned, wish)
    BY FlagsSound
  <2> QED BY <1>3, <2>1, <2>2, DriveSound DEF Surroundings
<1>12. CASE FinishFrequencyWorker
  <2>1. /\ actor' \in FrequencyEvent(actor, Head(results)) /\ results # << >>
        /\ results' = Tail(results) /\ wish' = wish
    BY <1>12 DEF FinishFrequencyWorker, Take, boundVars
  <2>2. Sound(actor', worker, job, Tail(results), owned, wish)
    BY <2>1, HeadOfResults, AnswerSound
  <2> QED BY <1>3, <2>1, <2>2 DEF Surroundings
<1>13. CASE FinishSchedulerWorker
  <2> DEFINE c == [actor EXCEPT !.sched = "none"]
             d == IF actor.sched = "ok" THEN c ELSE FailReconcileWorker(c)
  <2>1. actor' \in FinishWorkerTransition(d) /\ results' = results /\ wish' = wish
    BY <1>13 DEF FinishSchedulerWorker, Take, Rest, threadVars, boundVars
  <2>2. c \in ActorRecord
    BY DEF ActorRecord
  <2>3. Numbered(c) /\ Tracked(c, worker, job, results)
    BY DEF Sound, Numbered, Tracked, ActorRecord
  <2>4. Clean(c, worker, job, owned) /\ Current(c, worker, job)
    BY DEF Sound, Clean, Still, NoFrequencyWriter, Current, ActorRecord
  <2>5. Wished(c, wish)
    BY DEF Sound, Wished, Restoring, ActorRecord
  <2>6. Sound(c, worker, job, results, owned, wish)
    BY <2>2, <2>3, <2>4, <2>5 DEF Sound
  <2> HIDE DEF c
  <2>7. Sound(d, worker, job, results, owned, wish)
    BY <2>6, HealthSound
  <2> HIDE DEF d
  <2> QED BY <1>3, <2>1, <2>7, FinishWorkerTransitionSound DEF Surroundings
<1>14. CASE FinishRestoreWorker
  <2>1. /\ actor' \in FinishRestore(actor, actor.restore = "ok") /\ actor.restore \in {"ok", "err"}
        /\ results' = results /\ wish' = wish
    BY <1>14 DEF FinishRestoreWorker, Take, Rest, threadVars, boundVars
  <2> QED BY <1>3, <2>1, FinishRestoreSound DEF Surroundings
<1> QED BY <1>4, <1>5, <1>6, <1>7, <1>8, <1>9, <1>10, <1>11, <1>12, <1>13, <1>14 DEF ActorStep

\* An answer joins the results behind the others.
LEMMA AppendedResults ==
  ASSUME NEW r \in Seq(Event), NEW e \in Event
  PROVE  /\ Append(r, e) \in Seq(Event)
         /\ \A i \in 1 .. Len(Append(r, e)) :
              \/ i \in 1 .. Len(r) /\ Append(r, e)[i] = r[i]
              \/ Append(r, e)[i] = e
OBVIOUS

\* Every step of the frequency worker keeps the invariant.
LEMMA WorkerStepSound ==
  IInv /\ (WorkerTake \/ WorkerLock \/ WorkerDone \/ WorkerPanic \/ WorkerExit) => IInv'
<1> SUFFICES ASSUME IInv, WorkerTake \/ WorkerLock \/ WorkerDone \/ WorkerPanic \/ WorkerExit
             PROVE  IInv'
  OBVIOUS
<1>1. /\ actor \in ActorRecord /\ job \in Command /\ results \in Seq(Event)
      /\ Numbered(actor) /\ Tracked(actor, worker, job, results) /\ Clean(actor, worker, job, owned)
      /\ Current(actor, worker, job) /\ Wished(actor, wish) /\ Surroundings
  BY DEF IInv, Sound
<1>2. Numbers(actor, job, results)
  BY SoundNumbers DEF IInv
<1>3. NoCommand \in Command /\ NoCommand.kind = "none" /\ NoCommand.id = 0
  BY DEF Command, NoCommand
<1> USE <1>1, <1>2 DEF Numbers
<1>4. CASE WorkerTake /\ actor.slot.kind = "quiesce"
  <2> DEFINE e == [kind |-> "quiesce", id |-> actor.slot.id]
  <2>1. /\ actor' = [actor EXCEPT !.slot = NoCommand] /\ worker = "idle" /\ results' = Append(results, e)
        /\ UNCHANGED <<worker, job, gate, poisoned, owned, degraded, wish>>
    BY <1>4 DEF WorkerTake, Send, gateVars, actuatorVars, boundVars
  <2>2. e \in Event /\ e.id = actor.slot.id /\ e.kind = "quiesce"
    BY DEF Event
  <2> HIDE DEF e
  <2>3. actor' \in ActorRecord /\ actor'.slot = NoCommand /\ results' \in Seq(Event)
    BY <1>3, <2>1, <2>2, AppendedResults DEF ActorRecord
  <2>4. Numbered(actor')
    BY SMTT(60), <1>3, <2>1 DEF Numbered, ActorRecord
  <2>5. Tracked(actor', worker', job', results')
    <3>1. actor'.nextId = actor.nextId /\ actor'.pending = actor.pending
      BY <2>1 DEF ActorRecord
    <3> QED BY SMTT(60), <1>3, <2>1, <2>2, <2>3, <3>1, AppendedResults DEF Tracked, Numbered
  <2>6. Clean(actor', worker', job', owned') /\ Current(actor', worker', job')
    BY <1>3, <2>1 DEF Clean, Still, NoFrequencyWriter, Current, ActorRecord
  <2>7. Wished(actor', wish') /\ Surroundings'
    BY <2>1 DEF Wished, Restoring, ActorRecord, Surroundings
  <2> QED BY <2>1, <2>3, <2>4, <2>5, <2>6, <2>7 DEF IInv, Sound
<1>5. CASE WorkerTake /\ actor.slot.kind # "quiesce"
  <2>1. /\ actor' = [actor EXCEPT !.slot = NoCommand] /\ worker = "idle" /\ job' = actor.slot
        /\ worker' = "gate" /\ UNCHANGED <<results, gate, poisoned, owned, degraded, wish>>
    BY <1>5 DEF WorkerTake, gateVars, actuatorVars, boundVars
  <2>2. actor.slot.kind = "reconcile"
    BY <1>5 DEF WorkerTake, Numbered, Command
  <2>3. actor' \in ActorRecord /\ job' \in Command /\ actor'.slot = NoCommand
    BY <1>3, <2>1 DEF ActorRecord
  <2>4. Numbered(actor')
    BY <1>3, <2>1 DEF Numbered, ActorRecord
  <2>5. Tracked(actor', worker', job', results')
    <3>1. actor'.nextId = actor.nextId /\ actor'.pending = actor.pending
      BY <2>1 DEF ActorRecord
    <3> QED BY SMTT(60), <1>3, <2>1, <2>2, <2>3, <3>1 DEF Tracked, Numbered, Alive
  <2>6. Clean(actor', worker', job', owned') /\ Current(actor', worker', job')
    BY <1>3, <2>1, <2>2 DEF Clean, Still, NoFrequencyWriter, Current, ActorRecord, Alive
  <2>7. Wished(actor', wish') /\ Surroundings'
    BY <2>1 DEF Wished, Restoring, ActorRecord, Surroundings
  <2> QED BY <2>1, <2>3, <2>4, <2>5, <2>6, <2>7 DEF IInv, Sound
<1>6. CASE WorkerLock /\ ~poisoned
  <2>1. /\ worker = "gate" /\ worker' = "hold" /\ gate' = "frequency"
        /\ UNCHANGED <<actor, job, results, poisoned, owned, degraded, wish>>
    BY <1>6 DEF WorkerLock, actuatorVars, boundVars
  <2>2. Tracked(actor', worker', job', results')
    BY <2>1 DEF Tracked, Alive
  <2>3. Clean(actor', worker', job', owned') /\ Current(actor', worker', job')
    BY <2>1 DEF Clean, Still, NoFrequencyWriter, Current, Alive
  <2>4. Surroundings'
    BY <2>1 DEF Surroundings
  <2> QED BY <2>1, <2>2, <2>3, <2>4 DEF IInv, Sound
<1>7. ASSUME NEW k \in {"reconcile", "failed"}, NEW n \in {0, job.id}, worker \in {"gate", "hold"},
             worker' \in {"idle", "dead"}, k = "failed" => worker' = "dead",
             results' = Append(results, [kind |-> k, id |-> n]), job' = NoCommand,
             UNCHANGED <<actor, wish>>, owned' = owned \/ worker = "hold", Surroundings'
      PROVE  IInv'
  <2> DEFINE e == [kind |-> k, id |-> n]
  <2>1. e \in Event /\ e.kind = k /\ e.id = n
    BY <1>7 DEF Event
  <2> HIDE DEF e
  <2>2. results' = Append(results, e) /\ results' \in Seq(Event)
    BY <1>7, <2>1, AppendedResults DEF e
  <2>3. job.kind = "reconcile" /\ job.id > 0 /\ Alive(worker)
    BY <1>7 DEF Tracked, Alive
  <2>4. Tracked(actor', worker', job', results')
    BY SMTT(60), <1>3, <1>7, <2>1, <2>2, <2>3, AppendedResults DEF Tracked, Alive
  <2>5. Clean(actor', worker', job', owned') /\ Current(actor', worker', job')
    BY <1>3, <1>7, <2>3 DEF Clean, Still, NoFrequencyWriter, Current, Alive
  <2> QED BY <1>3, <1>7, <2>2, <2>4, <2>5 DEF IInv, Sound
<1>8. CASE WorkerLock /\ poisoned
  BY <1>7, <1>8 DEF WorkerLock, Send, actuatorVars, boundVars, Surroundings
<1>9. CASE WorkerDone
  <2>1. Surroundings'
    BY <1>9 DEF WorkerDone, Transact, Surroundings, Lane
  <2> QED BY <1>7, <1>9, <2>1 DEF WorkerDone, Send
<1>10. CASE WorkerPanic
  <2>1. Surroundings'
    BY <1>10 DEF WorkerPanic, Surroundings, Lane
  <2> QED BY <1>7, <1>10, <2>1 DEF WorkerPanic, Send
<1>11. CASE WorkerExit
  <2>1. /\ worker = "dead" /\ worker' = "gone"
        /\ UNCHANGED <<actor, job, results, gate, poisoned, owned, degraded, wish>>
    BY <1>11 DEF WorkerExit, gateVars, actuatorVars, boundVars
  <2>2. Tracked(actor', worker', job', results')
    BY <2>1 DEF Tracked, Alive
  <2>3. Clean(actor', worker', job', owned') /\ Current(actor', worker', job')
    BY <2>1 DEF Clean, Still, NoFrequencyWriter, Current, Alive
  <2>4. Surroundings'
    BY <2>1 DEF Surroundings
  <2> QED BY <2>1, <2>2, <2>3, <2>4 DEF IInv, Sound
<1> QED BY <1>4, <1>5, <1>6, <1>8, <1>9, <1>10, <1>11

\* Every step of the scheduler lane and of a restore keeps the invariant.
LEMMA TaskStepSound ==
  IInv /\ (SchedulerLock \/ SchedulerDone \/ SchedulerPanic \/ RestoreLock \/ RestoreDone) => IInv'
<1> SUFFICES ASSUME IInv,
                    SchedulerLock \/ SchedulerDone \/ SchedulerPanic \/ RestoreLock \/ RestoreDone
             PROVE  IInv'
  OBVIOUS
<1>1. /\ actor \in ActorRecord /\ job \in Command /\ results \in Seq(Event)
      /\ Numbered(actor) /\ Tracked(actor, worker, job, results) /\ Clean(actor, worker, job, owned)
      /\ Current(actor, worker, job) /\ Wished(actor, wish) /\ Surroundings
  BY DEF IInv, Sound
<1> USE <1>1
<1>2. ASSUME NEW x \in {"hold", "ok", "panicked"}, actor' = [actor EXCEPT !.sched = x],
             actor.sched \in {"gate", "hold"}, UNCHANGED <<worker, job, results, wish>>, Surroundings'
      PROVE  IInv'
  <2>1. actor' \in ActorRecord
    BY <1>2 DEF ActorRecord
  <2>2. Numbered(actor') /\ Tracked(actor', worker', job', results')
    BY <1>2 DEF Numbered, Tracked, ActorRecord
  <2>3. Clean(actor', worker', job', owned') /\ Current(actor', worker', job')
    BY <1>2 DEF Clean, Still, NoFrequencyWriter, Current, ActorRecord
  <2>4. Wished(actor', wish')
    BY <1>2 DEF Wished, Restoring, ActorRecord
  <2> QED BY <1>2, <2>1, <2>2, <2>3, <2>4 DEF IInv, Sound
<1>3. ASSUME NEW x \in {"hold", "ok", "err"}, actor' = [actor EXCEPT !.restore = x],
             actor.restore \in {"gate", "hold"}, owned' \subseteq owned, x = "ok" => owned' = {},
             UNCHANGED <<worker, job, results, wish>>, Surroundings'
      PROVE  IInv'
  <2>1. actor' \in ActorRecord
    BY <1>3 DEF ActorRecord
  <2>2. Numbered(actor') /\ Tracked(actor', worker', job', results')
    BY <1>3 DEF Numbered, Tracked, ActorRecord
  <2>3. Clean(actor', worker', job', owned') /\ Current(actor', worker', job')
    BY <1>3 DEF Clean, Still, NoFrequencyWriter, Current, ActorRecord
  <2>4. Wished(actor', wish')
    BY <1>3 DEF Wished, Restoring, ActorRecord
  <2> QED BY <1>3, <2>1, <2>2, <2>3, <2>4 DEF IInv, Sound
<1>4. CASE SchedulerLock
  BY <1>2, <1>4 DEF SchedulerLock, threadVars, actuatorVars, boundVars, Surroundings
<1>5. CASE SchedulerDone
  <2>1. Surroundings'
    BY <1>5 DEF SchedulerDone, Transact, threadVars, Surroundings, Lane
  <2> QED BY <1>2, <1>5, <2>1 DEF SchedulerDone, threadVars
<1>6. CASE SchedulerPanic
  <2>1. Surroundings'
    BY <1>6 DEF SchedulerPanic, threadVars, Surroundings, Lane
  <2> QED BY <1>2, <1>6, <2>1 DEF SchedulerPanic, threadVars
<1>7. CASE RestoreLock
  BY <1>3, <1>7 DEF RestoreLock, threadVars, actuatorVars, boundVars, Surroundings
<1>8. CASE RestoreDone
  <2>1. Surroundings'
    BY <1>8 DEF RestoreDone, threadVars, Surroundings, Lane
  <2>2. \E x \in {"ok", "err"} : /\ actor' = [actor EXCEPT !.restore = x] /\ owned' \subseteq owned
                                 /\ x = "ok" => owned' = {}
    BY <1>8 DEF RestoreDone
  <2> QED BY <1>3, <1>8, <2>1, <2>2 DEF RestoreDone, threadVars
<1> QED BY <1>4, <1>5, <1>6, <1>7, <1>8

\* Every step keeps the invariant.
LEMMA NextSound == IInv /\ [Next]_vars => IInv'
<1> SUFFICES ASSUME IInv, [Next]_vars PROVE IInv'
  OBVIOUS
<1>1. CASE ActorStep
  BY <1>1, ActorStepSound
<1>2. CASE WorkerTake \/ WorkerLock \/ WorkerDone \/ WorkerPanic \/ WorkerExit
  BY <1>2, WorkerStepSound
<1>3. CASE SchedulerLock \/ SchedulerDone \/ SchedulerPanic \/ RestoreLock \/ RestoreDone
  BY <1>3, TaskStepSound
<1>4. CASE UNCHANGED vars
  BY <1>4 DEF vars, threadVars, gateVars, actuatorVars, boundVars, IInv, Surroundings
<1> QED BY <1>1, <1>2, <1>3, <1>4 DEF Next, ActorStep, ThreadSteps, TakeResults

\* The invariant holds in every state of the daemon.
LEMMA BarrierInvariant == Spec => []IInv
<1> QED BY InitSound, NextSound, PTL DEF Spec

\* The parts of the inductive invariant say what the run checks.
LEMMA IInvGivesBarriers == IInv => BarriersHold /\ LastTransitionWins
<1> SUFFICES ASSUME IInv PROVE BarriersHold /\ LastTransitionWins
  OBVIOUS
<1>1. /\ actor \in ActorRecord /\ job \in Command
      /\ Numbered(actor) /\ Tracked(actor, worker, job, results) /\ Clean(actor, worker, job, owned)
      /\ Current(actor, worker, job) /\ Wished(actor, wish) /\ Surroundings
  BY DEF IInv, Sound
<1>2. Numbers(actor, job, results)
  BY SoundNumbers DEF IInv
<1>3. TypeOK
  <2>1. \A f \in {"suspended", "restored", "restoreRequested", "failed", "pendingResume",
               "sleepers", "stoppers", "accepting", "stop", "quiesced", "readOnly",
               "workerFailed"} : actor[f] \in BOOLEAN
    BY <1>1 DEF ActorRecord
  <2>2. {actor.pending, actor.quiesce, actor.slot.id, job.id} \subseteq 0 .. actor.nextId
    BY <1>1, <1>2 DEF Numbers, Numbered, Tracked
  <2>3. /\ actor.control \subseteq {"persist", "identity"}
        /\ actor.reload \in {"none", "loading", "pending"}
        /\ actor.sched \in {"none", "gate", "hold", "ok", "panicked"}
        /\ actor.restore \in {"none", "gate", "hold", "ok", "err"}
    BY <1>1 DEF ActorRecord
  <2> QED BY <1>1, <2>1, <2>2, <2>3 DEF TypeOK, Surroundings
<1>4. Still(actor, worker, job) => ~Writing
  BY DEF Still, NoFrequencyWriter, Writing, FrequencyWriters, Alive
<1>5. RestoreAlone /\ RestoredIsClean /\ StoppedClean
  BY <1>1, <1>4 DEF Clean, RestoreAlone, RestoredIsClean, StoppedClean
<1>6. ConfigurationBarrier
  BY <1>1 DEF Current, ConfigurationBarrier, FrequencyWriters, Alive
<1>7. LastTransitionWins
  BY <1>1 DEF Wished, Restoring, LastTransitionWins, ActorRecord
<1> QED BY <1>3, <1>5, <1>6, <1>7 DEF BarriersHold

\* The barriers of the state task: a restore, a sleeping machine, a stopped
\* daemon and a new configuration never meet a write started before them.
THEOREM SafeBarriers == Spec => []BarriersHold
<1> QED BY BarrierInvariant, IInvGivesBarriers, PTL

\* However sleep and wake requests overlap a restore, the last one decides.
THEOREM TransitionsDecide == Spec => []LastTransitionWins
<1> QED BY BarrierInvariant, IInvGivesBarriers, PTL
=============================================================================
