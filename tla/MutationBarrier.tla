-------------------------- MODULE MutationBarrier --------------------------
(***************************************************************************)
(* Sleep, wake, reload and shutdown in crates/uperf-daemon: the barriers   *)
(* with which the state task (RuntimeActor) stops its two mutation lanes   *)
(* before it restores everything or swaps the configuration.               *)
(*                                                                         *)
(* actor holds the fields of RuntimeActor the barriers use, together with  *)
(* what it hands over: the watch channel to the frequency worker (slot)    *)
(* and the blocking tasks it spawned (sched, restore, reload).  A handler  *)
(* maps a record to the set of records it may leave: what the policy       *)
(* submits is a choice, the plans themselves are in FrequencyLane.         *)
(* All three writers take the mutation gate, a mutex a panic poisons.      *)
(***************************************************************************)
EXTENDS Integers, Sequences

CONSTANTS
  MaxJobs,         \* bound: reconciliations submitted
  MaxTransitions,  \* bound: sleep and wake requests
  MaxReload,       \* bound: reloads and other control work with a task of its own
  MaxFail          \* bound: failed transactions, panics and failed restores

ASSUME BarrierConstants ==
  /\ MaxJobs \in Nat /\ MaxTransitions \in Nat /\ MaxReload \in Nat /\ MaxFail \in Nat

Lane == {"frequency", "scheduler"}

VARIABLES
  actor,
  worker, job,       \* the frequency worker: where it is, what it took
  results,           \* its events on their way to the actor
  gate, poisoned,    \* mutation_gate: its holder
  owned, degraded,   \* the actuator: lanes with journaled claims, mode
  wish,              \* history: the last sleep or wake request the actor took
  transitions, reloads, fails

threadVars == <<worker, job, results>>
gateVars == <<gate, poisoned>>
actuatorVars == <<owned, degraded>>
boundVars == <<wish, transitions, reloads, fails>>
vars == <<actor, threadVars, gateVars, actuatorVars, boundVars>>

NoCommand == [kind |-> "none", id |-> 0, config |-> 0]

-----------------------------------------------------------------------------
(* evaluate_and_reconcile and the two submissions.                         *)

Blocked(a) ==
  \/ a.suspended \/ ~a.accepting \/ a.restoreRequested \/ a.restore # "none"
  \/ a.reload = "pending" \/ a.readOnly

FailReconcileWorker(a) == [a EXCEPT !.workerFailed = TRUE, !.readOnly = TRUE]

SubmitFrequency(a) ==
  IF worker = "gone" THEN FailReconcileWorker([a EXCEPT !.nextId = @ + 1])
  ELSE [a EXCEPT !.nextId = @ + 1, !.jobs = @ + 1,
          !.slot = [kind |-> "reconcile", id |-> a.nextId + 1, config |-> a.config],
          !.pending = a.nextId + 1, !.quiesce = 0, !.quiesced = FALSE]

\* A running scheduler job only sets scheduler_pending.
SubmitScheduler(a) ==
  IF a.sched # "none" THEN a
  ELSE [a EXCEPT !.sched = "gate", !.schedConfig = a.config, !.jobs = @ + 1]

\* Which lanes need work is the policy's choice.
Evaluate(a) ==
  {a} \cup IF Blocked(a) \/ a.jobs >= MaxJobs THEN {}
           ELSE {SubmitFrequency(a), SubmitScheduler(a), SubmitScheduler(SubmitFrequency(a))}

-----------------------------------------------------------------------------
(* The barrier.                                                            *)

RequestQuiesce(a) ==
  IF a.quiesced \/ a.quiesce # 0 THEN a
  ELSE IF worker = "gone"
  THEN FailReconcileWorker([a EXCEPT !.nextId = @ + 1, !.pending = 0, !.quiesced = TRUE])
  ELSE [a EXCEPT !.nextId = @ + 1, !.pending = a.nextId + 1, !.quiesce = a.nextId + 1,
          !.slot = [kind |-> "quiesce", id |-> a.nextId + 1, config |-> a.config]]

\* Mutant: the scheduler's task is not waited for.
QuietFrequency(a) == a.quiesced /\ a.pending = 0

Quiet(a) == a.quiesced /\ a.pending = 0 /\ a.sched = "none"

StartRestore(a) == [a EXCEPT !.restoreRequested = FALSE, !.restore = "gate"]

CompleteReload(a) == Evaluate([a EXCEPT !.reload = "none", !.config = @ + 1])

BarrierRequested(a) == a.restoreRequested \/ a.reload = "pending"

\* drive_mutation_barriers; a restore goes before a reload.
Drive(a) ==
  IF a.restore # "none" \/ ~BarrierRequested(a) THEN {a}
  ELSE LET q == RequestQuiesce(a)
       IN  IF ~Quiet(q) THEN {q}
           ELSE IF q.restoreRequested THEN {StartRestore(q)}
           ELSE CompleteReload(q)

RefreshActuatorHealth(a) == [a EXCEPT !.readOnly = degraded \/ a.failed \/ a.workerFailed]

FinishWorkerTransition(a) ==
  LET r == RefreshActuatorHealth(a)
  IN  IF r.restore # "none" \/ BarrierRequested(r) THEN Drive(r) ELSE Evaluate(r)

-----------------------------------------------------------------------------
(* Sleep, wake and stop.                                                   *)

EnterSuspended(a) == [a EXCEPT !.suspended = TRUE, !.restored = FALSE]

\* Mutant: a pending resume survives the newer sleep request.
SleepRestoreKeepsResume(a) ==
  IF a.stoppers THEN {a}
  ELSE IF a.failed THEN {EnterSuspended(a)}
  ELSE IF a.suspended THEN {[a EXCEPT !.sleepers = @ \/ ~a.restored]}
  ELSE Drive([EnterSuspended(a) EXCEPT !.sleepers = TRUE, !.restoreRequested = TRUE])

\* request_sleep_restore.
SleepRestore(a) ==
  LET b == [a EXCEPT !.pendingResume = FALSE]
  IN  IF a.stoppers THEN {a}
      ELSE IF a.failed THEN {IF a.suspended THEN b ELSE EnterSuspended(b)}
      ELSE IF a.suspended THEN {[b EXCEPT !.sleepers = @ \/ ~a.restored]}
      ELSE Drive([EnterSuspended(b) EXCEPT !.sleepers = TRUE, !.restoreRequested = TRUE])

ResumeFromSleep(a) == Evaluate([a EXCEPT !.suspended = FALSE, !.restored = FALSE])

\* request_resume.
Resume(a) ==
  IF a.stoppers \/ ~a.accepting \/ ~a.suspended THEN {a}
  ELSE IF a.restoreRequested \/ a.restore # "none" THEN {[a EXCEPT !.pendingResume = TRUE]}
  ELSE ResumeFromSleep(a)

\* request_stop.
Stop(a) ==
  LET b == [a EXCEPT !.accepting = FALSE, !.pendingResume = FALSE]
  IN  IF a.failed \/ (a.suspended /\ a.restored) THEN {[b EXCEPT !.stop = TRUE]}
      ELSE Drive([(IF a.suspended THEN b ELSE EnterSuspended(b))
                    EXCEPT !.stoppers = TRUE, !.restoreRequested = @ \/ a.restore = "none"])

\* Mutant: a restore that also ends the daemon forgets the sleep request.
FinishRestoreStops(a, ok) ==
  LET b == RefreshActuatorHealth([a EXCEPT !.restore = "none", !.restored = ok, !.failed = ~ok])
  IN  IF b.stoppers THEN {[b EXCEPT !.pendingResume = FALSE, !.stop = TRUE, !.stoppers = FALSE]}
      ELSE IF b.pendingResume
      THEN UNION {Drive(c) : c \in ResumeFromSleep([b EXCEPT !.pendingResume = FALSE,
                                                             !.sleepers = FALSE])}
      ELSE Drive([b EXCEPT !.sleepers = FALSE])

\* finish_restore: sleep requests are answered, then a stop, then a resume.
FinishRestore(a, ok) ==
  LET b == RefreshActuatorHealth([a EXCEPT !.restore = "none", !.restored = ok,
                                           !.failed = ~ok, !.sleepers = FALSE])
  IN  IF b.stoppers THEN {[b EXCEPT !.pendingResume = FALSE, !.stop = TRUE, !.stoppers = FALSE]}
      ELSE IF b.pendingResume
      THEN UNION {Drive(c) : c \in ResumeFromSleep([b EXCEPT !.pendingResume = FALSE])}
      ELSE Drive(b)

-----------------------------------------------------------------------------
(* The state task takes one message at a time until stop_requested.        *)

Take(next) == ~actor.stop /\ actor' \in next
Rest == UNCHANGED <<threadVars, gateVars, actuatorVars>>

\* A tick, an observation or a control command that ends in an evaluation.
Reduce == Take(Evaluate(actor)) /\ Rest /\ UNCHANGED boundVars

PrepareForSleep(sleeping) ==
  /\ transitions < MaxTransitions /\ transitions' = transitions + 1
  /\ Take(IF sleeping THEN SleepRestore(actor) ELSE Resume(actor))
  /\ wish' = IF sleeping THEN "sleep" ELSE "wake"
  /\ Rest /\ UNCHANGED <<reloads, fails>>

\* start_reload: the candidate is loaded on the blocking pool.
StartReload ==
  /\ reloads < MaxReload /\ reloads' = reloads + 1
  /\ actor.accepting /\ actor.reload = "none" /\ "persist" \notin actor.control
  /\ Take({[actor EXCEPT !.reload = "loading"]})
  /\ Rest /\ UNCHANGED <<wish, transitions, fails>>

\* receive_reload: a rejected candidate changes nothing.
ReceiveReload ==
  /\ actor.reload = "loading"
  /\ Take({[actor EXCEPT !.reload = "none"]} \cup Drive([actor EXCEPT !.reload = "pending"]))
  /\ Rest /\ UNCHANGED boundVars

\* start_app_persistence, or the identity read of a workload command.
StartControl(kind) ==
  /\ reloads < MaxReload /\ reloads' = reloads + 1
  /\ actor.accepting /\ kind \notin actor.control
  /\ kind = "persist" => actor.reload = "none"
  /\ Take({[actor EXCEPT !.control = @ \cup {kind}]})
  /\ Rest /\ UNCHANGED <<wish, transitions, fails>>

FinishControl(kind) ==
  /\ kind \in actor.control
  /\ Take(Evaluate([actor EXCEPT !.control = @ \ {kind}]))
  /\ Rest /\ UNCHANGED boundVars

\* main.rs closes the control plane, then stops the state task.
BeginShutdown ==
  /\ actor.accepting /\ Take({[actor EXCEPT !.accepting = FALSE]})
  /\ Rest /\ UNCHANGED boundVars

\* RuntimeHandle::stop retries while control work is in flight.
StopAttempt ==
  /\ ~actor.accepting /\ ~actor.stoppers
  /\ actor.reload = "none" /\ actor.control = {}
  /\ Take(Stop(actor))
  /\ Rest /\ UNCHANGED boundVars

\* finish_frequency_worker.
FrequencyEvent(a, e) ==
  CASE e.kind = "reconcile" /\ e.id <= a.pending ->
         FinishWorkerTransition([a EXCEPT !.pending = IF @ = e.id THEN 0 ELSE @])
    [] e.kind = "quiesce" /\ e.id = a.pending /\ e.id = a.quiesce ->
         FinishWorkerTransition([a EXCEPT !.pending = 0, !.quiesce = 0, !.quiesced = TRUE])
    [] e.kind = "failed" ->
         FinishWorkerTransition(FailReconcileWorker(
           [a EXCEPT !.pending = 0, !.quiesce = 0, !.quiesced = TRUE]))
    [] OTHER -> {FailReconcileWorker(a)}

FinishFrequencyWorker ==
  /\ results # <<>> /\ results' = Tail(results)
  /\ Take(FrequencyEvent(actor, Head(results)))
  /\ UNCHANGED <<worker, job, gateVars, actuatorVars, boundVars>>

FinishSchedulerWorker ==
  /\ actor.sched \in {"ok", "panicked"}
  /\ LET a == [actor EXCEPT !.sched = "none"]
     IN  Take(FinishWorkerTransition(IF actor.sched = "ok" THEN a ELSE FailReconcileWorker(a)))
  /\ Rest /\ UNCHANGED boundVars

FinishRestoreWorker ==
  /\ actor.restore \in {"ok", "err"}
  /\ Take(FinishRestore(actor, actor.restore = "ok"))
  /\ Rest /\ UNCHANGED boundVars

-----------------------------------------------------------------------------
(* The frequency worker's thread: run_frequency_worker.                    *)

Send(kind, id) == results' = Append(results, [kind |-> kind, id |-> id])

WorkerTake ==
  /\ worker = "idle" /\ actor.slot # NoCommand
  /\ actor' = [actor EXCEPT !.slot = NoCommand]
  /\ IF actor.slot.kind = "quiesce"
     THEN Send("quiesce", actor.slot.id) /\ UNCHANGED <<worker, job>>
     ELSE worker' = "gate" /\ job' = actor.slot /\ UNCHANGED results
  /\ UNCHANGED <<gateVars, actuatorVars, boundVars>>

\* A poisoned gate is an error of the job.
WorkerLock ==
  /\ worker = "gate" /\ gate = "free"
  /\ IF poisoned
     THEN /\ Send("reconcile", job.id) /\ worker' = "idle" /\ job' = NoCommand
          /\ UNCHANGED gate
     ELSE gate' = "frequency" /\ worker' = "hold" /\ UNCHANGED <<job, results>>
  /\ UNCHANGED <<actor, poisoned, actuatorVars, boundVars>>

\* A transaction of a lane claims or releases; a failure may degrade the
\* actuator, which then refuses every transaction.
Transact(lane) ==
  \/ degraded /\ UNCHANGED <<owned, degraded, fails>>
  \/ ~degraded /\ owned' \in {owned \cup {lane}, owned \ {lane}} /\ UNCHANGED <<degraded, fails>>
  \/ /\ ~degraded /\ fails < MaxFail /\ fails' = fails + 1
     /\ owned' \in {owned, owned \cup {lane}} /\ degraded' = TRUE

WorkerDone ==
  /\ worker = "hold" /\ gate' = "free" /\ worker' = "idle" /\ job' = NoCommand
  /\ Transact("frequency") /\ Send("reconcile", job.id)
  /\ UNCHANGED <<actor, poisoned, wish, transitions, reloads>>

WorkerPanic ==
  /\ worker = "hold" /\ fails < MaxFail /\ fails' = fails + 1
  /\ gate' = "free" /\ poisoned' = TRUE /\ worker' = "dead" /\ job' = NoCommand
  /\ owned' \in {owned, owned \cup {"frequency"}} /\ Send("failed", 0)
  /\ UNCHANGED <<actor, degraded, wish, transitions, reloads>>

\* The thread ends: sends to the watch channel fail from here on.
WorkerExit ==
  /\ worker = "dead" /\ worker' = "gone"
  /\ UNCHANGED <<actor, job, results, gateVars, actuatorVars, boundVars>>

-----------------------------------------------------------------------------
(* The tasks on the blocking pool: the scheduler job and restore_all.      *)

SchedulerLock ==
  /\ actor.sched = "gate" /\ gate = "free"
  /\ IF poisoned THEN actor' = [actor EXCEPT !.sched = "ok"] /\ UNCHANGED gate
     ELSE actor' = [actor EXCEPT !.sched = "hold"] /\ gate' = "scheduler"
  /\ UNCHANGED <<threadVars, poisoned, actuatorVars, boundVars>>

SchedulerDone ==
  /\ actor.sched = "hold" /\ gate' = "free" /\ actor' = [actor EXCEPT !.sched = "ok"]
  /\ Transact("scheduler")
  /\ UNCHANGED <<threadVars, poisoned, wish, transitions, reloads>>

SchedulerPanic ==
  /\ actor.sched = "hold" /\ fails < MaxFail /\ fails' = fails + 1
  /\ gate' = "free" /\ poisoned' = TRUE /\ actor' = [actor EXCEPT !.sched = "panicked"]
  /\ owned' \in {owned, owned \cup {"scheduler"}}
  /\ UNCHANGED <<threadVars, degraded, wish, transitions, reloads>>

RestoreLock ==
  /\ actor.restore = "gate" /\ gate = "free"
  /\ IF poisoned THEN actor' = [actor EXCEPT !.restore = "err"] /\ UNCHANGED gate
     ELSE actor' = [actor EXCEPT !.restore = "hold"] /\ gate' = "restore"
  /\ UNCHANGED <<threadVars, poisoned, actuatorVars, boundVars>>

\* restore_all releases the frequency and scalar claims before the tasks and
\* units, and stops at the first error.
RestoreDone ==
  /\ actor.restore = "hold" /\ gate' = "free"
  /\ \/ /\ degraded /\ actor' = [actor EXCEPT !.restore = "err"]
        /\ UNCHANGED <<owned, degraded, fails>>
     \/ /\ ~degraded /\ actor' = [actor EXCEPT !.restore = "ok"]
        /\ owned' = {} /\ UNCHANGED <<degraded, fails>>
     \/ /\ ~degraded /\ fails < MaxFail /\ fails' = fails + 1
        /\ actor' = [actor EXCEPT !.restore = "err"]
        /\ owned' \in {owned, owned \ {"frequency"}} /\ degraded' = TRUE
  /\ UNCHANGED <<threadVars, poisoned, wish, transitions, reloads>>

-----------------------------------------------------------------------------

Init ==
  /\ actor = [suspended |-> FALSE, restored |-> FALSE, restoreRequested |-> FALSE,
              failed |-> FALSE, pendingResume |-> FALSE, sleepers |-> FALSE,
              stoppers |-> FALSE, accepting |-> TRUE, stop |-> FALSE, control |-> {},
              pending |-> 0, quiesce |-> 0, quiesced |-> TRUE, nextId |-> 0, jobs |-> 0,
              readOnly |-> FALSE, workerFailed |-> FALSE, config |-> 0, reload |-> "none",
              slot |-> NoCommand, sched |-> "none", schedConfig |-> 0, restore |-> "none"]
  /\ worker = "idle" /\ job = NoCommand /\ results = <<>>
  /\ gate = "free" /\ poisoned = FALSE
  /\ owned = {} /\ degraded = FALSE
  /\ wish = "wake" /\ transitions = 0 /\ reloads = 0 /\ fails = 0

ThreadSteps ==
  \/ WorkerTake \/ WorkerLock \/ WorkerDone \/ SchedulerLock \/ SchedulerDone
  \/ RestoreLock \/ RestoreDone

TakeResults ==
  \/ ReceiveReload \/ FinishFrequencyWorker \/ FinishSchedulerWorker \/ FinishRestoreWorker
  \/ \E kind \in {"persist", "identity"} : FinishControl(kind)

Next ==
  \/ Reduce \/ StartReload \/ BeginShutdown \/ StopAttempt
  \/ \E sleeping \in BOOLEAN : PrepareForSleep(sleeping)
  \/ \E kind \in {"persist", "identity"} : StartControl(kind)
  \/ TakeResults \/ ThreadSteps \/ WorkerPanic \/ WorkerExit \/ SchedulerPanic

Spec == Init /\ [][Next]_vars

\* The daemon goes on while one of its threads or tasks can: threads and tasks run
\* and release the gate, the state task takes results, main.rs repeats its stop.
BarrierFairness == WF_vars(ThreadSteps \/ TakeResults \/ StopAttempt)

FairSpec == Spec /\ BarrierFairness

-----------------------------------------------------------------------------
(* Properties.                                                             *)

\* Work of a lane that was submitted and may still write.
FrequencyWriters ==
  IF worker \in {"dead", "gone"} THEN {} ELSE {c \in {actor.slot, job} : c.kind = "reconcile"}
Writing == FrequencyWriters # {} \/ actor.sched \in {"gate", "hold"}

\* Shape of the state; a command the actor waits for is one it sent.
TypeOK ==
  /\ \A f \in {"suspended", "restored", "restoreRequested", "failed", "pendingResume",
               "sleepers", "stoppers", "accepting", "stop", "quiesced", "readOnly",
               "workerFailed"} : actor[f] \in BOOLEAN
  /\ actor.control \subseteq {"persist", "identity"}
  /\ {actor.pending, actor.quiesce, actor.slot.id, job.id} \subseteq 0 .. actor.nextId
  /\ actor.reload \in {"none", "loading", "pending"}
  /\ actor.sched \in {"none", "gate", "hold", "ok", "panicked"}
  /\ actor.restore \in {"none", "gate", "hold", "ok", "err"}
  /\ worker \in {"idle", "gate", "hold", "dead", "gone"}
  /\ gate \in {"free", "frequency", "scheduler", "restore"}
  /\ owned \subseteq Lane /\ {poisoned, degraded} \subseteq BOOLEAN

\* The debug_asserts of start_restore_worker and complete_reload, for the whole
\* life of the restore: no lane has work that could write after it.
RestoreAlone == actor.restore # "none" => ~Writing

\* While the machine sleeps, from the acknowledgement that releases the logind
\* inhibitor to the resume, nothing is owned and nothing can write.
RestoredIsClean == actor.suspended /\ actor.restored => owned = {} /\ ~Writing

\* A daemon that stops without reporting a failed restore leaves nothing behind.
StoppedClean == actor.stop /\ ~actor.failed => owned = {} /\ ~Writing

\* No job of an older configuration survives its replacement (apply_reload_candidate:
\* "only after every older reconciliation and restore result has been consumed").
ConfigurationBarrier ==
  /\ \A c \in FrequencyWriters : c.config = actor.config
  /\ actor.sched # "none" => actor.schedConfig = actor.config

\* The barriers: a restore, a sleeping machine, a stopped daemon and a new
\* configuration never meet a write that was started before them.
BarriersHold ==
  TypeOK /\ RestoreAlone /\ RestoredIsClean /\ StoppedClean /\ ConfigurationBarrier

\* However sleep and wake requests overlap a restore, the last one decides once
\* the restore is over.
LastTransitionWins ==
  actor.accepting /\ ~actor.restoreRequested /\ actor.restore = "none" =>
    actor.suspended = (wish = "sleep")

\* The actor answers its callers: once no more requests come, no sleep request,
\* no wake request and no reload waits, and a shutdown has ended, whatever
\* barriers, failures or panics they met.
RequestsAnswered ==
  <>[](/\ ~actor.sleepers /\ ~actor.pendingResume /\ actor.reload = "none"
       /\ actor.accepting \/ actor.stop)
=============================================================================
