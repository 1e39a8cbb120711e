-------------------------- MODULE DaemonLifecycle --------------------------
(***************************************************************************)
(* The life of the daemon's process (crates/uperf-daemon/src/main.rs): the *)
(* order of start-up, its early exits, the supervision of its tasks, the   *)
(* order of shutdown, and the crashes and restarts around it.  systemd is  *)
(* external: it restarts a failed daemon until it is asked to stop it.     *)
(*                                                                         *)
(* What the process does in between is in the other modules: a recovery, a *)
(* claim and a restore are one step each here.                             *)
(***************************************************************************)
EXTENDS Naturals

CONSTANTS
  MaxCrashes,      \* bound: crashes of the process or of its tasks
  MaxFailures,     \* bound: failed recoveries, restores and bus calls
  MaxOrders        \* bound: orders to stop or start, edits of the configuration

VARIABLES
  process,         \* [at, failed: an error was recorded, degraded, activated, accepting]
  tasks,           \* tasks of the process that run
  bus,             \* what is on the bus: subset of {"object", "name"}
  journal,         \* recovery.json: "none", "ours", "foreign", "unreadable"
  modified,        \* the hardware differs from what its owner left
  claimed,         \* this process made claims it has not tried to restore
  configOk,        \* the configuration on disk loads
  unit,            \* systemd: [wanted, result]
  used             \* bounds: [crashes, failures, orders]

lifeVars == <<process, tasks, bus, journal, modified, claimed, configOk, unit, used>>

NewProcess == [at |-> "inspect", failed |-> FALSE, degraded |-> FALSE,
               activated |-> FALSE, accepting |-> TRUE]
Down == [NewProcess EXCEPT !.at = "down"]

LifeInit ==
  /\ process = Down /\ tasks = {} /\ bus = {}
  /\ \/ journal \in {"none", "foreign"} /\ modified = FALSE
     \/ journal \in {"ours", "unreadable"} /\ modified \in BOOLEAN
  /\ claimed = FALSE /\ configOk \in BOOLEAN
  /\ unit = [wanted |-> TRUE, result |-> "failed"]
  /\ used = [crashes |-> 0, failures |-> 0, orders |-> 0]

May(kind, bound) == used[kind] < bound /\ used' = [used EXCEPT ![kind] = @ + 1]
Failure == May("failures", MaxFailures)
GoTo(step) == process' = [process EXCEPT !.at = step]

\* The process ends: its threads, its bus name and what it exported go with it.
Exit(result) ==
  /\ process' = Down /\ tasks' = {} /\ bus' = {} /\ claimed' = FALSE
  /\ unit' = [unit EXCEPT !.result = result]
\* An early return of run(): nothing was claimed yet, so nothing is restored.
ExitEarly == Exit("failed") /\ UNCHANGED <<journal, modified, configOk>>

-----------------------------------------------------------------------------
(* Start-up                                                                *)

\* systemd starts a wanted unit that never ran or failed.
StartProcess ==
  /\ process.at = "down" /\ unit.wanted /\ process' = NewProcess
  /\ UNCHANGED <<tasks, bus, journal, modified, claimed, configOk, unit, used>>

\* recover_before_configuration on the journal that is there: nothing to do, a
\* journal of another boot is discarded unseen, ours is restored.
Recovered ==
  /\ journal \in {"none", "foreign", "ours"}
  /\ journal' = "none" /\ modified' = IF journal = "ours" THEN FALSE ELSE modified
  /\ process' = [process EXCEPT !.at = "configure"] /\ UNCHANGED used
\* The journal cannot be read, its targets are not found, no longer match the
\* live hardware, or cannot be restored: the daemon goes on without mutations.
RecoveryFails ==
  /\ journal = "unreadable" \/ (journal = "ours" /\ Failure)
  /\ journal = "unreadable" => UNCHANGED used
  /\ process' = [process EXCEPT !.at = "configure", !.degraded = TRUE]
  /\ UNCHANGED <<journal, modified>>
\* Mutant: the configuration is loaded before the recovery.
RecoverIfConfigured ==
  /\ process.at = "inspect"
  /\ IF configOk
     THEN (Recovered \/ RecoveryFails) /\ UNCHANGED <<tasks, bus, claimed, configOk, unit>>
     ELSE ExitEarly /\ UNCHANGED used
Recover ==
  /\ process.at = "inspect" /\ (Recovered \/ RecoveryFails)
  /\ UNCHANGED <<tasks, bus, claimed, configOk, unit>>

\* Discovery, the configuration, and the actuator, which keeps the failed recovery.
Configure ==
  /\ process.at = "configure"
  /\ IF configOk
     THEN GoTo("spawn")
          /\ UNCHANGED <<tasks, bus, claimed, journal, modified, configOk, unit>>
     ELSE ExitEarly
  /\ UNCHANGED used
SpawnRuntime ==
  /\ process.at = "spawn" /\ GoTo("export") /\ tasks' = {"state", "observers"}
  /\ UNCHANGED <<bus, journal, modified, claimed, configOk, unit, used>>
\* Mutant: the runtime is activated before the bus name is requested.
ExportObjectActivates ==
  /\ process.at = "export" /\ process' = [process EXCEPT !.at = "name", !.activated = TRUE]
  /\ bus' = {"object"}
  /\ UNCHANGED <<tasks, journal, modified, claimed, configOk, unit, used>>
ExportObject ==
  /\ process.at = "export" /\ GoTo("name") /\ bus' = {"object"}
  /\ UNCHANGED <<tasks, journal, modified, claimed, configOk, unit, used>>
RequestName ==
  /\ process.at = "name" /\ GoTo("activate") /\ bus' = bus \cup {"name"}
  /\ tasks' = tasks \cup {"signals", "watchers", "logind"}
  /\ UNCHANGED <<journal, modified, claimed, configOk, unit, used>>
\* Any of these steps can fail.
StartupFails ==
  /\ process.at \in {"spawn", "export", "name"} /\ Failure /\ ExitEarly

\* A state task that is gone cannot be activated: the process ends.
Activate ==
  /\ process.at = "activate"
  /\ IF "state" \in tasks
     THEN process' = [process EXCEPT !.at = "handlers", !.activated = TRUE]
          /\ UNCHANGED <<tasks, bus, claimed, journal, modified, configOk, unit>>
     ELSE ExitEarly
  /\ UNCHANGED used
\* wait_for_shutdown_or_reload first installs the signal handlers.
InstallHandlers ==
  /\ process.at = "handlers" /\ GoTo("serving")
  /\ UNCHANGED <<tasks, bus, journal, modified, claimed, configOk, unit, used>>

\* A reconciliation claims: journal first, hardware second.
Claims ==
  /\ "state" \in tasks /\ process.activated /\ process.accepting /\ ~process.degraded
  /\ journal' = "ours" /\ modified' = TRUE /\ claimed' = TRUE
  /\ <<journal, modified, claimed>>' # <<journal, modified, claimed>>
  /\ UNCHANGED <<process, tasks, bus, configOk, unit, used>>

-----------------------------------------------------------------------------
(* Supervision and shutdown                                                *)

TaskEnds(task) ==
  /\ task \in tasks /\ task # "observers" /\ May("crashes", MaxCrashes)
  /\ tasks' = tasks \ {task}
  /\ UNCHANGED <<process, bus, journal, modified, claimed, configOk, unit>>

\* record_shutdown_error keeps the first error; any error makes the exit fail.
Closing(step, bad) == process' = [process EXCEPT !.at = step, !.failed = @ \/ bad]
\* SIGTERM and SIGINT end the wait, and so does the loss of a task, at the next
\* supervision tick.
LeaveWait(bad) ==
  /\ process.at = "serving" /\ (bad => ~({"state", "signals"} \subseteq tasks))
  /\ Closing("unexport", bad)
Supervise ==
  /\ LeaveWait(TRUE)
  /\ UNCHANGED <<tasks, bus, journal, modified, claimed, configOk, unit, used>>

Unexport ==
  /\ process.at = "unexport" /\ Closing("close", FALSE) /\ bus' = bus \ {"object"}
  /\ UNCHANGED <<tasks, journal, modified, claimed, configOk, unit, used>>
CloseControl ==
  /\ process.at = "close"
  /\ process' = [process EXCEPT !.at = "join", !.accepting = FALSE,
                                !.failed = @ \/ "state" \notin tasks]
  /\ UNCHANGED <<tasks, bus, journal, modified, claimed, configOk, unit, used>>
\* The observers are stopped, then the watchers and the signal pump are joined.
JoinTasks ==
  /\ process.at = "join"
  /\ Closing("restore", ~({"signals", "watchers", "logind"} \subseteq tasks))
  /\ tasks' = tasks \cap {"state"}
  /\ UNCHANGED <<bus, journal, modified, claimed, configOk, unit, used>>

Released(outcome) ==
  CASE outcome = "restored" -> modified' = FALSE /\ journal' = "none" /\ UNCHANGED used
    [] outcome = "failed" -> Failure /\ UNCHANGED <<journal, modified>>
    [] outcome = "refused" -> UNCHANGED <<journal, modified, used>>
\* RuntimeHandle::stop: without a state task, or with an actuator that is
\* degraded, nothing is restored and the error is recorded.
StopRuntime ==
  /\ process.at = "restore"
  /\ \E outcome \in {"restored", "failed", "refused"} :
       /\ (outcome = "refused") = ("state" \notin tasks \/ process.degraded)
       /\ Released(outcome) /\ Closing("release", outcome # "restored")
  /\ claimed' = FALSE
  /\ UNCHANGED <<tasks, bus, configOk, unit>>
ReleaseName ==
  /\ process.at = "release" /\ Closing("finish", FALSE) /\ bus' = bus \ {"name"}
  /\ UNCHANGED <<tasks, journal, modified, claimed, configOk, unit, used>>
\* The state task is joined, and the first error decides the exit.
Finish ==
  /\ process.at = "finish"
  /\ Exit(IF process.failed \/ "state" \notin tasks THEN "failed" ELSE "ok")
  /\ UNCHANGED <<journal, modified, configOk, used>>

-----------------------------------------------------------------------------
(* The world                                                               *)

Crash ==
  /\ process.at # "down" /\ May("crashes", MaxCrashes) /\ Exit("failed")
  /\ UNCHANGED <<journal, modified, configOk>>
\* systemctl stop: a process that has no handler yet is ended by the signal.
StopOrdered ==
  /\ unit.wanted /\ May("orders", MaxOrders)
  /\ IF process.at = "serving"
     THEN LeaveWait(FALSE) /\ unit' = [unit EXCEPT !.wanted = FALSE]
          /\ UNCHANGED <<tasks, bus, claimed>>
     ELSE IF process.at \in {"inspect", "configure", "spawn", "export", "name",
                             "activate", "handlers"}
     THEN /\ process' = Down /\ tasks' = {} /\ bus' = {} /\ claimed' = FALSE
          /\ unit' = [wanted |-> FALSE, result |-> "terminated"]
     ELSE unit' = [unit EXCEPT !.wanted = FALSE] /\ UNCHANGED <<process, tasks, bus, claimed>>
  /\ UNCHANGED <<journal, modified, configOk>>
StartOrdered ==
  /\ process.at = "down" /\ ~unit.wanted /\ May("orders", MaxOrders)
  /\ unit' = [unit EXCEPT !.wanted = TRUE]
  /\ UNCHANGED <<process, tasks, bus, journal, modified, claimed, configOk>>
ConfigEdited ==
  /\ May("orders", MaxOrders) /\ configOk' = ~configOk
  /\ UNCHANGED <<process, tasks, bus, journal, modified, claimed, unit>>

Startup ==
  \/ StartProcess \/ Recover \/ Configure \/ SpawnRuntime \/ ExportObject \/ RequestName
  \/ Activate \/ InstallHandlers
Shutdown ==
  \/ Supervise \/ Unexport \/ CloseControl \/ JoinTasks \/ StopRuntime \/ ReleaseName \/ Finish
LifeNext ==
  \/ Startup \/ StartupFails \/ Claims \/ Shutdown
  \/ \E task \in tasks : TaskEnds(task)
  \/ Crash \/ StopOrdered \/ StartOrdered \/ ConfigEdited

LifeSpec == LifeInit /\ [][LifeNext]_lifeVars
\* systemd restarts what it wants, and the process goes on.
LifeFairness == WF_lifeVars(Startup) /\ WF_lifeVars(Shutdown)

-----------------------------------------------------------------------------
(* Properties                                                              *)

\* The order of start-up and shutdown: nothing is claimed by a process that does
\* not hold the bus name (main.rs: "The well-known name remains owned until
\* restoration and state-task shutdown have completed"), a journal of ours
\* covers every change, and a daemon that reports success leaves none.
OrderlyLife ==
  /\ claimed => "name" \in bus
  /\ modified => journal \in {"ours", "unreadable"}
  /\ unit.result = "ok" /\ process.at = "down" => ~modified

\* A change is given back, or a daemon serves that made it or could not recover
\* it, or the unit was stopped.
AnsweredFor ==
  \/ ~modified \/ process.degraded \/ journal = "unreadable" \/ ~unit.wanted
  \/ "state" \in tasks /\ process.activated

\* However crashes, failures, broken configurations and restarts follow each
\* other, every change is answered for in the end (main.rs: "Broken/replaced
\* configuration must not strand state owned by a previous daemon").
NothingStranded == <>[]AnsweredFor
=============================================================================
