---------------------------- MODULE DaemonProofs ----------------------------
(***************************************************************************)
(* Proofs about the process of the daemon: the order of its life            *)
(* (DaemonLifecycle), its control plane (ControlPlane), the observer of     *)
(* sleep and wake (SleepObserver) and the way of a configuration from the   *)
(* documents to what runs (ConfigLifecycle), for any number of crashes,     *)
(* failures, orders, clients, calls, sleeps, sessions, saves and rules.     *)
(***************************************************************************)
EXTENDS SleepObserver, DaemonLifecycle, ControlPlane, ConfigLifecycle, FiniteSetTheorems, TLAPS

-----------------------------------------------------------------------------
(* The life of the process.                                                 *)

Steps == {"down", "inspect", "configure", "spawn", "export", "name", "activate", "handlers",
          "serving", "unexport", "close", "join", "restore", "release", "finish"}

LifeTypes ==
  /\ process \in [at : Steps, failed : BOOLEAN, degraded : BOOLEAN, activated : BOOLEAN,
                  accepting : BOOLEAN]
  /\ modified \in BOOLEAN /\ claimed \in BOOLEAN
  /\ unit \in [wanted : BOOLEAN, result : {"failed", "terminated", "ok"}]

\* The bus name is held from the activation to the release, mutations are refused
\* from the close on, and what is claimed has been restored before the release.
LifeOrder ==
  /\ process.at \in {"activate", "handlers", "serving", "unexport", "close", "join", "restore",
                     "release"} => "name" \in bus
  /\ process.activated => process.at \in {"handlers", "serving", "unexport", "close", "join",
                                          "restore", "release", "finish"}
  /\ process.at \in {"join", "restore", "release", "finish"} => ~process.accepting
  /\ claimed => process.activated /\ process.at \notin {"release", "finish"}
  /\ process.at \in {"release", "finish"} /\ ~process.failed => ~modified

LifeInv == LifeTypes /\ LifeOrder /\ OrderlyLife

-----------------------------------------------------------------------------
(* The control plane.                                                       *)

Caller == Client \cup {Main}
Whats == Quick \cup Slow \cup {"none", "activate", "begin", "stop"}
Answers == {"none", "ok", "error", "conflict", "refused", "lost", "denied"}

Call == [at : {"idle", "authorizing", "sending", "waiting"}, what : Whats, answer : Answers,
         effect : BOOLEAN, late : BOOLEAN, ahead : BOOLEAN]

ControlTypes ==
  /\ call \in [Caller -> Call]
  /\ commands \in Seq(Caller)
  /\ stateTask \in [alive : BOOLEAN, accepting : BOOLEAN, stopping : BOOLEAN,
                    inFlight : SUBSET Client]
  /\ call[Main].what \in {"none", "activate", "begin", "stop"} /\ call[Main].at # "authorizing"
  /\ \A c \in Client : call[c].what \in Quick \cup Slow \cup {"none"}

\* A queued caller waits and is queued once, and one in flight is not queued.
Queued ==
  /\ \A i \in 1 .. Len(commands) : /\ call[commands[i]].at = "waiting"
                                   /\ commands[i] \notin stateTask.inFlight
                                   /\ ~call[commands[i]].effect
  /\ \A i, j \in 1 .. Len(commands) : i # j => commands[i] # commands[j]
  /\ \A c \in stateTask.inFlight : call[c].at = "waiting"
  /\ \A c \in Client : call[c].at = "waiting" =>
       c \in stateTask.inFlight \/ \E i \in 1 .. Len(commands) : commands[i] = c
  /\ \A c \in Caller : call[c].at \in {"authorizing", "sending"} => ~call[c].effect

\* The barrier: it is closed once begin_shutdown has returned, for good; what is
\* ahead of it is ahead of BeginShutdown in the channel until then.
Barrier ==
  /\ stateTask.accepting \/ call[Main].what = "stop"
       \/ (call[Main].what = "begin" /\ call[Main].at = "idle")
  /\ call[Main].what = "stop" \/ (call[Main].what = "begin" /\ call[Main].at = "idle")
       => ~stateTask.accepting
  /\ stateTask.stopping => ~stateTask.accepting /\ stateTask.inFlight = {}
  /\ ~stateTask.alive => stateTask.stopping /\ commands = << >>
  /\ call[Main].at \in {"sending", "waiting"} => call[Main].answer = "none"
  /\ \A c \in Client : /\ call[c].late => ~stateTask.accepting /\ c \notin stateTask.inFlight
                       /\ call[c].at \in {"authorizing", "sending"} => ~call[c].ahead
  /\ \A i \in 1 .. Len(commands) :
       commands[i] \in Client /\ call[commands[i]].ahead =>
         /\ stateTask.accepting
         /\ \A j \in 1 .. Len(commands) : commands[j] = Main /\ call[Main].what = "begin" => i < j

ControlInv == ControlTypes /\ Queued /\ Barrier /\ ControlBarrier

-----------------------------------------------------------------------------
(* Sleep and wake.                                                          *)

Message == [kind : {"sleep", "wake", "active", "locked", "idle"}, id : Nat]
Core == [suspended : BOOLEAN, restoring : BOOLEAN, restored : BOOLEAN, failed : BOOLEAN,
         resume : BOOLEAN, sleepers : SUBSET Nat, wakers : SUBSET Nat,
         session : {"active", "locked", "idle"}]
SleepTypes ==
  /\ machine \in [phase : {"awake", "delay", "asleep"}, expired : BOOLEAN, covered : BOOLEAN]
  /\ announced \in Seq({"sleep", "wake"}) /\ inhibitor \in BOOLEAN
  /\ observer \in [at : {"starting", "acquired", "loop", "sleeping", "waking", "ended"},
                   request : Nat, last : {"none", "active", "locked", "idle"}]
  /\ inbox \in Seq(Message) /\ answered \in SUBSET Nat
  /\ core \in Core
  /\ claims \in BOOLEAN
  /\ sessions \in [Session -> {"active", "idle", "locked", "remote"}]

Request(m) == m.kind \in {"sleep", "wake"}
Heard == answered \cup core.sleepers \cup core.wakers

\* Each request has an id of its own and is in one place.
Numbered ==
  /\ \A n \in Heard : n <= observer.request
  /\ core.sleepers \cap (answered \cup core.wakers) = {}
  /\ \A i \in 1 .. Len(inbox) : Request(inbox[i]) =>
       /\ inbox[i].id <= observer.request /\ inbox[i].id \notin Heard
       /\ \A j \in 1 .. Len(inbox) : Request(inbox[j]) /\ j # i => inbox[j].id # inbox[i].id

\* logind tells a subscribed observer of every wake; one that is still busy with a
\* sleep has not taken the wake that ended it.
Announced ==
  /\ ~Subscribed => announced = << >>
  /\ machine.phase = "awake" /\ announced # << >> => announced[Len(announced)] = "wake"
  /\ machine.phase = "awake" /\ observer.at = "sleeping" => announced # << >>

\* What a restored core says, and what a suspended one that nobody wakes keeps.
AtRest == core.suspended /\ ~core.resume /\ (core.failed \/ ~claims)
\* The sleep the observer waits for is the last message to the core, or all
\* messages are taken and the restore runs or is over.
Sleeping ==
  observer.at = "sleeping" =>
    \/ /\ inbox # << >>
       /\ inbox[Len(inbox)] = [kind |-> "sleep", id |-> observer.request]
    \/ /\ inbox = << >> /\ core.suspended /\ ~core.resume
       /\ \/ observer.request \in answered /\ AtRest
          \/ observer.request \in core.sleepers /\ core.restoring

\* A covered sleep is announced, being handled, or handled.
Covered ==
  machine.covered /\ ~machine.expired =>
    /\ machine.phase # "awake"
    /\ \/ /\ announced = <<"sleep">> /\ inhibitor /\ observer.at \in {"loop", "waking"}
          /\ machine.phase = "delay"
       \/ /\ announced = << >> /\ inhibitor /\ observer.at = "sleeping" /\ machine.phase = "delay"
       \/ /\ announced = << >> /\ observer.at = "loop" /\ AtRest
          /\ \A i \in 1 .. Len(inbox) : ~Request(inbox[i])

\* A restored core owns nothing, and one that failed no longer tries.
Settled ==
  /\ core.restored => core.suspended /\ ~claims
  /\ core.failed => ~core.restoring

SleepInv == SleepTypes /\ Numbered /\ Announced /\ Sleeping /\ Covered /\ Settled

-----------------------------------------------------------------------------
(* Proofs: the life of the process.                                         *)

\* A record of the process with another step.
LEMMA ProcessStep ==
  ASSUME LifeTypes, NEW step \in Steps
  PROVE  /\ [process EXCEPT !.at = step] =
              [at |-> step, failed |-> process.failed, degraded |-> process.degraded,
               activated |-> process.activated, accepting |-> process.accepting]
         /\ \A b \in BOOLEAN : [process EXCEPT !.at = step, !.failed = @ \/ b] =
              [at |-> step, failed |-> process.failed \/ b, degraded |-> process.degraded,
               activated |-> process.activated, accepting |-> process.accepting]
<1>. DEFINE f == process.failed
            g == process.degraded
            h == process.activated
            k == process.accepting
            next == [at |-> step, failed |-> f, degraded |-> g, activated |-> h, accepting |-> k]
<1>1. process = [at |-> process.at, failed |-> f, degraded |-> g, activated |-> h, accepting |-> k]
  BY DEF LifeTypes
<1>2. f \in BOOLEAN
  BY DEF LifeTypes
<1>. HIDE DEF f, g, h, k
<1>3. [process EXCEPT !.at = step] = next
  BY <1>1
<1>4. ASSUME NEW b \in BOOLEAN
      PROVE  [process EXCEPT !.at = step, !.failed = @ \/ b] =
               [at |-> step, failed |-> f \/ b, degraded |-> g, activated |-> h, accepting |-> k]
  <2>1. [next EXCEPT !.failed = @ \/ b] =
          [at |-> step, failed |-> f \/ b, degraded |-> g, activated |-> h, accepting |-> k]
    BY <1>2
  <2>. QED BY <1>3, <2>1
<1>. QED BY <1>3, <1>4 DEF f, g, h, k

\* The process that is not there.
LEMMA DownIs ==
  /\ Down = [at |-> "down", failed |-> FALSE, degraded |-> FALSE, activated |-> FALSE,
             accepting |-> TRUE]
  /\ NewProcess = [at |-> "inspect", failed |-> FALSE, degraded |-> FALSE, activated |-> FALSE,
                   accepting |-> TRUE]
<1>1. ASSUME NEW f, NEW k
      PROVE  [[at |-> "inspect", failed |-> f, degraded |-> f, activated |-> f, accepting |-> k]
                EXCEPT !.at = "down"] =
             [at |-> "down", failed |-> f, degraded |-> f, activated |-> f, accepting |-> k]
  OBVIOUS
<1>. QED BY <1>1, Zenon DEF Down, NewProcess

\* The unit that is no longer wanted.
LEMMA UnitStopped ==
  ASSUME unit = [wanted |-> unit.wanted, result |-> unit.result]
  PROVE  [unit EXCEPT !.wanted = FALSE] = [wanted |-> FALSE, result |-> unit.result]
<1>. DEFINE w == unit.wanted
            r == unit.result
<1>1. unit = [wanted |-> w, result |-> r]
  OBVIOUS
<1>2. ASSUME NEW f
      PROVE  [unit EXCEPT !.wanted = f] = [wanted |-> f, result |-> r]
  <2>. HIDE DEF w, r
  <2>. QED BY <1>1
<1>. QED BY <1>2

\* The end of the process keeps the invariant if it reports success only for
\* hardware that was given back.
LEMMA ExitKeeps ==
  ASSUME LifeInv, process' = Down, tasks' = {}, bus' = {}, claimed' = FALSE,
         UNCHANGED <<journal, modified>>,
         unit' \in [wanted : BOOLEAN, result : {"failed", "terminated", "ok"}],
         unit'.result = "ok" => ~modified
  PROVE  LifeInv'
<1>1. /\ process'.at = "down" /\ process' \in [at : Steps, failed : BOOLEAN, degraded : BOOLEAN,
                                              activated : BOOLEAN, accepting : BOOLEAN]
      /\ ~process'.activated
  BY DownIs DEF Steps
<1>. QED BY <1>1 DEF LifeInv, LifeTypes, LifeOrder, OrderlyLife

\* Every step of the process, of systemd and of the world keeps the invariant.
LEMMA LifeStep ==
  ASSUME LifeInv, [LifeNext]_lifeVars
  PROVE  LifeInv'
<1>. USE DEF LifeInv
<1>0. /\ process.at \in Steps /\ process.failed \in BOOLEAN /\ process.degraded \in BOOLEAN
      /\ process.activated \in BOOLEAN /\ process.accepting \in BOOLEAN
      /\ unit = [wanted |-> unit.wanted, result |-> unit.result]
      /\ unit.wanted \in BOOLEAN /\ unit.result \in {"failed", "terminated", "ok"}
  BY DEF LifeTypes
<1>1. ASSUME NEW result \in {"failed", "ok"}, Exit(result), result = "ok" => ~modified,
             UNCHANGED <<journal, modified>>
      PROVE  LifeInv'
  <2>1. unit' = [wanted |-> unit.wanted, result |-> result]
    BY <1>0, <1>1 DEF Exit
  <2>2. unit' \in [wanted : BOOLEAN, result : {"failed", "terminated", "ok"}]
        /\ (unit'.result = "ok" => ~modified)
    BY <1>0, <1>1, <2>1
  <2>. QED BY <1>1, <2>2, ExitKeeps DEF Exit
<1>2. ASSUME ExitEarly PROVE LifeInv'
  BY <1>1, <1>2 DEF ExitEarly
<1>3. CASE StartProcess
  <2>1. /\ process'.at = "inspect" /\ ~process'.activated
        /\ process' \in [at : Steps, failed : BOOLEAN, degraded : BOOLEAN,
                         activated : BOOLEAN, accepting : BOOLEAN]
    BY <1>3, DownIs DEF StartProcess, Steps
  <2>. QED BY <1>3, <2>1 DEF StartProcess, LifeTypes, LifeOrder, OrderlyLife
<1>4. CASE Recover
  <2>1. UNCHANGED <<tasks, bus, claimed, configOk, unit>> /\ process.at = "inspect"
    BY <1>4 DEF Recover
  <2>2. CASE Recovered
    <3>1. process' = [at |-> "configure", failed |-> process.failed, degraded |-> process.degraded,
                      activated |-> process.activated, accepting |-> process.accepting]
      BY <2>2, ProcessStep DEF Recovered, Steps
    <3>2. modified' \in BOOLEAN /\ ~modified'
      BY <2>2 DEF Recovered, OrderlyLife, LifeTypes
    <3>. QED BY <1>0, <2>1, <3>1, <3>2 DEF LifeTypes, LifeOrder, OrderlyLife, Steps
  <2>3. CASE RecoveryFails
    <3>1. process' = [at |-> "configure", failed |-> process.failed, degraded |-> TRUE,
                      activated |-> process.activated, accepting |-> process.accepting]
      BY <2>3 DEF RecoveryFails, LifeTypes
    <3>. QED BY <1>0, <2>1, <2>3, <3>1 DEF RecoveryFails, LifeTypes, LifeOrder, OrderlyLife, Steps
  <2>. QED BY <1>4, <2>2, <2>3 DEF Recover
<1>5. CASE Configure
  <2>1. CASE ExitEarly
    BY <1>2, <2>1
  <2>2. CASE ~ExitEarly
    <3>1. process' = [at |-> "spawn", failed |-> process.failed, degraded |-> process.degraded,
                      activated |-> process.activated, accepting |-> process.accepting]
      BY <1>5, <2>2, ProcessStep DEF Configure, GoTo, Steps
    <3>2. UNCHANGED <<tasks, bus, claimed, journal, modified, configOk, unit>> /\ process.at = "configure"
      BY <1>5, <2>2 DEF Configure
    <3>. QED BY <1>0, <3>1, <3>2 DEF LifeTypes, LifeOrder, OrderlyLife, Steps
  <2>. QED BY <2>1, <2>2
<1>6. CASE SpawnRuntime
  <2>1. process' = [at |-> "export", failed |-> process.failed, degraded |-> process.degraded,
                    activated |-> process.activated, accepting |-> process.accepting]
    BY <1>6, ProcessStep DEF SpawnRuntime, GoTo, Steps
  <2>. QED BY <1>0, <1>6, <2>1 DEF SpawnRuntime, LifeTypes, LifeOrder, OrderlyLife, Steps
<1>7. CASE ExportObject
  <2>1. process' = [at |-> "name", failed |-> process.failed, degraded |-> process.degraded,
                    activated |-> process.activated, accepting |-> process.accepting]
    BY <1>7, ProcessStep DEF ExportObject, GoTo, Steps
  <2>2. UNCHANGED <<journal, modified, claimed, unit>> /\ process.at = "export"
    BY <1>7 DEF ExportObject
  <2>. QED BY <1>0, <2>1, <2>2 DEF LifeTypes, LifeOrder, OrderlyLife, Steps
<1>8. CASE RequestName
  <2>1. process' = [at |-> "activate", failed |-> process.failed, degraded |-> process.degraded,
                    activated |-> process.activated, accepting |-> process.accepting]
    BY <1>8, ProcessStep DEF RequestName, GoTo, Steps
  <2>2. UNCHANGED <<journal, modified, claimed, unit>> /\ process.at = "name" /\ "name" \in bus'
    BY <1>8 DEF RequestName
  <2>. QED BY <1>0, <2>1, <2>2 DEF LifeTypes, LifeOrder, OrderlyLife, Steps
<1>9. CASE StartupFails
  BY <1>2, <1>9 DEF StartupFails
<1>10. CASE Activate
  <2>1. CASE ExitEarly
    BY <1>2, <2>1
  <2>2. CASE ~ExitEarly
    <3>1. process' = [at |-> "handlers", failed |-> process.failed, degraded |-> process.degraded,
                      activated |-> TRUE, accepting |-> process.accepting]
      BY <1>10, <2>2 DEF Activate, LifeTypes
    <3>2. UNCHANGED <<tasks, bus, claimed, journal, modified, configOk, unit>> /\ process.at = "activate"
      BY <1>10, <2>2 DEF Activate
    <3>. QED BY <1>0, <3>1, <3>2 DEF LifeTypes, LifeOrder, OrderlyLife, Steps
  <2>. QED BY <2>1, <2>2
<1>11. CASE InstallHandlers
  <2>1. process' = [at |-> "serving", failed |-> process.failed, degraded |-> process.degraded,
                    activated |-> process.activated, accepting |-> process.accepting]
    BY <1>11, ProcessStep DEF InstallHandlers, GoTo, Steps
  <2>. QED BY <1>0, <1>11, <2>1 DEF InstallHandlers, LifeTypes, LifeOrder, OrderlyLife, Steps
<1>12. CASE Claims
  <2>1. /\ process.activated /\ process.accepting /\ journal' = "ours" /\ modified' = TRUE
        /\ claimed' = TRUE /\ UNCHANGED <<process, bus, unit>>
    BY <1>12 DEF Claims
  <2>2. process.at \in {"handlers", "serving", "unexport", "close"}
    BY <2>1 DEF LifeOrder
  <2>. QED BY <2>1, <2>2 DEF LifeTypes, LifeOrder, OrderlyLife
<1>13. ASSUME NEW bad \in BOOLEAN, LeaveWait(bad), UNCHANGED <<bus, journal, modified, claimed>>,
              unit' \in {unit, [unit EXCEPT !.wanted = FALSE]}
       PROVE  LifeInv'
  <2>1. process' = [at |-> "unexport", failed |-> process.failed \/ bad, degraded |-> process.degraded,
                    activated |-> process.activated, accepting |-> process.accepting]
    BY <1>13, ProcessStep DEF LeaveWait, Closing, Steps
  <2>2. /\ unit' \in [wanted : BOOLEAN, result : {"failed", "terminated", "ok"}]
        /\ process.at = "serving"
    <3>1. unit' = unit \/ unit' = [wanted |-> FALSE, result |-> unit.result]
      BY <1>0, <1>13, UnitStopped
    <3>2. CASE unit' = unit
      BY <1>13, <3>2 DEF LeaveWait, LifeTypes
    <3>3. CASE unit' = [wanted |-> FALSE, result |-> unit.result]
      BY <1>0, <1>13, <3>3 DEF LeaveWait
    <3>. QED BY <3>1, <3>2, <3>3
  <2>3. LifeTypes'
    BY <1>0, <1>13, <2>1, <2>2 DEF LifeTypes, Steps
  <2>. QED BY <1>0, <1>13, <2>1, <2>2, <2>3 DEF LifeOrder, OrderlyLife
<1>14. CASE Supervise
  BY <1>13, <1>14 DEF Supervise
<1>15. CASE Unexport
  <2>1. process' = [at |-> "close", failed |-> process.failed \/ FALSE, degraded |-> process.degraded,
                    activated |-> process.activated, accepting |-> process.accepting]
    BY <1>15, ProcessStep DEF Unexport, Closing, Steps
  <2>2. UNCHANGED <<journal, modified, claimed, unit>> /\ process.at = "unexport"
        /\ ("name" \in bus => "name" \in bus')
    BY <1>15 DEF Unexport
  <2>. QED BY <1>0, <2>1, <2>2 DEF LifeTypes, LifeOrder, OrderlyLife, Steps
<1>16. CASE CloseControl
  <2>1. /\ process'.at = "join" /\ process'.accepting = FALSE /\ process'.activated = process.activated
        /\ process' \in [at : Steps, failed : BOOLEAN, degraded : BOOLEAN, activated : BOOLEAN,
                         accepting : BOOLEAN]
    BY <1>16 DEF CloseControl, LifeTypes, Steps
  <2>. QED BY <1>0, <1>16, <2>1 DEF CloseControl, LifeTypes, LifeOrder, OrderlyLife
<1>17. CASE JoinTasks
  <2>. DEFINE bad == ~({"signals", "watchers", "logind"} \subseteq tasks)
  <2>1. process' = [at |-> "restore", failed |-> process.failed \/ bad, degraded |-> process.degraded,
                    activated |-> process.activated, accepting |-> process.accepting]
    BY <1>17, ProcessStep DEF JoinTasks, Closing, Steps
  <2>2. bad \in BOOLEAN
    OBVIOUS
  <2>. HIDE DEF bad
  <2>3. UNCHANGED <<bus, journal, modified, claimed, unit>> /\ process.at = "join"
    BY <1>17 DEF JoinTasks
  <2>. QED BY <1>0, <2>1, <2>2, <2>3 DEF LifeTypes, LifeOrder, OrderlyLife, Steps
<1>18. CASE StopRuntime
  <2>1. PICK outcome \in {"restored", "failed", "refused"} :
          Released(outcome) /\ Closing("release", outcome # "restored")
    BY <1>18 DEF StopRuntime
  <2>2. process' = [at |-> "release", failed |-> process.failed \/ outcome # "restored",
                    degraded |-> process.degraded, activated |-> process.activated,
                    accepting |-> process.accepting]
    BY <2>1, ProcessStep DEF Closing, Steps
  <2>3. UNCHANGED <<bus, unit>> /\ claimed' = FALSE /\ process.at = "restore"
    BY <1>18 DEF StopRuntime
  <2>4. \/ outcome = "restored" /\ modified' = FALSE
        \/ outcome # "restored" /\ UNCHANGED <<journal, modified>>
    BY <2>1 DEF Released
  <2>5. LifeTypes'
    BY <1>0, <2>2, <2>3, <2>4 DEF LifeTypes, Steps
  <2>6. LifeOrder'
    BY <1>0, <2>2, <2>3, <2>4 DEF LifeOrder
  <2>7. OrderlyLife'
    BY <1>0, <2>2, <2>3, <2>4 DEF OrderlyLife
  <2>. QED BY <2>5, <2>6, <2>7
<1>19. CASE ReleaseName
  <2>1. process' = [at |-> "finish", failed |-> process.failed \/ FALSE, degraded |-> process.degraded,
                    activated |-> process.activated, accepting |-> process.accepting]
    BY <1>19, ProcessStep DEF ReleaseName, Closing, Steps
  <2>2. UNCHANGED <<journal, modified, claimed, unit>> /\ process.at = "release"
    BY <1>19 DEF ReleaseName
  <2>. QED BY <1>0, <2>1, <2>2 DEF LifeTypes, LifeOrder, OrderlyLife, Steps
<1>20. CASE Finish
  <2>. DEFINE result == IF process.failed \/ "state" \notin tasks THEN "failed" ELSE "ok"
  <2>1. Exit(result) /\ UNCHANGED <<journal, modified>> /\ process.at = "finish"
    BY <1>20 DEF Finish
  <2>2. result \in {"failed", "ok"} /\ (result = "ok" => ~process.failed)
    OBVIOUS
  <2>3. result = "ok" => ~modified
    BY <2>1, <2>2 DEF LifeOrder
  <2>. QED BY <1>1, <2>1, <2>2, <2>3
<1>21. CASE \E task \in tasks : TaskEnds(task)
  BY <1>21 DEF TaskEnds, LifeTypes, LifeOrder, OrderlyLife
<1>22. CASE Crash
  BY <1>1, <1>22 DEF Crash
<1>23. CASE StopOrdered
  <2>1. unit' \in [wanted : BOOLEAN, result : {"failed", "terminated", "ok"}]
        /\ unit' \in {[unit EXCEPT !.wanted = FALSE], [wanted |-> FALSE, result |-> "terminated"]}
    <3>1. [unit EXCEPT !.wanted = FALSE] \in [wanted : BOOLEAN, result : {"failed", "terminated", "ok"}]
      BY <1>0, UnitStopped
    <3>2. [wanted |-> FALSE, result |-> "terminated"]
            \in [wanted : BOOLEAN, result : {"failed", "terminated", "ok"}]
      OBVIOUS
    <3>3. unit' \in {[unit EXCEPT !.wanted = FALSE], [wanted |-> FALSE, result |-> "terminated"]}
      BY <1>23 DEF StopOrdered
    <3>. QED BY <3>1, <3>2, <3>3
  <2>2. CASE LeaveWait(FALSE) /\ unit' = [unit EXCEPT !.wanted = FALSE] /\ UNCHANGED <<tasks, bus, claimed>>
    BY <1>13, <1>23, <2>2 DEF StopOrdered
  <2>3. CASE /\ process' = Down /\ tasks' = {} /\ bus' = {} /\ claimed' = FALSE
             /\ unit' = [wanted |-> FALSE, result |-> "terminated"]
    BY <1>23, <2>1, <2>3, ExitKeeps DEF StopOrdered
  <2>4. CASE unit' = [unit EXCEPT !.wanted = FALSE] /\ UNCHANGED <<process, tasks, bus, claimed>>
    <3>1. unit'.result = unit.result
      BY <1>0, <2>4
    <3>. QED BY <1>23, <2>1, <2>4, <3>1 DEF StopOrdered, LifeTypes, LifeOrder, OrderlyLife
  <2>. QED BY <1>23, <2>2, <2>3, <2>4 DEF StopOrdered
<1>24. CASE StartOrdered
  <2>1. unit' = [wanted |-> TRUE, result |-> unit.result]
    BY <1>0, <1>24 DEF StartOrdered
  <2>. QED BY <1>0, <1>24, <2>1 DEF StartOrdered, LifeTypes, LifeOrder, OrderlyLife
<1>25. CASE ConfigEdited
  BY <1>25 DEF ConfigEdited, LifeTypes, LifeOrder, OrderlyLife
<1>26. CASE UNCHANGED lifeVars
  BY <1>26 DEF lifeVars, LifeTypes, LifeOrder, OrderlyLife
<1>. QED BY <1>3, <1>4, <1>5, <1>6, <1>7, <1>8, <1>9, <1>10, <1>11, <1>12, <1>14, <1>15, <1>16, <1>17,
            <1>18, <1>19, <1>20, <1>21, <1>22, <1>23, <1>24, <1>25, <1>26
         DEF LifeNext, Startup, Shutdown

\* Start-up and shutdown keep their order through any crashes, failed recoveries
\* and restores, lost tasks and orders of systemd: what is claimed is covered by
\* the bus name, what is changed by the journal, and a daemon that reports
\* success has given everything back.
THEOREM LifeStaysOrderly == LifeSpec => []OrderlyLife
<1>1. LifeInit => LifeInv
  <2>. SUFFICES ASSUME LifeInit PROVE LifeInv
    OBVIOUS
  <2>1. LifeTypes
    BY DownIs DEF LifeInit, LifeTypes, Steps
  <2>2. process.at = "down" /\ ~process.activated /\ ~claimed /\ unit.result = "failed"
    BY DownIs DEF LifeInit
  <2>. QED BY <2>1, <2>2 DEF LifeInit, LifeInv, LifeOrder, OrderlyLife
<1>2. LifeInv => OrderlyLife
  BY DEF LifeInv
<1>. QED BY <1>1, <1>2, LifeStep, PTL DEF LifeSpec

-----------------------------------------------------------------------------
(* Proofs: the control plane.                                               *)

\* A call with one record replaced.
LEMMA CallPut ==
  ASSUME call \in [Caller -> Call], NEW c \in Caller, NEW r \in Call
  PROVE  /\ [call EXCEPT ![c] = r] \in [Caller -> Call]
         /\ [call EXCEPT ![c] = r][c] = r
         /\ \A d \in Caller : d # c => [call EXCEPT ![c] = r][d] = call[d]
  OBVIOUS

\* What a reply leaves.
LEMMA ReplyIs ==
  ASSUME ControlTypes, NEW c \in Caller, NEW answer \in Answers, ReplyWith(c, answer)
  PROVE  /\ call' \in [Caller -> Call]
         /\ call'[c].at = "idle" /\ call'[c].what = call[c].what /\ call'[c].answer = answer
         /\ (call'[c].effect <=> answer = "ok")
         /\ call'[c].late = call[c].late /\ call'[c].ahead = call[c].ahead
         /\ \A d \in Caller : d # c => call'[d] = call[d]
<1>. DEFINE e == answer = "ok"
            w == call[c].what
            x == call[c].effect
            l == call[c].late
            h == call[c].ahead
            z == call[c].answer
            r1 == [at |-> "idle", what |-> w, answer |-> z, effect |-> x, late |-> l, ahead |-> h]
            r2 == [at |-> "idle", what |-> w, answer |-> answer, effect |-> x, late |-> l, ahead |-> h]
            r3 == [at |-> "idle", what |-> w, answer |-> answer, effect |-> e, late |-> l, ahead |-> h]
            c1 == [call EXCEPT ![c].at = "idle"]
            c2 == [c1 EXCEPT ![c].answer = answer]
            c3 == [c2 EXCEPT ![c].effect = e]
<1>1. call' = c3
  BY DEF ReplyWith
<1>2. /\ call \in [Caller -> Call] /\ call[c] \in Call
      /\ call[c] = [at |-> call[c].at, what |-> w, answer |-> z, effect |-> x, late |-> l, ahead |-> h]
  BY DEF ControlTypes, Call
<1>3. /\ w \in Whats /\ z \in Answers /\ x \in BOOLEAN /\ l \in BOOLEAN /\ h \in BOOLEAN
      /\ e \in BOOLEAN
  BY <1>2 DEF Call
<1>. HIDE DEF e, w, x, l, h, z
<1>4. r1 \in Call /\ r2 \in Call /\ r3 \in Call
  BY <1>3 DEF Call
<1>5. /\ [call[c] EXCEPT !.at = "idle"] = r1 /\ [r1 EXCEPT !.answer = answer] = r2
      /\ [r2 EXCEPT !.effect = e] = r3
  <2>1. [call[c] EXCEPT !.at = "idle"] = r1
    BY <1>2
  <2>2. [r1 EXCEPT !.answer = answer] = r2
    OBVIOUS
  <2>3. [r2 EXCEPT !.effect = e] = r3
    OBVIOUS
  <2>. QED BY <2>1, <2>2, <2>3
<1>. HIDE DEF r1, r2, r3
<1>6. c1 \in [Caller -> Call] /\ c1[c] = r1 /\ \A d \in Caller : d # c => c1[d] = call[d]
  <2>1. c1 = [call EXCEPT ![c] = r1]
    BY <1>5
  <2>. QED BY <1>2, <1>4, <2>1
<1>. HIDE DEF c1
<1>8. c2 \in [Caller -> Call] /\ c2[c] = r2 /\ \A d \in Caller : d # c => c2[d] = call[d]
  <2>1. c2 = [c1 EXCEPT ![c] = r2]
    BY <1>5, <1>6
  <2>. QED BY <1>4, <1>6, <2>1
<1>. HIDE DEF c2
<1>10. c3 \in [Caller -> Call] /\ c3[c] = r3 /\ \A d \in Caller : d # c => c3[d] = call[d]
  <2>1. c3 = [c2 EXCEPT ![c] = r3]
    BY <1>5, <1>8
  <2>. QED BY <1>4, <1>8, <2>1
<1>. HIDE DEF c3
<1>11. r3.at = "idle" /\ r3.what = w /\ r3.answer = answer /\ r3.effect = e /\ r3.late = l /\ r3.ahead = h
  BY DEF r3
<1>12. /\ call' \in [Caller -> Call] /\ \A d \in Caller : d # c => call'[d] = call[d]
       /\ call'[c].at = "idle" /\ call'[c].what = w /\ call'[c].answer = answer /\ call'[c].effect = e
       /\ call'[c].late = l /\ call'[c].ahead = h
  BY <1>1, <1>10, <1>11
<1>13. e <=> answer = "ok"
  BY DEF e
<1>. QED BY <1>12, <1>13 DEF w, l, h

\* A new call of a caller.
LEMMA CommandIs ==
  ASSUME ControlTypes, NEW what \in Whats, NEW at \in {"authorizing", "sending"}
  PROVE  Command(what, at) \in Call
         /\ Command(what, at) = [at |-> at, what |-> what, answer |-> "none", effect |-> FALSE,
                                 late |-> Closed, ahead |-> FALSE]
<1>. DEFINE k == Closed
            f == FALSE
            n == "none"
            r0 == [at |-> "idle", what |-> n, answer |-> n, effect |-> f, late |-> f, ahead |-> f]
            r1 == [at |-> at, what |-> n, answer |-> n, effect |-> f, late |-> f, ahead |-> f]
            r2 == [at |-> at, what |-> what, answer |-> n, effect |-> f, late |-> f, ahead |-> f]
            r3 == [at |-> at, what |-> what, answer |-> n, effect |-> f, late |-> k, ahead |-> f]
<1>1. k \in BOOLEAN /\ f \in BOOLEAN /\ n \in Answers
  BY DEF Closed, Answers
<1>2. Command(what, at) = [r0 EXCEPT !.at = at, !.what = what, !.late = k]
  BY DEF Command, Idle
<1>. HIDE DEF k, f, n
<1>3. [r0 EXCEPT !.at = at] = r1 /\ [r1 EXCEPT !.what = what] = r2 /\ [r2 EXCEPT !.late = k] = r3
  <2>1. [r0 EXCEPT !.at = at] = r1
    OBVIOUS
  <2>2. [r1 EXCEPT !.what = what] = r2
    OBVIOUS
  <2>3. [r2 EXCEPT !.late = k] = r3
    OBVIOUS
  <2>. QED BY <2>1, <2>2, <2>3
<1>4. r3 \in Call
  BY <1>1 DEF Call
<1>. HIDE DEF r0, r1, r2, r3
<1>5. Command(what, at) = r3
  BY <1>2, <1>3
<1>. QED BY <1>4, <1>5, Zenon DEF r3, k, f, n

\* The channel without its first command.
LEMMA TailIs ==
  ASSUME commands \in Seq(Caller), commands # << >>
  PROVE  /\ Tail(commands) \in Seq(Caller) /\ Len(Tail(commands)) = Len(commands) - 1
         /\ Head(commands) = commands[1] /\ commands[1] \in Caller /\ Len(commands) \in Nat \ {0}
         /\ \A i \in 1 .. Len(commands) - 1 : Tail(commands)[i] = commands[i + 1]
  OBVIOUS

\* What the types say of one call.
LEMMA CallTypes ==
  ASSUME ControlTypes, NEW c \in Caller
  PROVE  /\ call[c] \in Call /\ call[c].what \in Whats /\ call[c].answer \in Answers
         /\ call[c].at \in {"idle", "authorizing", "sending", "waiting"}
         /\ call[c].effect \in BOOLEAN /\ call[c].late \in BOOLEAN /\ call[c].ahead \in BOOLEAN
         /\ c # Main => c \in Client
         /\ c \in Client => c # Main
  BY MainIsNoClient DEF ControlTypes, Call, Caller

\* Once begin_shutdown has returned, the barrier is closed.
LEMMA ClosedFor ==
  ASSUME ControlTypes, Barrier, Closed
  PROVE  ~stateTask.accepting
<1>1. call[Main].at \in {"idle", "sending", "waiting"}
  BY CallTypes DEF ControlTypes, Caller
<1>. QED BY <1>1 DEF Closed, Barrier

\* A call whose caller is neither queued nor in flight may change, if it is left
\* out of the channel and true to its answer.
LEMMA ClientMoves ==
  ASSUME ControlInv, NEW c \in Client, call[c].at # "waiting", NEW r \in Call,
         call' = [call EXCEPT ![c] = r], UNCHANGED <<commands, stateTask>>,
         r.at # "waiting", r.what \in Quick \cup Slow \cup {"none"},
         ~r.effect, ~r.ahead, r.late => ~stateTask.accepting, r.answer # "ok"
  PROVE  ControlInv'
<1>. USE DEF ControlInv
<1>1. /\ c \in Caller /\ Main \in Caller /\ c # Main /\ call \in [Caller -> Call]
  BY MainIsNoClient DEF Caller, ControlTypes
<1>2. /\ call' \in [Caller -> Call] /\ call'[c] = r
      /\ \A d \in Caller : d # c => call'[d] = call[d]
  BY <1>1
<1>3. call'[Main] = call[Main]
  BY <1>1, <1>2
<1>4. c \notin stateTask.inFlight /\ \A i \in 1 .. Len(commands) : commands[i] # c
  BY DEF Queued
<1>5. \A i \in 1 .. Len(commands) : commands[i] \in Caller
  BY DEF ControlTypes
<1>6. Client \subseteq Caller /\ stateTask.inFlight \subseteq Client
  BY DEF ControlTypes, Caller
<1>7. ControlTypes'
  BY <1>1, <1>2, <1>3, <1>6 DEF ControlTypes
<1>8. Queued'
  BY <1>1, <1>2, <1>4, <1>5, <1>6 DEF Queued
<1>9. Barrier'
  BY <1>1, <1>2, <1>3, <1>4, <1>5, <1>6 DEF Barrier
<1>10. ControlBarrier'
  BY <1>2, <1>6 DEF ControlBarrier
<1>. QED BY <1>7, <1>8, <1>9, <1>10

\* main.rs may go on to a call that says as much of the barrier.
LEMMA MainMoves ==
  ASSUME ControlInv, call[Main].at # "waiting", NEW r \in Call,
         call' = [call EXCEPT ![Main] = r], UNCHANGED <<commands, stateTask>>,
         r.at \in {"idle", "sending"}, r.what \in {"none", "activate", "begin", "stop"},
         r.at = "sending" => r.answer = "none" /\ ~r.effect,
         ~stateTask.accepting => r.what = "stop" \/ (r.what = "begin" /\ r.at = "idle"),
         r.what = "stop" \/ (r.what = "begin" /\ r.at = "idle") => ~stateTask.accepting
  PROVE  ControlInv'
<1>. USE DEF ControlInv
<1>1. /\ Main \in Caller /\ Main \notin Client /\ call \in [Caller -> Call]
  BY MainIsNoClient DEF Caller, ControlTypes
<1>2. /\ call' \in [Caller -> Call] /\ call'[Main] = r
      /\ \A d \in Caller : d # Main => call'[d] = call[d]
  BY <1>1
<1>3. Client \subseteq Caller /\ stateTask.inFlight \subseteq Client
  BY DEF ControlTypes, Caller
<1>4. \A d \in Client : call'[d] = call[d]
  BY <1>1, <1>2, <1>3
<1>5. \A i \in 1 .. Len(commands) : commands[i] # Main /\ commands[i] \in Client
  BY DEF Queued, ControlTypes, Caller
<1>6. ControlTypes'
  BY <1>1, <1>2, <1>4, <1>3 DEF ControlTypes
<1>7. Queued'
  BY <1>2, <1>3, <1>4, <1>5 DEF Queued, Caller
<1>8. Barrier'
  BY <1>2, <1>3, <1>4, <1>5 DEF Barrier
<1>9. ControlBarrier'
  BY <1>4 DEF ControlBarrier
<1>. QED BY <1>6, <1>7, <1>8, <1>9

\* A caller that is not waiting joins the channel.
LEMMA Submits ==
  ASSUME ControlInv, NEW c \in Caller, Submit(c)
  PROVE  ControlInv'
<1>. USE DEF ControlInv
<1>. DEFINE h == call[Main].what \notin {"begin", "stop"}
                 \/ (call[Main].what = "begin" /\ call[Main].at = "sending")
            n == Len(commands)
            r == [at |-> "waiting", what |-> call[c].what, answer |-> call[c].answer,
                  effect |-> call[c].effect, late |-> call[c].late, ahead |-> h]
<1>1. /\ Main \in Caller /\ Main \notin Client /\ call \in [Caller -> Call] /\ Client \subseteq Caller
      /\ stateTask.inFlight \subseteq Client /\ commands \in Seq(Caller) /\ n \in Nat
      /\ call[c].at = "sending" /\ stateTask.alive
  BY MainIsNoClient DEF Caller, ControlTypes, Submit
<1>2. /\ call' \in [Caller -> Call] /\ call'[c] = r
      /\ \A d \in Caller : d # c => call'[d] = call[d]
  <2>. DEFINE w == call[c].what
              x == call[c].effect
              l == call[c].late
              z == call[c].answer
              r1 == [at |-> "waiting", what |-> w, answer |-> z, effect |-> x, late |-> l,
                     ahead |-> call[c].ahead]
              r2 == [at |-> "waiting", what |-> w, answer |-> z, effect |-> x, late |-> l, ahead |-> h]
              c1 == [call EXCEPT ![c].at = "waiting"]
              c2 == [c1 EXCEPT ![c].ahead = h]
  <2>1. call' = c2
    BY DEF Submit
  <2>2. call[c] = [at |-> call[c].at, what |-> w, answer |-> z, effect |-> x, late |-> l,
                   ahead |-> call[c].ahead]
    BY <1>1 DEF Call
  <2>3. w \in Whats /\ z \in Answers /\ x \in BOOLEAN /\ l \in BOOLEAN /\ h \in BOOLEAN
        /\ call[c].ahead \in BOOLEAN
    BY CallTypes
  <2>. HIDE DEF w, x, l, z, h
  <2>4. r1 \in Call /\ r2 \in Call
    BY <2>3 DEF Call
  <2>5. [call[c] EXCEPT !.at = "waiting"] = r1
    BY <2>2
  <2>6. [r1 EXCEPT !.ahead = h] = r2
    OBVIOUS
  <2>. HIDE DEF r1, r2
  <2>7. c1 \in [Caller -> Call] /\ c1[c] = r1 /\ \A d \in Caller : d # c => c1[d] = call[d]
    <3>1. c1 = [call EXCEPT ![c] = r1]
      BY <2>5
    <3>. QED BY <1>1, <2>4, <3>1
  <2>. HIDE DEF c1
  <2>8. c2 \in [Caller -> Call] /\ c2[c] = r2 /\ \A d \in Caller : d # c => c2[d] = call[d]
    <3>1. c2 = [c1 EXCEPT ![c] = r2]
      BY <2>6, <2>7
    <3>. QED BY <2>4, <2>7, <3>1
  <2>. HIDE DEF c2
  <2>. QED BY <2>1, <2>8 DEF r2, w, x, l, z
<1>3. /\ commands' \in Seq(Caller) /\ Len(commands') = n + 1 /\ commands'[n + 1] = c
      /\ \A i \in 1 .. n : commands'[i] = commands[i]
  BY <1>1 DEF Submit
<1>4. /\ UNCHANGED stateTask /\ stateTask.inFlight' = stateTask.inFlight
  BY DEF Submit
<1>5. c \notin stateTask.inFlight /\ \A i \in 1 .. n : commands[i] # c /\ commands[i] \in Caller
  BY <1>1 DEF Queued
<1>6. /\ call'[c].at = "waiting" /\ call'[c].what = call[c].what /\ call'[c].answer = call[c].answer
      /\ call'[c].effect = call[c].effect /\ call'[c].late = call[c].late /\ call'[c].ahead = h
      /\ h \in BOOLEAN
  BY <1>2
<1>. HIDE DEF r
<1>7. ControlTypes'
  BY <1>1, <1>2, <1>3, <1>4, <1>6 DEF ControlTypes
<1>8. ~call'[c].effect
  BY <1>1, <1>6 DEF Queued
<1>9. \A i \in 1 .. n + 1 : i = n + 1 \/ i \in 1 .. n
  BY <1>1
<1>. HIDE DEF n
<1>10. Queued'
  <2>1. \A i \in 1 .. n + 1 : /\ call'[commands'[i]].at = "waiting"
                              /\ commands'[i] \notin stateTask.inFlight /\ ~call'[commands'[i]].effect
    BY <1>2, <1>3, <1>5, <1>6, <1>8, <1>9 DEF Queued, n
  <2>2. \A i, j \in 1 .. n + 1 : i # j => commands'[i] # commands'[j]
    BY <1>3, <1>5, <1>9 DEF Queued, n
  <2>3. \A d \in stateTask.inFlight : call'[d].at = "waiting"
    BY <1>1, <1>2, <1>5 DEF Queued
  <2>4. \A d \in Client : call'[d].at = "waiting" =>
          d \in stateTask.inFlight \/ \E i \in 1 .. n + 1 : commands'[i] = d
    <3>. SUFFICES ASSUME NEW d \in Client, call'[d].at = "waiting", d \notin stateTask.inFlight
                  PROVE  \E i \in 1 .. n + 1 : commands'[i] = d
      OBVIOUS
    <3>1. CASE d = c
      BY <1>1, <1>3, <3>1 DEF n
    <3>2. CASE d # c
      <4>1. PICK i \in 1 .. n : commands[i] = d
        BY <1>1, <1>2, <3>2 DEF Queued, n
      <4>2. i \in 1 .. n + 1
        BY <1>1, <4>1 DEF n
      <4>. QED BY <1>3, <4>1, <4>2
    <3>. QED BY <3>1, <3>2
  <2>5. \A d \in Caller : call'[d].at \in {"authorizing", "sending"} => ~call'[d].effect
    BY <1>2, <1>6 DEF Queued
  <2>. QED BY <1>3, <1>4, <2>1, <2>2, <2>3, <2>4, <2>5 DEF Queued
<1>11. Barrier'
  <2>1. CASE c = Main
    <3>1. \A d \in Client : call'[d] = call[d]
      BY <1>1, <1>2, <2>1
    <3>2. \A i \in 1 .. n : commands[i] # Main /\ commands[i] \in Client
      BY <1>5, <2>1 DEF Caller
    <3>3. \A i \in 1 .. Len(commands)' : commands'[i] \in Client /\ call'[commands'[i]].ahead =>
            /\ stateTask.accepting
            /\ \A j \in 1 .. Len(commands)' : commands'[j] = Main /\ call'[Main].what = "begin" => i < j
      <4>. SUFFICES ASSUME NEW i \in 1 .. n + 1, commands'[i] \in Client, call'[commands'[i]].ahead
                    PROVE  /\ stateTask.accepting
                           /\ \A j \in 1 .. n + 1 : commands'[j] = Main => i < j
        BY <1>3
      <4>1. i \in 1 .. n /\ commands'[i] = commands[i] /\ call[commands[i]].ahead
        BY <1>1, <1>3, <1>9, <2>1, <3>1
      <4>2. stateTask.accepting
        BY <4>1 DEF Barrier, n
      <4>3. \A j \in 1 .. n + 1 : commands'[j] = Main => j = n + 1
        BY <1>3, <1>9, <3>2
      <4>4. i < n + 1
        BY <1>1, <4>1 DEF n
      <4>. QED BY <4>2, <4>3, <4>4
    <3>. QED BY <1>1, <1>4, <1>6, <2>1, <3>1, <3>3 DEF Barrier
  <2>2. CASE c # Main
    <3>1. c \in Client /\ call'[Main] = call[Main]
      BY <1>1, <1>2, <2>2 DEF Caller
    <3>2. h => stateTask.accepting /\ \A j \in 1 .. n : commands[j] = Main => call[Main].what # "begin"
      <4>1. ASSUME h PROVE stateTask.accepting
        BY <4>1 DEF Barrier
      <4>2. ASSUME h, NEW j \in 1 .. n, commands[j] = Main PROVE call[Main].what # "begin"
        BY <4>2 DEF Queued, n
      <4>. QED BY <4>1, <4>2
    <3>3. \A i \in 1 .. Len(commands)' : commands'[i] \in Client /\ call'[commands'[i]].ahead =>
            /\ stateTask.accepting
            /\ \A j \in 1 .. Len(commands)' : commands'[j] = Main /\ call'[Main].what = "begin" => i < j
      <4>. SUFFICES ASSUME NEW i \in 1 .. n + 1, commands'[i] \in Client, call'[commands'[i]].ahead
                    PROVE  /\ stateTask.accepting
                           /\ \A j \in 1 .. n + 1 : commands'[j] = Main /\ call[Main].what = "begin" => i < j
        BY <1>3, <3>1
      <4>1. CASE i = n + 1
        BY <1>3, <1>6, <1>9, <2>2, <3>2, <4>1
      <4>2. CASE i \in 1 .. n
        <5>1. commands'[i] = commands[i] /\ call[commands[i]].ahead /\ commands[i] \in Client
          BY <1>2, <1>3, <1>5, <4>2
        <5>2. stateTask.accepting /\ \A j \in 1 .. n : commands[j] = Main /\ call[Main].what = "begin" => i < j
          BY <4>2, <5>1 DEF Barrier, n
        <5>3. ASSUME NEW j \in 1 .. n + 1, commands'[j] = Main, call[Main].what = "begin" PROVE i < j
          <6>1. j \in 1 .. n
            BY <1>3, <1>9, <2>2, <5>3
          <6>. QED BY <1>3, <5>2, <5>3, <6>1
        <5>. QED BY <5>2, <5>3
      <4>. QED BY <1>9, <4>1, <4>2
    <3>4. \A d \in Client :
            /\ call'[d].late => ~stateTask.accepting /\ d \notin stateTask.inFlight
            /\ call'[d].at \in {"authorizing", "sending"} => ~call'[d].ahead
      BY <1>1, <1>2, <1>6 DEF Barrier
    <3>. QED BY <1>1, <1>4, <3>1, <3>3, <3>4 DEF Barrier
  <2>. QED BY <2>1, <2>2
<1>12. ControlBarrier'
  BY <1>1, <1>2, <1>6 DEF ControlBarrier
<1>. QED BY <1>7, <1>10, <1>11, <1>12

\* The first command of the channel and what is left behind it.
LEMMA ReceiveIs ==
  ASSUME ControlInv, NEW c \in Caller, Receive(c)
  PROVE  /\ stateTask.alive /\ Len(commands) \in Nat \ {0} /\ c = commands[1]
         /\ commands' \in Seq(Caller) /\ Len(commands') = Len(commands) - 1
         /\ \A i \in 1 .. Len(commands') :
              /\ i \in Nat /\ i + 1 \in 1 .. Len(commands) /\ commands'[i] = commands[i + 1]
              /\ commands'[i] # c /\ commands'[i] \in Caller
         /\ call[c].at = "waiting" /\ c \notin stateTask.inFlight /\ ~call[c].effect
<1>1. /\ commands \in Seq(Caller) /\ commands # << >> /\ c = Head(commands)
      /\ commands' = Tail(commands) /\ stateTask.alive
  BY DEF ControlInv, ControlTypes, Receive
<1>2. /\ Len(commands) \in Nat \ {0} /\ c = commands[1] /\ commands' \in Seq(Caller)
      /\ Len(commands') = Len(commands) - 1
      /\ \A i \in 1 .. Len(commands) - 1 : commands'[i] = commands[i + 1]
  BY <1>1, TailIs
<1>. DEFINE n == Len(commands)
<1>3. \A i \in 1 .. n - 1 : i \in Nat /\ i + 1 \in 1 .. n /\ i + 1 # 1 /\ i + 1 > i
  <2>. HIDE DEF n
  <2>. QED BY <1>2 DEF n
<1>4. 1 \in 1 .. n
  <2>. HIDE DEF n
  <2>. QED BY <1>2 DEF n
<1>5. \A i \in 1 .. n : commands[i] \in Caller
  BY <1>1
<1>6. \A i \in 1 .. n - 1 : commands'[i] # c
  BY <1>2, <1>3, <1>4 DEF ControlInv, Queued
<1>. QED BY <1>1, <1>2, <1>3, <1>4, <1>5, <1>6 DEF ControlInv, Queued

\* The task answers the first command of the channel; begin_shutdown closes it.
LEMMA HeadReplied ==
  ASSUME ControlInv, NEW c \in Caller, Receive(c), NEW answer \in Answers \ {"none"},
         ReplyWith(c, answer),
         stateTask' \in [alive : BOOLEAN, accepting : BOOLEAN, stopping : BOOLEAN,
                         inFlight : SUBSET Client],
         stateTask'.alive = stateTask.alive, stateTask'.stopping = stateTask.stopping,
         stateTask'.inFlight = stateTask.inFlight,
         stateTask'.accepting <=> stateTask.accepting /\ call[c].what # "begin",
         c \in Client => /\ call[c].ahead => answer \notin {"refused", "lost"}
                         /\ call[c].late => answer # "ok"
  PROVE  ControlInv'
<1>. USE DEF ControlInv
<1>. DEFINE n == Len(commands)
            m == Len(commands')
<1>1. /\ Main \in Caller /\ Main \notin Client /\ Client \subseteq Caller
      /\ stateTask.inFlight \subseteq Client
  BY MainIsNoClient DEF Caller, ControlTypes
<1>2. /\ stateTask.alive /\ n \in Nat \ {0} /\ c = commands[1] /\ commands' \in Seq(Caller) /\ m = n - 1
      /\ \A i \in 1 .. m : /\ i \in Nat /\ i + 1 \in 1 .. n /\ commands'[i] = commands[i + 1]
                           /\ commands'[i] # c /\ commands'[i] \in Caller
      /\ call[c].at = "waiting" /\ c \notin stateTask.inFlight
  BY ReceiveIs
<1>3. /\ call' \in [Caller -> Call] /\ \A d \in Caller : d # c => call'[d] = call[d]
      /\ call'[c].at = "idle" /\ call'[c].what = call[c].what /\ call'[c].answer = answer
      /\ (call'[c].effect <=> answer = "ok") /\ call'[c].late = call[c].late
      /\ call'[c].ahead = call[c].ahead
  BY ReplyIs
<1>. HIDE DEF n, m
<1>4. ControlTypes'
  <2>1. \A d \in Caller : call'[d].what = call[d].what
    BY <1>3
  <2>. QED BY <1>1, <1>2, <1>3, <2>1 DEF ControlTypes
<1>5. Queued'
  <2>1. \A i \in 1 .. m : /\ call'[commands'[i]].at = "waiting"
                          /\ commands'[i] \notin stateTask.inFlight /\ ~call'[commands'[i]].effect
    BY <1>2, <1>3 DEF Queued, n
  <2>2. \A i, j \in 1 .. m : i # j => commands'[i] # commands'[j]
    <3>. SUFFICES ASSUME NEW i \in 1 .. m, NEW j \in 1 .. m, i # j PROVE commands'[i] # commands'[j]
      OBVIOUS
    <3>1. i \in Nat /\ j \in Nat /\ i + 1 # j + 1
      BY <1>2
    <3>. QED BY <1>2, <3>1 DEF Queued, n
  <2>3. \A d \in stateTask.inFlight : call'[d].at = "waiting"
    BY <1>1, <1>2, <1>3 DEF Queued
  <2>4. \A d \in Client : call'[d].at = "waiting" =>
          d \in stateTask.inFlight \/ \E i \in 1 .. m : commands'[i] = d
    <3>. SUFFICES ASSUME NEW d \in Client, call'[d].at = "waiting", d \notin stateTask.inFlight
                  PROVE  \E i \in 1 .. m : commands'[i] = d
      OBVIOUS
    <3>1. d # c /\ call[d].at = "waiting"
      BY <1>1, <1>3
    <3>2. PICK i \in 1 .. n : commands[i] = d
      BY <3>1 DEF Queued, n
    <3>3. i # 1 /\ i \in Nat
      BY <1>2, <3>1, <3>2
    <3>4. i - 1 \in 1 .. m /\ (i - 1) + 1 = i
      BY <1>2, <3>2, <3>3
    <3>. QED BY <1>2, <3>2, <3>4
  <2>5. \A d \in Caller : call'[d].at \in {"authorizing", "sending"} => ~call'[d].effect
    BY <1>3 DEF Queued
  <2>. QED BY <2>1, <2>2, <2>3, <2>4, <2>5 DEF Queued, m
<1>6. call[c].what = "begin" => c = Main
  BY DEF ControlTypes, Caller, Quick, Slow
<1>7. Barrier'
  <2>1. \A i \in 1 .. Len(commands)' : commands'[i] \in Client /\ call'[commands'[i]].ahead =>
          /\ stateTask'.accepting
          /\ \A j \in 1 .. Len(commands)' : commands'[j] = Main /\ call'[Main].what = "begin" => i < j
    <3>. SUFFICES ASSUME NEW i \in 1 .. m, commands'[i] \in Client, call'[commands'[i]].ahead
                  PROVE  /\ stateTask'.accepting
                         /\ \A j \in 1 .. m : commands'[j] = Main /\ call'[Main].what = "begin" => i < j
      BY DEF m
    <3>1. /\ i \in Nat /\ i + 1 \in 1 .. n /\ commands'[i] = commands[i + 1]
          /\ call[commands[i + 1]].ahead /\ commands[i + 1] \in Client
      BY <1>2, <1>3
    <3>2. /\ stateTask.accepting
          /\ \A j \in 1 .. n : commands[j] = Main /\ call[Main].what = "begin" => i + 1 < j
      BY <3>1 DEF Barrier, n
    <3>3. call[c].what # "begin"
      <4>. SUFFICES ASSUME call[c].what = "begin" PROVE FALSE
        OBVIOUS
      <4>1. 1 \in 1 .. n /\ commands[1] = Main /\ call[Main].what = "begin"
        BY <1>2, <1>6
      <4>2. i + 1 < 1
        BY <3>2, <4>1
      <4>. QED BY <3>1, <4>2
    <3>4. ASSUME NEW j \in 1 .. m, commands'[j] = Main, call'[Main].what = "begin" PROVE i < j
      <4>1. j \in Nat /\ j + 1 \in 1 .. n /\ commands[j + 1] = Main /\ call[Main].what = "begin"
        BY <1>2, <1>3, <3>4, <1>1
      <4>2. i + 1 < j + 1
        BY <3>2, <4>1
      <4>. QED BY <3>1, <4>1, <4>2
    <3>. QED BY <3>2, <3>3, <3>4
  <2>2. \A d \in Client :
          /\ call'[d].late => ~stateTask'.accepting /\ d \notin stateTask'.inFlight
          /\ call'[d].at \in {"authorizing", "sending"} => ~call'[d].ahead
    BY <1>1, <1>3 DEF Barrier
  <2>3. CASE c = Main
    <3>1. call'[Main].at = "idle" /\ call'[Main].what = call[Main].what /\ call[Main].at = "waiting"
      BY <1>2, <1>3, <2>3
    <3>. QED BY <1>2, <1>6, <2>1, <2>2, <2>3, <3>1 DEF Barrier
  <2>4. CASE c # Main
    <3>1. call'[Main] = call[Main] /\ call[c].what # "begin"
      BY <1>1, <1>3, <1>6, <2>4
    <3>. QED BY <1>2, <2>1, <2>2, <3>1 DEF Barrier
  <2>. QED BY <2>3, <2>4
<1>8. ControlBarrier'
  BY <1>1, <1>3 DEF ControlBarrier
<1>. QED BY <1>4, <1>5, <1>7, <1>8

\* The task hands a command to a thread, or begins to stop.
LEMMA HeadTaken ==
  ASSUME ControlInv, NEW c \in Caller, Receive(c), UNCHANGED call,
         stateTask' \in [alive : BOOLEAN, accepting : BOOLEAN, stopping : BOOLEAN,
                         inFlight : SUBSET Client],
         stateTask'.alive = stateTask.alive, stateTask'.accepting = stateTask.accepting,
         \/ /\ c \in Client /\ stateTask.accepting /\ stateTask'.stopping = stateTask.stopping
            /\ stateTask'.inFlight = stateTask.inFlight \cup {c}
         \/ /\ c = Main /\ ~stateTask.accepting
            /\ stateTask.inFlight = {} /\ stateTask'.inFlight = {}
  PROVE  ControlInv'
<1>. USE DEF ControlInv
<1>. DEFINE n == Len(commands)
            m == Len(commands')
<1>1. /\ Main \in Caller /\ Main \notin Client /\ Client \subseteq Caller
      /\ stateTask.inFlight \subseteq Client
  BY MainIsNoClient DEF Caller, ControlTypes
<1>2. /\ stateTask.alive /\ n \in Nat \ {0} /\ c = commands[1] /\ commands' \in Seq(Caller) /\ m = n - 1
      /\ \A i \in 1 .. m : /\ i \in Nat /\ i + 1 \in 1 .. n /\ commands'[i] = commands[i + 1]
                           /\ commands'[i] # c /\ commands'[i] \in Caller
      /\ call[c].at = "waiting" /\ c \notin stateTask.inFlight
  BY ReceiveIs
<1>. HIDE DEF n, m
<1>4. ControlTypes'
  BY <1>2 DEF ControlTypes
<1>5. Queued'
  <2>1. \A i \in 1 .. m : /\ call[commands'[i]].at = "waiting"
                          /\ commands'[i] \notin stateTask'.inFlight /\ ~call[commands'[i]].effect
    <3>. SUFFICES ASSUME NEW i \in 1 .. m
                  PROVE  /\ call[commands'[i]].at = "waiting"
                         /\ commands'[i] \notin stateTask'.inFlight /\ ~call[commands'[i]].effect
      OBVIOUS
    <3>1. i + 1 \in 1 .. n /\ commands'[i] = commands[i + 1] /\ commands'[i] # c
      BY <1>2
    <3>2. /\ call[commands[i + 1]].at = "waiting" /\ commands[i + 1] \notin stateTask.inFlight
          /\ ~call[commands[i + 1]].effect
      BY <3>1 DEF Queued, n
    <3>. QED BY <3>1, <3>2
  <2>2. \A i, j \in 1 .. m : i # j => commands'[i] # commands'[j]
    <3>. SUFFICES ASSUME NEW i \in 1 .. m, NEW j \in 1 .. m, i # j PROVE commands'[i] # commands'[j]
      OBVIOUS
    <3>1. i \in Nat /\ j \in Nat /\ i + 1 # j + 1
      BY <1>2
    <3>. QED BY <1>2, <3>1 DEF Queued, n
  <2>3. \A d \in stateTask'.inFlight : call[d].at = "waiting"
    BY <1>2 DEF Queued
  <2>4. \A d \in Client : call[d].at = "waiting" =>
          d \in stateTask'.inFlight \/ \E i \in 1 .. m : commands'[i] = d
    <3>. SUFFICES ASSUME NEW d \in Client, call[d].at = "waiting", d \notin stateTask'.inFlight
                  PROVE  \E i \in 1 .. m : commands'[i] = d
      OBVIOUS
    <3>1. d # c /\ d \notin stateTask.inFlight
      BY <1>1
    <3>2. PICK i \in 1 .. n : commands[i] = d
      BY <3>1 DEF Queued, n
    <3>3. i # 1 /\ i \in Nat
      BY <1>2, <3>1, <3>2
    <3>4. i - 1 \in 1 .. m /\ (i - 1) + 1 = i
      BY <1>2, <3>2, <3>3
    <3>. QED BY <1>2, <3>2, <3>4
  <2>. QED BY <2>1, <2>2, <2>3, <2>4 DEF Queued, m
<1>7. Barrier'
  <2>1. \A i \in 1 .. Len(commands)' : commands'[i] \in Client /\ call[commands'[i]].ahead =>
          /\ stateTask'.accepting
          /\ \A j \in 1 .. Len(commands)' : commands'[j] = Main /\ call[Main].what = "begin" => i < j
    <3>. SUFFICES ASSUME NEW i \in 1 .. m, commands'[i] \in Client, call[commands'[i]].ahead
                  PROVE  /\ stateTask.accepting
                         /\ \A j \in 1 .. m : commands'[j] = Main /\ call[Main].what = "begin" => i < j
      BY DEF m
    <3>1. /\ i \in Nat /\ i + 1 \in 1 .. n /\ commands'[i] = commands[i + 1]
          /\ call[commands[i + 1]].ahead /\ commands[i + 1] \in Client
      BY <1>2
    <3>2. /\ stateTask.accepting
          /\ \A j \in 1 .. n : commands[j] = Main /\ call[Main].what = "begin" => i + 1 < j
      BY <3>1 DEF Barrier, n
    <3>4. ASSUME NEW j \in 1 .. m, commands'[j] = Main, call[Main].what = "begin" PROVE i < j
      <4>1. j \in Nat /\ j + 1 \in 1 .. n /\ commands[j + 1] = Main
        BY <1>2, <3>4
      <4>2. i + 1 < j + 1
        BY <3>2, <3>4, <4>1
      <4>. QED BY <3>1, <4>1, <4>2
    <3>. QED BY <3>2, <3>4
  <2>2. \A d \in Client : call[d].late => ~stateTask'.accepting /\ d \notin stateTask'.inFlight
    BY <1>1 DEF Barrier
  <2>3. stateTask'.stopping => ~stateTask'.accepting /\ stateTask'.inFlight = {}
    BY DEF Barrier
  <2>. QED BY <1>2, <2>1, <2>2, <2>3 DEF Barrier
<1>8. ControlBarrier'
  BY DEF ControlBarrier
<1>. QED BY <1>4, <1>5, <1>7, <1>8

\* A thread moves a call in flight: it writes its rule, or is back with an answer.
LEMMA FlightMoves ==
  ASSUME ControlInv, NEW c \in Client, c \in stateTask.inFlight, UNCHANGED commands,
         call' \in [Caller -> Call], \A d \in Caller : d # c => call'[d] = call[d],
         call'[c].what = call[c].what, call'[c].late = call[c].late,
         stateTask' \in [alive : BOOLEAN, accepting : BOOLEAN, stopping : BOOLEAN,
                         inFlight : SUBSET Client],
         stateTask'.alive = stateTask.alive, stateTask'.accepting = stateTask.accepting,
         stateTask'.stopping = stateTask.stopping,
         \/ call'[c].at = "waiting" /\ stateTask'.inFlight = stateTask.inFlight
         \/ /\ call'[c].at = "idle" /\ call'[c].answer \in {"ok", "error"}
            /\ (call'[c].effect => call'[c].answer = "ok")
            /\ stateTask'.inFlight = stateTask.inFlight \ {c}
  PROVE  ControlInv'
<1>. USE DEF ControlInv
<1>1. /\ Main \in Caller /\ Main \notin Client /\ Client \subseteq Caller /\ c \in Caller
      /\ stateTask.inFlight \subseteq Client /\ stateTask'.inFlight \subseteq stateTask.inFlight
      /\ c # Main /\ call'[Main] = call[Main]
  BY MainIsNoClient DEF Caller, ControlTypes
<1>2. \A i \in 1 .. Len(commands) : commands[i] # c /\ commands[i] \in Caller
  BY DEF Queued, ControlTypes
<1>3. ~call[c].late
  BY DEF Barrier
<1>4. ControlTypes'
  BY <1>1 DEF ControlTypes
<1>5. Queued'
  BY <1>1, <1>2 DEF Queued
<1>6. Barrier'
  BY <1>1, <1>2, <1>3 DEF Barrier
<1>7. ControlBarrier'
  BY <1>1, <1>3 DEF ControlBarrier
<1>. QED BY <1>4, <1>5, <1>6, <1>7

\* A call that ends keeps all but its place and its answer.
LEMMA CallEnds ==
  ASSUME NEW r \in Call, NEW z \in Answers
  PROVE  LET q == [r EXCEPT !.at = "idle", !.answer = z]
         IN /\ q \in Call /\ q.at = "idle" /\ q.answer = z /\ q.what = r.what
            /\ q.effect = r.effect /\ q.late = r.late /\ q.ahead = r.ahead
<1>. DEFINE w == r.what
            x == r.effect
            l == r.late
            h == r.ahead
            q1 == [r EXCEPT !.at = "idle"]
            q2 == [q1 EXCEPT !.answer = z]
<1>1. r = [at |-> r.at, what |-> w, answer |-> r.answer, effect |-> x, late |-> l, ahead |-> h]
  BY DEF Call
<1>2. w \in Whats /\ x \in BOOLEAN /\ l \in BOOLEAN /\ h \in BOOLEAN
  BY DEF Call
<1>. HIDE DEF w, x, l, h
<1>3. q1 = [at |-> "idle", what |-> w, answer |-> r.answer, effect |-> x, late |-> l, ahead |-> h]
  BY <1>1
<1>. HIDE DEF q1
<1>4. q2 = [at |-> "idle", what |-> w, answer |-> z, effect |-> x, late |-> l, ahead |-> h]
  BY <1>3
<1>5. [r EXCEPT !.at = "idle", !.answer = z] = q2
  BY DEF q1
<1>. HIDE DEF q2
<1>6. q2 \in Call /\ q2.at = "idle" /\ q2.answer = z /\ q2.what = w /\ q2.effect = x /\ q2.late = l
        /\ q2.ahead = h
  BY <1>2, <1>4 DEF Call
<1>. QED BY <1>5, <1>6 DEF w, x, l, h

\* The end of the task loses only commands behind the barrier.
LEMMA TaskEnd ==
  ASSUME ControlInv, NEW answer \in {"ok", "error"}, StateTaskEnds(answer)
  PROVE  ControlInv'
<1>. USE DEF ControlInv
<1>1. /\ Main \in Caller /\ Main \notin Client /\ Client \subseteq Caller /\ call \in [Caller -> Call]
      /\ stateTask.stopping /\ commands' = << >> /\ stateTask.inFlight = {} /\ ~stateTask.accepting
      /\ DOMAIN call = Caller
  BY MainIsNoClient DEF Caller, ControlTypes, StateTaskEnds, Barrier
<1>2. stateTask' = [alive |-> FALSE, accepting |-> stateTask.accepting,
                    stopping |-> stateTask.stopping, inFlight |-> {}]
  <2>. DEFINE a == stateTask.accepting
              s == stateTask.stopping
              f == FALSE
              s1 == [stateTask EXCEPT !.alive = f]
  <2>1. stateTask = [alive |-> stateTask.alive, accepting |-> a, stopping |-> s,
                     inFlight |-> stateTask.inFlight]
    BY DEF ControlTypes
  <2>2. stateTask' = [s1 EXCEPT !.inFlight = {}]
    BY DEF StateTaskEnds
  <2>. HIDE DEF a, s, f
  <2>3. s1 = [alive |-> f, accepting |-> a, stopping |-> s, inFlight |-> stateTask.inFlight]
    BY <2>1
  <2>. HIDE DEF s1
  <2>4. [s1 EXCEPT !.inFlight = {}] = [alive |-> f, accepting |-> a, stopping |-> s, inFlight |-> {}]
    BY <2>3
  <2>. QED BY <2>2, <2>4 DEF a, s, f
<1>3. /\ ~stateTask'.alive /\ ~stateTask'.accepting /\ stateTask'.stopping /\ stateTask'.inFlight = {}
      /\ stateTask' \in [alive : BOOLEAN, accepting : BOOLEAN, stopping : BOOLEAN,
                         inFlight : SUBSET Client]
  <2>1. stateTask.accepting \in BOOLEAN /\ stateTask.stopping \in BOOLEAN
    BY DEF ControlTypes
  <2>2. /\ stateTask'.alive = FALSE /\ stateTask'.accepting = stateTask.accepting
        /\ stateTask'.stopping = stateTask.stopping /\ stateTask'.inFlight = {}
    BY <1>2
  <2>3. stateTask' \in [alive : BOOLEAN, accepting : BOOLEAN, stopping : BOOLEAN,
                        inFlight : SUBSET Client]
    BY <1>2, <2>1
  <2>. QED BY <1>1, <2>2, <2>3
<1>5. ASSUME NEW d \in Caller
      PROVE  /\ call'[d] \in Call /\ call'[d].what = call[d].what /\ call'[d].effect = call[d].effect
             /\ call'[d].late = call[d].late /\ call'[d].ahead = call[d].ahead
             /\ d = Main => call'[d].at = "idle"
             /\ d # Main /\ call[d].at = "waiting" => call'[d].at = "idle" /\ call'[d].answer = "lost"
             /\ d # Main /\ call[d].at # "waiting" => call'[d] = call[d]
  <2>0. call[d] \in Call
    BY <1>1
  <2>1. CASE d = Main
    <3>1. call'[d] = [call[d] EXCEPT !.at = "idle", !.answer = answer]
      BY <1>1, <2>1 DEF StateTaskEnds
    <3>2. answer \in Answers
      BY DEF Answers
    <3>. DEFINE q == [call[d] EXCEPT !.at = "idle", !.answer = answer]
    <3>3. /\ q \in Call /\ q.at = "idle" /\ q.answer = answer /\ q.what = call[d].what
          /\ q.effect = call[d].effect /\ q.late = call[d].late /\ q.ahead = call[d].ahead
      BY <2>0, <3>2, CallEnds
    <3>4. call'[d] = q
      BY <3>1
    <3>. HIDE DEF q
    <3>. QED BY <2>1, <3>3, <3>4
  <2>2. CASE d # Main /\ call[d].at = "waiting"
    <3>1. call'[d] = [call[d] EXCEPT !.at = "idle", !.answer = "lost"]
      BY <1>1, <2>2 DEF StateTaskEnds
    <3>2. "lost" \in Answers
      BY DEF Answers
    <3>. DEFINE q == [call[d] EXCEPT !.at = "idle", !.answer = "lost"]
    <3>3. /\ q \in Call /\ q.at = "idle" /\ q.answer = "lost" /\ q.what = call[d].what
          /\ q.effect = call[d].effect /\ q.late = call[d].late /\ q.ahead = call[d].ahead
      BY <2>0, <3>2, CallEnds
    <3>4. call'[d] = q
      BY <3>1
    <3>. HIDE DEF q
    <3>. QED BY <2>2, <3>3, <3>4
  <2>3. CASE d # Main /\ call[d].at # "waiting"
    <3>1. call'[d] = call[d]
      BY <1>1, <2>3 DEF StateTaskEnds
    <3>. QED BY <2>0, <2>3, <3>1
  <2>. QED BY <2>1, <2>2, <2>3
<1>6. call' \in [Caller -> Call]
  <2>1. call' = [d \in Caller |-> call'[d]]
    BY <1>1 DEF StateTaskEnds
  <2>. QED BY <1>5, <2>1
<1>7. \A d \in Client : call[d].at = "waiting" => ~call[d].ahead /\ ~call[d].effect
  BY <1>1 DEF Queued, Barrier
<1>8. Len(commands') = 0 /\ commands' \in Seq(Caller)
  BY <1>1
<1>9. ControlTypes'
  BY <1>1, <1>3, <1>5, <1>6, <1>8 DEF ControlTypes
<1>10. Queued'
  BY <1>1, <1>3, <1>5, <1>8 DEF Queued
<1>11. Barrier'
  BY <1>1, <1>3, <1>5, <1>8 DEF Barrier
<1>12. ControlBarrier'
  BY <1>1, <1>5, <1>7 DEF ControlBarrier
<1>. QED BY <1>9, <1>10, <1>11, <1>12

\* Every step of the callers, of main.rs, of the task and of its threads keeps the
\* invariant.
LEMMA ControlStep ==
  ASSUME ControlInv, [ControlNext]_controlVars
  PROVE  ControlInv'
<1>. USE DEF ControlInv
<1>1. /\ Main \in Caller /\ Main \notin Client /\ Client \subseteq Caller /\ call \in [Caller -> Call]
      /\ DOMAIN call = Caller
  BY MainIsNoClient DEF Caller, ControlTypes
<1>2. ASSUME NEW c \in Caller, NEW z \in Answers,
             call' = [call EXCEPT ![c].at = "idle", ![c].answer = z]
      PROVE  \E r \in Call : /\ call' = [call EXCEPT ![c] = r] /\ r.at = "idle" /\ r.answer = z
                             /\ r.what = call[c].what /\ r.effect = call[c].effect
                             /\ r.late = call[c].late /\ r.ahead = call[c].ahead
  <2>. DEFINE r == [call[c] EXCEPT !.at = "idle", !.answer = z]
  <2>1. call[c] \in Call
    BY <1>1
  <2>2. /\ r \in Call /\ r.at = "idle" /\ r.answer = z /\ r.what = call[c].what
        /\ r.effect = call[c].effect /\ r.late = call[c].late /\ r.ahead = call[c].ahead
    BY <2>1, CallEnds
  <2>3. call' = [call EXCEPT ![c] = r]
    BY <1>1, <1>2
  <2>. HIDE DEF r
  <2>. QED BY <2>2, <2>3
<1>3. ASSUME NEW c \in Client, Denied(c) PROVE ControlInv'
  <2>1. PICK r \in Call : /\ call' = [call EXCEPT ![c] = r] /\ r.at = "idle" /\ r.answer = "denied"
                          /\ r.what = call[c].what /\ r.effect = call[c].effect
                          /\ r.late = call[c].late /\ r.ahead = call[c].ahead
    BY <1>1, <1>2, <1>3 DEF Denied, Answers
  <2>2. call[c].at = "authorizing" /\ UNCHANGED <<commands, stateTask>>
    BY <1>3 DEF Denied
  <2>3. /\ call[c].what \in Quick \cup Slow \cup {"none"} /\ ~call[c].effect /\ ~call[c].ahead
        /\ (call[c].late => ~stateTask.accepting)
    BY <1>1, <2>2 DEF ControlTypes, Queued, Barrier
  <2>. QED BY <2>1, <2>2, <2>3, ClientMoves
<1>4. ASSUME NEW c \in Caller, SubmitFails(c) PROVE ControlInv'
  <2>1. PICK r \in Call : /\ call' = [call EXCEPT ![c] = r] /\ r.at = "idle" /\ r.answer = "lost"
                          /\ r.what = call[c].what /\ r.effect = call[c].effect
                          /\ r.late = call[c].late /\ r.ahead = call[c].ahead
    BY <1>1, <1>2, <1>4 DEF SubmitFails, Answers
  <2>2. /\ call[c].at = "sending" /\ UNCHANGED <<commands, stateTask>> /\ ~stateTask.alive
        /\ ~stateTask.accepting
    BY <1>4 DEF SubmitFails, Barrier
  <2>3. CASE c = Main
    <3>1. call[Main].what = "stop"
      BY <2>2, <2>3 DEF Barrier
    <3>. QED BY <2>1, <2>2, <2>3, <3>1, MainMoves
  <2>4. CASE c # Main
    <3>1. /\ c \in Client /\ call[c].what \in Quick \cup Slow \cup {"none"} /\ ~call[c].effect
          /\ ~call[c].ahead
      BY <1>1, <2>2, <2>4 DEF ControlTypes, Queued, Barrier, Caller
    <3>. QED BY <2>1, <2>2, <3>1, ClientMoves
  <2>. QED BY <2>3, <2>4
<1>5. ASSUME NEW c \in Client, NEW what \in Quick \cup Slow \cup {"none"},
             NEW at \in {"authorizing", "sending"}, call[c].at # "waiting",
             call' = [call EXCEPT ![c] = Command(what, at)], UNCHANGED <<commands, stateTask>>
      PROVE  ControlInv'
  <2>. DEFINE r == Command(what, at)
  <2>1. /\ r \in Call
        /\ r = [at |-> at, what |-> what, answer |-> "none", effect |-> FALSE,
                late |-> Closed, ahead |-> FALSE]
    BY CommandIs DEF Whats
  <2>2. /\ r.at = at /\ r.what = what /\ r.answer = "none" /\ ~r.effect /\ ~r.ahead
        /\ r.late = Closed
    BY <2>1
  <2>. HIDE DEF r
  <2>3. r.late => ~stateTask.accepting
    BY <2>2, ClosedFor
  <2>4. call' = [call EXCEPT ![c] = r]
    BY <1>5 DEF r
  <2>. QED BY <1>5, <2>1, <2>2, <2>3, <2>4, ClientMoves
<1>6. ASSUME NEW c \in Client, Authorized(c) PROVE ControlInv'
  <2>1. call[c].what \in Quick \cup Slow \cup {"none"}
    BY DEF ControlTypes
  <2>. QED BY <1>5, <1>6, <2>1 DEF Authorized
<1>7. ASSUME NEW c \in Client, NEW what \in Quick \cup Slow, ClientAsks(c, what) PROVE ControlInv'
  BY <1>5, <1>7 DEF ClientAsks
<1>8. ASSUME NEW what \in {"activate", "begin", "stop"}, MainAsks(what) PROVE ControlInv'
  <2>. DEFINE r == Command(what, "sending")
  <2>1. /\ r \in Call
        /\ r = [at |-> "sending", what |-> what, answer |-> "none", effect |-> FALSE,
                late |-> Closed, ahead |-> FALSE]
    BY CommandIs DEF Whats
  <2>2. r.at = "sending" /\ r.what = what /\ r.answer = "none" /\ ~r.effect
    BY <2>1
  <2>3. /\ call' = [call EXCEPT ![Main] = r] /\ UNCHANGED <<commands, stateTask>>
        /\ call[Main].at = "idle"
    BY <1>8 DEF MainAsks
  <2>. HIDE DEF r
  <2>4. \/ what = "activate" /\ call[Main].what = "none"
        \/ what = "begin" /\ call[Main].what = "activate"
        \/ what = "stop" /\ call[Main].what \in {"begin", "stop"}
    BY <1>8 DEF MainAsks
  <2>5. /\ ~stateTask.accepting => what = "stop"
        /\ what = "stop" => ~stateTask.accepting
    BY <2>3, <2>4 DEF Barrier
  <2>. QED BY <2>1, <2>2, <2>3, <2>5, MainMoves
<1>9. /\ stateTask \in [alive : BOOLEAN, accepting : BOOLEAN, stopping : BOOLEAN,
                        inFlight : SUBSET Client]
      /\ stateTask.alive \in BOOLEAN /\ stateTask.accepting \in BOOLEAN
      /\ stateTask.stopping \in BOOLEAN /\ stateTask.inFlight \subseteq Client
      /\ stateTask = [alive |-> stateTask.alive, accepting |-> stateTask.accepting,
                      stopping |-> stateTask.stopping, inFlight |-> stateTask.inFlight]
  BY DEF ControlTypes
<1>10. ASSUME NEW c \in Caller, NEW answer \in Answers \ {"none"}, Receive(c), ReplyWith(c, answer),
              UNCHANGED stateTask, call[c].what # "begin",
              c \in Client => \/ answer \in {"error", "conflict"}
                              \/ answer = "ok" /\ stateTask.accepting
                              \/ answer = "refused" /\ ~stateTask.accepting
       PROVE  ControlInv'
  <2>1. c = commands[1] /\ 1 \in 1 .. Len(commands)
    BY <1>10, ReceiveIs
  <2>2. c \in Client => /\ call[c].ahead => stateTask.accepting
                        /\ call[c].late => ~stateTask.accepting
    BY <2>1 DEF Barrier
  <2>. QED BY <1>9, <1>10, <2>2, HeadReplied
<1>11. ASSUME NEW c \in Caller, Refuse(c) PROVE ControlInv'
  BY <1>10, <1>11 DEF Refuse, Answers
<1>12. ASSUME NEW c \in Caller, HandleQuick(c) PROVE ControlInv'
  BY <1>10, <1>12 DEF HandleQuick, Answers, Quick
<1>13. ASSUME NEW c \in Caller, HandleInvalid(c) PROVE ControlInv'
  BY <1>10, <1>13 DEF HandleInvalid, Answers, Quick, Slow
<1>14. ASSUME NEW c \in Caller, HandleSlow(c) PROVE ControlInv'
  <2>1. Receive(c) /\ call[c].what \in Slow /\ stateTask.accepting /\ c \in Client
    BY <1>14 DEF HandleSlow, ControlTypes, Caller, Slow
  <2>2. CASE ReplyWith(c, "conflict") /\ UNCHANGED stateTask
    BY <1>10, <2>1, <2>2 DEF Answers, Slow
  <2>3. CASE stateTask' = [stateTask EXCEPT !.inFlight = @ \cup {c}] /\ UNCHANGED call
    <3>1. stateTask' = [alive |-> stateTask.alive, accepting |-> stateTask.accepting,
                        stopping |-> stateTask.stopping, inFlight |-> stateTask.inFlight \cup {c}]
      BY <1>9, <2>3
    <3>2. /\ stateTask' \in [alive : BOOLEAN, accepting : BOOLEAN, stopping : BOOLEAN,
                              inFlight : SUBSET Client]
          /\ stateTask'.alive = stateTask.alive /\ stateTask'.accepting = stateTask.accepting
          /\ stateTask'.stopping = stateTask.stopping
          /\ stateTask'.inFlight = stateTask.inFlight \cup {c}
      BY <1>9, <2>1, <3>1
    <3>. QED BY <2>1, <2>3, <3>2, HeadTaken
  <2>. QED BY <1>14, <2>2, <2>3 DEF HandleSlow
<1>15. ASSUME NEW c \in Caller, HandleBegin(c) PROVE ControlInv'
  <2>1. Receive(c) /\ call[c].what = "begin" /\ ReplyWith(c, "ok") /\ c \notin Client
    BY <1>15 DEF HandleBegin, ControlTypes, Quick, Slow
  <2>2. stateTask' = [alive |-> stateTask.alive, accepting |-> FALSE,
                      stopping |-> stateTask.stopping, inFlight |-> stateTask.inFlight]
    <3>1. ASSUME NEW f PROVE [stateTask EXCEPT !.accepting = f] =
            [alive |-> stateTask.alive, accepting |-> f,
             stopping |-> stateTask.stopping, inFlight |-> stateTask.inFlight]
      BY <1>9
    <3>. QED BY <1>15, <3>1, Zenon DEF HandleBegin
  <2>3. /\ stateTask' \in [alive : BOOLEAN, accepting : BOOLEAN, stopping : BOOLEAN,
                            inFlight : SUBSET Client]
        /\ stateTask'.alive = stateTask.alive /\ ~stateTask'.accepting
        /\ stateTask'.stopping = stateTask.stopping /\ stateTask'.inFlight = stateTask.inFlight
    BY <1>9, <2>2
  <2>4. "ok" \in Answers \ {"none"}
    BY DEF Answers
  <2>. QED BY <2>1, <2>3, <2>4, HeadReplied
<1>16. ASSUME NEW c \in Caller, HandleStop(c) PROVE ControlInv'
  <2>1. Receive(c) /\ call[c].what = "stop" /\ c = Main
    BY <1>16 DEF HandleStop, ControlTypes, Quick, Slow, Caller
  <2>2. CASE ReplyWith(c, "conflict") /\ UNCHANGED stateTask
    BY <1>1, <1>10, <2>1, <2>2 DEF Answers
  <2>3. CASE /\ stateTask.inFlight = {} /\ UNCHANGED call
             /\ stateTask' = [stateTask EXCEPT !.accepting = FALSE, !.stopping = TRUE]
    <3>1. ~stateTask.accepting
      BY <2>1 DEF Barrier
    <3>2. ASSUME NEW f, NEW t PROVE [stateTask EXCEPT !.accepting = f, !.stopping = t] =
            [alive |-> stateTask.alive, accepting |-> f, stopping |-> t,
             inFlight |-> stateTask.inFlight]
      <4>. DEFINE s1 == [stateTask EXCEPT !.accepting = f]
      <4>1. s1 = [alive |-> stateTask.alive, accepting |-> f, stopping |-> stateTask.stopping,
                  inFlight |-> stateTask.inFlight]
        BY <1>9
      <4>2. [stateTask EXCEPT !.accepting = f, !.stopping = t] = [s1 EXCEPT !.stopping = t]
        OBVIOUS
      <4>. HIDE DEF s1
      <4>3. [s1 EXCEPT !.stopping = t] = [alive |-> stateTask.alive, accepting |-> f, stopping |-> t,
                                          inFlight |-> stateTask.inFlight]
        BY <4>1
      <4>. QED BY <4>2, <4>3
    <3>3. stateTask' = [alive |-> stateTask.alive, accepting |-> FALSE, stopping |-> TRUE,
                        inFlight |-> stateTask.inFlight]
      BY <2>3, <3>2, Zenon
    <3>4. /\ stateTask' \in [alive : BOOLEAN, accepting : BOOLEAN, stopping : BOOLEAN,
                              inFlight : SUBSET Client]
          /\ stateTask'.alive = stateTask.alive /\ stateTask'.accepting = stateTask.accepting
          /\ stateTask'.inFlight = {}
      BY <1>9, <2>3, <3>1, <3>3
    <3>. QED BY <2>1, <2>3, <3>1, <3>4, HeadTaken
  <2>. QED BY <1>16, <2>2, <2>3 DEF HandleStop
<1>17. ASSUME NEW c \in Client, RuleWritten(c) PROVE ControlInv'
  <2>. DEFINE t == TRUE
              r == [at |-> call[c].at, what |-> call[c].what, answer |-> call[c].answer,
                    effect |-> t, late |-> call[c].late, ahead |-> call[c].ahead]
  <2>1. c \in Caller /\ c \in stateTask.inFlight /\ UNCHANGED <<commands, stateTask>>
        /\ call[c].at = "waiting" /\ call[c] \in Call
    BY <1>1, <1>17 DEF RuleWritten, Queued
  <2>2. call[c] = [at |-> call[c].at, what |-> call[c].what, answer |-> call[c].answer,
                   effect |-> call[c].effect, late |-> call[c].late, ahead |-> call[c].ahead]
    BY <2>1 DEF Call
  <2>3. r \in Call
    BY <2>1 DEF Call
  <2>4. call' = [call EXCEPT ![c] = [call[c] EXCEPT !.effect = t]]
    BY <1>17 DEF RuleWritten
  <2>. HIDE DEF t
  <2>5. [call[c] EXCEPT !.effect = t] = r
    BY <2>2
  <2>6. r.what = call[c].what /\ r.late = call[c].late /\ r.at = "waiting"
    BY <2>1
  <2>. HIDE DEF r
  <2>7. /\ call' \in [Caller -> Call] /\ call'[c] = r
        /\ \A d \in Caller : d # c => call'[d] = call[d]
    BY <1>1, <2>1, <2>3, <2>4, <2>5
  <2>. QED BY <1>9, <2>1, <2>6, <2>7, FlightMoves
<1>18. ASSUME NEW c \in Client, NEW answer \in {"ok", "error"}, SlowEnds(c, answer) PROVE ControlInv'
  <2>1. /\ c \in Caller /\ c \in stateTask.inFlight /\ UNCHANGED commands /\ answer \in Answers
        /\ ReplyWith(c, answer)
    BY <1>1, <1>18 DEF SlowEnds, Answers
  <2>2. stateTask' = [alive |-> stateTask.alive, accepting |-> stateTask.accepting,
                      stopping |-> stateTask.stopping, inFlight |-> stateTask.inFlight \ {c}]
    BY <1>9, <1>18 DEF SlowEnds
  <2>3. /\ stateTask' \in [alive : BOOLEAN, accepting : BOOLEAN, stopping : BOOLEAN,
                            inFlight : SUBSET Client]
        /\ stateTask'.alive = stateTask.alive /\ stateTask'.accepting = stateTask.accepting
        /\ stateTask'.stopping = stateTask.stopping
        /\ stateTask'.inFlight = stateTask.inFlight \ {c}
    BY <1>9, <2>2
  <2>4. /\ call' \in [Caller -> Call] /\ \A d \in Caller : d # c => call'[d] = call[d]
        /\ call'[c].at = "idle" /\ call'[c].what = call[c].what /\ call'[c].answer = answer
        /\ (call'[c].effect <=> answer = "ok") /\ call'[c].late = call[c].late
    BY <2>1, ReplyIs
  <2>. QED BY <2>1, <2>3, <2>4, FlightMoves
<1>19. CASE UNCHANGED controlVars
  BY <1>19 DEF controlVars, ControlTypes, Queued, Barrier, ControlBarrier
<1>20. ASSUME Handle PROVE ControlInv'
  BY <1>1, <1>11, <1>12, <1>13, <1>14, <1>15, <1>16, <1>20 DEF Handle
<1>21. ASSUME Threads PROVE ControlInv'
  BY <1>17, <1>18, <1>21 DEF Threads
<1>22. ASSUME Sending PROVE ControlInv'
  BY <1>1, <1>4, <1>22, Submits DEF Sending
<1>. QED BY <1>3, <1>6, <1>7, <1>8, <1>19, <1>20, <1>21, <1>22, TaskEnd
         DEF ControlNext, MainGoesOn, ControlEnds

\* The barrier of begin_shutdown holds for any clients, capacity of the channel and
\* number of calls: what is ahead of it is handled, what comes after it has no
\* effect, and what a caller is told is what happened.
THEOREM BarrierOfShutdown == ControlSpec => []ControlBarrier
<1>1. ControlInit => ControlInv
  <2>. SUFFICES ASSUME ControlInit PROVE ControlInv
    OBVIOUS
  <2>. DEFINE r == Idle("none")
  <2>1. r \in Call /\ r.at = "idle" /\ r.what = "none" /\ r.answer = "none" /\ ~r.effect /\ ~r.late
        /\ ~r.ahead
    BY DEF Idle, Call, Whats, Answers
  <2>2. \A c \in Caller : call[c] = r
    BY DEF ControlInit, Caller
  <2>3. call = [c \in Caller |-> r]
    BY DEF ControlInit, Caller
  <2>. HIDE DEF r
  <2>4. Main \in Caller /\ Client \subseteq Caller
    BY DEF Caller
  <2>5. commands = << >> /\ Len(commands) = 0 /\ commands \in Seq(Caller)
    BY DEF ControlInit
  <2>6. /\ stateTask.alive /\ stateTask.accepting /\ ~stateTask.stopping /\ stateTask.inFlight = {}
        /\ stateTask \in [alive : BOOLEAN, accepting : BOOLEAN, stopping : BOOLEAN,
                          inFlight : SUBSET Client]
    BY DEF ControlInit
  <2>7. ControlTypes
    BY <2>1, <2>2, <2>3, <2>4, <2>5, <2>6 DEF ControlTypes
  <2>8. Queued
    BY <2>1, <2>2, <2>4, <2>5, <2>6 DEF Queued
  <2>9. Barrier
    BY <2>1, <2>2, <2>4, <2>5, <2>6 DEF Barrier
  <2>10. ControlBarrier
    BY <2>1, <2>2, <2>4 DEF ControlBarrier
  <2>. QED BY <2>7, <2>8, <2>9, <2>10 DEF ControlInv
<1>2. ControlInv => ControlBarrier
  BY DEF ControlInv
<1>. QED BY <1>1, <1>2, ControlStep, PTL DEF ControlSpec

-----------------------------------------------------------------------------
(* Proofs: sleep and wake.                                                  *)

\* What the types say of the core.
LEMMA CoreTypes ==
  ASSUME SleepTypes
  PROVE  /\ core.suspended \in BOOLEAN /\ core.restoring \in BOOLEAN /\ core.restored \in BOOLEAN
         /\ core.failed \in BOOLEAN /\ core.resume \in BOOLEAN /\ core.sleepers \subseteq Nat
         /\ core.wakers \subseteq Nat /\ core.session \in {"active", "locked", "idle"}
  BY DEF SleepTypes, Core, Core

\* The core with another field "suspended".
LEMMA CoreSuspended ==
  ASSUME NEW r \in Core, NEW v \in BOOLEAN
  PROVE  LET q == [r EXCEPT !.suspended = v]
         IN /\ q \in Core /\ q.suspended = v /\ q.restoring = r.restoring /\ q.restored = r.restored
            /\ q.failed = r.failed /\ q.resume = r.resume
            /\ q.sleepers = r.sleepers /\ q.wakers = r.wakers /\ q.session = r.session
<1>. DEFINE a == r.suspended
            b == r.restoring
            d == r.restored
            e == r.failed
            g == r.resume
            h == r.sleepers
            k == r.wakers
            l == r.session
            q == [r EXCEPT !.suspended = v]
<1>1. r = [suspended |-> a, restoring |-> b, restored |-> d, failed |-> e,
       resume |-> g, sleepers |-> h, wakers |-> k, session |-> l]
  BY DEF Core
<1>2. /\ a \in BOOLEAN /\ b \in BOOLEAN /\ d \in BOOLEAN /\ e \in BOOLEAN /\ g \in BOOLEAN
      /\ h \in SUBSET Nat /\ k \in SUBSET Nat /\ l \in {"active", "locked", "idle"}
  BY DEF Core
<1>. HIDE DEF a, b, d, e, g, h, k, l
<1>3. q = [suspended |-> v, restoring |-> b, restored |-> d, failed |-> e,
       resume |-> g, sleepers |-> h, wakers |-> k, session |-> l]
  BY <1>1
<1>. HIDE DEF q
<1>4. q \in Core /\ q.suspended = v /\ q.restoring = b /\ q.restored = d /\ q.failed = e
      /\ q.resume = g /\ q.sleepers = h /\ q.wakers = k /\ q.session = l
  BY <1>2, <1>3 DEF Core
<1>. QED BY <1>4 DEF a, b, d, e, g, h, k, l, q

\* The core with another field "restoring".
LEMMA CoreRestoring ==
  ASSUME NEW r \in Core, NEW v \in BOOLEAN
  PROVE  LET q == [r EXCEPT !.restoring = v]
         IN /\ q \in Core /\ q.restoring = v /\ q.suspended = r.suspended /\ q.restored = r.restored
            /\ q.failed = r.failed /\ q.resume = r.resume
            /\ q.sleepers = r.sleepers /\ q.wakers = r.wakers /\ q.session = r.session
<1>. DEFINE a == r.suspended
            b == r.restoring
            d == r.restored
            e == r.failed
            g == r.resume
            h == r.sleepers
            k == r.wakers
            l == r.session
            q == [r EXCEPT !.restoring = v]
<1>1. r = [suspended |-> a, restoring |-> b, restored |-> d, failed |-> e,
       resume |-> g, sleepers |-> h, wakers |-> k, session |-> l]
  BY DEF Core
<1>2. /\ a \in BOOLEAN /\ b \in BOOLEAN /\ d \in BOOLEAN /\ e \in BOOLEAN /\ g \in BOOLEAN
      /\ h \in SUBSET Nat /\ k \in SUBSET Nat /\ l \in {"active", "locked", "idle"}
  BY DEF Core
<1>. HIDE DEF a, b, d, e, g, h, k, l
<1>3. q = [suspended |-> a, restoring |-> v, restored |-> d, failed |-> e,
       resume |-> g, sleepers |-> h, wakers |-> k, session |-> l]
  BY <1>1
<1>. HIDE DEF q
<1>4. q \in Core /\ q.suspended = a /\ q.restoring = v /\ q.restored = d /\ q.failed = e
      /\ q.resume = g /\ q.sleepers = h /\ q.wakers = k /\ q.session = l
  BY <1>2, <1>3 DEF Core
<1>. QED BY <1>4 DEF a, b, d, e, g, h, k, l, q

\* The core with another field "restored".
LEMMA CoreRestored ==
  ASSUME NEW r \in Core, NEW v \in BOOLEAN
  PROVE  LET q == [r EXCEPT !.restored = v]
         IN /\ q \in Core /\ q.restored = v /\ q.suspended = r.suspended /\ q.restoring = r.restoring
            /\ q.failed = r.failed /\ q.resume = r.resume
            /\ q.sleepers = r.sleepers /\ q.wakers = r.wakers /\ q.session = r.session
<1>. DEFINE a == r.suspended
            b == r.restoring
            d == r.restored
            e == r.failed
            g == r.resume
            h == r.sleepers
            k == r.wakers
            l == r.session
            q == [r EXCEPT !.restored = v]
<1>1. r = [suspended |-> a, restoring |-> b, restored |-> d, failed |-> e,
       resume |-> g, sleepers |-> h, wakers |-> k, session |-> l]
  BY DEF Core
<1>2. /\ a \in BOOLEAN /\ b \in BOOLEAN /\ d \in BOOLEAN /\ e \in BOOLEAN /\ g \in BOOLEAN
      /\ h \in SUBSET Nat /\ k \in SUBSET Nat /\ l \in {"active", "locked", "idle"}
  BY DEF Core
<1>. HIDE DEF a, b, d, e, g, h, k, l
<1>3. q = [suspended |-> a, restoring |-> b, restored |-> v, failed |-> e,
       resume |-> g, sleepers |-> h, wakers |-> k, session |-> l]
  BY <1>1
<1>. HIDE DEF q
<1>4. q \in Core /\ q.suspended = a /\ q.restoring = b /\ q.restored = v /\ q.failed = e
      /\ q.resume = g /\ q.sleepers = h /\ q.wakers = k /\ q.session = l
  BY <1>2, <1>3 DEF Core
<1>. QED BY <1>4 DEF a, b, d, e, g, h, k, l, q

\* The core with another field "failed".
LEMMA CoreFailed ==
  ASSUME NEW r \in Core, NEW v \in BOOLEAN
  PROVE  LET q == [r EXCEPT !.failed = v]
         IN /\ q \in Core /\ q.failed = v /\ q.suspended = r.suspended /\ q.restoring = r.restoring
            /\ q.restored = r.restored /\ q.resume = r.resume
            /\ q.sleepers = r.sleepers /\ q.wakers = r.wakers /\ q.session = r.session
<1>. DEFINE a == r.suspended
            b == r.restoring
            d == r.restored
            e == r.failed
            g == r.resume
            h == r.sleepers
            k == r.wakers
            l == r.session
            q == [r EXCEPT !.failed = v]
<1>1. r = [suspended |-> a, restoring |-> b, restored |-> d, failed |-> e,
       resume |-> g, sleepers |-> h, wakers |-> k, session |-> l]
  BY DEF Core
<1>2. /\ a \in BOOLEAN /\ b \in BOOLEAN /\ d \in BOOLEAN /\ e \in BOOLEAN /\ g \in BOOLEAN
      /\ h \in SUBSET Nat /\ k \in SUBSET Nat /\ l \in {"active", "locked", "idle"}
  BY DEF Core
<1>. HIDE DEF a, b, d, e, g, h, k, l
<1>3. q = [suspended |-> a, restoring |-> b, restored |-> d, failed |-> v,
       resume |-> g, sleepers |-> h, wakers |-> k, session |-> l]
  BY <1>1
<1>. HIDE DEF q
<1>4. q \in Core /\ q.suspended = a /\ q.restoring = b /\ q.restored = d /\ q.failed = v
      /\ q.resume = g /\ q.sleepers = h /\ q.wakers = k /\ q.session = l
  BY <1>2, <1>3 DEF Core
<1>. QED BY <1>4 DEF a, b, d, e, g, h, k, l, q

\* The core with another field "resume".
LEMMA CoreResume ==
  ASSUME NEW r \in Core, NEW v \in BOOLEAN
  PROVE  LET q == [r EXCEPT !.resume = v]
         IN /\ q \in Core /\ q.resume = v /\ q.suspended = r.suspended /\ q.restoring = r.restoring
            /\ q.restored = r.restored /\ q.failed = r.failed
            /\ q.sleepers = r.sleepers /\ q.wakers = r.wakers /\ q.session = r.session
<1>. DEFINE a == r.suspended
            b == r.restoring
            d == r.restored
            e == r.failed
            g == r.resume
            h == r.sleepers
            k == r.wakers
            l == r.session
            q == [r EXCEPT !.resume = v]
<1>1. r = [suspended |-> a, restoring |-> b, restored |-> d, failed |-> e,
       resume |-> g, sleepers |-> h, wakers |-> k, session |-> l]
  BY DEF Core
<1>2. /\ a \in BOOLEAN /\ b \in BOOLEAN /\ d \in BOOLEAN /\ e \in BOOLEAN /\ g \in BOOLEAN
      /\ h \in SUBSET Nat /\ k \in SUBSET Nat /\ l \in {"active", "locked", "idle"}
  BY DEF Core
<1>. HIDE DEF a, b, d, e, g, h, k, l
<1>3. q = [suspended |-> a, restoring |-> b, restored |-> d, failed |-> e,
       resume |-> v, sleepers |-> h, wakers |-> k, session |-> l]
  BY <1>1
<1>. HIDE DEF q
<1>4. q \in Core /\ q.suspended = a /\ q.restoring = b /\ q.restored = d /\ q.failed = e
      /\ q.resume = v /\ q.sleepers = h /\ q.wakers = k /\ q.session = l
  BY <1>2, <1>3 DEF Core
<1>. QED BY <1>4 DEF a, b, d, e, g, h, k, l, q

\* The core with another field "sleepers".
LEMMA CoreSleepers ==
  ASSUME NEW r \in Core, NEW v \in SUBSET Nat
  PROVE  LET q == [r EXCEPT !.sleepers = v]
         IN /\ q \in Core /\ q.sleepers = v /\ q.suspended = r.suspended /\ q.restoring = r.restoring
            /\ q.restored = r.restored /\ q.failed = r.failed
            /\ q.resume = r.resume /\ q.wakers = r.wakers /\ q.session = r.session
<1>. DEFINE a == r.suspended
            b == r.restoring
            d == r.restored
            e == r.failed
            g == r.resume
            h == r.sleepers
            k == r.wakers
            l == r.session
            q == [r EXCEPT !.sleepers = v]
<1>1. r = [suspended |-> a, restoring |-> b, restored |-> d, failed |-> e,
       resume |-> g, sleepers |-> h, wakers |-> k, session |-> l]
  BY DEF Core
<1>2. /\ a \in BOOLEAN /\ b \in BOOLEAN /\ d \in BOOLEAN /\ e \in BOOLEAN /\ g \in BOOLEAN
      /\ h \in SUBSET Nat /\ k \in SUBSET Nat /\ l \in {"active", "locked", "idle"}
  BY DEF Core
<1>. HIDE DEF a, b, d, e, g, h, k, l
<1>3. q = [suspended |-> a, restoring |-> b, restored |-> d, failed |-> e,
       resume |-> g, sleepers |-> v, wakers |-> k, session |-> l]
  BY <1>1
<1>. HIDE DEF q
<1>4. q \in Core /\ q.suspended = a /\ q.restoring = b /\ q.restored = d /\ q.failed = e
      /\ q.resume = g /\ q.sleepers = v /\ q.wakers = k /\ q.session = l
  BY <1>2, <1>3 DEF Core
<1>. QED BY <1>4 DEF a, b, d, e, g, h, k, l, q

\* The core with another field "wakers".
LEMMA CoreWakers ==
  ASSUME NEW r \in Core, NEW v \in SUBSET Nat
  PROVE  LET q == [r EXCEPT !.wakers = v]
         IN /\ q \in Core /\ q.wakers = v /\ q.suspended = r.suspended /\ q.restoring = r.restoring
            /\ q.restored = r.restored /\ q.failed = r.failed
            /\ q.resume = r.resume /\ q.sleepers = r.sleepers /\ q.session = r.session
<1>. DEFINE a == r.suspended
            b == r.restoring
            d == r.restored
            e == r.failed
            g == r.resume
            h == r.sleepers
            k == r.wakers
            l == r.session
            q == [r EXCEPT !.wakers = v]
<1>1. r = [suspended |-> a, restoring |-> b, restored |-> d, failed |-> e,
       resume |-> g, sleepers |-> h, wakers |-> k, session |-> l]
  BY DEF Core
<1>2. /\ a \in BOOLEAN /\ b \in BOOLEAN /\ d \in BOOLEAN /\ e \in BOOLEAN /\ g \in BOOLEAN
      /\ h \in SUBSET Nat /\ k \in SUBSET Nat /\ l \in {"active", "locked", "idle"}
  BY DEF Core
<1>. HIDE DEF a, b, d, e, g, h, k, l
<1>3. q = [suspended |-> a, restoring |-> b, restored |-> d, failed |-> e,
       resume |-> g, sleepers |-> h, wakers |-> v, session |-> l]
  BY <1>1
<1>. HIDE DEF q
<1>4. q \in Core /\ q.suspended = a /\ q.restoring = b /\ q.restored = d /\ q.failed = e
      /\ q.resume = g /\ q.sleepers = h /\ q.wakers = v /\ q.session = l
  BY <1>2, <1>3 DEF Core
<1>. QED BY <1>4 DEF a, b, d, e, g, h, k, l, q

\* The core with another field "session".
LEMMA CoreSession ==
  ASSUME NEW r \in Core, NEW v \in {"active", "locked", "idle"}
  PROVE  LET q == [r EXCEPT !.session = v]
         IN /\ q \in Core /\ q.session = v /\ q.suspended = r.suspended /\ q.restoring = r.restoring
            /\ q.restored = r.restored /\ q.failed = r.failed
            /\ q.resume = r.resume /\ q.sleepers = r.sleepers /\ q.wakers = r.wakers
<1>. DEFINE a == r.suspended
            b == r.restoring
            d == r.restored
            e == r.failed
            g == r.resume
            h == r.sleepers
            k == r.wakers
            l == r.session
            q == [r EXCEPT !.session = v]
<1>1. r = [suspended |-> a, restoring |-> b, restored |-> d, failed |-> e,
       resume |-> g, sleepers |-> h, wakers |-> k, session |-> l]
  BY DEF Core
<1>2. /\ a \in BOOLEAN /\ b \in BOOLEAN /\ d \in BOOLEAN /\ e \in BOOLEAN /\ g \in BOOLEAN
      /\ h \in SUBSET Nat /\ k \in SUBSET Nat /\ l \in {"active", "locked", "idle"}
  BY DEF Core
<1>. HIDE DEF a, b, d, e, g, h, k, l
<1>3. q = [suspended |-> a, restoring |-> b, restored |-> d, failed |-> e,
       resume |-> g, sleepers |-> h, wakers |-> k, session |-> v]
  BY <1>1
<1>. HIDE DEF q
<1>4. q \in Core /\ q.suspended = a /\ q.restoring = b /\ q.restored = d /\ q.failed = e
      /\ q.resume = g /\ q.sleepers = h /\ q.wakers = k /\ q.session = v
  BY <1>2, <1>3 DEF Core
<1>. QED BY <1>4 DEF a, b, d, e, g, h, k, l, q

\* The core after a request to sleep.
LEMMA RequestSleepIs ==
  ASSUME SleepTypes, NEW id \in Nat, RequestSleep(id)
  PROVE  /\ core' \in Core
         /\ ~core'.resume /\ core'.wakers = {} /\ core'.suspended /\ core'.failed = core.failed
         /\ \/ /\ core.failed \/ (core.suspended /\ core.restored)
               /\ core'.restoring = core.restoring /\ core'.restored = core.restored
               /\ core'.sleepers = core.sleepers /\ answered' = answered \cup core.wakers \cup {id}
            \/ /\ ~core.failed /\ core'.restoring /\ ~core'.restored
               /\ core'.sleepers = core.sleepers \cup {id} /\ answered' = answered \cup core.wakers
<1>. DEFINE f == FALSE
            t == TRUE
            none == {}
            more == core.sleepers \cup {id}
<1>1. core \in Core /\ f \in BOOLEAN /\ t \in BOOLEAN /\ none \in SUBSET Nat /\ more \in SUBSET Nat
  BY CoreTypes DEF SleepTypes
<1>2. CASE core.failed
  <2>. DEFINE q1 == [core EXCEPT !.resume = f]
              q2 == [q1 EXCEPT !.wakers = none]
              q3 == [q2 EXCEPT !.suspended = t]
  <2>0. core' = q3 /\ answered' = answered \cup core.wakers \cup {id}
    BY <1>2 DEF RequestSleep
  <2>. HIDE DEF f, t, none, more
  <2>1. /\ q1 \in Core /\ q1.resume = f /\ q1.suspended = core.suspended /\ q1.restoring = core.restoring
        /\ q1.restored = core.restored /\ q1.failed = core.failed
        /\ q1.sleepers = core.sleepers /\ q1.wakers = core.wakers /\ q1.session = core.session
    BY <1>1, CoreResume
  <2>. HIDE DEF q1
  <2>2. /\ q2 \in Core /\ q2.wakers = none /\ q2.suspended = q1.suspended /\ q2.restoring = q1.restoring
        /\ q2.restored = q1.restored /\ q2.failed = q1.failed
        /\ q2.resume = q1.resume /\ q2.sleepers = q1.sleepers /\ q2.session = q1.session
    BY <1>1, <2>1, CoreWakers
  <2>. HIDE DEF q2
  <2>3. /\ q3 \in Core /\ q3.suspended = t /\ q3.restoring = q2.restoring /\ q3.restored = q2.restored
        /\ q3.failed = q2.failed /\ q3.resume = q2.resume
        /\ q3.sleepers = q2.sleepers /\ q3.wakers = q2.wakers /\ q3.session = q2.session
    BY <1>1, <2>2, CoreSuspended
  <2>. HIDE DEF q3
  <2>. QED BY <1>2, <2>0, <2>1, <2>2, <2>3 DEF f, t, none, more
<1>3. CASE ~core.failed /\ core.suspended /\ core.restored
  <2>. DEFINE q1 == [core EXCEPT !.resume = f]
              q2 == [q1 EXCEPT !.wakers = none]
  <2>0. core' = q2 /\ answered' = answered \cup core.wakers \cup {id}
    BY <1>3 DEF RequestSleep
  <2>. HIDE DEF f, t, none, more
  <2>1. /\ q1 \in Core /\ q1.resume = f /\ q1.suspended = core.suspended /\ q1.restoring = core.restoring
        /\ q1.restored = core.restored /\ q1.failed = core.failed
        /\ q1.sleepers = core.sleepers /\ q1.wakers = core.wakers /\ q1.session = core.session
    BY <1>1, CoreResume
  <2>. HIDE DEF q1
  <2>2. /\ q2 \in Core /\ q2.wakers = none /\ q2.suspended = q1.suspended /\ q2.restoring = q1.restoring
        /\ q2.restored = q1.restored /\ q2.failed = q1.failed
        /\ q2.resume = q1.resume /\ q2.sleepers = q1.sleepers /\ q2.session = q1.session
    BY <1>1, <2>1, CoreWakers
  <2>. HIDE DEF q2
  <2>. QED BY <1>3, <2>0, <2>1, <2>2 DEF f, t, none, more
<1>4. CASE ~core.failed /\ ~(core.suspended /\ core.restored)
  <2>. DEFINE q1 == [core EXCEPT !.resume = f]
              q2 == [q1 EXCEPT !.wakers = none]
              q3 == [q2 EXCEPT !.sleepers = more]
              q4 == [q3 EXCEPT !.suspended = t]
              q5 == [q4 EXCEPT !.restored = f]
              q6 == [q5 EXCEPT !.restoring = t]
  <2>0. core' = q6 /\ answered' = answered \cup core.wakers
    BY <1>4 DEF RequestSleep
  <2>. HIDE DEF f, t, none, more
  <2>1. /\ q1 \in Core /\ q1.resume = f /\ q1.suspended = core.suspended /\ q1.restoring = core.restoring
        /\ q1.restored = core.restored /\ q1.failed = core.failed
        /\ q1.sleepers = core.sleepers /\ q1.wakers = core.wakers /\ q1.session = core.session
    BY <1>1, CoreResume
  <2>. HIDE DEF q1
  <2>2. /\ q2 \in Core /\ q2.wakers = none /\ q2.suspended = q1.suspended /\ q2.restoring = q1.restoring
        /\ q2.restored = q1.restored /\ q2.failed = q1.failed
        /\ q2.resume = q1.resume /\ q2.sleepers = q1.sleepers /\ q2.session = q1.session
    BY <1>1, <2>1, CoreWakers
  <2>. HIDE DEF q2
  <2>3. /\ q3 \in Core /\ q3.sleepers = more /\ q3.suspended = q2.suspended /\ q3.restoring = q2.restoring
        /\ q3.restored = q2.restored /\ q3.failed = q2.failed
        /\ q3.resume = q2.resume /\ q3.wakers = q2.wakers /\ q3.session = q2.session
    BY <1>1, <2>2, CoreSleepers
  <2>. HIDE DEF q3
  <2>4. /\ q4 \in Core /\ q4.suspended = t /\ q4.restoring = q3.restoring /\ q4.restored = q3.restored
        /\ q4.failed = q3.failed /\ q4.resume = q3.resume
        /\ q4.sleepers = q3.sleepers /\ q4.wakers = q3.wakers /\ q4.session = q3.session
    BY <1>1, <2>3, CoreSuspended
  <2>. HIDE DEF q4
  <2>5. /\ q5 \in Core /\ q5.restored = f /\ q5.suspended = q4.suspended /\ q5.restoring = q4.restoring
        /\ q5.failed = q4.failed /\ q5.resume = q4.resume
        /\ q5.sleepers = q4.sleepers /\ q5.wakers = q4.wakers /\ q5.session = q4.session
    BY <1>1, <2>4, CoreRestored
  <2>. HIDE DEF q5
  <2>6. /\ q6 \in Core /\ q6.restoring = t /\ q6.suspended = q5.suspended /\ q6.restored = q5.restored
        /\ q6.failed = q5.failed /\ q6.resume = q5.resume
        /\ q6.sleepers = q5.sleepers /\ q6.wakers = q5.wakers /\ q6.session = q5.session
    BY <1>1, <2>5, CoreRestoring
  <2>. HIDE DEF q6
  <2>. QED BY <1>4, <2>0, <2>1, <2>2, <2>3, <2>4, <2>5, <2>6 DEF f, t, none, more
<1>. QED BY <1>2, <1>3, <1>4, CoreTypes

\* The core after a request to resume.
LEMMA RequestResumeIs ==
  ASSUME SleepTypes, NEW id \in Nat, RequestResume(id)
  PROVE  /\ core' \in Core
         /\ core'.failed = core.failed /\ core'.restoring = core.restoring
         /\ core'.sleepers = core.sleepers
         /\ \/ /\ core'.restored = core.restored /\ core'.suspended = core.suspended
               /\ core'.wakers = core.wakers \cup {id} /\ answered' = answered
            \/ /\ ~core'.restored /\ core'.wakers = core.wakers
               /\ answered' = answered \cup {id}
<1>. DEFINE f == FALSE
            t == TRUE
            more == core.wakers \cup {id}
<1>1. core \in Core /\ f \in BOOLEAN /\ t \in BOOLEAN /\ more \in SUBSET Nat
  BY CoreTypes DEF SleepTypes
<1>2. CASE core.suspended /\ core.restoring
  <2>. DEFINE q1 == [core EXCEPT !.resume = t]
              q2 == [q1 EXCEPT !.wakers = more]
  <2>0. core' = q2 /\ answered' = answered
    BY <1>2 DEF RequestResume
  <2>. HIDE DEF f, t, more
  <2>1. /\ q1 \in Core /\ q1.resume = t /\ q1.suspended = core.suspended /\ q1.restoring = core.restoring
        /\ q1.restored = core.restored /\ q1.failed = core.failed
        /\ q1.sleepers = core.sleepers /\ q1.wakers = core.wakers /\ q1.session = core.session
    BY <1>1, CoreResume
  <2>. HIDE DEF q1
  <2>2. /\ q2 \in Core /\ q2.wakers = more /\ q2.suspended = q1.suspended /\ q2.restoring = q1.restoring
        /\ q2.restored = q1.restored /\ q2.failed = q1.failed
        /\ q2.resume = q1.resume /\ q2.sleepers = q1.sleepers /\ q2.session = q1.session
    BY <1>1, <2>1, CoreWakers
  <2>. HIDE DEF q2
  <2>. QED BY <1>2, <2>0, <2>1, <2>2 DEF f, t, more
<1>3. CASE ~(core.suspended /\ core.restoring)
  <2>. DEFINE q1 == [core EXCEPT !.suspended = f]
              q2 == [q1 EXCEPT !.restored = f]
  <2>0. core' = q2 /\ answered' = answered \cup {id}
    BY <1>3 DEF RequestResume
  <2>. HIDE DEF f, t, more
  <2>1. /\ q1 \in Core /\ q1.suspended = f /\ q1.restoring = core.restoring /\ q1.restored = core.restored
        /\ q1.failed = core.failed /\ q1.resume = core.resume
        /\ q1.sleepers = core.sleepers /\ q1.wakers = core.wakers /\ q1.session = core.session
    BY <1>1, CoreSuspended
  <2>. HIDE DEF q1
  <2>2. /\ q2 \in Core /\ q2.restored = f /\ q2.suspended = q1.suspended /\ q2.restoring = q1.restoring
        /\ q2.failed = q1.failed /\ q2.resume = q1.resume
        /\ q2.sleepers = q1.sleepers /\ q2.wakers = q1.wakers /\ q2.session = q1.session
    BY <1>1, <2>1, CoreRestored
  <2>. HIDE DEF q2
  <2>. QED BY <1>3, <2>0, <2>1, <2>2 DEF f, t, more
<1>. QED BY <1>2, <1>3, CoreTypes

\* The core after the end of a restore.
LEMMA RestoreEndsIs ==
  ASSUME SleepTypes, NEW ok \in BOOLEAN, RestoreEnds(ok)
  PROVE  /\ core' \in Core /\ ~core'.restoring /\ core'.failed = ~ok /\ core'.sleepers = {}
         /\ core'.wakers = {} /\ ~core'.resume /\ core'.suspended = ~core.resume
         /\ core'.restored = (ok /\ ~core.resume)
<1>. DEFINE f == FALSE
            none == {}
            x == ~ok
            y == ~core.resume
            z == ok /\ ~core.resume
<1>1. /\ core \in Core /\ f \in BOOLEAN /\ none \in SUBSET Nat /\ x \in BOOLEAN /\ y \in BOOLEAN
      /\ z \in BOOLEAN
  BY CoreTypes DEF SleepTypes
<1>. DEFINE q1 == [core EXCEPT !.restoring = f]
            q2 == [q1 EXCEPT !.failed = x]
            q3 == [q2 EXCEPT !.sleepers = none]
            q4 == [q3 EXCEPT !.wakers = none]
            q5 == [q4 EXCEPT !.resume = f]
            q6 == [q5 EXCEPT !.suspended = y]
            q7 == [q6 EXCEPT !.restored = z]
<1>0. core' = q7
  BY DEF RestoreEnds
<1>. HIDE DEF f, none, x, y, z
<1>2. /\ q1 \in Core /\ q1.restoring = f /\ q1.suspended = core.suspended /\ q1.restored = core.restored
      /\ q1.failed = core.failed /\ q1.resume = core.resume
      /\ q1.sleepers = core.sleepers /\ q1.wakers = core.wakers /\ q1.session = core.session
  BY <1>1, CoreRestoring
<1>. HIDE DEF q1
<1>3. /\ q2 \in Core /\ q2.failed = x /\ q2.suspended = q1.suspended /\ q2.restoring = q1.restoring
      /\ q2.restored = q1.restored /\ q2.resume = q1.resume
      /\ q2.sleepers = q1.sleepers /\ q2.wakers = q1.wakers /\ q2.session = q1.session
  BY <1>1, <1>2, CoreFailed
<1>. HIDE DEF q2
<1>4. /\ q3 \in Core /\ q3.sleepers = none /\ q3.suspended = q2.suspended /\ q3.restoring = q2.restoring
      /\ q3.restored = q2.restored /\ q3.failed = q2.failed
      /\ q3.resume = q2.resume /\ q3.wakers = q2.wakers /\ q3.session = q2.session
  BY <1>1, <1>3, CoreSleepers
<1>. HIDE DEF q3
<1>5. /\ q4 \in Core /\ q4.wakers = none /\ q4.suspended = q3.suspended /\ q4.restoring = q3.restoring
      /\ q4.restored = q3.restored /\ q4.failed = q3.failed
      /\ q4.resume = q3.resume /\ q4.sleepers = q3.sleepers /\ q4.session = q3.session
  BY <1>1, <1>4, CoreWakers
<1>. HIDE DEF q4
<1>6. /\ q5 \in Core /\ q5.resume = f /\ q5.suspended = q4.suspended /\ q5.restoring = q4.restoring
      /\ q5.restored = q4.restored /\ q5.failed = q4.failed
      /\ q5.sleepers = q4.sleepers /\ q5.wakers = q4.wakers /\ q5.session = q4.session
  BY <1>1, <1>5, CoreResume
<1>. HIDE DEF q5
<1>7. /\ q6 \in Core /\ q6.suspended = y /\ q6.restoring = q5.restoring /\ q6.restored = q5.restored
      /\ q6.failed = q5.failed /\ q6.resume = q5.resume
      /\ q6.sleepers = q5.sleepers /\ q6.wakers = q5.wakers /\ q6.session = q5.session
  BY <1>1, <1>6, CoreSuspended
<1>. HIDE DEF q6
<1>8. /\ q7 \in Core /\ q7.restored = z /\ q7.suspended = q6.suspended /\ q7.restoring = q6.restoring
      /\ q7.failed = q6.failed /\ q7.resume = q6.resume
      /\ q7.sleepers = q6.sleepers /\ q7.wakers = q6.wakers /\ q7.session = q6.session
  BY <1>1, <1>7, CoreRestored
<1>. HIDE DEF q7
<1>9. /\ core' \in Core /\ core'.restoring = f /\ core'.failed = x /\ core'.sleepers = none
      /\ core'.wakers = none /\ core'.resume = f /\ core'.suspended = y /\ core'.restored = z
  BY <1>0, <1>2, <1>3, <1>4, <1>5, <1>6, <1>7, <1>8
<1>. QED BY <1>9 DEF f, none, x, y, z

\* A sequence without its first element.
LEMMA TailOf ==
  ASSUME NEW S, NEW q \in Seq(S), q # << >>
  PROVE  /\ Tail(q) \in Seq(S) /\ Len(Tail(q)) = Len(q) - 1 /\ Len(q) \in Nat \ {0}
         /\ Head(q) = q[1] /\ q[1] \in S
         /\ \A i \in 1 .. Len(q) - 1 : Tail(q)[i] = q[i + 1]
         /\ Tail(q) # << >> => Tail(q)[Len(Tail(q))] = q[Len(q)] /\ Len(q) > 1
         /\ Tail(q) = << >> => Len(q) = 1
<1>1. /\ Tail(q) \in Seq(S) /\ Len(Tail(q)) = Len(q) - 1 /\ Len(q) \in Nat \ {0}
      /\ Head(q) = q[1] /\ q[1] \in S
      /\ \A i \in 1 .. Len(q) - 1 : Tail(q)[i] = q[i + 1]
  OBVIOUS
<1>2. Tail(q) = << >> <=> Len(q) = 1
  <2>. DEFINE t == Tail(q)
  <2>1. t \in Seq(S) /\ Len(t) = Len(q) - 1
    BY <1>1
  <2>. HIDE DEF t
  <2>2. t = << >> <=> Len(t) = 0
    BY <2>1
  <2>. QED BY <1>1, <2>1, <2>2 DEF t
<1>3. ASSUME Len(q) # 1 PROVE Tail(q)[Len(Tail(q))] = q[Len(q)] /\ Len(q) > 1
  <2>. DEFINE n == Len(q)
  <2>1. n - 1 \in 1 .. n - 1 /\ (n - 1) + 1 = n /\ n > 1
    <3>. HIDE DEF n
    <3>. QED BY <1>1, <1>3 DEF n
  <2>. QED BY <1>1, <2>1
<1>. QED BY <1>1, <1>2, <1>3

\* A sequence with one more element.
LEMMA AppendOf ==
  ASSUME NEW S, NEW q \in Seq(S), NEW e \in S
  PROVE  /\ Append(q, e) \in Seq(S) /\ Append(q, e) # << >> /\ Len(Append(q, e)) = Len(q) + 1
         /\ Append(q, e)[Len(Append(q, e))] = e /\ Len(q) \in Nat
         /\ \A i \in 1 .. Len(q) : Append(q, e)[i] = q[i]
         /\ \A i \in 1 .. Len(q) + 1 : i \in 1 .. Len(q) \/ i = Len(q) + 1
         /\ q = << >> => Append(q, e) = <<e>>
<1>1. /\ Append(q, e) \in Seq(S) /\ Len(Append(q, e)) = Len(q) + 1 /\ Len(q) \in Nat
      /\ Append(q, e)[Len(q) + 1] = e /\ \A i \in 1 .. Len(q) : Append(q, e)[i] = q[i]
  OBVIOUS
<1>2. Append(q, e) # << >>
  <2>1. Len(<< >>) = 0 /\ Len(Append(q, e)) # 0
    BY <1>1
  <2>. QED BY <2>1
<1>3. \A i \in 1 .. Len(q) + 1 : i \in 1 .. Len(q) \/ i = Len(q) + 1
  <2>. DEFINE n == Len(q)
  <2>1. n \in Nat
    BY <1>1
  <2>. HIDE DEF n
  <2>2. \A i \in 1 .. n + 1 : i \in 1 .. n \/ i = n + 1
    BY <2>1
  <2>. QED BY <2>2 DEF n
<1>4. q = << >> => Append(q, e) = <<e>>
  OBVIOUS
<1>. QED BY <1>1, <1>2, <1>3, <1>4

\* The steps of logind keep the invariant.
LEMMA LogindStep ==
  ASSUME SleepInv, Announces \/ DelayExpires \/ FallsAsleep \/ WakesUp
  PROVE  SleepInv'
<1>. USE DEF SleepInv
<1>1. /\ machine.phase \in {"awake", "delay", "asleep"} /\ machine.expired \in BOOLEAN
      /\ machine.covered \in BOOLEAN /\ announced \in Seq({"sleep", "wake"})
      /\ machine = [phase |-> machine.phase, expired |-> machine.expired, covered |-> machine.covered]
  BY DEF SleepTypes
<1>2. UNCHANGED <<inhibitor, observer, inbox, answered, core, claims, sessions>>
  BY DEF Announces, DelayExpires, FallsAsleep, WakesUp
<1>3. Numbered' /\ Sleeping' /\ Settled' /\ (AtRest' <=> AtRest) /\ (Subscribed' <=> Subscribed)
  BY <1>2 DEF Numbered, Sleeping, Settled, AtRest, Heard, Request, Subscribed
<1>4. CASE Announces
  <2>. DEFINE v == inhibitor /\ Subscribed /\ announced = << >>
  <2>1. /\ machine.phase = "awake" /\ machine'.phase = "delay" /\ machine'.covered = v
        /\ machine' \in [phase : {"awake", "delay", "asleep"}, expired : BOOLEAN, covered : BOOLEAN]
    <3>. DEFINE m1 == [machine EXCEPT !.phase = "delay"]
    <3>1. machine' = [m1 EXCEPT !.covered = v] /\ machine.phase = "awake"
      BY <1>4 DEF Announces
    <3>2. v \in BOOLEAN
      BY DEF SleepTypes
    <3>. HIDE DEF v
    <3>3. m1 = [phase |-> "delay", expired |-> machine.expired, covered |-> machine.covered]
      BY <1>1
    <3>. HIDE DEF m1
    <3>4. machine' = [phase |-> "delay", expired |-> machine.expired, covered |-> v]
      BY <3>1, <3>3
    <3>5. machine'.phase = "delay" /\ machine'.covered = v
      BY <3>4
    <3>6. machine' \in [phase : {"awake", "delay", "asleep"}, expired : BOOLEAN, covered : BOOLEAN]
      BY <1>1, <3>2, <3>4
    <3>. QED BY <3>1, <3>5, <3>6
  <2>2. announced' = IF Subscribed THEN Append(announced, "sleep") ELSE announced
    BY <1>4 DEF Announces
  <2>3. announced' \in Seq({"sleep", "wake"}) /\ (~Subscribed => announced' = << >>)
    BY <1>1, <2>2, AppendOf DEF Announced
  <2>4. v => announced' = <<"sleep">> /\ inhibitor /\ observer.at \in {"loop", "waking"}
    <3>. SUFFICES ASSUME v PROVE announced' = <<"sleep">> /\ observer.at \in {"loop", "waking"}
      OBVIOUS
    <3>1. observer.at # "sleeping"
      BY <2>1 DEF Announced
    <3>2. observer.at \in {"loop", "waking"}
      BY <3>1 DEF Subscribed, SleepTypes
    <3>. QED BY <1>1, <2>2, <3>2, AppendOf
  <2>. HIDE DEF v
  <2>5. SleepTypes'
    BY <1>2, <2>1, <2>3 DEF SleepTypes
  <2>6. Announced'
    BY <1>3, <2>1, <2>3 DEF Announced
  <2>7. Covered'
    BY <1>2, <2>1, <2>4 DEF Covered
  <2>. QED BY <1>3, <2>5, <2>6, <2>7
<1>5. CASE DelayExpires
  <2>. DEFINE t == TRUE
  <2>1. machine' = [machine EXCEPT !.expired = t] /\ machine.phase = "delay"
        /\ UNCHANGED announced
    BY <1>5 DEF DelayExpires
  <2>2. t \in BOOLEAN /\ t
    OBVIOUS
  <2>. HIDE DEF t
  <2>3. machine' = [phase |-> machine.phase, expired |-> t, covered |-> machine.covered]
    BY <1>1, <2>1
  <2>4. /\ machine' \in [phase : {"awake", "delay", "asleep"}, expired : BOOLEAN, covered : BOOLEAN]
        /\ machine'.phase = "delay" /\ machine'.expired
    BY <1>1, <2>1, <2>2, <2>3
  <2>5. SleepTypes'
    BY <1>2, <2>1, <2>4 DEF SleepTypes
  <2>6. Announced' /\ Covered'
    BY <1>3, <2>1, <2>4 DEF Announced, Covered
  <2>. QED BY <1>3, <2>5, <2>6
<1>6. CASE FallsAsleep
  <2>1. machine' = [machine EXCEPT !.phase = "asleep"] /\ machine.phase = "delay"
        /\ UNCHANGED announced /\ (~inhibitor \/ machine.expired)
    BY <1>6 DEF FallsAsleep
  <2>2. machine' = [phase |-> "asleep", expired |-> machine.expired, covered |-> machine.covered]
    BY <1>1, <2>1
  <2>3. /\ machine' \in [phase : {"awake", "delay", "asleep"}, expired : BOOLEAN, covered : BOOLEAN]
        /\ machine'.phase = "asleep" /\ machine'.expired = machine.expired
        /\ machine'.covered = machine.covered
    BY <1>1, <2>1, <2>2
  <2>4. SleepTypes'
    BY <1>2, <2>1, <2>3 DEF SleepTypes
  <2>5. Announced'
    BY <1>3, <2>1, <2>3 DEF Announced
  <2>6. Covered'
    BY <1>2, <1>3, <2>1, <2>3 DEF Covered, Request
  <2>. QED BY <1>3, <2>4, <2>5, <2>6
<1>7. CASE WakesUp
  <2>1. /\ machine' = [phase |-> "awake", expired |-> FALSE, covered |-> FALSE]
        /\ announced' = IF Subscribed THEN Append(announced, "wake") ELSE announced
    BY <1>7 DEF WakesUp
  <2>2. /\ machine' \in [phase : {"awake", "delay", "asleep"}, expired : BOOLEAN, covered : BOOLEAN]
        /\ machine'.phase = "awake" /\ ~machine'.covered
    BY <2>1
  <2>3. /\ announced' \in Seq({"sleep", "wake"}) /\ (~Subscribed => announced' = << >>)
        /\ (Subscribed => announced' # << >> /\ announced'[Len(announced')] = "wake")
    BY <1>1, <2>1, AppendOf DEF Announced
  <2>4. SleepTypes'
    BY <1>2, <2>2, <2>3 DEF SleepTypes
  <2>5. observer.at = "sleeping" => Subscribed
    BY DEF Subscribed
  <2>6. Announced'
    BY <1>2, <1>3, <2>2, <2>3, <2>5 DEF Announced
  <2>7. Covered'
    BY <2>2 DEF Covered
  <2>. QED BY <1>3, <2>4, <2>6, <2>7
<1>. QED BY <1>4, <1>5, <1>6, <1>7

\* What logind and the core keep when the observer moves.
LEMMA ObserverFrame ==
  ASSUME SleepInv, UNCHANGED <<machine, core, claims, sessions, answered>>
  PROVE  Settled' /\ (AtRest' <=> AtRest) /\ Heard' = Heard
  BY DEF SleepInv, Settled, AtRest, Heard

\* The start and the end of the observer keep the invariant.
LEMMA ObserverStarts ==
  ASSUME SleepInv, Starts \/ StartFails \/ Subscribes
  PROVE  SleepInv'
<1>. USE DEF SleepInv
<1>1. UNCHANGED <<machine, core, claims, sessions, answered, announced, inbox>>
  BY DEF Starts, StartFails, Subscribes, observerOnly
<1>2. /\ observer.at \in {"starting", "acquired"} /\ inhibitor' \in BOOLEAN
      /\ \/ observer' = [observer EXCEPT !.at = "acquired"]
         \/ observer' = [observer EXCEPT !.at = "ended"]
         \/ observer' = [observer EXCEPT !.at = "loop"]
  BY DEF Starts, StartFails, Subscribes, SleepTypes
<1>3. /\ observer = [at |-> observer.at, request |-> observer.request, last |-> observer.last]
      /\ observer.request \in Nat /\ observer.last \in {"none", "active", "locked", "idle"}
  BY DEF SleepTypes
<1>4. /\ observer'.at \in {"acquired", "ended", "loop"} /\ observer'.request = observer.request
      /\ observer' \in [at : {"starting", "acquired", "loop", "sleeping", "waking", "ended"},
                        request : Nat, last : {"none", "active", "locked", "idle"}]
  BY <1>2, <1>3
<1>5. announced = << >> /\ ~(machine.covered /\ ~machine.expired)
  BY <1>2 DEF Announced, Subscribed, Covered
<1>6. Settled' /\ Heard' = Heard
  BY <1>1, ObserverFrame
<1>7. SleepTypes'
  BY <1>1, <1>2, <1>4 DEF SleepTypes
<1>8. Numbered'
  BY <1>1, <1>4, <1>6 DEF Numbered, Request
<1>9. Announced' /\ Sleeping' /\ Covered'
  BY <1>1, <1>4, <1>5 DEF Announced, Sleeping, Covered
<1>. QED BY <1>6, <1>7, <1>8, <1>9

\* A request is numbered and put into the inbox.
LEMMA Delivers ==
  ASSUME SleepInv, NEW kind \in {"sleep", "wake"}, NEW at \in {"sleeping", "waking"}, Deliver(kind),
         observer' = [observer EXCEPT !.at = at, !.request = @ + 1],
         UNCHANGED <<machine, core, claims, sessions, answered>>
  PROVE  /\ observer' \in [at : {"starting", "acquired", "loop", "sleeping", "waking", "ended"},
                           request : Nat, last : {"none", "active", "locked", "idle"}]
         /\ observer'.at = at /\ observer'.request = observer.request + 1
         /\ inbox' \in Seq(Message) /\ inbox' # << >>
         /\ inbox'[Len(inbox')] = [kind |-> kind, id |-> observer.request + 1]
         /\ Numbered'
<1>. USE DEF SleepInv
<1>. DEFINE n == observer.request
            m == [kind |-> kind, id |-> n + 1]
            k == Len(inbox)
<1>1. /\ observer = [at |-> observer.at, request |-> n, last |-> observer.last]
      /\ n \in Nat /\ observer.last \in {"none", "active", "locked", "idle"}
      /\ inbox \in Seq(Message) /\ m \in Message
  BY DEF SleepTypes, Message
<1>2. observer' = [at |-> at, request |-> n + 1, last |-> observer.last]
  BY <1>1
<1>3. inbox' = Append(inbox, m)
  BY DEF Deliver
<1>4. /\ inbox' \in Seq(Message) /\ inbox' # << >> /\ Len(inbox') = k + 1 /\ k \in Nat
      /\ inbox'[k + 1] = m /\ \A i \in 1 .. k : inbox'[i] = inbox[i]
      /\ \A i \in 1 .. k + 1 : i \in 1 .. k \/ i = k + 1
  BY <1>1, <1>3, AppendOf
<1>5. Heard' = Heard /\ core'.sleepers = core.sleepers /\ core'.wakers = core.wakers
  BY ObserverFrame
<1>6. m.id = n + 1 /\ Heard \subseteq Nat
  <2>1. core.sleepers \subseteq Nat /\ core.wakers \subseteq Nat /\ answered \subseteq Nat
    BY CoreTypes DEF SleepTypes
  <2>. QED BY <2>1 DEF Heard
<1>7. observer'.request = n + 1
  BY <1>2
<1>8. \A i \in 1 .. k : inbox[i] \in Message /\ inbox[i].id \in Nat
  <2>1. \A i \in 1 .. k : inbox[i] \in Message
    BY <1>1
  <2>2. \A e \in Message : e.id \in Nat
    BY DEF Message
  <2>. QED BY <2>1, <2>2
<1>. HIDE DEF n, m, k
<1>9. \A h \in Heard : h <= n + 1 /\ h # n + 1
  BY <1>1, <1>6 DEF Numbered, n
<1>10. \A i \in 1 .. k : Request(inbox[i]) =>
         /\ inbox[i].id <= n + 1 /\ inbox[i].id # n + 1 /\ inbox[i].id \notin Heard
         /\ \A j \in 1 .. k : Request(inbox[j]) /\ j # i => inbox[j].id # inbox[i].id
  <2>. SUFFICES ASSUME NEW i \in 1 .. k, Request(inbox[i])
                PROVE  /\ inbox[i].id <= n + 1 /\ inbox[i].id # n + 1 /\ inbox[i].id \notin Heard
                       /\ \A j \in 1 .. k : Request(inbox[j]) /\ j # i => inbox[j].id # inbox[i].id
    OBVIOUS
  <2>1. /\ inbox[i].id <= n /\ inbox[i].id \notin Heard
        /\ \A j \in 1 .. k : Request(inbox[j]) /\ j # i => inbox[j].id # inbox[i].id
    BY DEF Numbered, n, k
  <2>2. inbox[i].id \in Nat
    BY <1>8
  <2>. QED BY <1>1, <2>1, <2>2
<1>11. \A i \in 1 .. k + 1 : Request(inbox'[i]) =>
         /\ inbox'[i].id <= n + 1 /\ inbox'[i].id \notin Heard
         /\ \A j \in 1 .. k + 1 : Request(inbox'[j]) /\ j # i => inbox'[j].id # inbox'[i].id
  <2>. SUFFICES ASSUME NEW i \in 1 .. k + 1, Request(inbox'[i])
                PROVE  /\ inbox'[i].id <= n + 1 /\ inbox'[i].id \notin Heard
                       /\ \A j \in 1 .. k + 1 : Request(inbox'[j]) /\ j # i => inbox'[j].id # inbox'[i].id
    OBVIOUS
  <2>1. CASE i = k + 1
    <3>1. inbox'[i].id = n + 1 /\ n + 1 <= n + 1 /\ n + 1 \notin Heard
      BY <1>1, <1>4, <1>6, <1>9, <2>1
    <3>2. \A j \in 1 .. k + 1 : Request(inbox'[j]) /\ j # i => inbox'[j].id # n + 1
      BY <1>4, <1>10, <2>1
    <3>. QED BY <3>1, <3>2
  <2>2. CASE i \in 1 .. k
    <3>1. inbox'[i] = inbox[i] /\ Request(inbox[i])
      BY <1>4, <2>2
    <3>2. \A j \in 1 .. k + 1 : Request(inbox'[j]) /\ j # i => inbox'[j].id # inbox[i].id
      <4>. SUFFICES ASSUME NEW j \in 1 .. k + 1, Request(inbox'[j]), j # i
                    PROVE  inbox'[j].id # inbox[i].id
        OBVIOUS
      <4>1. CASE j = k + 1
        BY <1>4, <1>6, <1>10, <2>2, <3>1, <4>1
      <4>2. CASE j \in 1 .. k
        BY <1>4, <1>10, <2>2, <3>1, <4>2
      <4>. QED BY <1>4, <4>1, <4>2
    <3>. QED BY <1>10, <2>2, <3>1, <3>2
  <2>. QED BY <1>4, <2>1, <2>2
<1>12. Numbered'
  <2>1. core'.sleepers \cap (answered' \cup core'.wakers) = {}
    BY <1>5 DEF Numbered
  <2>2. \A i \in 1 .. Len(inbox)' : Request(inbox[i])' =>
          /\ inbox'[i].id <= observer'.request /\ inbox'[i].id \notin Heard'
          /\ \A j \in 1 .. Len(inbox)' : Request(inbox[j])' /\ j # i => inbox'[j].id # inbox'[i].id
    BY <1>4, <1>5, <1>7, <1>11 DEF Request
  <2>. QED BY <1>5, <1>7, <1>9, <2>1, <2>2 DEF Numbered
<1>. QED BY <1>1, <1>2, <1>4, <1>12 DEF n, m, k

\* The observer that takes a sleep, or a wake, keeps the invariant.
LEMMA ObserverTakes ==
  ASSUME SleepInv, TakesSleep \/ TakesWake
  PROVE  SleepInv'
<1>. USE DEF SleepInv
<1>1. /\ UNCHANGED <<machine, core, claims, sessions, answered>> /\ inhibitor' \in BOOLEAN
      /\ announced' = Tail(announced) /\ announced # << >> /\ observer.at = "loop"
      /\ announced \in Seq({"sleep", "wake"})
  BY DEF TakesSleep, TakesWake, observerOnly, Takes, SleepTypes
<1>2. /\ announced' \in Seq({"sleep", "wake"}) /\ Len(announced) \in Nat \ {0}
      /\ Head(announced) = announced[1]
      /\ announced' # << >> => announced'[Len(announced')] = announced[Len(announced)]
      /\ announced' = << >> => Len(announced) = 1
  BY <1>1, TailOf
<1>3. Settled' /\ (AtRest' <=> AtRest)
  BY <1>1, ObserverFrame
<1>4. CASE TakesSleep
  <2>1. Head(announced) = "sleep" /\ Deliver("sleep") /\ UNCHANGED inhibitor
        /\ observer' = [observer EXCEPT !.at = "sleeping", !.request = @ + 1]
    BY <1>4 DEF TakesSleep, Takes
  <2>2. /\ observer' \in [at : {"starting", "acquired", "loop", "sleeping", "waking", "ended"},
                          request : Nat, last : {"none", "active", "locked", "idle"}]
        /\ observer'.at = "sleeping" /\ observer'.request = observer.request + 1
        /\ inbox' \in Seq(Message) /\ inbox' # << >>
        /\ inbox'[Len(inbox')] = [kind |-> "sleep", id |-> observer.request + 1]
        /\ Numbered'
    BY <1>1, <2>1, Delivers
  <2>3. SleepTypes'
    BY <1>1, <1>2, <2>2 DEF SleepTypes
  <2>4. Announced'
    <3>1. machine.phase = "awake" => announced' # << >>
      BY <1>1, <1>2, <2>1 DEF Announced
    <3>. QED BY <1>1, <1>2, <2>2, <3>1 DEF Announced, Subscribed
  <2>5. Sleeping'
    BY <2>2 DEF Sleeping
  <2>6. Covered'
    <3>. SUFFICES ASSUME machine.covered, ~machine.expired
                  PROVE  announced' = << >> /\ inhibitor /\ machine.phase = "delay"
      BY <1>1, <2>1, <2>2 DEF Covered
    <3>1. announced = <<"sleep">> /\ inhibitor /\ machine.phase = "delay"
      BY <1>1 DEF Covered
    <3>2. Tail(<<"sleep">>) = << >>
      OBVIOUS
    <3>. QED BY <1>1, <3>1, <3>2
  <2>. QED BY <1>3, <2>2, <2>3, <2>4, <2>5, <2>6
<1>5. CASE TakesWake
  <2>1. Head(announced) = "wake" /\ Deliver("wake")
        /\ observer' = [observer EXCEPT !.at = "waking", !.request = @ + 1]
    BY <1>5 DEF TakesWake, Takes
  <2>2. /\ observer' \in [at : {"starting", "acquired", "loop", "sleeping", "waking", "ended"},
                          request : Nat, last : {"none", "active", "locked", "idle"}]
        /\ observer'.at = "waking" /\ inbox' \in Seq(Message) /\ Numbered'
    BY <1>1, <2>1, Delivers
  <2>3. SleepTypes'
    BY <1>1, <1>2, <2>2 DEF SleepTypes
  <2>4. Announced'
    BY <1>1, <1>2, <2>2 DEF Announced, Subscribed
  <2>5. Sleeping'
    BY <2>2 DEF Sleeping
  <2>6. ~(machine.covered /\ ~machine.expired)
    BY <1>1, <2>1 DEF Covered
  <2>7. Covered'
    BY <1>1, <2>6 DEF Covered
  <2>. QED BY <1>3, <2>2, <2>3, <2>4, <2>5, <2>7
<1>. QED BY <1>4, <1>5

\* The end of the observer's wait keeps the invariant.
LEMMA ObserverReturns ==
  ASSUME SleepInv, Answered \/ WaitEnds
  PROVE  SleepInv'
<1>. USE DEF SleepInv
<1>1. /\ UNCHANGED <<core, claims, sessions, answered, announced, inbox>>
      /\ observer.at \in {"sleeping", "waking"} /\ machine.phase # "asleep"
      /\ observer' = [observer EXCEPT !.at = "loop"]
      /\ inhibitor' = (inhibitor /\ observer.at = "waking")
  BY DEF Answered, WaitEnds, observerOnly, Waiting, Running, Returns
<1>2. /\ observer = [at |-> observer.at, request |-> observer.request, last |-> observer.last]
      /\ observer.request \in Nat /\ observer.last \in {"none", "active", "locked", "idle"}
      /\ machine = [phase |-> machine.phase, expired |-> machine.expired, covered |-> machine.covered]
      /\ machine.phase \in {"awake", "delay", "asleep"} /\ machine.expired \in BOOLEAN
  BY DEF SleepTypes
<1>3. /\ observer'.at = "loop" /\ observer'.request = observer.request
      /\ observer' \in [at : {"starting", "acquired", "loop", "sleeping", "waking", "ended"},
                        request : Nat, last : {"none", "active", "locked", "idle"}]
  BY <1>1, <1>2
<1>4. /\ machine' \in [phase : {"awake", "delay", "asleep"}, expired : BOOLEAN, covered : BOOLEAN]
      /\ machine'.phase = machine.phase /\ machine'.expired = machine.expired
      /\ \/ Answered /\ machine' = machine
         \/ WaitEnds /\ ~machine'.covered
  <2>1. CASE Answered
    BY <2>1 DEF Answered, observerOnly, SleepTypes
  <2>2. CASE WaitEnds
    <3>. DEFINE f == FALSE
    <3>1. machine' = [machine EXCEPT !.covered = f]
      BY <2>2 DEF WaitEnds
    <3>2. f \in BOOLEAN /\ ~f
      OBVIOUS
    <3>. HIDE DEF f
    <3>3. machine' = [phase |-> machine.phase, expired |-> machine.expired, covered |-> f]
      BY <1>2, <3>1
    <3>. QED BY <1>2, <2>2, <3>2, <3>3
  <2>. QED BY <2>1, <2>2
<1>5. Settled' /\ (AtRest' <=> AtRest) /\ Heard' = Heard
  BY <1>1 DEF Settled, AtRest, Heard
<1>6. SleepTypes'
  BY <1>1, <1>3, <1>4 DEF SleepTypes
<1>7. Numbered'
  BY <1>1, <1>3, <1>5 DEF Numbered, Request
<1>8. Announced'
  BY <1>1, <1>3, <1>4 DEF Announced, Subscribed
<1>9. Sleeping'
  BY <1>3 DEF Sleeping
<1>10. Covered'
  <2>. SUFFICES ASSUME Answered, UNCHANGED machine, machine.covered, ~machine.expired
                PROVE  Covered'
    BY <1>4 DEF Covered
  <2>1. CASE observer.at = "waking"
    BY <1>1, <1>3, <2>1 DEF Covered
  <2>2. CASE observer.at = "sleeping"
    <3>1. announced = << >> /\ inhibitor /\ machine.phase = "delay"
      BY <2>2 DEF Covered
    <3>2. observer.request \in answered
      BY DEF Answered
    <3>3. ~(inbox # << >> /\ inbox[Len(inbox)] = [kind |-> "sleep", id |-> observer.request])
      <4>. SUFFICES ASSUME inbox # << >>, inbox[Len(inbox)] = [kind |-> "sleep", id |-> observer.request]
                    PROVE  FALSE
        OBVIOUS
      <4>1. Len(inbox) \in 1 .. Len(inbox)
        BY DEF SleepTypes
      <4>2. Request(inbox[Len(inbox)]) /\ inbox[Len(inbox)].id = observer.request
        BY DEF Request
      <4>. QED BY <3>2, <4>1, <4>2 DEF Numbered, Heard
    <3>4. observer.request \notin core.sleepers
      BY <3>2 DEF Numbered
    <3>5. inbox = << >> /\ AtRest
      BY <2>2, <3>3, <3>4 DEF Sleeping
    <3>6. Len(inbox) = 0
      BY <3>5
    <3>. QED BY <1>1, <1>3, <1>5, <3>1, <3>5, <3>6 DEF Covered
  <2>. QED BY <1>1, <2>1, <2>2
<1>. QED BY <1>5, <1>6, <1>7, <1>8, <1>9, <1>10

\* The state of the sessions is one of those the core knows, or none.
LEMMA SessionStates ==
  ASSUME SleepTypes
  PROVE  SessionState \in {"none", "active", "locked", "idle"}
<1>. DEFINE here == {sessions[s] : s \in Session} \ {"remote"}
<1>1. here \subseteq {"active", "idle", "locked"}
  BY DEF SleepTypes
<1>2. SessionState = CASE "active" \in here -> "active"
                       [] "active" \notin here /\ "locked" \in here -> "locked"
                       [] here = {"idle"} -> "idle"
                       [] here = {} -> "none"
  BY DEF SessionState
<1>. HIDE DEF here
<1>3. "active" \in here \/ ("active" \notin here /\ "locked" \in here) \/ here = {"idle"} \/ here = {}
  BY <1>1
<1>. QED BY <1>2, <1>3

\* A change of a session and its report keep the invariant.
LEMMA SessionStep ==
  ASSUME SleepInv,
         PollsSessions \/ \E s \in Session, state \in {"active", "idle", "locked", "remote"} :
                            SessionSwitches(s, state)
  PROVE  SleepInv'
<1>. USE DEF SleepInv
<1>1. CASE PollsSessions
  <2>. DEFINE st == SessionState
              m == [kind |-> st, id |-> 0]
              k == Len(inbox)
  <2>1. /\ UNCHANGED <<machine, core, claims, sessions, answered, announced, inhibitor>>
        /\ observer.at = "loop" /\ observer' = [observer EXCEPT !.last = st]
        /\ inbox' = IF st = "none" THEN inbox ELSE Append(inbox, m)
    BY <1>1 DEF PollsSessions, observerOnly
  <2>2. st \in {"none", "active", "locked", "idle"}
    BY SessionStates
  <2>. HIDE DEF st
  <2>3. /\ observer'.at = "loop" /\ observer'.request = observer.request
        /\ observer' \in [at : {"starting", "acquired", "loop", "sleeping", "waking", "ended"},
                          request : Nat, last : {"none", "active", "locked", "idle"}]
    BY <2>1, <2>2 DEF SleepTypes
  <2>4. /\ inbox' \in Seq(Message)
        /\ \A i \in 1 .. Len(inbox') : \/ i \in 1 .. k /\ inbox'[i] = inbox[i]
                                       \/ ~Request(inbox'[i])
    <3>1. CASE st = "none"
      BY <2>1, <3>1 DEF SleepTypes
    <3>2. CASE st # "none"
      <4>1. m \in Message /\ ~Request(m) /\ inbox \in Seq(Message)
        BY <2>2, <3>2 DEF Message, Request, SleepTypes
      <4>. HIDE DEF m
      <4>2. /\ inbox' \in Seq(Message) /\ Len(inbox') = k + 1 /\ inbox'[Len(inbox')] = m
            /\ \A i \in 1 .. k : inbox'[i] = inbox[i]
            /\ \A i \in 1 .. k + 1 : i \in 1 .. k \/ i = k + 1
        BY <2>1, <3>2, <4>1, AppendOf
      <4>. HIDE DEF k
      <4>. QED BY <4>1, <4>2
    <3>. QED BY <3>1, <3>2
  <2>5. Settled' /\ (AtRest' <=> AtRest) /\ Heard' = Heard
    BY <2>1, ObserverFrame
  <2>6. SleepTypes'
    BY <2>1, <2>3, <2>4 DEF SleepTypes
  <2>7. Numbered'
    BY <2>1, <2>3, <2>4, <2>5 DEF Numbered, Request
  <2>8. Announced' /\ Sleeping'
    BY <2>1, <2>3 DEF Announced, Subscribed, Sleeping
  <2>9. Covered'
    BY <2>1, <2>3, <2>4, <2>5 DEF Covered, Request
  <2>. QED BY <2>5, <2>6, <2>7, <2>8, <2>9
<1>2. ASSUME NEW s \in Session, NEW state \in {"active", "idle", "locked", "remote"},
             SessionSwitches(s, state)
      PROVE  SleepInv'
  <2>1. /\ UNCHANGED <<machine, announced, inhibitor, observer, inbox, answered, core, claims>>
        /\ sessions' \in [Session -> {"active", "idle", "locked", "remote"}]
    BY <1>2 DEF SessionSwitches, SleepTypes
  <2>2. SleepTypes'
    BY <2>1 DEF SleepTypes
  <2>3. Numbered' /\ Announced' /\ Sleeping' /\ Covered' /\ Settled'
    BY <2>1 DEF Numbered, Announced, Sleeping, Covered, Settled, AtRest, Heard, Request, Subscribed
  <2>. QED BY <2>2, <2>3
<1>. QED BY <1>1, <1>2

\* A claim keeps the invariant.
LEMMA ClaimStep ==
  ASSUME SleepInv, CoreClaims
  PROVE  SleepInv'
<1>. USE DEF SleepInv
<1>1. /\ UNCHANGED <<machine, announced, inhibitor, observer, inbox, answered, core, sessions>>
      /\ ~core.suspended /\ claims' \in BOOLEAN
  BY DEF CoreClaims
<1>2. SleepTypes' /\ Numbered' /\ Announced' /\ Settled'
  BY <1>1 DEF SleepTypes, Numbered, Announced, Settled, Heard, Request, Subscribed
<1>3. Sleeping' /\ Covered'
  BY <1>1 DEF Sleeping, Covered, AtRest, Request
<1>. QED BY <1>2, <1>3

\* The end of a restore keeps the invariant.
LEMMA RestoreStep ==
  ASSUME SleepInv, NEW ok \in BOOLEAN, RestoreEnds(ok)
  PROVE  SleepInv'
<1>. USE DEF SleepInv
<1>1. /\ core' \in Core /\ ~core'.restoring /\ core'.failed = ~ok /\ core'.sleepers = {}
      /\ core'.wakers = {} /\ ~core'.resume /\ core'.suspended = ~core.resume
      /\ core'.restored = (ok /\ ~core.resume)
  BY RestoreEndsIs
<1>2. /\ UNCHANGED <<machine, announced, inhibitor, observer, inbox, sessions>> /\ core.restoring
      /\ answered' = answered \cup core.sleepers \cup core.wakers
      /\ claims' \in BOOLEAN /\ (ok => ~claims') /\ (~claims => ~claims')
  BY DEF RestoreEnds, SleepTypes
<1>3. core.sleepers \subseteq Nat /\ core.wakers \subseteq Nat /\ answered \subseteq Nat
  BY CoreTypes DEF SleepTypes
<1>4. SleepTypes'
  BY <1>1, <1>2, <1>3 DEF SleepTypes
<1>5. Heard' = Heard
  BY <1>1, <1>2 DEF Heard
<1>6. Numbered'
  BY <1>1, <1>2, <1>5 DEF Numbered, Request
<1>7. Announced'
  BY <1>2 DEF Announced, Subscribed
<1>8. Settled'
  BY <1>1, <1>2 DEF Settled
<1>9. ~core.resume => AtRest'
  BY <1>1, <1>2 DEF AtRest
<1>10. Sleeping'
  BY <1>1, <1>2, <1>9 DEF Sleeping, AtRest
<1>11. Covered'
  BY <1>1, <1>2, <1>9 DEF Covered, AtRest, Request
<1>. QED BY <1>4, <1>6, <1>7, <1>8, <1>10, <1>11

\* A request the core takes is new to it, and none behind it has its number.
LEMMA HeadOfInbox ==
  ASSUME SleepInv, inbox # << >>, inbox' = Tail(inbox), UNCHANGED observer
  PROVE  /\ inbox' \in Seq(Message) /\ Head(inbox) = inbox[1] /\ inbox[1] \in Message
         /\ inbox[1].id \in Nat
         /\ Request(inbox[1]) => inbox[1].id <= observer.request /\ inbox[1].id \notin Heard
         /\ \A i \in 1 .. Len(inbox') : i + 1 \in 1 .. Len(inbox) /\ inbox'[i] = inbox[i + 1]
         /\ \A i \in 1 .. Len(inbox') : Request(inbox'[i]) =>
              /\ inbox'[i].id <= observer.request /\ inbox'[i].id \notin Heard
              /\ Request(inbox[1]) => inbox'[i].id # inbox[1].id
              /\ \A j \in 1 .. Len(inbox') : Request(inbox'[j]) /\ j # i => inbox'[j].id # inbox'[i].id
         /\ inbox' # << >> => inbox'[Len(inbox')] = inbox[Len(inbox)]
         /\ inbox' = << >> => Len(inbox) = 1
<1>. USE DEF SleepInv
<1>. DEFINE k == Len(inbox)
<1>1. /\ inbox' \in Seq(Message) /\ Len(inbox') = k - 1 /\ k \in Nat \ {0} /\ inbox[1] \in Message
      /\ Head(inbox) = inbox[1] /\ \A i \in 1 .. k - 1 : inbox'[i] = inbox[i + 1]
      /\ inbox' # << >> => inbox'[Len(inbox')] = inbox[k]
      /\ inbox' = << >> => k = 1
  BY TailOf DEF SleepTypes
<1>2. inbox[1].id \in Nat
  BY <1>1 DEF Message
<1>. HIDE DEF k
<1>3. 1 \in 1 .. k /\ \A i \in 1 .. k - 1 : i + 1 \in 1 .. k /\ i + 1 # 1 /\ i \in Nat
  BY <1>1
<1>4. Request(inbox[1]) => inbox[1].id <= observer.request /\ inbox[1].id \notin Heard
  BY <1>3 DEF Numbered, k
<1>5. ASSUME NEW i \in 1 .. k - 1, Request(inbox'[i])
      PROVE  /\ inbox'[i].id <= observer.request /\ inbox'[i].id \notin Heard
             /\ Request(inbox[1]) => inbox'[i].id # inbox[1].id
             /\ \A j \in 1 .. k - 1 : Request(inbox'[j]) /\ j # i => inbox'[j].id # inbox'[i].id
  <2>1. i + 1 \in 1 .. k /\ inbox'[i] = inbox[i + 1] /\ Request(inbox[i + 1]) /\ i + 1 # 1
    BY <1>1, <1>3, <1>5
  <2>2. /\ inbox[i + 1].id <= observer.request /\ inbox[i + 1].id \notin Heard
        /\ \A j \in 1 .. k : Request(inbox[j]) /\ j # i + 1 => inbox[j].id # inbox[i + 1].id
    BY <2>1 DEF Numbered, k
  <2>3. Request(inbox[1]) => inbox'[i].id # inbox[1].id
    BY <1>3, <2>1, <2>2
  <2>4. ASSUME NEW j \in 1 .. k - 1, Request(inbox'[j]), j # i PROVE inbox'[j].id # inbox'[i].id
    <3>1. j + 1 \in 1 .. k /\ inbox'[j] = inbox[j + 1] /\ j + 1 # i + 1
      BY <1>1, <1>3, <2>4
    <3>. QED BY <2>1, <2>2, <2>4, <3>1
  <2>. QED BY <2>1, <2>2, <2>3, <2>4
<1>. QED BY <1>1, <1>2, <1>3, <1>4, <1>5 DEF k

\* A message the core takes keeps the invariant.
LEMMA TakeStep ==
  ASSUME SleepInv, CoreTakes
  PROVE  SleepInv'
<1>. USE DEF SleepInv
<1>. DEFINE m == inbox[1]
            k == Len(inbox)
<1>1. /\ UNCHANGED <<machine, announced, inhibitor, observer, claims, sessions>>
      /\ inbox # << >> /\ inbox' = Tail(inbox)
  BY DEF CoreTakes
<1>2. /\ inbox' \in Seq(Message) /\ Head(inbox) = m /\ m \in Message /\ m.id \in Nat
      /\ Request(m) => m.id <= observer.request /\ m.id \notin Heard
      /\ \A i \in 1 .. Len(inbox') : i + 1 \in 1 .. k /\ inbox'[i] = inbox[i + 1]
      /\ \A i \in 1 .. Len(inbox') : Request(inbox'[i]) =>
           /\ inbox'[i].id <= observer.request /\ inbox'[i].id \notin Heard
           /\ Request(m) => inbox'[i].id # m.id
           /\ \A j \in 1 .. Len(inbox') : Request(inbox'[j]) /\ j # i => inbox'[j].id # inbox'[i].id
      /\ inbox' # << >> => inbox'[Len(inbox')] = inbox[k]
      /\ inbox' = << >> => k = 1
  BY <1>1, HeadOfInbox
<1>3. \/ m.kind = "sleep" /\ RequestSleep(m.id)
      \/ m.kind = "wake" /\ RequestResume(m.id)
      \/ ~Request(m) /\ core' = [core EXCEPT !.session = m.kind] /\ UNCHANGED answered
  BY <1>2 DEF CoreTakes, Request
<1>4. core.sleepers \subseteq Nat /\ core.wakers \subseteq Nat /\ answered \subseteq Nat
  BY CoreTypes DEF SleepTypes
\* What the request leaves of the core, whatever it was.
<1>5. ASSUME core' \in Core, Heard' \subseteq Heard \cup {m.id},
             ~Request(m) => Heard' \subseteq Heard, answered' \subseteq Nat,
             core'.sleepers \cap (answered' \cup core'.wakers) = {}, Settled'
      PROVE  SleepTypes' /\ Numbered' /\ Announced' /\ Settled'
  <2>1. SleepTypes'
    BY <1>1, <1>2, <1>5 DEF SleepTypes
  <2>2. \A n \in Heard' : n <= observer'.request
    BY <1>1, <1>2, <1>5 DEF Numbered
  <2>3. Numbered'
    <3>. HIDE DEF m, k
    <3>1. \A i \in 1 .. Len(inbox)' : Request(inbox'[i]) =>
            /\ inbox'[i].id <= observer'.request /\ inbox'[i].id \notin Heard'
            /\ \A j \in 1 .. Len(inbox)' : Request(inbox'[j]) /\ j # i => inbox'[j].id # inbox'[i].id
      BY <1>1, <1>2, <1>5
    <3>. QED BY <1>5, <2>2, <3>1 DEF Numbered, Request
  <2>4. Announced'
    BY <1>1 DEF Announced, Subscribed
  <2>. QED BY <1>5, <2>1, <2>3, <2>4
\* While the observer waits for its sleep, the last message is that sleep.
<1>6. observer.at = "sleeping" =>
        /\ inbox[k] = [kind |-> "sleep", id |-> observer.request]
        /\ \/ inbox' # << >> /\ inbox'[Len(inbox')] = [kind |-> "sleep", id |-> observer.request]
           \/ inbox' = << >> /\ m.kind = "sleep" /\ m.id = observer.request
  BY <1>1, <1>2 DEF Sleeping
<1>8. 1 \in 1 .. k
  BY <1>1 DEF SleepTypes
\* A covered sleep that was handled leaves no request.
<1>9. ASSUME ~Request(m) => (AtRest => AtRest')
      PROVE  Covered'
  <2>. SUFFICES ASSUME machine.covered, ~machine.expired PROVE Covered'
    BY <1>1 DEF Covered
  <2>1. CASE announced # << >> \/ observer.at # "loop"
    BY <1>1, <2>1 DEF Covered
  <2>2. CASE announced = << >> /\ observer.at = "loop"
    <3>1. AtRest /\ \A i \in 1 .. k : ~Request(inbox[i])
      BY <2>2 DEF Covered
    <3>2. AtRest'
      BY <1>8, <1>9, <3>1
    <3>3. \A i \in 1 .. Len(inbox') : ~Request(inbox'[i])
      BY <1>2, <3>1
    <3>. QED BY <1>1, <2>2, <3>2, <3>3 DEF Covered, Request
  <2>. QED BY <2>1, <2>2
<1>10. CASE m.kind = "sleep" /\ RequestSleep(m.id)
  <2>1. /\ core' \in Core
        /\ ~core'.resume /\ core'.wakers = {} /\ core'.suspended /\ core'.failed = core.failed
        /\ \/ /\ core.failed \/ (core.suspended /\ core.restored)
              /\ core'.restoring = core.restoring /\ core'.restored = core.restored
              /\ core'.sleepers = core.sleepers /\ answered' = answered \cup core.wakers \cup {m.id}
           \/ /\ ~core.failed /\ core'.restoring /\ ~core'.restored
              /\ core'.sleepers = core.sleepers \cup {m.id} /\ answered' = answered \cup core.wakers
    BY <1>2, <1>10, RequestSleepIs
  <2>2. Request(m) /\ m.id \notin Heard
    BY <1>2, <1>10 DEF Request
  <2>. HIDE DEF m, k
  <2>3. Heard' \subseteq Heard \cup {m.id} /\ answered' \subseteq Nat
    BY <1>2, <1>4, <2>1 DEF Heard
  <2>4. core'.sleepers \cap (answered' \cup core'.wakers) = {}
    BY <2>1, <2>2 DEF Heard, Numbered
  <2>5. Settled'
    BY <1>1, <2>1 DEF Settled
  <2>6. Sleeping'
    <3>. SUFFICES ASSUME observer.at = "sleeping", inbox' = << >>
                  PROVE  \/ observer.request \in answered' /\ AtRest'
                         \/ observer.request \in core'.sleepers /\ core'.restoring
      BY <1>1, <1>6, <2>1 DEF Sleeping
    <3>1. m.id = observer.request
      BY <1>6
    <3>. QED BY <1>1, <2>1, <3>1 DEF AtRest, Settled
  <2>. QED BY <1>5, <1>9, <2>1, <2>2, <2>3, <2>4, <2>5, <2>6
<1>11. CASE m.kind = "wake" /\ RequestResume(m.id)
  <2>1. /\ core' \in Core
        /\ core'.failed = core.failed /\ core'.restoring = core.restoring
        /\ core'.sleepers = core.sleepers
        /\ \/ /\ core'.restored = core.restored /\ core'.suspended = core.suspended
              /\ core'.wakers = core.wakers \cup {m.id} /\ answered' = answered
           \/ /\ ~core'.restored /\ core'.wakers = core.wakers
              /\ answered' = answered \cup {m.id}
    BY <1>2, <1>11, RequestResumeIs
  <2>2. Request(m) /\ m.id \notin Heard
    BY <1>2, <1>11 DEF Request
  <2>6. Sleeping'
    BY <1>1, <1>6, <1>11 DEF Sleeping
  <2>. HIDE DEF m, k
  <2>3. Heard' \subseteq Heard \cup {m.id} /\ answered' \subseteq Nat
    BY <1>2, <1>4, <2>1 DEF Heard
  <2>4. core'.sleepers \cap (answered' \cup core'.wakers) = {}
    BY <2>1, <2>2 DEF Heard, Numbered
  <2>5. Settled'
    BY <1>1, <2>1 DEF Settled
  <2>. QED BY <1>5, <1>9, <2>1, <2>2, <2>3, <2>4, <2>5, <2>6
<1>12. CASE ~Request(m) /\ core' = [core EXCEPT !.session = m.kind] /\ UNCHANGED answered
  <2>1. m.kind \in {"active", "locked", "idle"}
    BY <1>2, <1>12 DEF Message, Request
  <2>2. /\ core' \in Core /\ core'.suspended = core.suspended /\ core'.restoring = core.restoring
        /\ core'.restored = core.restored /\ core'.failed = core.failed /\ core'.resume = core.resume
        /\ core'.sleepers = core.sleepers /\ core'.wakers = core.wakers
    <3>. DEFINE kind == m.kind
                q == [core EXCEPT !.session = kind]
    <3>1. core \in Core /\ kind \in {"active", "locked", "idle"}
      BY <2>1 DEF SleepTypes
    <3>2. core' = q
      BY <1>12
    <3>. HIDE DEF kind
    <3>3. /\ q \in Core /\ q.suspended = core.suspended /\ q.restoring = core.restoring
          /\ q.restored = core.restored /\ q.failed = core.failed /\ q.resume = core.resume
          /\ q.sleepers = core.sleepers /\ q.wakers = core.wakers
      BY <3>1, CoreSession
    <3>. HIDE DEF q
    <3>. QED BY <3>2, <3>3
  <2>3. Heard' = Heard /\ Settled' /\ (AtRest' <=> AtRest)
    BY <1>1, <1>12, <2>2 DEF Heard, Settled, AtRest
  <2>4. core'.sleepers \cap (answered' \cup core'.wakers) = {}
    BY <1>12, <2>2 DEF Numbered
  <2>5. Sleeping'
    BY <1>1, <1>6, <1>12 DEF Sleeping, Request
  <2>. QED BY <1>4, <1>5, <1>9, <1>12, <2>2, <2>3, <2>4, <2>5
<1>. QED BY <1>3, <1>10, <1>11, <1>12

\* A machine that falls asleep has been restored first, for any number of sleeps,
\* wakes, faults and sessions: while the observer waits for its sleep, that sleep
\* is the last request to the core, so that no wake before it undoes the restore.
THEOREM SleepFindsNoClaims == SleepSpec => []SleepsRestored
<1>1. SleepInit => SleepInv
  <2>. SUFFICES ASSUME SleepInit PROVE SleepInv
    OBVIOUS
  <2>1. /\ machine.phase = "awake" /\ ~machine.covered /\ announced = << >> /\ inbox = << >>
        /\ answered = {} /\ observer.at = "starting" /\ observer.request = 0
        /\ core.sleepers = {} /\ core.wakers = {} /\ ~core.restored /\ ~core.failed
    BY DEF SleepInit
  <2>2. core \in Core
    BY DEF SleepInit, Core
  <2>3. /\ machine \in [phase : {"awake", "delay", "asleep"}, expired : BOOLEAN, covered : BOOLEAN]
        /\ observer \in [at : {"starting", "acquired", "loop", "sleeping", "waking", "ended"},
                         request : Nat, last : {"none", "active", "locked", "idle"}]
        /\ sessions \in [Session -> {"active", "idle", "locked", "remote"}]
    BY DEF SleepInit
  <2>4. SleepTypes
    <3>1. /\ announced \in Seq({"sleep", "wake"}) /\ inbox \in Seq(Message) /\ answered \in SUBSET Nat
      BY <2>1
    <3>2. inhibitor \in BOOLEAN /\ claims \in BOOLEAN
      BY DEF SleepInit
    <3>. QED BY <2>2, <2>3, <3>1, <3>2 DEF SleepTypes
  <2>5. Len(inbox) = 0
    BY <2>1
  <2>. QED BY <2>1, <2>4, <2>5 DEF SleepInv, Numbered, Announced, Sleeping, Covered, Settled, Heard
<1>2. SleepInv /\ [SleepNext]_sleepVars => SleepInv'
  <2>. SUFFICES ASSUME SleepInv, [SleepNext]_sleepVars PROVE SleepInv'
    OBVIOUS
  <2>1. CASE UNCHANGED sleepVars
    BY <2>1 DEF sleepVars, SleepInv, SleepTypes, Numbered, Announced, Sleeping, Covered, Settled,
                AtRest, Heard, Request, Subscribed
  <2>2. CASE Announces \/ DelayExpires \/ FallsAsleep \/ WakesUp
    BY <2>2, LogindStep
  <2>3. CASE Starts \/ StartFails \/ Subscribes
    BY <2>3, ObserverStarts
  <2>4. CASE TakesSleep \/ TakesWake
    BY <2>4, ObserverTakes
  <2>5. CASE Answered \/ WaitEnds
    BY <2>5, ObserverReturns
  <2>6. CASE PollsSessions \/ \E s \in Session, state \in {"active", "idle", "locked", "remote"} :
                                SessionSwitches(s, state)
    BY <2>6, SessionStep
  <2>7. CASE CoreClaims
    BY <2>7, ClaimStep
  <2>8. CASE CoreTakes
    BY <2>8, TakeStep
  <2>9. CASE \E ok \in BOOLEAN : RestoreEnds(ok)
    BY <2>9, RestoreStep
  <2>. QED BY <2>1, <2>2, <2>3, <2>4, <2>5, <2>6, <2>7, <2>8, <2>9
           DEF SleepNext, ObserverSteps, CoreSteps
<1>3. SleepInv => SleepsRestored
  BY DEF SleepInv, Covered, AtRest, SleepsRestored
<1>. QED BY <1>1, <1>2, <1>3, PTL DEF SleepSpec

-----------------------------------------------------------------------------
(* The configuration.                                                       *)

\* What RunningIsSafe asks of one configuration.
SafeConfig(r) ==
  /\ \A t, u \in r.device.targets : t # u => Picked(t) # Picked(u)
  /\ \A s \in r.device.scalars, t \in r.device.targets : s.path # Picked(t)
  /\ \A z, y \in r.device.zones : z # y => z.picks # y.picks
  /\ \A z \in r.device.zones : z.stale >= r.policy.interval
  /\ \A f \in r.policy.profiles : \A v \in f.settings : ScalarSettingValid(v, r.device)
  /\ \A t \in r.device.targets :
       LET lo == HardwareRange[Picked(t)][1]
           sensor == CapOf(t.sensor, Picked(t))
           critical == CapOf(t.critical, Picked(t))
       IN lo <= sensor /\ sensor <= critical /\ critical <= HardwareRange[Picked(t)][2]

\* The documents, the load, the rule being stored and what runs.  The rules
\* acknowledged are in the document; a load that has read its rules has them
\* too, for nothing is stored meanwhile; a candidate that waits for the barrier
\* still fits what runs.
ConfigFields == {"device", "policy", "apps", "engine"}
LoadFields == {"by", "at", "device", "policy", "apps"}
PersistFields == {"rules", "rule", "kind", "at"}
Listed(apps) == RulesOf(apps).rules \in Seq(Rules)
Holding(apps, k) == k \subseteq RuleSet(RulesOf(apps).rules)
Fitting(r, l) ==
  {c \in Candidates([device |-> l.device, policy |-> l.policy, apps |-> l.apps]) :
     \A q \in r : TargetSignature(c) = TargetSignature(q)}
Distinct(rules) == \A i, j \in DOMAIN rules : i # j => rules[i].id # rules[j].id
DocumentsInv(d, k) ==
  /\ DOMAIN d = {"device", "policy", "apps"} /\ d.device \in DeviceDoc
  /\ Listed(d.apps) /\ Holding(d.apps, k)
LoadInv(l, r, k) ==
  /\ DOMAIN l = LoadFields /\ l.device \in DeviceDoc \cup {Absent} /\ Listed(l.apps)
  /\ l.at \in {"read", "barrier"} => Holding(l.apps, k)
  /\ l.at = "barrier" => Fitting(r, l) # {}
PersistInv(p, k) ==
  /\ DOMAIN p = PersistFields /\ p.rules \in Seq(Rules)
  /\ p.kind = "set" => p.rule \in RuleSet(p.rules)
  /\ p.at = "stored" => k \subseteq RuleSet(p.rules) /\ Distinct(p.rules)
RunningInv(r, p, k) ==
  /\ \A c \in r : /\ DOMAIN c = ConfigFields /\ c.apps \in Seq(Rules) /\ SafeConfig(c)
                  /\ Distinct(c.apps)
                  /\ (\A s \in p : s.at = "write") => k \subseteq RuleSet(c.apps)
  /\ \A c, q \in r : TargetSignature(c) = TargetSignature(q)
ConfigInv ==
  /\ DocumentsInv(disk, kept)
  /\ \A l \in load : LoadInv(l, running, kept)
  /\ \A p \in persist : PersistInv(p, kept)
  /\ (load # {} => persist = {}) /\ \A p, q \in persist : p = q
  /\ RunningInv(running, persist, kept)

-----------------------------------------------------------------------------
(* Proofs: the configuration and its candidates.                            *)

\* The cap a target resolves to lies in the range of its device.
LEMMA CapInRange ==
  ASSUME NEW dev \in DOMAIN HardwareRange, NEW cap, CapValid(cap, dev)
  PROVE  HardwareRange[dev][1] <= CapOf(cap, dev) /\ CapOf(cap, dev) <= HardwareRange[dev][2]
<1>1. /\ HardwareRange[dev][1] \in Nat /\ HardwareRange[dev][2] \in Nat
      /\ HardwareRange[dev][1] <= HardwareRange[dev][2]
  BY ConfigConstants
<1>2. CASE cap = {}
  BY <1>1, <1>2 DEF CapOf
<1>3. CASE cap # {}
  <2>1. CapOf(cap, dev) \in cap
    BY <1>3 DEF CapOf
  <2> QED BY <2>1 DEF CapValid
<1> QED BY <1>2, <1>3

\* A device profile is a document or one of the catalog's, and there is one.
LEMMA OneProfile ==
  ASSUME NEW d \in DeviceDoc \cup {Absent}
  PROVE  /\ \A p \in ProfileOf(d) : p \in (DeviceDoc \ {Absent}) \cup Catalog
         /\ \A p, q \in ProfileOf(d) : p = q
<1> DEFINE matching == {c \in Catalog : c.suits = "yes"}
<1>1. CASE d # Absent
  BY <1>1 DEF ProfileOf
<1>2. CASE d = Absent /\ Cardinality(matching) # 1
  BY <1>2 DEF ProfileOf
<1>3. CASE d = Absent /\ Cardinality(matching) = 1
  <2>1. IsFiniteSet(matching)
    BY ConfigConstants, FS_Subset
  <2>2. PICK x : matching = {x}
    BY <1>3, <2>1, FS_Singleton
  <2>3. ProfileOf(d) \subseteq matching /\ matching \subseteq Catalog
    BY <1>3 DEF ProfileOf
  <2> QED BY <2>2, <2>3
<1> QED BY <1>1, <1>2, <1>3

\* Documents that give a configuration give a safe one, and one only.
LEMMA CandidateSafe ==
  ASSUME NEW l, l.device \in DeviceDoc \cup {Absent}, Listed(l.apps), NEW r, NEW c \in Fitting(r, l)
  PROVE  /\ SafeConfig(c) /\ DOMAIN c = ConfigFields /\ c.apps = RulesOf(l.apps).rules
         /\ c.apps \in Seq(Rules) /\ Distinct(c.apps)
         /\ \A q \in Fitting(r, l) : q = c
<1> DEFINE d == [device |-> l.device, policy |-> l.policy, apps |-> l.apps]
<1>1. d.device = l.device /\ d.policy = l.policy /\ d.apps = l.apps
  OBVIOUS
<1>2. c \in Candidates(d)
  BY DEF Fitting
<1> HIDE DEF d
<1> DEFINE rules == RulesOf(l.apps).rules
           Of(p) == [device |-> p, policy |-> l.policy, apps |-> rules, engine |-> rules]
<1>3. PICK p \in ProfileOf(l.device) :
        /\ c = Of(p) /\ CrossReferences(p, l.policy)
        /\ \A t \in p.targets : TargetResolves(t)
        /\ ZonesResolve(p.zones) /\ RegistryBuilds(p) /\ RulesSound(RulesOf(l.apps))
  BY <1>1, <1>2 DEF Candidates
<1>4. /\ c.device = p /\ c.policy = l.policy /\ c.apps = rules
      /\ DOMAIN c = ConfigFields
  BY <1>3 DEF ConfigFields
<1>5. p \in (DeviceDoc \ {Absent}) \cup Catalog
  BY <1>3, OneProfile
<1>6. ASSUME NEW t \in p.targets
      PROVE  /\ HardwareRange[Picked(t)][1] <= CapOf(t.sensor, Picked(t))
             /\ CapOf(t.sensor, Picked(t)) <= CapOf(t.critical, Picked(t))
             /\ CapOf(t.critical, Picked(t)) <= HardwareRange[Picked(t)][2]
  <2>1. /\ Cardinality(t.picks) = 1
        /\ CapValid(t.critical, Picked(t)) /\ CapValid(t.sensor, Picked(t))
        /\ CapOf(t.sensor, Picked(t)) <= CapOf(t.critical, Picked(t))
    BY <1>3 DEF TargetResolves
  <2>2. t.picks # {}
    <3>1. Cardinality({}) = 0
      BY FS_EmptySet
    <3> QED BY <2>1, <3>1
  <2>3. Picked(t) \in t.picks
    BY <2>2 DEF Picked
  <2>4. Picked(t) \in DOMAIN HardwareRange
    BY <1>5, <2>3, ConfigConstants
  <2> QED BY <2>1, <2>4, CapInRange
<1>7. SafeConfig(c)
  <2>1. /\ \A t, u \in p.targets : t # u => Picked(t) # Picked(u)
        /\ \A s \in p.scalars, t \in p.targets : s.path # Picked(t)
    BY <1>3 DEF RegistryBuilds
  <2>2. \A z, y \in p.zones : z # y => z.picks # y.picks
    BY <1>3 DEF ZonesResolve
  <2>3. /\ \A z \in p.zones : z.stale >= l.policy.interval
        /\ \A f \in l.policy.profiles : \A v \in f.settings : ScalarSettingValid(v, p)
    BY <1>3 DEF CrossReferences, ThermalReferences, ScalarReferences
  <2> HIDE DEF rules
  <2> QED BY <1>4, <1>6, <2>1, <2>2, <2>3 DEF SafeConfig
<1>8. ASSUME NEW q \in Fitting(r, l) PROVE q = c
  <2>1. q \in Candidates(d)
    BY DEF Fitting, d
  <2>2. PICK o \in ProfileOf(l.device) : q = Of(o)
    BY <1>1, <2>1 DEF Candidates
  <2>3. o = p
    BY <1>3, <2>2, OneProfile
  <2> QED BY <1>3, <2>2, <2>3
<1>9. Distinct(rules)
  BY <1>3 DEF RulesSound, Distinct
<1> QED BY <1>4, <1>7, <1>8, <1>9 DEF Listed

-----------------------------------------------------------------------------
(* Proofs: the application rules.                                           *)

\* Rules that are stored or removed are rules, and a stored one is among them.
LEMMA RulesStored ==
  ASSUME NEW rules \in Seq(Rules), NEW rule \in ClientRule
  PROVE  /\ Stored(rules, rule) \in Seq(Rules) /\ rule \in RuleSet(Stored(rules, rule))
         /\ \A i \in DOMAIN rules : Removed(rules, i) \in Seq(Rules)
<1>1. rule \in Rules
  BY DEF Rules
<1>2. ASSUME \E i \in DOMAIN rules : rules[i].id = rule.id
      PROVE  Stored(rules, rule) \in Seq(Rules) /\ rule \in RuleSet(Stored(rules, rule))
  <2> DEFINE s == [i \in DOMAIN rules |-> IF rules[i].id = rule.id THEN rule ELSE rules[i]]
  <2>1. s = Stored(rules, rule)
    BY <1>2 DEF Stored
  <2>2. DOMAIN rules = 1 .. Len(rules) /\ Len(rules) \in Nat /\ \A i \in DOMAIN rules : rules[i] \in Rules
    OBVIOUS
  <2>3. s \in [1 .. Len(rules) -> Rules]
    BY <1>1, <2>2
  <2>4. s \in Seq(Rules)
    BY <2>2, <2>3
  <2>5. PICK i \in DOMAIN s : s[i] = rule
    BY <1>2
  <2> HIDE DEF s
  <2>6. rule \in RuleSet(s)
    BY <2>5 DEF RuleSet
  <2> QED BY <2>1, <2>4, <2>6
<1>3. ASSUME ~\E i \in DOMAIN rules : rules[i].id = rule.id
      PROVE  Stored(rules, rule) \in Seq(Rules) /\ rule \in RuleSet(Stored(rules, rule))
  <2>1. Stored(rules, rule) = Append(rules, rule)
    BY <1>3 DEF Stored
  <2>2. /\ Append(rules, rule) \in Seq(Rules)
        /\ Len(rules) + 1 \in DOMAIN Append(rules, rule)
        /\ Append(rules, rule)[Len(rules) + 1] = rule
    BY <1>1
  <2> QED BY <2>1, <2>2 DEF RuleSet
<1>4. ASSUME NEW i \in DOMAIN rules PROVE Removed(rules, i) \in Seq(Rules)
  <2>1. i \in 1 .. Len(rules) /\ Len(rules) \in Nat
    OBVIOUS
  <2>2. SubSeq(rules, 1, i - 1) \in Seq(Rules) /\ SubSeq(rules, i + 1, Len(rules)) \in Seq(Rules)
    BY <2>1
  <2> QED BY <2>2 DEF Removed
<1> QED BY <1>2, <1>3, <1>4

-----------------------------------------------------------------------------
(* Proofs: the steps of the configuration.                                  *)

\* What a step may do to the configuration that runs.
Mapped(r, n) == r # {} => n # {} /\ \A c \in r, q \in n : TargetSignature(c) = TargetSignature(q)

\* While nothing else changes, fewer rules acknowledged are kept as well.
LEMMA FewerKept ==
  ASSUME NEW k, NEW m \in SUBSET k
  PROVE  /\ \A d : DocumentsInv(d, k) => DocumentsInv(d, m)
         /\ \A l, r : LoadInv(l, r, k) => LoadInv(l, r, m)
         /\ \A p : PersistInv(p, k) => PersistInv(p, m)
         /\ \A r, p : RunningInv(r, p, k) => RunningInv(r, p, m)
<1>1. \A a : Holding(a, k) => Holding(a, m)
  BY DEF Holding
<1> QED BY <1>1 DEF DocumentsInv, LoadInv, PersistInv, RunningInv

\* What runs stays mapped as it was.
LEMMA Unmoved == ConfigInv => Mapped(running, running)
BY DEF ConfigInv, RunningInv, Mapped

\* A document is saved; rules that are edited away are forgotten.
LEMMA SaveStep ==
  ASSUME ConfigInv, NEW file \in {"device", "policy", "apps"}, NEW doc, Save(file, doc),
         file = "device" => doc \in DeviceDoc, file = "apps" => doc \in RuleDoc
  PROVE  ConfigInv'
<1>1. /\ disk' = [disk EXCEPT ![file] = doc] /\ kept' \subseteq kept
      /\ file = "apps" => kept' = {}
      /\ load' = load /\ persist' = persist /\ running' = running
  BY DEF Save
<1>2. DocumentsInv(disk, kept')
  BY <1>1, FewerKept DEF ConfigInv
<1>3. /\ DOMAIN disk' = {"device", "policy", "apps"}
      /\ \A f \in {"device", "policy", "apps"} : disk'[f] = IF f = file THEN doc ELSE disk[f]
  BY <1>1, <1>2 DEF DocumentsInv
<1>4. disk'.device \in DeviceDoc
  BY <1>2, <1>3 DEF DocumentsInv
<1>5. Listed(disk'.apps) /\ Holding(disk'.apps, kept')
  <2>1. CASE file = "apps"
    <3>1. disk'.apps = doc
      BY <1>3, <2>1
    <3>2. Listed(doc)
      <4>1. CASE doc = Absent
        BY <4>1 DEF Listed, RulesOf, Missing
      <4>2. CASE doc # Absent
        BY <2>1, <4>2, ConfigConstants DEF Listed, RulesOf
      <4> QED BY <4>1, <4>2
    <3> QED BY <1>1, <2>1, <3>1, <3>2 DEF Holding
  <2>2. CASE file # "apps"
    BY <1>2, <1>3, <2>2 DEF DocumentsInv
  <2> QED BY <2>1, <2>2
<1>6. DocumentsInv(disk', kept')
  BY <1>3, <1>4, <1>5 DEF DocumentsInv
<1>7. /\ \A l \in load : LoadInv(l, running, kept')
      /\ \A p \in persist : PersistInv(p, kept')
      /\ RunningInv(running, persist, kept')
  BY <1>1, FewerKept DEF ConfigInv
<1> QED BY <1>1, <1>6, <1>7 DEF ConfigInv

\* A load begins when none runs and nothing is stored.
LEMMA BeginsStep ==
  ASSUME ConfigInv, NEW by, disk' = disk, running' = running, kept' = kept, persist' = persist,
         load' = load \/ (~Busy /\ load' = {Fresh(by)})
  PROVE  ConfigInv'
<1>1. CASE load' = load
  BY <1>1 DEF ConfigInv
<1>2. CASE ~Busy /\ load' = {Fresh(by)}
  <2> DEFINE l == Fresh(by)
  <2>1. /\ DOMAIN l = LoadFields /\ l.device = Absent /\ l.apps = Absent
        /\ l.at = "device"
    BY DEF Fresh, LoadFields
  <2>2. Listed(Absent)
    BY DEF Listed, RulesOf, Missing
  <2> HIDE DEF l
  <2>3. LoadInv(l, running, kept)
    BY <2>1, <2>2 DEF LoadInv
  <2> QED BY <1>2, <2>3 DEF ConfigInv, Busy, l
<1> QED BY <1>1, <1>2

\* A load that ends, whatever it leaves the watcher.
LEMMA EndsStep ==
  ASSUME ConfigInv, NEW l \in load, disk' = disk, kept' = kept, persist' = persist, load' = {},
         running' = running \/ (running' = Adoptable(l) /\ l.at \in {"read", "barrier"}
                                 /\ Adoptable(l) # {})
  PROVE  ConfigInv' /\ Mapped(running, running')
<1>1. CASE running' = running
  BY <1>1, Unmoved DEF ConfigInv
<1>2. CASE running' = Adoptable(l) /\ l.at \in {"read", "barrier"} /\ Adoptable(l) # {}
  <2>1. Adoptable(l) = Fitting(running, l)
    BY DEF Adoptable, Fitting
  <2>2. /\ l.device \in DeviceDoc \cup {Absent} /\ Listed(l.apps) /\ Holding(l.apps, kept)
    BY <1>2 DEF ConfigInv, LoadInv
  <2>3. ASSUME NEW c \in running'
        PROVE  /\ DOMAIN c = ConfigFields /\ c.apps \in Seq(Rules) /\ SafeConfig(c)
               /\ kept \subseteq RuleSet(c.apps) /\ Distinct(c.apps)
               /\ \A q \in running' : q = c
    <3>1. c \in Fitting(running, l)
      BY <1>2, <2>1
    <3>2. /\ SafeConfig(c) /\ DOMAIN c = ConfigFields /\ c.apps = RulesOf(l.apps).rules
          /\ c.apps \in Seq(Rules) /\ Distinct(c.apps)
          /\ \A q \in Fitting(running, l) : q = c
      BY <2>2, <3>1, CandidateSafe
    <3> QED BY <1>2, <2>1, <2>2, <3>2 DEF Holding
  <2>4. RunningInv(running', persist, kept)
    BY <2>3 DEF RunningInv
  <2>5. Mapped(running, running')
    BY <1>2, <2>1 DEF Mapped, Fitting
  <2> QED BY <2>4, <2>5 DEF ConfigInv
<1> QED BY <1>1, <1>2

\* The next document of a load is read.
LEMMA ReadStep ==
  ASSUME ConfigInv, ReadDocument
  PROVE  ConfigInv'
<1>1. PICK l \in load : /\ l.at \in DOMAIN NextFile
                        /\ load' = {[l EXCEPT ![l.at] = disk[l.at], !.at = NextFile[l.at]]}
  BY DEF ReadDocument
<1>2. disk' = disk /\ persist' = persist /\ running' = running /\ kept' = kept
  BY DEF ReadDocument
<1> DEFINE file == l.at
           m == [l EXCEPT ![l.at] = disk[l.at], !.at = NextFile[l.at]]
<1>3. /\ DOMAIN l = LoadFields /\ l.device \in DeviceDoc \cup {Absent} /\ Listed(l.apps)
      /\ DocumentsInv(disk, kept)
  BY DEF ConfigInv, LoadInv
<1>4. file \in {"device", "policy", "apps"}
  BY <1>1 DEF NextFile
<1>5. NextFile[file] = IF file = "device" THEN "policy" ELSE IF file = "policy" THEN "apps" ELSE "read"
  BY <1>4 DEF NextFile
<1>6. /\ DOMAIN m = LoadFields
      /\ m.at = NextFile[file]
      /\ m.device = IF file = "device" THEN disk.device ELSE l.device
      /\ m.apps = IF file = "apps" THEN disk.apps ELSE l.apps
  BY <1>3, <1>4 DEF LoadFields
<1> HIDE DEF m, file
<1>7. LoadInv(m, running, kept)
  BY <1>3, <1>4, <1>5, <1>6 DEF LoadInv, DocumentsInv
<1> QED BY <1>1, <1>2, <1>7 DEF ConfigInv, m

\* A candidate that waits fits what runs.
LEMMA WaitsStep ==
  ASSUME ConfigInv, LoadWaits
  PROVE  ConfigInv'
<1> DEFINE at == "barrier"
<1>1. PICK l \in load : l.at = "read" /\ Adoptable(l) # {} /\ load' = {[l EXCEPT !.at = at]}
  BY DEF LoadWaits
<1>2. disk' = disk /\ persist' = persist /\ running' = running /\ kept' = kept
  BY DEF LoadWaits
<1> DEFINE m == [l EXCEPT !.at = at]
<1>3. LoadInv(l, running, kept) /\ Fitting(running, l) # {}
  BY <1>1 DEF ConfigInv, Adoptable, Fitting
<1> HIDE DEF at
<1>4. /\ DOMAIN m = LoadFields /\ m.at = at /\ m.device = l.device /\ m.policy = l.policy
      /\ m.apps = l.apps
  BY <1>3 DEF LoadInv, LoadFields
<1> HIDE DEF m
<1>5. Fitting(running, m) = Fitting(running, l)
  BY <1>4 DEF Fitting
<1>6. LoadInv(m, running, kept)
  BY <1>1, <1>3, <1>4, <1>5 DEF LoadInv
<1> QED BY <1>1, <1>2, <1>6 DEF ConfigInv, m

\* A rule begins to be stored or removed while no load runs.
LEMMA RuleStep ==
  ASSUME ConfigInv, NEW rule \in ClientRule, SetAppRule(rule) \/ RemoveAppRule(rule)
  PROVE  ConfigInv'
<1>1. /\ ~Busy /\ disk' = disk /\ load' = load /\ running' = running /\ kept' = kept
  BY DEF SetAppRule, RemoveAppRule
<1>2. PICK r \in running : \E rules, kind :
        /\ persist' = {[rules |-> rules, rule |-> rule, kind |-> kind, at |-> "write"]}
        /\ \/ rules = Stored(r.apps, rule)
           \/ kind = "remove" /\ \E i \in DOMAIN r.apps : rules = Removed(r.apps, i)
  <2>1. CASE SetAppRule(rule)
    BY <2>1 DEF SetAppRule, BeginPersist
  <2>2. CASE RemoveAppRule(rule)
    <3>1. PICK r \in running : \E i \in DOMAIN r.apps :
            persist' = {[rules |-> Removed(r.apps, i), rule |-> rule, kind |-> "remove", at |-> "write"]}
      BY <2>2 DEF RemoveAppRule, BeginPersist
    <3> QED BY <3>1
  <2> QED BY <2>1, <2>2
<1>3. PICK rules, kind :
        /\ persist' = {[rules |-> rules, rule |-> rule, kind |-> kind, at |-> "write"]}
        /\ \/ rules = Stored(r.apps, rule)
           \/ kind = "remove" /\ \E i \in DOMAIN r.apps : rules = Removed(r.apps, i)
  BY <1>2
<1>4. r.apps \in Seq(Rules) /\ load = {} /\ persist = {}
  BY <1>1 DEF ConfigInv, RunningInv, Busy
<1>5. rules \in Seq(Rules) /\ (kind = "set" => rule \in RuleSet(rules))
  BY <1>3, <1>4, RulesStored
<1> DEFINE p == [rules |-> rules, rule |-> rule, kind |-> kind, at |-> "write"]
<1>6. DOMAIN p = PersistFields /\ p.rules = rules /\ p.kind = kind /\ p.rule = rule /\ p.at = "write"
  BY DEF PersistFields
<1> HIDE DEF p
<1>7. PersistInv(p, kept)
  BY <1>5, <1>6 DEF PersistInv
<1>8. RunningInv(running, {p}, kept)
  BY <1>4 DEF ConfigInv, RunningInv
<1> QED BY <1>1, <1>3, <1>4, <1>7, <1>8 DEF ConfigInv, p

\* The document is replaced and only rules of the new one stay acknowledged.
LEMMA WritesStep ==
  ASSUME ConfigInv, PersistWrites
  PROVE  ConfigInv'
<1> DEFINE at == "stored"
           yes == TRUE
<1>1. PICK p \in persist :
        /\ disk' = [disk EXCEPT !.apps = [sound |-> yes, rules |-> p.rules]]
        /\ persist' = {[p EXCEPT !.at = at]}
        /\ kept' = kept \cap RuleSet(p.rules) /\ RulesSound([sound |-> yes, rules |-> p.rules])
        /\ load' = load /\ running' = running
  BY DEF PersistWrites
<1>2. load = {} /\ PersistInv(p, kept) /\ DocumentsInv(disk, kept)
  BY DEF ConfigInv
<1> DEFINE q == [p EXCEPT !.at = at]
           doc == [sound |-> yes, rules |-> p.rules]
<1>3. doc.rules = p.rules /\ doc # Absent
  <2>1. DOMAIN doc = {"sound", "rules"} /\ DOMAIN Absent = {"absent"}
    BY DEF Absent
  <2> QED BY <2>1
<1> HIDE DEF at, doc
<1>4. /\ DOMAIN q = PersistFields /\ q.rules = p.rules /\ q.rule = p.rule /\ q.kind = p.kind
      /\ q.at = at
  BY <1>2 DEF PersistInv, PersistFields
<1> HIDE DEF q
<1>5. PersistInv(q, kept')
  <2>1. Distinct(p.rules)
    BY <1>1, <1>3 DEF RulesSound, Distinct, doc
  <2> QED BY <1>1, <1>2, <1>4, <2>1 DEF PersistInv
<1>6. /\ DOMAIN disk' = {"device", "policy", "apps"} /\ disk'.device = disk.device
      /\ disk'.apps = doc
  BY <1>1, <1>2 DEF DocumentsInv, doc
<1>7. DocumentsInv(disk', kept')
  BY <1>1, <1>2, <1>3, <1>6 DEF DocumentsInv, PersistInv, Listed, Holding, RulesOf
<1>8. RunningInv(running, {q}, kept')
  <2>1. q.at # "write"
    BY <1>4 DEF at
  <2> QED BY <2>1 DEF ConfigInv, RunningInv
<1> QED BY <1>1, <1>2, <1>5, <1>7, <1>8 DEF ConfigInv, q

\* The stored rules become those that run; a failed write leaves what was.
LEMMA PersistEnds ==
  ASSUME ConfigInv, PersistFails \/ FinishPersist
  PROVE  ConfigInv' /\ Mapped(running, running')
<1>1. CASE PersistFails
  <2>1. PICK p \in persist : p.at = "write" /\ persist' = {}
    BY <1>1 DEF PersistFails
  <2>2. disk' = disk /\ load' = load /\ running' = running /\ kept' = kept
    BY <1>1 DEF PersistFails
  <2>3. \A q \in persist : q.at = "write"
    BY <2>1 DEF ConfigInv
  <2> QED BY <2>1, <2>2, <2>3, Unmoved DEF ConfigInv, RunningInv
<1>2. CASE FinishPersist
  <2>1. PICK p \in persist :
          /\ p.at = "stored" /\ persist' = {} /\ disk' = disk /\ load' = load
          /\ running' = {[r EXCEPT !.apps = p.rules] : r \in running}
          /\ kept' = IF p.kind = "set" /\ disk.apps = [sound |-> TRUE, rules |-> p.rules]
                     THEN kept \cup {p.rule} ELSE kept
    BY <1>2 DEF FinishPersist
  <2>2. load = {} /\ PersistInv(p, kept) /\ DocumentsInv(disk, kept)
    BY DEF ConfigInv
  <2>3. kept' \subseteq RuleSet(p.rules)
    BY <2>1, <2>2 DEF PersistInv
  <2>4. DocumentsInv(disk, kept')
    <3> DEFINE doc == [sound |-> TRUE, rules |-> p.rules]
    <3>1. doc.rules = p.rules /\ doc # Absent
      <4>1. DOMAIN doc = {"sound", "rules"} /\ DOMAIN Absent = {"absent"}
        BY DEF Absent
      <4> QED BY <4>1
    <3> HIDE DEF doc
    <3>2. CASE disk.apps = doc
      BY <2>2, <2>3, <3>1, <3>2 DEF DocumentsInv, Holding, RulesOf
    <3>3. CASE disk.apps # doc
      BY <2>1, <2>2, <3>3 DEF doc
    <3> QED BY <3>2, <3>3
  <2>5. ASSUME NEW c \in running'
        PROVE  \E r \in running : /\ DOMAIN c = ConfigFields /\ c.apps = p.rules
                                  /\ c.device = r.device /\ c.policy = r.policy
    <3>1. PICK r \in running : c = [r EXCEPT !.apps = p.rules]
      BY <2>1
    <3>2. DOMAIN r = ConfigFields
      BY DEF ConfigInv, RunningInv
    <3> QED BY <3>1, <3>2 DEF ConfigFields
  <2>6. \A c \in running', r \in running : TargetSignature(c) = TargetSignature(r)
    BY <2>5 DEF ConfigInv, RunningInv, TargetSignature
  <2>7. ASSUME NEW c \in running'
        PROVE  /\ DOMAIN c = ConfigFields /\ c.apps \in Seq(Rules) /\ SafeConfig(c)
               /\ kept' \subseteq RuleSet(c.apps) /\ Distinct(c.apps)
    <3>1. PICK r \in running : /\ DOMAIN c = ConfigFields /\ c.apps = p.rules
                               /\ c.device = r.device /\ c.policy = r.policy
      BY <2>5
    <3>2. SafeConfig(r)
      BY DEF ConfigInv, RunningInv
    <3>3. SafeConfig(c)
      BY <3>1, <3>2 DEF SafeConfig
    <3> QED BY <2>1, <2>2, <2>3, <3>1, <3>3 DEF PersistInv
  <2>8. \A c, q \in running' : TargetSignature(c) = TargetSignature(q)
    BY <2>5, <2>6
  <2>9. RunningInv(running', {}, kept')
    BY <2>7, <2>8 DEF RunningInv
  <2>10. Mapped(running, running')
    BY <2>1, <2>6 DEF Mapped
  <2> QED BY <2>1, <2>2, <2>4, <2>9, <2>10 DEF ConfigInv
<1> QED BY <1>1, <1>2

\* Every step keeps the invariant and the mapping.
LEMMA ConfigStep ==
  ASSUME ConfigInv, [ConfigNext]_configVars
  PROVE  ConfigInv' /\ Mapped(running, running')
<1>1. ASSUME running' = running PROVE Mapped(running, running')
  BY <1>1, Unmoved
<1>2. CASE UNCHANGED configVars
  BY <1>1, <1>2 DEF ConfigInv, configVars
<1>3. CASE \/ \E doc \in DeviceDoc : Save("device", doc)
           \/ \E doc \in PolicyDoc : Save("policy", doc)
           \/ \E doc \in RuleDoc : Save("apps", doc)
  <2>1. running' = running
    BY <1>3 DEF Save
  <2> QED BY <1>1, <1>3, <2>1, SaveStep
<1>4. CASE ReplaceDirectory \/ WatchDrains
  BY <1>1, <1>4 DEF ConfigInv, ReplaceDirectory, WatchDrains
<1>5. CASE WatchReloads \/ ClientReloads
  <2>1. /\ disk' = disk /\ running' = running /\ kept' = kept /\ persist' = persist
        /\ \E by : load' = load \/ (~Busy /\ load' = {Fresh(by)})
    BY <1>5 DEF WatchReloads, ClientReloads
  <2> QED BY <1>1, <2>1, BeginsStep
<1>6. CASE ReadDocument \/ LoadWaits
  <2>1. running' = running
    BY <1>6 DEF ReadDocument, LoadWaits
  <2> QED BY <1>1, <1>6, <2>1, ReadStep, WaitsStep
<1>7. CASE LoadFails \/ BootFails \/ AdoptCandidate \/ BootLoads
  <2>1. PICK l \in load :
          /\ disk' = disk /\ kept' = kept /\ persist' = persist /\ load' = {}
          /\ \/ running' = running
             \/ running' = Adoptable(l) /\ (l.at = "barrier" \/ (l.at = "read" /\ Adoptable(l) # {}))
    BY <1>7 DEF LoadFails, BootFails, AdoptCandidate, BootLoads
  <2>2. l.at = "barrier" => Adoptable(l) # {}
    BY DEF ConfigInv, LoadInv, Adoptable, Fitting
  <2> QED BY <2>1, <2>2, EndsStep
<1>8. CASE \E rule \in ClientRule : SetAppRule(rule) \/ RemoveAppRule(rule)
  <2>1. running' = running
    BY <1>8 DEF SetAppRule, RemoveAppRule
  <2> QED BY <1>1, <1>8, <2>1, RuleStep
<1>9. CASE PersistWrites
  <2>1. running' = running
    BY <1>9 DEF PersistWrites
  <2> QED BY <1>1, <1>9, <2>1, WritesStep
<1>10. CASE PersistFails \/ FinishPersist
  BY <1>10, PersistEnds
<1> QED BY <1>2, <1>3, <1>4, <1>5, <1>6, <1>7, <1>8, <1>9, <1>10 DEF ConfigNext

\* The invariant holds at the start.
LEMMA ConfigStarts == ConfigInit => ConfigInv
<1> SUFFICES ASSUME ConfigInit PROVE ConfigInv
  OBVIOUS
<1>1. /\ load = {Fresh("boot")} /\ persist = {} /\ running = {} /\ kept = {}
      /\ disk \in [device : DeviceDoc, policy : PolicyDoc, apps : {Absent}]
  BY DEF ConfigInit
<1>2. Listed(Absent)
  BY DEF Listed, RulesOf, Missing
<1>3. /\ DOMAIN disk = {"device", "policy", "apps"} /\ disk.device \in DeviceDoc
      /\ disk.apps = Absent
  BY <1>1
<1>4. DocumentsInv(disk, kept)
  BY <1>1, <1>2, <1>3 DEF DocumentsInv, Holding
<1> DEFINE l == Fresh("boot")
<1>5. /\ DOMAIN l = LoadFields /\ l.device = Absent /\ l.apps = Absent /\ l.at = "device"
  BY DEF Fresh, LoadFields
<1> HIDE DEF l
<1>6. LoadInv(l, running, kept)
  BY <1>2, <1>5 DEF LoadInv
<1>7. RunningInv(running, persist, kept)
  BY <1>1 DEF RunningInv
<1> QED BY <1>1, <1>4, <1>6, <1>7 DEF ConfigInv, l

\* Whatever mixture of documents a load read, however saves, reloads and rules
\* cross each other: what runs is safe, and an acknowledged rule stays in the
\* rules that run and in the document (validate_cross_references,
\* start_set_app_rule, start_reload).
THEOREM SoundConfiguration == ConfigSpec => []ConfigSound
<1>1. ConfigInv /\ [ConfigNext]_configVars => ConfigInv'
  BY ConfigStep
<1>2. ConfigInv => ConfigSound
  <2> SUFFICES ASSUME ConfigInv, NEW r \in running
               PROVE  /\ SafeConfig(r)
                      /\ persist = {} => /\ kept \subseteq RuleSet(r.apps)
                                         /\ kept \subseteq RuleSet(RulesOf(disk.apps).rules)
    BY DEF ConfigSound, RunningIsSafe, StoredRulesKept, SafeConfig
  <2> QED BY DEF ConfigInv, RunningInv, DocumentsInv, Holding
<1> QED BY <1>1, <1>2, ConfigStarts, PTL DEF ConfigSpec

\* A reload never changes the mapping of targets the actuators were built with
\* and never takes the running configuration away (receive_reload).
THEOREM MappingKept == ConfigSpec => MappingNeverChanges
<1>1. ConfigInv /\ [ConfigNext]_configVars => ConfigInv'
  BY ConfigStep
<1>2. ConfigInv /\ [ConfigNext]_configVars =>
        [running # {} =>
           /\ running' # {}
           /\ \A r \in running, c \in running' : TargetSignature(r) = TargetSignature(c)]_configVars
  BY ConfigStep DEF Mapped
<1> QED BY <1>1, <1>2, ConfigStarts, PTL DEF ConfigSpec, MappingNeverChanges

\* No two rules that run have one ID, so that a removal takes one of them
\* (start_remove_app_rule retains every rule with another ID).
THEOREM RuleIdsDistinct == ConfigSpec => [](\A r \in running : Distinct(r.apps))
<1>1. ConfigInv /\ [ConfigNext]_configVars => ConfigInv'
  BY ConfigStep
<1>2. ConfigInv => \A r \in running : Distinct(r.apps)
  BY DEF ConfigInv, RunningInv
<1> QED BY <1>1, <1>2, ConfigStarts, PTL DEF ConfigSpec
=============================================================================
