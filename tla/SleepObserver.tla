--------------------------- MODULE SleepObserver ---------------------------
(***************************************************************************)
(* The logind observer (crates/uperf-daemon/src/observers.rs): it holds a  *)
(* delay inhibitor, turns PrepareForSleep into sleep and wake requests to  *)
(* the state task (runtime.rs), and polls the state of the sessions.  The  *)
(* lanes and barriers behind a restore are in MutationBarrier; here a      *)
(* restore is one step that may fail and may come too late.                *)
(*                                                                         *)
(* logind and the sessions are external.  While the machine sleeps nothing *)
(* in it moves.                                                            *)
(***************************************************************************)
EXTENDS Naturals, Sequences

CONSTANTS
  Session,         \* logind sessions
  MaxCycles,       \* bound: times the machine sleeps
  MaxSleepFaults,  \* bound: failed calls, expired deadlines, failed restores
  MaxSwitches      \* bound: changes of a session

VARIABLES
  machine,         \* logind: [phase, expired: its delay is over, covered]
  announced,       \* PrepareForSleep signals the observer has not taken
  inhibitor,       \* logind counts our delay lock
  observer,        \* [at, request: the last id, last: last_session_state]
  inbox,           \* runtime_events
  answered,        \* ids of requests with an answer
  core,            \* the state task: [suspended, restoring, restored, failed, resume,
                   \*   sleepers, wakers, session]
  claims,          \* the actuator owns something
  sessions,        \* [Session -> what logind says of it]
  sleepBounds      \* [cycles, faults, switches]

sleepVars == <<machine, announced, inhibitor, observer, inbox, answered, core, claims,
               sessions, sleepBounds>>

SleepInit ==
  /\ machine = [phase |-> "awake", expired |-> FALSE, covered |-> FALSE]
  /\ announced = <<>> /\ inhibitor = FALSE /\ inbox = <<>> /\ answered = {}
  /\ observer = [at |-> "starting", request |-> 0, last |-> "none"]
  /\ core = [suspended |-> FALSE, restoring |-> FALSE, restored |-> FALSE, failed |-> FALSE,
             resume |-> FALSE, sleepers |-> {}, wakers |-> {}, session |-> "active"]
  /\ claims = FALSE
  /\ sessions = [s \in Session |-> "active"]
  /\ sleepBounds = [cycles |-> 0, faults |-> 0, switches |-> 0]

Running == machine.phase # "asleep"
SleepFault ==
  sleepBounds.faults < MaxSleepFaults /\ sleepBounds' = [sleepBounds EXCEPT !.faults = @ + 1]

-----------------------------------------------------------------------------
(* logind                                                                  *)

Subscribed == observer.at \notin {"starting", "acquired", "ended"}
\* covered: an observer that holds its inhibitor will hear of this sleep, with
\* no earlier wake to handle first (handling one may drop the inhibitor).
Announces ==
  /\ machine.phase = "awake" /\ sleepBounds.cycles < MaxCycles
  /\ sleepBounds' = [sleepBounds EXCEPT !.cycles = @ + 1]
  /\ machine' = [machine EXCEPT !.phase = "delay",
                                !.covered = inhibitor /\ Subscribed /\ announced = <<>>]
  /\ announced' = IF Subscribed THEN Append(announced, "sleep") ELSE announced
  /\ UNCHANGED <<inhibitor, observer, inbox, answered, core, claims, sessions>>
\* InhibitDelayMaxUSec is over.
DelayExpires ==
  /\ machine.phase = "delay" /\ ~machine.expired /\ SleepFault
  /\ machine' = [machine EXCEPT !.expired = TRUE]
  /\ UNCHANGED <<announced, inhibitor, observer, inbox, answered, core, claims, sessions>>
FallsAsleep ==
  /\ machine.phase = "delay" /\ (~inhibitor \/ machine.expired)
  /\ machine' = [machine EXCEPT !.phase = "asleep"]
  /\ UNCHANGED <<announced, inhibitor, observer, inbox, answered, core, claims, sessions,
                 sleepBounds>>
WakesUp ==
  /\ machine.phase = "asleep"
  /\ machine' = [phase |-> "awake", expired |-> FALSE, covered |-> FALSE]
  /\ announced' = IF Subscribed THEN Append(announced, "wake") ELSE announced
  /\ UNCHANGED <<inhibitor, observer, inbox, answered, core, claims, sessions, sleepBounds>>
SessionSwitches(s, state) ==
  /\ Running /\ sleepBounds.switches < MaxSwitches /\ state # sessions[s]
  /\ sleepBounds' = [sleepBounds EXCEPT !.switches = @ + 1]
  /\ sessions' = [sessions EXCEPT ![s] = state]
  /\ UNCHANGED <<machine, announced, inhibitor, observer, inbox, answered, core, claims>>

-----------------------------------------------------------------------------
(* The observer's task                                                     *)

observerOnly == <<machine, core, claims, sessions>>
\* logind grants no delay lock while a sleep is being prepared.
Granted == machine.phase = "awake"

\* A failure before the loop ends the observer.
Starts ==
  /\ Running /\ observer.at = "starting"
  /\ \/ Granted /\ inhibitor' = TRUE /\ observer' = [observer EXCEPT !.at = "acquired"]
        /\ UNCHANGED sleepBounds
     \/ ~Granted /\ observer' = [observer EXCEPT !.at = "ended"]
        /\ UNCHANGED <<inhibitor, sleepBounds>>
  /\ UNCHANGED <<observerOnly, announced, inbox, answered>>
StartFails ==
  /\ Running /\ observer.at \in {"starting", "acquired"} /\ SleepFault
  /\ observer' = [observer EXCEPT !.at = "ended"] /\ inhibitor' = FALSE
  /\ UNCHANGED <<observerOnly, announced, inbox, answered>>
Subscribes ==
  /\ Running /\ observer.at = "acquired" /\ observer' = [observer EXCEPT !.at = "loop"]
  /\ UNCHANGED <<observerOnly, announced, inhibitor, inbox, answered, sleepBounds>>

Deliver(kind) == inbox' = Append(inbox, [kind |-> kind, id |-> observer.request + 1])
Takes(kind) == Running /\ observer.at = "loop" /\ announced # <<>> /\ Head(announced) = kind

\* Mutant: the inhibitor is released when the request is sent.
TakesSleepReleasing ==
  /\ Takes("sleep") /\ announced' = Tail(announced)
  /\ Deliver("sleep") /\ inhibitor' = FALSE
  /\ observer' = [observer EXCEPT !.at = "sleeping", !.request = @ + 1]
  /\ UNCHANGED <<observerOnly, answered, sleepBounds>>
\* prepare_for_sleep(true): the inhibitor is kept until the answer.
TakesSleep ==
  /\ Takes("sleep") /\ announced' = Tail(announced)
  /\ Deliver("sleep")
  /\ observer' = [observer EXCEPT !.at = "sleeping", !.request = @ + 1]
  /\ UNCHANGED <<observerOnly, inhibitor, answered, sleepBounds>>

\* Mutant: a refused inhibitor skips the resume.
RearmsOrGivesUp ==
  /\ Takes("wake") /\ announced' = Tail(announced)
  /\ \/ Granted /\ inhibitor' = TRUE /\ Deliver("wake")
        /\ observer' = [observer EXCEPT !.at = "waking", !.request = @ + 1] /\ UNCHANGED sleepBounds
     \/ /\ inhibitor' = FALSE /\ UNCHANGED <<observer, inbox>>
        /\ IF Granted THEN SleepFault ELSE UNCHANGED sleepBounds
  /\ UNCHANGED <<observerOnly, answered>>
\* A new inhibitor is taken, with or without success, before the resume.
TakesWake ==
  /\ Takes("wake") /\ announced' = Tail(announced)
  /\ Deliver("wake")
  /\ observer' = [observer EXCEPT !.at = "waking", !.request = @ + 1]
  /\ \/ Granted /\ inhibitor' = TRUE /\ UNCHANGED sleepBounds
     \/ inhibitor' = FALSE /\ IF Granted THEN SleepFault ELSE UNCHANGED sleepBounds
  /\ UNCHANGED <<observerOnly, answered>>

Waiting == Running /\ observer.at \in {"sleeping", "waking"}
\* The answer, or the end of the wait, releases the inhibitor of a sleep.
Returns ==
  /\ observer' = [observer EXCEPT !.at = "loop"]
  /\ inhibitor' = (inhibitor /\ observer.at = "waking")
Answered ==
  /\ Waiting /\ observer.request \in answered
  /\ Returns
  /\ UNCHANGED <<observerOnly, announced, inbox, answered, sleepBounds>>
\* restore_timeout, measured from the request, is over before the answer.
WaitEnds ==
  /\ Waiting /\ observer.request \notin answered /\ SleepFault
  /\ Returns
  /\ machine' = [machine EXCEPT !.covered = FALSE]
  /\ UNCHANGED <<announced, inbox, answered, core, claims, sessions>>

\* active_local_session_state
SessionState ==
  LET here == {sessions[s] : s \in Session} \ {"remote"}
  IN CASE "active" \in here -> "active"
       [] "active" \notin here /\ "locked" \in here -> "locked"
       [] here = {"idle"} -> "idle"
       [] here = {} -> "none"
\* A state is reported when it differs from the last one read.
PollsSessions ==
  /\ Running /\ observer.at = "loop" /\ SessionState # observer.last
  /\ observer' = [observer EXCEPT !.last = SessionState]
  /\ inbox' = IF SessionState = "none" THEN inbox
              ELSE Append(inbox, [kind |-> SessionState, id |-> 0])
  /\ UNCHANGED <<observerOnly, announced, inhibitor, answered, sleepBounds>>

-----------------------------------------------------------------------------
(* The state task                                                          *)

\* request_sleep_restore
RequestSleep(id) ==
  IF core.failed
  THEN core' = [core EXCEPT !.resume = FALSE, !.wakers = {}, !.suspended = TRUE]
       /\ answered' = answered \cup core.wakers \cup {id}
  ELSE IF core.suspended /\ core.restored
  THEN core' = [core EXCEPT !.resume = FALSE, !.wakers = {}]
       /\ answered' = answered \cup core.wakers \cup {id}
  ELSE core' = [core EXCEPT !.resume = FALSE, !.wakers = {}, !.sleepers = @ \cup {id},
                  !.suspended = TRUE, !.restored = FALSE, !.restoring = TRUE]
       /\ answered' = answered \cup core.wakers
\* request_resume
RequestResume(id) ==
  IF core.suspended /\ core.restoring
  THEN core' = [core EXCEPT !.resume = TRUE, !.wakers = @ \cup {id}] /\ UNCHANGED answered
  ELSE core' = [core EXCEPT !.suspended = FALSE, !.restored = FALSE]
       /\ answered' = answered \cup {id}
CoreTakes ==
  /\ Running /\ inbox # <<>> /\ inbox' = Tail(inbox)
  /\ LET m == Head(inbox)
     IN CASE m.kind = "sleep" -> RequestSleep(m.id)
          [] m.kind = "wake" -> RequestResume(m.id)
          [] OTHER -> core' = [core EXCEPT !.session = m.kind] /\ UNCHANGED answered
  /\ UNCHANGED <<machine, announced, inhibitor, observer, claims, sessions, sleepBounds>>
\* A reconciliation claims; none runs while suspended.
CoreClaims ==
  /\ Running /\ ~core.suspended /\ ~core.failed /\ ~claims /\ claims' = TRUE
  /\ UNCHANGED <<machine, announced, inhibitor, observer, inbox, answered, core, sessions,
                 sleepBounds>>
\* finish_restore: sleep requests are answered, then a resume that waits.
RestoreEnds(ok) ==
  /\ Running /\ core.restoring
  /\ IF ok THEN claims' = FALSE /\ UNCHANGED sleepBounds ELSE SleepFault /\ UNCHANGED claims
  /\ core' = [core EXCEPT !.restoring = FALSE, !.failed = ~ok, !.sleepers = {}, !.wakers = {},
                !.resume = FALSE, !.suspended = ~core.resume, !.restored = ok /\ ~core.resume]
  /\ answered' = answered \cup core.sleepers \cup core.wakers
  /\ UNCHANGED <<machine, announced, inhibitor, observer, inbox, sessions>>

-----------------------------------------------------------------------------

ObserverSteps == Starts \/ Subscribes \/ TakesSleep \/ TakesWake \/ Answered \/ PollsSessions
CoreSteps == CoreTakes \/ \E ok \in BOOLEAN : RestoreEnds(ok)
SleepNext ==
  \/ Announces \/ DelayExpires \/ FallsAsleep \/ WakesUp
  \/ \E s \in Session, state \in {"active", "idle", "locked", "remote"} : SessionSwitches(s, state)
  \/ ObserverSteps \/ StartFails \/ WaitEnds \/ CoreSteps \/ CoreClaims

\* The machine sleeps once nothing delays it and is woken; the tasks run.
SleepFairness ==
  /\ WF_sleepVars(FallsAsleep) /\ WF_sleepVars(WakesUp)
  /\ WF_sleepVars(Starts \/ Subscribes) /\ SF_sleepVars(TakesSleep \/ TakesWake)
  /\ WF_sleepVars(Answered)
  /\ SF_sleepVars(PollsSessions) /\ WF_sleepVars(CoreSteps)
SleepSpec == SleepInit /\ [][SleepNext]_sleepVars

-----------------------------------------------------------------------------
(* Properties                                                              *)

\* A machine that falls asleep has been restored first (observers.rs: "It must
\* happen after the reducer has verified restoration, or at the bounded
\* deadline"): nothing is claimed in its sleep, unless logind's delay or the
\* observer's wait ran out, the restore failed, or the observer held no
\* inhibitor, or a wake to handle, when the sleep was announced.  However sleeps,
\* wakes, late restores and superseded requests follow each other.
SleepsRestored ==
  machine.phase = "asleep" /\ machine.covered /\ ~machine.expired /\ ~core.failed => ~claims

\* An observer that lives keeps the daemon in step with the machine: after the
\* last wake the daemon resumes, whether or not a new inhibitor was granted and
\* however late the restore of the sleep was, and it sees the session as it is.
ObserverKeepsUp ==
  <>[](observer.at # "ended" =>
         /\ machine.phase = "awake" => ~core.suspended
         /\ SessionState \in {"none", core.session})
=============================================================================
