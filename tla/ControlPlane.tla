---------------------------- MODULE ControlPlane ----------------------------
(***************************************************************************)
(* Requests to the state task (RuntimeHandle and handle_command of         *)
(* crates/uperf-daemon/src/runtime.rs): D-Bus methods and main.rs put       *)
(* commands on one bounded channel and wait for their reply; the task       *)
(* takes them in order, answers most at once and hands the slow ones to     *)
(* threads.  main.rs closes the control plane and stops the task by         *)
(* commands of the same kind.                                              *)
(*                                                                         *)
(* A method first has its caller authorised, by the bus and, for a change   *)
(* of the machine's policy, by PolicyKit, which may ask the user and take   *)
(* for ever.                                                               *)
(*                                                                         *)
(* A caller has one call at a time.  Effects are not modelled, only which   *)
(* calls had theirs.  Commands that nobody waits for (a peer that left, the *)
(* health of an observer) change nothing here and are left out.             *)
(***************************************************************************)
EXTENDS Naturals, Sequences

CONSTANTS
  Client,            \* D-Bus method calls under way
  Capacity,          \* COMMAND_CAPACITY
  MaxRequests        \* bound on client calls

VARIABLES
  call,              \* [caller -> its call and how it ended]
  commands,          \* the channel: callers in the order they queued
  stateTask,         \* the state task: [alive, accepting, stopping, inFlight]
  requests           \* client calls so far

controlVars == <<call, commands, stateTask, requests>>

Main == "main"
ASSUME MainIsNoClient == Main \notin Client
\* Quick requests change state at once; slow ones when their thread is back.
Quick == {"mode"}
Slow == {"reload", "rule", "workload"}

Idle(answer) ==
  [at |-> "idle", what |-> "none", answer |-> answer, effect |-> FALSE, late |-> FALSE,
   ahead |-> FALSE]
ControlInit ==
  /\ call = [c \in Client \cup {Main} |-> Idle("none")]
  /\ commands = <<>>
  /\ stateTask = [alive |-> TRUE, accepting |-> TRUE, stopping |-> FALSE, inFlight |-> {}]
  /\ requests = 0

-----------------------------------------------------------------------------
(* Callers                                                                 *)

Closed == call[Main].what \in {"begin", "stop"} /\ call[Main].answer # "none"
\* late: the command is issued after begin_shutdown has returned.
Command(what, at) ==
  [Idle("none") EXCEPT !.at = at, !.what = what, !.late = Closed]
ClientAsks(c, what) ==
  /\ call[c].at = "idle" /\ requests < MaxRequests
  /\ call' = [call EXCEPT ![c] = Command(what, "authorizing")]
  /\ requests' = requests + 1
  /\ UNCHANGED <<commands, stateTask>>
\* The caller is unknown, PolicyKit is away, or it denies the action.
Denied(c) ==
  /\ call[c].at = "authorizing"
  /\ call' = [call EXCEPT ![c].at = "idle", ![c].answer = "denied"]
  /\ UNCHANGED <<commands, stateTask, requests>>
Authorized(c) ==
  /\ call[c].at = "authorizing"
  /\ call' = [call EXCEPT ![c] = Command(call[c].what, "sending")]
  /\ UNCHANGED <<commands, stateTask, requests>>

\* A full channel makes the sender wait.
\* ahead: the command is in the channel before BeginShutdown.
Submit(c) ==
  /\ call[c].at = "sending" /\ stateTask.alive /\ Len(commands) < Capacity
  /\ commands' = Append(commands, c)
  /\ call' = [call EXCEPT ![c].at = "waiting",
                          ![c].ahead = call[Main].what \notin {"begin", "stop"}
                                       \/ (call[Main].what = "begin" /\ call[Main].at = "sending")]
  /\ UNCHANGED <<stateTask, requests>>
SubmitFails(c) ==
  /\ call[c].at = "sending" /\ ~stateTask.alive
  /\ call' = [call EXCEPT ![c].at = "idle", ![c].answer = "lost"]
  /\ UNCHANGED <<commands, stateTask, requests>>

\* main.rs activates the task, closes the control plane, and repeats its stop
\* while control work is in flight.
MainAsks(what) ==
  /\ call[Main].at = "idle"
  /\ \/ what = "activate" /\ call[Main].what = "none"
     \/ what = "begin" /\ call[Main].what = "activate"
     \/ what = "stop" /\ call[Main].what = "begin"
     \/ what = "stop" /\ call[Main].what = "stop" /\ call[Main].answer = "conflict"
  /\ call' = [call EXCEPT ![Main] = Command(what, "sending")]
  /\ UNCHANGED <<commands, stateTask, requests>>

-----------------------------------------------------------------------------
(* The state task                                                          *)

ReplyWith(c, answer) ==
  call' = [call EXCEPT ![c].at = "idle", ![c].answer = answer, ![c].effect = answer = "ok"]
Receive(c) ==
  /\ stateTask.alive /\ commands # <<>> /\ c = Head(commands)
  /\ commands' = Tail(commands)

\* A rule and a reload exclude each other and themselves, and so do two
\* selections of a workload.
Excludes(a, b) == (a = "workload") = (b = "workload")
Conflicts(what) == \E d \in stateTask.inFlight : Excludes(what, call[d].what)

Refuse(c) ==
  /\ Receive(c) /\ call[c].what \notin {"begin", "stop"} /\ ~stateTask.accepting
  /\ ReplyWith(c, "refused") /\ UNCHANGED <<stateTask, requests>>
\* Mutant: a quick request is handled after the barrier too.
HandleQuickAlways(c) ==
  /\ Receive(c) /\ call[c].what \in Quick \cup {"activate"}
  /\ ReplyWith(c, "ok") /\ UNCHANGED <<stateTask, requests>>
HandleQuick(c) ==
  /\ Receive(c) /\ call[c].what \in Quick \cup {"activate"} /\ stateTask.accepting
  /\ ReplyWith(c, "ok") /\ UNCHANGED <<stateTask, requests>>
\* Arguments that do not parse, limits out of range, a degraded actuator.
HandleInvalid(c) ==
  /\ Receive(c) /\ call[c].what \in Quick \cup Slow /\ stateTask.accepting
  /\ ReplyWith(c, "error") /\ UNCHANGED <<stateTask, requests>>
HandleSlow(c) ==
  /\ Receive(c) /\ call[c].what \in Slow /\ stateTask.accepting
  /\ IF Conflicts(call[c].what)
     THEN ReplyWith(c, "conflict") /\ UNCHANGED stateTask
     ELSE stateTask' = [stateTask EXCEPT !.inFlight = @ \cup {c}] /\ UNCHANGED call
  /\ UNCHANGED requests
\* The document of a rule is renamed into place before the task hears of it.
RuleWritten(c) ==
  /\ c \in stateTask.inFlight /\ call[c].what = "rule" /\ ~call[c].effect
  /\ call' = [call EXCEPT ![c].effect = TRUE]
  /\ UNCHANGED <<commands, stateTask, requests>>
SlowEnds(c, answer) ==
  /\ stateTask.alive /\ c \in stateTask.inFlight
  /\ call[c].what = "rule" => (answer = "ok") = call[c].effect
  /\ stateTask' = [stateTask EXCEPT !.inFlight = @ \ {c}] /\ ReplyWith(c, answer)
  /\ UNCHANGED <<commands, requests>>

HandleBegin(c) ==
  /\ Receive(c) /\ call[c].what = "begin"
  /\ stateTask' = [stateTask EXCEPT !.accepting = FALSE] /\ ReplyWith(c, "ok")
  /\ UNCHANGED requests
\* The reply to an accepted stop comes with the end of the restoration.
HandleStop(c) ==
  /\ Receive(c) /\ call[c].what = "stop"
  /\ IF stateTask.inFlight # {} THEN ReplyWith(c, "conflict") /\ UNCHANGED stateTask
     ELSE stateTask' = [stateTask EXCEPT !.accepting = FALSE, !.stopping = TRUE] /\ UNCHANGED call
  /\ UNCHANGED requests
\* The task leaves its loop: the channel and every reply in it are dropped.
StateTaskEnds(answer) ==
  /\ stateTask.alive /\ stateTask.stopping
  /\ stateTask' = [stateTask EXCEPT !.alive = FALSE, !.inFlight = {}]
  /\ call' = [c \in DOMAIN call |->
                IF c = Main THEN [call[c] EXCEPT !.at = "idle", !.answer = answer]
                ELSE IF call[c].at = "waiting"
                THEN [call[c] EXCEPT !.at = "idle", !.answer = "lost"] ELSE call[c]]
  /\ commands' = <<>> /\ UNCHANGED requests

Handle ==
  \E c \in DOMAIN call :
    \/ Refuse(c) \/ HandleQuick(c) \/ HandleInvalid(c) \/ HandleSlow(c)
    \/ HandleBegin(c) \/ HandleStop(c)
ControlEnds == \E answer \in {"ok", "error"} : StateTaskEnds(answer)
Threads ==
  \E c \in Client : RuleWritten(c) \/ \E answer \in {"ok", "error"} : SlowEnds(c, answer)
Sending == \E c \in DOMAIN call : Submit(c) \/ SubmitFails(c)
MainGoesOn == \E what \in {"activate", "begin", "stop"} : MainAsks(what)

ControlNext ==
  \/ \E c \in Client :
       Denied(c) \/ Authorized(c) \/ \E what \in Quick \cup Slow : ClientAsks(c, what)
  \/ Sending \/ MainGoesOn \/ Handle \/ Threads \/ ControlEnds

\* Threads end, and so does the restoration; the task takes commands, a channel
\* that has room admits its senders, and a shutdown goes on.  An authorisation need
\* not end.
ControlGoesOn == Handle \/ ControlEnds \/ Sending \/ MainAsks("stop")
ControlFairness == WF_controlVars(Threads) /\ WF_controlVars(ControlGoesOn)

ControlSpec == ControlInit /\ [][ControlNext]_controlVars /\ ControlFairness

-----------------------------------------------------------------------------
(* Properties                                                              *)

\* begin_shutdown: "Commands already ordered before this barrier complete
\* normally; every later mutation request is rejected", whatever is in flight;
\* and what a caller is told is what happened: an answer other than success,
\* a lost reply included, means that its call had no effect.
ControlBarrier ==
  \A c \in Client :
    call[c].at = "idle" =>
      /\ call[c].ahead => call[c].answer \notin {"refused", "lost"}
      /\ call[c].late => call[c].answer # "ok"
      /\ call[c].effect => call[c].answer = "ok"

\* Every call is answered or still to be authorised, and a shutdown that began has stopped the task.
CallsSettled ==
  /\ \A c \in Client : call[c].at \in {"idle", "authorizing"}
  /\ call[Main].what \in {"begin", "stop"} => ~stateTask.alive

\* Every authorised call is answered in the end, with a full channel, conflicts and the end
\* of the task on its way, and a shutdown that has begun stops the task
\* (RuntimeHandle::request, RuntimeHandle::stop).
CallsAnswered == <>[]CallsSettled
=============================================================================
