---------------------------- MODULE FocusReporter ----------------------------
(***************************************************************************)
(* The GNOME Shell extension that tells the daemon which process has the   *)
(* focus and whether the display is blanked                                *)
(* (extensions/focus@uperflinux.org/extension.js), with the daemon's side  *)
(* of the conversation reduced to the lease it gives, the process it is    *)
(* verifying and the reporter lease that frame hints need (FocusLeases is  *)
(* the daemon in full).                                                    *)
(*                                                                         *)
(* The messages of one D-Bus peer arrive in the order they were sent.      *)
(* Cancelling a call drops its callback and does not recall its message:   *)
(* such a message is no longer `live`.  Everything that changes the        *)
(* generation also cancels the call and the timers that carry the old one, *)
(* so a callback or timer that is still there belongs to the current one.  *)
(* For the same reason at most one of the debounce, retry and renewal      *)
(* timers is pending.                                                      *)
(***************************************************************************)
EXTENDS Naturals, Sequences

CONSTANTS
  Window,          \* PIDs of the windows that can have the focus
  None, Unknown,
  MaxShell,        \* bound on the events of the shell
  MaxReporterFaults

VARIABLES
  shell,           \* [focus, screen, events]
  ext,             \* the extension's fields, its messages and the answers to them
  service,         \* the daemon: [up, lease, reading, reporter, display]
  notices,         \* name-owner changes not yet delivered
  reporterFaults

reporterVars == <<shell, ext, service, notices, reporterFaults>>

NewDaemon(up) ==
  [up |-> up, lease |-> None, reading |-> None, reporter |-> FALSE, display |-> "visible"]
ReporterInit ==
  /\ shell = [focus |-> None, screen |-> "visible", events |-> 0]
  /\ ext = [enabled |-> TRUE, present |-> FALSE, session |-> TRUE, desired |-> Unknown,
            force |-> FALSE, idle |-> TRUE, timer |-> "none", call |-> FALSE,
            shown |-> Unknown, told |-> Unknown, query |-> FALSE, timers |-> {},
            wire |-> <<>>, inbox |-> <<>>]
  /\ service = NewDaemon(TRUE)
  /\ notices = <<"appeared">>
  /\ reporterFaults = 0

-----------------------------------------------------------------------------
(* The extension's methods, as functions of its fields                     *)

SetMessage(pid) == [kind |-> "set", arg |-> pid, live |-> TRUE]
ClearMessage == [kind |-> "clear", arg |-> None, live |-> TRUE]
DisplayMessage(screen) == [kind |-> "display", arg |-> screen, live |-> TRUE]
FocusKinds == {"set", "clear"}
IsFocus(m) == m.kind \in FocusKinds
\* The callbacks of messages of these kinds are cancelled.
Abandon(wire, kinds) ==
  [i \in DOMAIN wire |-> [wire[i] EXCEPT !.live = @ /\ wire[i].kind \notin kinds]]

CancelCall(e) ==
  [e EXCEPT !.call = FALSE, !.wire = Abandon(@, FocusKinds),
            !.inbox = SelectSeq(@, LAMBDA r : ~IsFocus(r))]
CancelAll(e) ==
  [e EXCEPT !.call = FALSE, !.wire = Abandon(@, FocusKinds \cup {"display"}), !.inbox = <<>>]
\* Mutant: the call of the old generation stays in flight.
AdvanceKeepsCall(e) ==
  [e EXCEPT !.timer = "none", !.wire = Abandon(@, FocusKinds),
            !.inbox = SelectSeq(@, LAMBDA r : ~IsFocus(r))]
AdvanceGeneration(e) == CancelCall([e EXCEPT !.timer = "none"])

\* One focus call at a time; starting one cancels the renewal.
StartCall(e, m) ==
  IF e.call THEN e
  ELSE [e EXCEPT !.call = TRUE, !.wire = Append(@, m),
                 !.timer = IF @ = "renewal" THEN "none" ELSE @]
SendDesired(e) ==
  IF ~e.present \/ e.desired = Unknown THEN e
  ELSE StartCall(e, IF e.desired = None THEN ClearMessage ELSE SetMessage(e.desired))
SetDesired(e, pid, force) ==
  IF e.desired = pid /\ ~force THEN e
  ELSE LET next == AdvanceGeneration([e EXCEPT !.desired = pid])
       IN IF ~e.present THEN next
          ELSE IF pid = None THEN StartCall(next, ClearMessage)
          ELSE [next EXCEPT !.timer = "debounce"]
QueueUpdate(e, force) == [e EXCEPT !.force = @ \/ force, !.idle = TRUE]
FocusedPid(e) == IF e.session THEN shell.focus ELSE None
QueryDisplay(e) == [e EXCEPT !.query = e.enabled /\ e.present]

\* What the callback of the focus call does.
CallSucceeds(e) ==
  QueryDisplay([e EXCEPT !.timer = IF e.desired = None THEN "none" ELSE "renewal"])
RetryLater(e) == [e EXCEPT !.timer = IF e.present THEN "retry" ELSE @]

ReportDisplayState(e, force) ==
  IF e.shown = Unknown \/ (~force /\ e.told = e.shown) \/ ~e.present THEN e
  ELSE [e EXCEPT !.wire = Append(@, DisplayMessage(e.shown))]
SetDisplayState(e, screen) ==
  IF e.shown = screen /\ e.told = screen THEN e
  ELSE ReportDisplayState([e EXCEPT !.shown = screen,
         !.timers = @ \ IF screen = "blanked" THEN {"retry"} ELSE {"retry", "renewal"}], FALSE)
\* The callback of a display report for the state `r.arg`.
DisplayReported(e, r) ==
  IF e.shown # r.arg THEN ReportDisplayState(e, FALSE)
  ELSE IF ~r.ok THEN [e EXCEPT !.timers = IF e.present THEN @ \cup {"retry"} ELSE @]
  ELSE [e EXCEPT !.told = r.arg, !.timers = IF r.arg = "blanked" THEN {"renewal"} ELSE {}]

DaemonAppeared(e) ==
  QueueUpdate(AdvanceGeneration([e EXCEPT !.present = TRUE, !.told = Unknown]), TRUE)
DaemonVanished(e) ==
  CancelAll([e EXCEPT !.present = FALSE, !.told = Unknown, !.query = FALSE,
                      !.timer = "none", !.timers = {}])

-----------------------------------------------------------------------------
(* The shell                                                               *)

ShellEvent == ext.enabled /\ shell.events < MaxShell
Happened(s) == shell' = [s EXCEPT !.events = @ + 1]
FocusChanges(pid) ==
  /\ ShellEvent /\ pid # shell.focus
  /\ Happened([shell EXCEPT !.focus = pid])
  /\ ext' = QueueUpdate(ext, FALSE)
  /\ UNCHANGED <<service, notices, reporterFaults>>
ScreenChanges ==
  /\ ShellEvent
  /\ Happened([shell EXCEPT !.screen = IF @ = "visible" THEN "blanked" ELSE "visible"])
  /\ ext' = QueryDisplay(ext)
  /\ UNCHANGED <<service, notices, reporterFaults>>
\* Locking clears the focus at once; unlocking reads it again.
SessionModeChanges ==
  /\ ShellEvent
  /\ Happened(shell)
  /\ ext' = LET e == [ext EXCEPT !.session = ~@]
            IN QueryDisplay(IF e.session THEN QueueUpdate(e, TRUE) ELSE SetDesired(e, None, TRUE))
  /\ UNCHANGED <<service, notices, reporterFaults>>
Disable ==
  /\ ShellEvent
  /\ Happened(shell)
  /\ LET clear == ext.present /\ (ext.desired # Unknown \/ ext.call)
         off == CancelAll([ext EXCEPT !.enabled = FALSE, !.present = FALSE, !.desired = Unknown,
                  !.idle = FALSE, !.timer = "none", !.shown = Unknown, !.told = Unknown,
                  !.query = FALSE, !.timers = {}])
     IN ext' = IF clear THEN [off EXCEPT !.wire = Append(@, [ClearMessage EXCEPT !.live = FALSE])]
               ELSE off
  /\ notices' = <<>>
  /\ UNCHANGED <<service, reporterFaults>>

-----------------------------------------------------------------------------
(* The main loop: idle source, timers, callbacks                           *)

RunIdle ==
  /\ ext.idle
  /\ ext' = SetDesired([ext EXCEPT !.idle = FALSE, !.force = FALSE], FocusedPid(ext), ext.force)
  /\ UNCHANGED <<shell, service, notices, reporterFaults>>
TimerFires ==
  /\ ext.timer # "none"
  /\ ext' = SendDesired([ext EXCEPT !.timer = "none"])
  /\ UNCHANGED <<shell, service, notices, reporterFaults>>
\* These delays (500 ms and more) are longer than a call that is answered takes.
DisplayTimerFires ==
  /\ \A i \in DOMAIN ext.wire : IsFocus(ext.wire[i]) \/ ~ext.wire[i].live
  /\ \A i \in DOMAIN ext.inbox : IsFocus(ext.inbox[i])
  /\ \E t \in ext.timers : ext' = ReportDisplayState([ext EXCEPT !.timers = @ \ {t}], TRUE)
  /\ UNCHANGED <<shell, service, notices, reporterFaults>>
\* Answers come back in order, each to its callback.
CallReturns ==
  /\ ext.inbox # <<>>
  /\ LET r == Head(ext.inbox)
         e == [ext EXCEPT !.inbox = Tail(@), !.call = @ /\ ~IsFocus(r)]
     IN ext' = IF ~IsFocus(r) THEN DisplayReported(e, r)
               ELSE IF r.ok THEN CallSucceeds(e) ELSE RetryLater(e)
  /\ UNCHANGED <<shell, service, notices, reporterFaults>>
QueryAnswers ==
  /\ ext.query
  /\ ext' = SetDisplayState([ext EXCEPT !.query = FALSE], shell.screen)
  /\ UNCHANGED <<shell, service, notices, reporterFaults>>
NameOwnerChanges ==
  /\ notices # <<>> /\ notices' = Tail(notices)
  /\ ext' = IF Head(notices) = "appeared" THEN DaemonAppeared(ext) ELSE DaemonVanished(ext)
  /\ UNCHANGED <<shell, service, reporterFaults>>

-----------------------------------------------------------------------------
(* The daemon                                                              *)

\* The answer to message m is on its way, if somebody still waits for it.
ReplyTo(m, ok) == [kind |-> m.kind, arg |-> m.arg, ok |-> ok]
Replied(m, ok) ==
  ext' = [ext EXCEPT !.wire = Tail(@),
                     !.inbox = IF m.live THEN Append(@, ReplyTo(m, ok)) ELSE @]
\* A report of the process that holds the lease renews it, another one is
\* verified first.  A clear voids what is being verified, unless there is no
\* lease and the verification has begun.  A frame hint needs the reporter lease.
DaemonHandles ==
  /\ service.up /\ ext.wire # <<>>
  /\ LET m == Head(ext.wire)
     IN \/ /\ m.kind = "set"
           /\ service' = IF service.lease = m.arg
                          THEN [service EXCEPT !.reporter = TRUE, !.reading = None]
                          ELSE [service EXCEPT !.reading = m.arg]
           /\ Replied(m, TRUE)
        \/ /\ m.kind = "clear"
           /\ \E still \in IF service.lease = None THEN {None, service.reading} ELSE {None} :
                service' = [service EXCEPT !.lease = None, !.reading = still, !.reporter = TRUE]
           /\ Replied(m, TRUE)
        \/ /\ m.kind = "display"
           /\ service' = IF service.reporter THEN [service EXCEPT !.display = m.arg] ELSE service
           /\ Replied(m, service.reporter)
  /\ UNCHANGED <<shell, notices, reporterFaults>>
DaemonVerifies ==
  /\ service.up /\ service.reading # None
  /\ service' = [service EXCEPT !.lease = service.reading, !.reading = None, !.reporter = TRUE]
  /\ UNCHANGED <<shell, ext, notices, reporterFaults>>
DaemonStarts ==
  /\ ~service.up
  /\ service' = NewDaemon(TRUE)
  /\ notices' = IF ext.enabled THEN Append(notices, "appeared") ELSE notices
  /\ UNCHANGED <<shell, ext, reporterFaults>>

\* Leases last 15 s.  Calls, callbacks and the debounce take far less, and a
\* renewal comes every 5 s, so a lease only runs out when nothing is under way
\* and nothing renews it.
FocusQuiet ==
  /\ \A i \in DOMAIN ext.wire : ~IsFocus(ext.wire[i])
  /\ ~ext.call /\ ~ext.idle /\ ext.timer # "debounce" /\ notices = <<>>
LeaseExpires ==
  /\ FocusQuiet /\ service.lease # None /\ ext.desired # service.lease
  /\ service' = [service EXCEPT !.lease = None]
  /\ UNCHANGED <<shell, ext, notices, reporterFaults>>
ReporterExpires ==
  /\ FocusQuiet /\ ext.wire = <<>> /\ ext.inbox = <<>> /\ ~ext.query
  /\ service.reporter /\ ext.desired \notin Window /\ ext.told # "blanked"
  /\ service' = [service EXCEPT !.reporter = FALSE, !.display = "visible"]
  /\ UNCHANGED <<shell, ext, notices, reporterFaults>>

-----------------------------------------------------------------------------
(* Faults                                                                  *)

Faulty == reporterFaults < MaxReporterFaults /\ reporterFaults' = reporterFaults + 1
\* The daemon refuses the message, or answers too late.
CallRefused ==
  /\ Faulty /\ service.up /\ ext.wire # <<>>
  /\ Replied(Head(ext.wire), FALSE)
  /\ UNCHANGED <<shell, service, notices>>
CallTimesOut ==
  /\ Faulty
  /\ \E i \in DOMAIN ext.wire :
       /\ ext.wire[i].live
       /\ ext' = [ext EXCEPT !.wire[i].live = FALSE,
                             !.inbox = Append(@, ReplyTo(ext.wire[i], FALSE))]
  /\ UNCHANGED <<shell, service, notices>>
\* The process cannot be verified: its reporter loses what it holds.
VerificationFails ==
  /\ Faulty /\ service.up /\ service.reading # None
  /\ service' = IF service.lease = None THEN [service EXCEPT !.reading = None] ELSE NewDaemon(TRUE)
  /\ UNCHANGED <<shell, ext, notices>>
QueryFails ==
  /\ Faulty /\ ext.query
  /\ ext' = [ext EXCEPT !.query = FALSE]
  /\ UNCHANGED <<shell, service, notices>>
DaemonCrashes ==
  /\ Faulty /\ service.up
  /\ service' = NewDaemon(FALSE)
  /\ ext' = LET lost == SelectSeq(ext.wire, LAMBDA m : m.live)
            IN [ext EXCEPT !.wire = <<>>,
                  !.inbox = @ \o [i \in DOMAIN lost |-> ReplyTo(lost[i], FALSE)]]
  /\ notices' = IF ext.enabled THEN Append(notices, "vanished") ELSE notices
  /\ UNCHANGED shell

ReporterNext ==
  \/ \E p \in Window \cup {None} : FocusChanges(p)
  \/ ScreenChanges \/ SessionModeChanges \/ Disable
  \/ RunIdle \/ TimerFires \/ CallReturns \/ DisplayTimerFires
  \/ QueryAnswers \/ NameOwnerChanges
  \/ DaemonHandles \/ DaemonVerifies \/ DaemonStarts \/ LeaseExpires \/ ReporterExpires
  \/ CallRefused \/ CallTimesOut \/ VerificationFails \/ QueryFails \/ DaemonCrashes

\* The main loop dispatches every source, the bus delivers, the daemon answers
\* and is restarted, and time passes.  No event of the shell and no fault needs
\* to happen, nor does the reporter lease need to expire.
ReporterFairness ==
  /\ WF_reporterVars(RunIdle) /\ WF_reporterVars(TimerFires) /\ WF_reporterVars(CallReturns)
  /\ WF_reporterVars(DisplayTimerFires)
  /\ WF_reporterVars(QueryAnswers) /\ WF_reporterVars(NameOwnerChanges)
  /\ WF_reporterVars(DaemonHandles) /\ WF_reporterVars(DaemonVerifies)
  /\ WF_reporterVars(DaemonStarts) /\ WF_reporterVars(LeaseExpires)
ReporterSpec == ReporterInit /\ [][ReporterNext]_reporterVars /\ ReporterFairness

-----------------------------------------------------------------------------
(* Properties                                                              *)

\* Whatever the windows, the session and the bus did, once they settle the
\* daemon's lease is the focused process, and none when locked, unfocused or
\* disabled: lost calls are retried, a restarted daemon is told again and the
\* periodic renewal repairs a lease the daemon dropped after its receipt.
FocusReported ==
  <>[](service.lease = IF ext.enabled THEN FocusedPid(ext) ELSE None)

\* "locking can clear the application while the same peer continues to report
\* physical display state" (README.md): once the shell settles the daemon knows
\* the state of the display, with or without a focused process.
DisplayReportedWhileLocked ==
  <>[](ext.enabled /\ FocusedPid(ext) = None => service.display = shell.screen)
=============================================================================
