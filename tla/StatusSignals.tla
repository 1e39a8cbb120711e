---------------------------- MODULE StatusSignals ----------------------------
(***************************************************************************)
(* How what the daemon decides reaches the window of the GUI: the reducer  *)
(* publishes a snapshot and then broadcasts an event                       *)
(* (crates/uperf-daemon/src/runtime.rs), the signal pump turns events into *)
(* D-Bus signals (service.rs), the GUI's client thread reads the daemon    *)
(* again for every signal and reconnects when the daemon goes, and the     *)
(* window applies what it gets at most once a second                       *)
(* (crates/uperf-gui/src/main.rs).                                         *)
(*                                                                         *)
(* Everything shown has one of three topics: the status (health included), *)
(* the capabilities (with the rules), and the running workloads.  The      *)
(* value of a topic is the number of the change that produced it.  A       *)
(* handler only reads the daemon again, so of the signals waiting for the  *)
(* client at most one of a topic counts.                                   *)
(***************************************************************************)
EXTENDS Naturals, Sequences

CONSTANTS
  BroadcastLimit,  \* capacity of the broadcast channel (64 in the code)
  MaxVersion,      \* bound on changes
  MaxRestarts

VARIABLES
  daemon,          \* [up, seen: values of the topics]
  version,         \* changes so far
  broadcast,       \* events the pump has not received
  lagged,          \* the pump missed an event
  previous,        \* the workloads the pump announced last
  scanned,         \* a scan has finished and the pump has not heard of it
  client,          \* the client thread: [phase, got, subs, lost]
  signals,         \* topics with a signal waiting for the client
  mail,            \* events on their way to the window
  window,          \* [shown, waiting: the status not yet applied, connected]
  due,             \* what the client was told of, topic by topic
  restarts

statusVars == <<daemon, version, broadcast, lagged, previous, scanned, client, signals, mail,
                window, due, restarts>>
pumpVars == <<broadcast, lagged, previous, scanned>>

Topic == {"status", "capabilities", "workloads"}
Nothing == [t \in Topic |-> 0]
Disconnected == [phase |-> "waiting", got |-> Nothing, subs |-> {}, lost |-> FALSE]

StatusInit ==
  /\ daemon = [up |-> TRUE, seen |-> Nothing]
  /\ version = 0 /\ broadcast = <<>> /\ lagged = FALSE /\ previous = 0 /\ scanned = FALSE
  /\ client = [Disconnected EXCEPT !.phase = "reading"]
  /\ signals = {} /\ mail = <<>> /\ due = Nothing /\ restarts = 0
  /\ window = [shown |-> Nothing, waiting |-> 0, connected |-> FALSE]

-----------------------------------------------------------------------------
(* The daemon                                                              *)

\* A bounded broadcast forgets its oldest event, and the receiver is told so.
Broadcast(event) ==
  IF Len(broadcast) < BroadcastLimit
  THEN broadcast' = Append(broadcast, event) /\ UNCHANGED lagged
  ELSE broadcast' = Append(Tail(broadcast), event) /\ lagged' = TRUE

\* A value is due to be shown when the client has yet to read its topic, or
\* hears of it by a signal (or by the loss of the bus name).
Owed(topics, signal) ==
  due' = [t \in Topic |-> IF t \in topics /\ (client.got[t] = 0 \/ signal \in client.subs)
                          THEN version' ELSE due[t]]
\* One turn of the reducer: the snapshot is replaced before the event is sent.
PublishChange(t) ==
  /\ daemon.up /\ version < MaxVersion /\ version' = version + 1
  /\ daemon' = [daemon EXCEPT !.seen[t] = version']
  /\ Broadcast(t) /\ Owed({t}, t)
DaemonChanges(t) ==
  /\ t # "workloads" /\ PublishChange(t)
  /\ UNCHANGED <<previous, scanned, client, signals, mail, window, restarts>>
\* The scan of running workloads replaces the cache.
ScannerRefreshes ==
  /\ daemon.up /\ version < MaxVersion /\ version' = version + 1
  /\ daemon' = [daemon EXCEPT !.seen["workloads"] = version']
  /\ scanned' = TRUE /\ Owed({"workloads"}, "workloads")
  /\ UNCHANGED <<broadcast, lagged, previous, client, signals, mail, window, restarts>>

\* A signal reaches the client if it subscribed to it.
Emit(topics) == signals' = signals \cup (topics \cap client.subs)
WorkloadsIfChanged == IF daemon.seen["workloads"] # previous THEN {"workloads"} ELSE {}
\* Mutant: a lag is only noted.
PumpLagDropped ==
  /\ lagged' = FALSE /\ UNCHANGED <<broadcast, previous, scanned, signals>>
\* After a lag everything but the workloads is announced.
PumpLag ==
  /\ lagged' = FALSE /\ Emit({"status", "capabilities"})
  /\ UNCHANGED <<broadcast, previous, scanned>>
PumpEvent ==
  /\ ~lagged /\ broadcast # <<>> /\ broadcast' = Tail(broadcast)
  /\ IF Head(broadcast) = "status"
     THEN Emit({"status"} \cup WorkloadsIfChanged) /\ previous' = daemon.seen["workloads"]
     ELSE Emit({Head(broadcast)}) /\ UNCHANGED previous
  /\ UNCHANGED <<lagged, scanned>>
PumpScan ==
  /\ scanned /\ scanned' = FALSE
  /\ Emit(WorkloadsIfChanged) /\ previous' = daemon.seen["workloads"]
  /\ UNCHANGED <<broadcast, lagged>>
Pump ==
  /\ daemon.up
  /\ (lagged /\ PumpLag) \/ PumpEvent \/ PumpScan
  /\ UNCHANGED <<daemon, version, client, mail, window, due, restarts>>

\* The daemon stops and its bus name with it; a new one starts with values of its own.
DaemonStops ==
  /\ daemon.up /\ restarts < MaxRestarts /\ restarts' = restarts + 1
  /\ daemon' = [daemon EXCEPT !.up = FALSE]
  /\ broadcast' = <<>> /\ lagged' = FALSE /\ previous' = 0 /\ scanned' = FALSE
  /\ client' = [client EXCEPT !.lost = @ \/ "owner" \in client.subs]
  /\ due' = Nothing
  /\ UNCHANGED <<version, signals, mail, window>>
DaemonStartsAgain ==
  /\ ~daemon.up /\ version < MaxVersion /\ version' = version + 1
  /\ daemon' = [up |-> TRUE, seen |-> [t \in Topic |-> version']]
  /\ Owed(Topic, "owner")
  /\ UNCHANGED <<broadcast, lagged, previous, scanned, client, signals, mail, window, restarts>>

-----------------------------------------------------------------------------
(* The client thread                                                       *)

clientOnly == <<daemon, version, broadcast, lagged, previous, scanned, window, restarts>>
Post(event) == mail' = Append(mail, event)
Reconnecting == [kind |-> "reconnecting", value |-> 0]

\* Status and capabilities are read together, then the workloads, and only then
\* does the client subscribe, one stream after the other, the bus name last.
Unread == {t \in Topic : client.got[t] = 0}
ReadsTopic(t) ==
  /\ client.phase = "reading" /\ daemon.up
  /\ client.got[t] = 0 /\ (t = "workloads" => Unread = {"workloads"})
  /\ LET got == [client.got EXCEPT ![t] = daemon.seen[t] + 1]
     IN client' = [client EXCEPT !.got = got,
                     !.phase = IF \A u \in Topic : got[u] # 0 THEN "subscribing" ELSE @]
  /\ UNCHANGED <<clientOnly, signals, mail, due>>
NextSubscription ==
  CASE "status" \notin client.subs -> "status"
    [] "capabilities" \notin client.subs -> "capabilities"
    [] "workloads" \notin client.subs -> "workloads"
    [] OTHER -> "owner"
Subscribes ==
  /\ client.phase = "subscribing" /\ daemon.up
  /\ client' = [client EXCEPT !.subs = @ \cup {NextSubscription},
                              !.phase = IF NextSubscription = "owner" THEN "session" ELSE @]
  /\ IF NextSubscription = "owner"
     THEN Post([kind |-> "snapshot", value |-> client.got]) ELSE UNCHANGED mail
  /\ UNCHANGED <<clientOnly, signals, due>>

\* A signal makes the client read its topic again; after a change of the
\* capabilities the workloads are read as well.
Refreshes(t) ==
  /\ client.phase = "session" /\ ~client.lost /\ daemon.up /\ t \in signals
  /\ signals' = signals \ {t}
  /\ mail' = mail \o [i \in 1..(IF t = "capabilities" THEN 2 ELSE 1) |->
                       LET u == IF i = 1 THEN t ELSE "workloads"
                       IN [kind |-> u, value |-> daemon.seen[u]]]
  /\ UNCHANGED <<clientOnly, client, due>>
\* A command of the user changes the daemon; the client reads the status after it.
RunsCommand ==
  /\ client.phase = "session" /\ ~client.lost /\ window.connected
  /\ PublishChange("status")
  /\ signals' = signals \cup {"status"}
  /\ UNCHANGED <<previous, scanned, client, mail, window, restarts>>
\* A call fails, or the bus name changes hands: the session ends, and the next
\* one begins after a delay.  Losing the connection twice in a row tells the
\* window nothing new.
SessionEnds ==
  /\ client.phase # "waiting" /\ (client.lost \/ ~daemon.up)
  /\ client' = Disconnected /\ signals' = {}
  /\ IF mail # <<>> /\ mail[Len(mail)] = Reconnecting THEN UNCHANGED mail ELSE Post(Reconnecting)
  /\ UNCHANGED <<clientOnly, due>>
RetryDelayEnds ==
  /\ client.phase = "waiting"
  /\ client' = [client EXCEPT !.phase = "reading"]
  /\ UNCHANGED <<clientOnly, signals, mail, due>>

-----------------------------------------------------------------------------
(* The window                                                              *)

\* Mutant: the status that waits for the timer survives.
SetDisconnectedKeepsStatus(w) == [w EXCEPT !.connected = FALSE]
\* Losing the connection discards the status that was not applied yet.
SetDisconnected(w) == [w EXCEPT !.connected = FALSE, !.waiting = 0]
WindowHandles ==
  /\ mail # <<>> /\ mail' = Tail(mail)
  /\ LET m == Head(mail)
     IN window' =
          CASE m.kind = "snapshot" ->
                 [window EXCEPT !.shown = [t \in Topic |-> m.value[t] - 1], !.connected = TRUE]
            [] m.kind = "status" -> [window EXCEPT !.waiting = m.value + 1]
            [] m.kind = "reconnecting" -> SetDisconnected(window)
            [] OTHER -> [window EXCEPT !.shown[m.kind] = m.value]
  /\ UNCHANGED <<daemon, version, pumpVars, client, signals, due, restarts>>
\* The refresh timer applies the latest status.
WindowRefreshes ==
  /\ window.waiting # 0
  /\ window' = [window EXCEPT !.shown["status"] = window.waiting - 1, !.waiting = 0]
  /\ UNCHANGED <<daemon, version, pumpVars, client, signals, mail, due, restarts>>

ClientSteps ==
  \/ \E t \in Topic : ReadsTopic(t) \/ Refreshes(t)
  \/ Subscribes \/ SessionEnds \/ RetryDelayEnds
WindowSteps == WindowHandles \/ WindowRefreshes
StatusNext ==
  \/ \E t \in Topic : DaemonChanges(t)
  \/ ScannerRefreshes \/ Pump \/ DaemonStops \/ DaemonStartsAgain
  \/ ClientSteps \/ RunsCommand \/ WindowSteps

\* The select loops of the pump and of the client, and the window's main loop,
\* serve whatever is ready.
StatusFairness ==
  /\ WF_statusVars(Pump) /\ WF_statusVars(ClientSteps)
  /\ WF_statusVars(WindowHandles) /\ WF_statusVars(WindowRefreshes)
StatusSpec == StatusInit /\ [][StatusNext]_statusVars /\ StatusFairness

-----------------------------------------------------------------------------
(* Properties                                                              *)

\* What a running daemon has to tell is shown in the end (the publish loop of
\* the runtime, the signal pump, client_session and apply_runtime_update),
\* however far the broadcast channel lagged and however often the daemon was
\* restarted.  Not covered, because the client reads before it subscribes: what
\* happens in between.
ViewsCatchUp == <>[](\A t \in Topic : window.shown[t] >= due[t])

\* What the window shows never gets older: nothing a dead session left in the
\* window's queue or in its refresh timer (set_connected, apply_runtime_update)
\* replaces what a newer session brought.
ViewNeverGoesBack == [][\A t \in Topic : window'.shown[t] >= window.shown[t]]_statusVars
=============================================================================
