---------------------------- MODULE FocusLeases ----------------------------
(***************************************************************************)
(* The workload a scheduling decision applies to, and who may choose it    *)
(* (crates/uperf-daemon/src/runtime.rs).  A user selects a workload        *)
(* explicitly; a compositor reports the focused process and holds a lease  *)
(* on it and, apart from it, a lease as the reporter of frame hints.       *)
(*                                                                         *)
(* Every selection is verified by reading /proc on another thread.  There  *)
(* is one slot for the read under way: an explicit request takes it from a *)
(* refresh or a focus read, whose answer is then stale.  A report that     *)
(* finds the slot taken waits in a latest-wins slot of its own.            *)
(*                                                                         *)
(* An optional value is a set of at most one element.  Deadlines are kept  *)
(* as the time left.  A process is its PID and its incarnation: an odd     *)
(* incarnation is alive, the next even one has exited.                     *)
(***************************************************************************)
EXTENDS Naturals, FiniteSets

CONSTANTS
  Pid, Peer,       \* processes and D-Bus peers
  Owner,           \* the UID that owns a process
  PeerUid,         \* the UID of a peer; 0 is root
  Protected,       \* processes the policy protects from focus leases
  LeaseTtl, LeaseDebounce,
  MaxLife,         \* bound on the incarnations of a process
  MaxSpoken        \* bound on requests

VARIABLES
  incarnation,     \* [Pid -> 1..MaxLife]
  leases,          \* the reducer's fields, see LeaseState
  superseded,      \* reads that lost the slot and have not answered yet
  told,            \* the last focus report that nothing invalidated
  departed,        \* peers that left the bus
  cleared,         \* peers whose last word on the focus was a clear
  spoken           \* requests so far

leaseVars == <<incarnation, leases, superseded, told, departed, cleared, spoken>>

Process == [pid : Pid, life : 1..MaxLife]
Alive(pid) == incarnation[pid] % 2 = 1
Current(pid) == IF Alive(pid) THEN {[pid |-> pid, life |-> incarnation[pid]]} ELSE {}

LeaseInit ==
  /\ incarnation = [p \in Pid |-> 1]
  /\ leases = [explicit |-> {}, lease |-> {}, reporter |-> {}, pending |-> {},
               revision |-> 0, slot |-> {}, enabled |-> TRUE]
  /\ superseded = {} /\ told = {} /\ departed = {} /\ cleared = {} /\ spoken = 0

-----------------------------------------------------------------------------
(* The parts the handlers are made of: functions of the reducer's state.   *)

MayControl(uid, p) == uid = 0 \/ Owner[p.pid] = uid
Holds(s, peer) == \E l \in s.lease : l.peer = peer

Release(s) == [s EXCEPT !.lease = {}]
Revoke(s, peer) == [s EXCEPT !.reporter = {r \in @ : r.peer # peer}]
InstallReporter(s, peer, uid) ==
  [s EXCEPT !.reporter = {[peer |-> peer, uid |-> uid, left |-> LeaseTtl]}]
InvalidateReports(s) == [s EXCEPT !.revision = @ + 1, !.pending = {}]

\* An answer `got` is not there yet; the set is empty when the read failed.
Read(kind, subject, by, rev) ==
  [kind |-> kind, subject |-> subject, by |-> by, rev |-> rev, got |-> {}, done |-> FALSE]
ControlInFlight(s) == \E r \in s.slot : r.kind \in {"set", "clear"}

\* A report whose debounce is over takes the slot if it is free.
DueReports(s) == {p \in s.pending : s.slot = {} /\ p.wait = 0}
DrivePending(s) ==
  [s EXCEPT !.pending = @ \ DueReports(s),
            !.slot = @ \cup {Read("focus", p.pid, p.peer, p.rev) : p \in DueReports(s)}]

RejectFocus(s, peer) == IF Holds(s, peer) THEN Release(Revoke(s, peer)) ELSE s
Focusable(peer, p) == MayControl(PeerUid[peer], p) /\ p.pid \notin Protected

\* Mutant: a superseded report is applied.
CompleteFocusLate(s, r) ==
  IF ~s.enabled THEN s
  ELSE IF \A p \in r.got : ~Focusable(r.by, p) THEN RejectFocus(s, r.by)
  ELSE LET p == CHOOSE q \in r.got : TRUE
       IN InstallReporter([s EXCEPT !.lease = {[proc |-> p, peer |-> r.by, left |-> LeaseTtl]}],
                          r.by, Owner[p.pid])
CompleteFocus(s, r) ==
  IF r.rev # s.revision \/ ~s.enabled THEN s
  ELSE IF \A p \in r.got : ~Focusable(r.by, p) THEN RejectFocus(s, r.by)
  ELSE LET p == CHOOSE q \in r.got : TRUE
       IN InstallReporter([s EXCEPT !.lease = {[proc |-> p, peer |-> r.by, left |-> LeaseTtl]}],
                          r.by, Owner[p.pid])
CompleteFocusRefresh(s, r) ==
  IF (\E l \in s.lease : l.proc = r.subject) /\ r.got # {r.subject} THEN Release(s) ELSE s

CompleteSet(s, r) ==
  IF \E p \in r.got : MayControl(r.by, p) THEN [s EXCEPT !.explicit = r.got] ELSE s
CompleteClear(s, r) ==
  IF s.explicit = {r.subject} /\ r.got = {r.subject} /\ MayControl(r.by, r.subject)
  THEN [s EXCEPT !.explicit = {}] ELSE s
CompleteRefresh(s, r) ==
  IF s.explicit = {r.subject} /\ r.got # {r.subject} THEN [s EXCEPT !.explicit = {}] ELSE s

FinishIdentity(s, r) ==
  LET free == [s EXCEPT !.slot = {}]
      next == CASE r.kind = "set" -> CompleteSet(free, r)
                [] r.kind = "clear" -> CompleteClear(free, r)
                [] r.kind = "refresh" -> CompleteRefresh(free, r)
                [] r.kind = "focus" -> CompleteFocus(free, r)
                [] r.kind = "focus-refresh" -> CompleteFocusRefresh(free, r)
  IN DrivePending(next)

-----------------------------------------------------------------------------
(* Requests                                                                *)

Speak == spoken < MaxSpoken /\ spoken' = spoken + 1

\* An explicit request takes the slot, unless another explicit one has it.
StartControl(read) ==
  /\ ~ControlInFlight(leases)
  /\ superseded' = superseded \cup leases.slot
  /\ leases' = [leases EXCEPT !.slot = {read}]
StartSetWorkload(uid, pid) ==
  /\ Speak /\ StartControl(Read("set", pid, uid, 0))
  /\ UNCHANGED <<incarnation, told, departed, cleared>>
StartClearWorkload(uid) ==
  /\ Speak
  /\ \E p \in leases.explicit : StartControl(Read("clear", p, uid, 0))
  /\ UNCHANGED <<incarnation, told, departed, cleared>>

Renews(s, peer, pid) == \E l \in s.lease : l.proc.pid = pid /\ l.peer = peer
AcceptFocusReport(peer, pid) ==
  /\ Speak /\ peer \notin departed /\ leases.enabled
  /\ cleared' = cleared \ {peer}
  /\ told' = {[peer |-> peer, pid |-> pid]}
  /\ leases' =
       LET s == InvalidateReports(leases)
       IN IF Renews(s, peer, pid)
          THEN InstallReporter([s EXCEPT !.lease = {[l EXCEPT !.left = LeaseTtl] : l \in @}],
                               peer, Owner[pid])
          ELSE DrivePending([s EXCEPT !.pending =
                 {[pid |-> pid, peer |-> peer, wait |-> LeaseDebounce, rev |-> s.revision]}])
  /\ UNCHANGED <<incarnation, superseded, departed>>

MayClear(s, uid) ==
  IF s.lease # {} THEN \A l \in s.lease : MayControl(uid, l.proc)
  ELSE \A p \in s.pending : uid = 0 \/ PeerUid[p.peer] = uid
HasReport(s) == s.lease # {} \/ s.pending # {}
ClearForeground(peer) ==
  /\ Speak /\ peer \notin departed /\ MayClear(leases, PeerUid[peer])
  /\ cleared' = cleared \cup {peer}
  /\ LET s == InstallReporter(leases, peer, PeerUid[peer])
     IN IF HasReport(s)
        THEN leases' = Release(InvalidateReports(s)) /\ told' = {}
        ELSE leases' = s /\ UNCHANGED told
  /\ UNCHANGED <<incarnation, superseded, departed>>

\* A frame hint renews the reporter lease of the peer that holds it.
AuthorizeFrameReporter(peer) ==
  /\ Speak /\ peer \notin departed
  /\ \E r \in leases.reporter :
       /\ r.peer = peer /\ r.left > 0 /\ PeerUid[peer] \in {0, r.uid}
       /\ leases' = [leases EXCEPT !.reporter = {[r EXCEPT !.left = LeaseTtl]}]
  /\ UNCHANGED <<incarnation, superseded, told, departed, cleared>>

ApplyReload(enabled) ==
  /\ Speak
  /\ leases' = LET s == [InvalidateReports(leases) EXCEPT !.enabled = enabled]
               IN IF enabled THEN s ELSE [s EXCEPT !.lease = {}, !.reporter = {}]
  /\ told' = {}
  /\ UNCHANGED <<incarnation, superseded, departed, cleared>>

\* The peer left the bus.
ForgetPeer(peer) ==
  /\ peer \notin departed /\ departed' = departed \cup {peer}
  /\ LET waiting == \E p \in leases.pending : p.peer = peer
         s == Revoke(IF waiting THEN InvalidateReports(leases) ELSE leases, peer)
     IN /\ leases' = IF Holds(s, peer) THEN Release(s) ELSE s
        /\ told' = IF waiting THEN {} ELSE told
  /\ UNCHANGED <<incarnation, superseded, cleared, spoken>>

-----------------------------------------------------------------------------
(* The timer, the reader thread and the processes                          *)

\* Mutant: only the reporter expires.
ExpireReporterOnly(s) == [s EXCEPT !.reporter = {r \in @ : r.left > 0}]
Expire(s) == [s EXCEPT !.lease = {l \in @ : l.left > 0}, !.reporter = {r \in @ : r.left > 0}]
\* The periodic liveness check reads the explicit workload, else the focused one.
CheckIdentity(s) ==
  IF s.slot # {} \/ s.pending # {} THEN s
  ELSE [s EXCEPT !.slot =
         IF s.explicit # {} THEN {Read("refresh", p, 0, 0) : p \in s.explicit}
         ELSE {Read("focus-refresh", l.proc, 0, 0) : l \in s.lease}]
LeaseTick(check) ==
  /\ leases' = LET s == DrivePending(Expire(leases)) IN IF check THEN CheckIdentity(s) ELSE s
  /\ leases' # leases
  /\ UNCHANGED <<incarnation, superseded, told, departed, cleared, spoken>>

Less(n) == IF n = 0 THEN 0 ELSE n - 1
LeaseTime ==
  /\ leases' = [leases EXCEPT !.lease = {[l EXCEPT !.left = Less(@)] : l \in @},
                              !.reporter = {[r EXCEPT !.left = Less(@)] : r \in @},
                              !.pending = {[p EXCEPT !.wait = Less(@)] : p \in @}]
  /\ leases' # leases
  /\ UNCHANGED <<incarnation, superseded, told, departed, cleared, spoken>>

PidOf(r) == IF r.kind \in {"set", "focus"} THEN r.subject ELSE r.subject.pid
\* The reader thread looks the process up, some time before the answer arrives.
ReaderReads ==
  /\ \E r \in leases.slot :
       /\ ~r.done
       /\ leases' = [leases EXCEPT !.slot = {[r EXCEPT !.got = Current(PidOf(r)), !.done = TRUE]}]
  /\ UNCHANGED <<incarnation, superseded, told, departed, cleared, spoken>>

\* A result nobody waits for any more is ignored.
FinishStale(r) == superseded' = superseded \ {r} /\ UNCHANGED leases
\* The answer arrives, or the deadline or a failed reader answers with an error.
Answer ==
  /\ \/ \E r \in leases.slot : leases' = FinishIdentity(leases, r) /\ UNCHANGED superseded
     \/ \E r \in superseded : FinishStale(r)
  /\ UNCHANGED <<incarnation, told, departed, cleared, spoken>>

\* A process exits, or its PID is taken by another one.
NextIncarnation(pid) ==
  /\ incarnation[pid] < MaxLife
  /\ incarnation' = [incarnation EXCEPT ![pid] = @ + 1]
  /\ UNCHANGED <<leases, superseded, told, departed, cleared, spoken>>

LeaseNext ==
  \/ \E u \in {0} \cup {Owner[p] : p \in Pid} :
       (\E p \in Pid : StartSetWorkload(u, p)) \/ StartClearWorkload(u)
  \/ \E peer \in Peer : (\E p \in Pid : AcceptFocusReport(peer, p))
                        \/ ClearForeground(peer) \/ AuthorizeFrameReporter(peer)
                        \/ ForgetPeer(peer)
  \/ \E e \in BOOLEAN : ApplyReload(e) \/ LeaseTick(e)
  \/ LeaseTime \/ ReaderReads \/ Answer
  \/ \E p \in Pid : NextIncarnation(p)

LeaseSpec == LeaseInit /\ [][LeaseNext]_leaseVars
\* Time passes, the tick runs every 100 ms and every read is answered: by the
\* reader, or by its deadline.
LeaseFairness ==
  WF_leaseVars(LeaseTime) /\ WF_leaseVars(LeaseTick(FALSE)) /\ WF_leaseVars(Answer)

-----------------------------------------------------------------------------
(* Properties                                                              *)


\* A lease is only ever given to the process and the peer of the newest report:
\* an answer that arrives after a newer report, an effective clear or a reload
\* gives nothing (`complete_focus_report` compares the revision).
LatestReportWins ==
  [][\A l \in leases'.lease :
       (\A old \in leases.lease : old.proc # l.proc \/ old.peer # l.peer)
         => told' = {[peer |-> l.peer, pid |-> l.proc.pid]}]_leaseVars

\* What the user selected is left alone by everything but the user and the end
\* of that process: focus changes, reloads and stale answers do not touch it.
\* (A read that fails counts as the end of the process.)
SelectionIsUsers ==
  [][leases'.explicit # leases.explicit
       => \E r \in leases.slot : r.kind \in {"set", "clear", "refresh"}
                                 /\ (r.kind # "set" => leases.explicit = {r.subject})]_leaseVars

\* Together: the effective workload is the user's selection or else the newest
\* report's, and no late answer, reload or clear changes either.
RightfulWorkload == LatestReportWins /\ SelectionIsUsers

\* Every lease that nobody renews runs out, and no report waits for ever: once
\* the requests have ended, no lease, reporter or pending report is left.
LeasesRunOut ==
  <>[](leases.lease = {} /\ leases.reporter = {} /\ leases.pending = {})

\* "Locking immediately clears the focused workload"
\* (docs/sm8550-certification.md): no peer whose last word was a clear holds a
\* lease.
ClearIsLastWord == \A l \in leases.lease : l.peer \notin cleared
=============================================================================
