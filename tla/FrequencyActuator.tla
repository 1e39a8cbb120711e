------------------------- MODULE FrequencyActuator -------------------------
(***************************************************************************)
(* The frequency half of crates/uperf-actuator: the durable journal, the   *)
(* journaled batch (apply_batch), the fast path over already owned targets *)
(* (apply_owned_batch_fast), restore_targets and recover_pending.          *)
(*                                                                         *)
(* Every operation holds the actuator's mutex from its first line to its   *)
(* return, so at most one is in flight; what interleaves with it is a      *)
(* crash of the daemon, a reboot of the host and the other clients of the  *)
(* kernel's frequency constraints.  Each sysfs write, each readback and    *)
(* each journal write is a step of its own and may fail.                   *)
(*                                                                         *)
(* An early return that changes nothing (a refused or a no-op request) is  *)
(* a stuttering step.  The generation counter of the journal is written    *)
(* and never read, so it is left out.                                      *)
(***************************************************************************)
EXTENDS Integers, Sequences, FiniteSets

CONSTANTS
  Target,      \* logical frequency targets
  Hw,          \* [Target -> Limits]: full hardware range
  Opps,        \* [Target -> sets of frequencies]: operating points
  Caps,        \* [Target -> sets of frequencies]: other clients' maximum
  MaxBatch,    \* bound: requests in one batch
  MaxBoot,     \* bound: reboots
  MaxCrash     \* bound: daemon crashes

Freq == Nat
Limits == [min : Freq, max : Freq]

ASSUME HwAssumption ==
  /\ Hw \in [Target -> Limits]
  /\ \A t \in Target : Hw[t].min <= Hw[t].max
ASSUME OppsAssumption ==
  \A t \in Target : Opps[t] \subseteq Hw[t].min .. Hw[t].max
ASSUME CapsAssumption ==
  \A t \in Target : /\ Hw[t].max \in Caps[t]
                    /\ Caps[t] \subseteq Hw[t].min .. Hw[t].max
ASSUME BoundsAssumption ==
  MaxBatch \in Nat /\ MaxBoot \in Nat /\ MaxCrash \in Nat

VARIABLES
  nodes,      \* kernel: the user-facing min/max request attributes
  cap,        \* kernel: the tightest maximum of every other client
  boot,       \* the current boot ID
  disk,       \* the journal file
  mode,       \* ActuatorMode
  recovery,   \* recovery_required
  registry,   \* targets whose identity matches the journal's manifest
  mem,        \* RuntimeState.journal
  saved,      \* journal_before / entries_before of the operation in flight
  pc,         \* where the operation in flight is
  kind,       \* which operation it is
  order,      \* the targets it writes, in request order
  idx,        \* the target being written
  want,       \* desired_request of each target
  from,       \* the `current` argument of write_ordered
  plan,       \* attribute writes still to do on the current target
  verdict,    \* what a rollback ends with
  failed,     \* a step of the rollback failed
  crashes     \* bound

kernelVars == <<nodes, cap, boot>>
opVars == <<kind, order, idx, want, from, plan, verdict, failed, saved>>
vars == <<nodes, cap, boot, disk, mode, recovery, registry, mem, saved, pc,
          kind, order, idx, want, from, plan, verdict, failed, crashes>>

-----------------------------------------------------------------------------
(* Windows and operating points.                                           *)

Least(S) == CHOOSE x \in S : \A y \in S : x <= y
Greatest(S) == CHOOSE x \in S : \A y \in S : x >= y
Lower(a, b) == IF a <= b THEN a ELSE b

\* validate_limits: inside the hardware range and not reversed.
ValidLimits(t, w) ==
  /\ Hw[t].min <= w.min
  /\ w.max <= Hw[t].max
  /\ w.min <= w.max

Window(t) == {w \in [min : Hw[t].min .. Hw[t].max, max : Hw[t].min .. Hw[t].max] :
                w.min <= w.max}

\* snap_limits: inward to operating points; a window that holds none
\* collapses onto the point below it.
SnapLimits(t, w) ==
  LET above == {o \in Opps[t] : o >= w.min}
      below == {o \in Opps[t] : o <= w.max}
      minimum == IF above = {} THEN Hw[t].max ELSE Least(above)
      maximum == IF below = {} THEN Hw[t].min ELSE Greatest(below)
  IN  IF Opps[t] = {} THEN w
      ELSE [min |-> Lower(minimum, maximum), max |-> maximum]

\* write_ordered: lower the minimum first when the new maximum is below
\* the old minimum, otherwise the maximum first; unchanged values are
\* not written.
OrderedWrites(current, desired) ==
  LET wmin == IF desired.min # current.min
              THEN <<[node |-> "min", value |-> desired.min]>> ELSE <<>>
      wmax == IF desired.max # current.max
              THEN <<[node |-> "max", value |-> desired.max]>> ELSE <<>>
  IN  IF desired.max < current.min THEN wmin \o wmax ELSE wmax \o wmin

\* reset_frequency_request: open the full hardware range, then narrow.
ResetWrites(t, desired) ==
  <<[node |-> "min", value |-> Hw[t].min], [node |-> "max", value |-> Hw[t].max]>>
    \o (IF desired.max # Hw[t].max
        THEN <<[node |-> "max", value |-> desired.max]>> ELSE <<>>)
    \o (IF desired.min # Hw[t].min
        THEN <<[node |-> "min", value |-> desired.min]>> ELSE <<>>)

Written(pair, w) == IF w.node = "min" THEN [pair EXCEPT !.min = w.value]
                                      ELSE [pair EXCEPT !.max = w.value]

\* ordered_write_states: the pairs the attributes pass through.
OrderedStates(current, desired) ==
  {current, desired,
   IF desired.max < current.min THEN [min |-> desired.min, max |-> current.max]
                                ELSE [min |-> current.min, max |-> desired.max]}

\* transaction_legal_pairs: the same in both directions.
LegalPairs(current, desired) ==
  OrderedStates(current, desired) \cup OrderedStates(desired, current)

-----------------------------------------------------------------------------
(* The journal.  A target that is not claimed has the default entry, the   *)
(* full hardware range, which is what apply_batch assumes for it.          *)

Entry == [desired : Limits, applied : Limits, legal : SUBSET Limits]
Journal == [claims : SUBSET Target, entry : [Target -> Entry]]

Settled(w) == [desired |-> w, applied |-> w, legal |-> {w}]
\* Mutant: only the forward transition is legal.
IntentForward(current, desired) ==
  [desired |-> desired, applied |-> current, legal |-> OrderedStates(current, desired)]

Intent(current, desired) ==
  [desired |-> desired, applied |-> current, legal |-> LegalPairs(current, desired)]

EmptyJournal == [claims |-> {}, entry |-> [t \in Target |-> Settled(Hw[t])]]

NoFile == [present |-> FALSE, boot |-> 0, journal |-> EmptyJournal]
Stored(j) == [present |-> TRUE, boot |-> boot, journal |-> j]

\* What persist_or_remove_journal leaves in the file.
StoredOrRemoved(j) == IF j.claims = {} THEN NoFile ELSE Stored(j)

\* validate_decoded_journal, for one frequency entry: every pair legal and
\* the legal pairs exactly those of the journaled transition.
EntryDecodes(t, e) ==
  /\ ValidLimits(t, e.desired)
  /\ ValidLimits(t, e.applied)
  /\ \A p \in e.legal : ValidLimits(t, p)
  /\ e.legal = IF e.desired = e.applied THEN {e.applied}
                                        ELSE LegalPairs(e.applied, e.desired)

Decodes(j) == \A t \in j.claims : EntryDecodes(t, j.entry[t])

-----------------------------------------------------------------------------
(* The kernel: effective values are the requests under every constraint.   *)

Effective(t) ==
  LET max == Lower(nodes[t].max, cap[t])
  IN  [min |-> Lower(nodes[t].min, max), max |-> max]

\* Another client tightens or lifts its constraint.
ConstraintChange(t) ==
  /\ \E c \in Caps[t] \ {cap[t]} : cap' = [cap EXCEPT ![t] = c]
  /\ UNCHANGED <<nodes, boot, disk, mode, recovery, registry, mem, pc, crashes, opVars>>

-----------------------------------------------------------------------------
(* Beginning and ending an operation.                                      *)

ToSet(s) == {s[k] : k \in 1 .. Len(s)}
Orders == {s \in UNION {[1 .. n -> Target] : n \in 0 .. MaxBatch} :
             \A j, k \in DOMAIN s : j # k => s[j] # s[k]}

\* ensure_mutation_ready, with the mutex free.
Ready == pc = "idle" /\ mode = "ReadWrite" /\ ~recovery

\* The journal with the targets of s re-entered as the transition f[t] -> w[t].
WithIntents(j, s, f, w) ==
  [claims |-> j.claims \cup ToSet(s),
   entry |-> [t \in Target |-> IF t \in ToSet(s) THEN Intent(f[t], w[t]) ELSE j.entry[t]]]

Without(j, s) ==
  [claims |-> j.claims \ ToSet(s),
   entry |-> [t \in Target |-> IF t \in ToSet(s) THEN Settled(Hw[t]) ELSE j.entry[t]]]

Requested(j) == [t \in Target |-> j.entry[t].desired]

Return(m) ==
  /\ pc' = "idle" /\ mode' = m
  /\ kind' = "none" /\ order' = <<>> /\ idx' = 0 /\ plan' = <<>>
  /\ want' = [t \in Target |-> Hw[t]] /\ from' = [t \in Target |-> Hw[t]]
  /\ verdict' = "none" /\ failed' = FALSE /\ saved' = EmptyJournal

\* degrade_locked: read-only until the process is replaced.
Degrade == Return("ReadOnlyDegraded")

Begin(k, s, w, f, where) ==
  /\ kind' = k /\ order' = s /\ want' = w /\ from' = f /\ pc' = where
  /\ saved' = mem /\ verdict' = "none" /\ failed' = FALSE
  /\ UNCHANGED mode

-----------------------------------------------------------------------------
(* apply_batch.                                                            *)

Claimed(t) == t \in mem.claims

\* needs_write of the journaled path.  An unclaimed target is written only
\* from the full hardware range; any other effective range refuses the batch.
BatchWrites(t, w) ==
  IF Claimed(t) THEN mem.entry[t].desired # w
                ELSE Effective(t) # w /\ Effective(t) = Hw[t]

ApplyBatch ==
  /\ Ready
  /\ \E s \in Orders : \E r \in [ToSet(s) -> UNION {Window(t) : t \in ToSet(s)}] :
       LET w == [t \in Target |-> IF t \in ToSet(s) THEN SnapLimits(t, r[t]) ELSE Hw[t]]
       IN  /\ s # <<>> /\ ToSet(s) \subseteq registry
           /\ \A t \in ToSet(s) : r[t] \in Window(t) /\ BatchWrites(t, w[t])
           /\ mem' = WithIntents(mem, s, Requested(mem), w)
           /\ Begin("batch", s, w, Requested(mem), "persistIntent")
  /\ idx' = 0 /\ plan' = <<>>
  /\ UNCHANGED <<kernelVars, disk, recovery, registry, crashes>>

(* apply_owned_batch_fast: no journal write, ordered from the effective range. *)
FastWrites(t, w) == mem.entry[t].desired # w \/ Effective(t) # w

StartTarget(s, f, w, k) ==
  /\ idx' = k
  /\ plan' = OrderedWrites(f[s[k]], w[s[k]])

ApplyFast ==
  /\ Ready
  /\ \E s \in Orders : \E r \in [ToSet(s) -> UNION {Window(t) : t \in ToSet(s)}] :
       LET w == [t \in Target |-> IF t \in ToSet(s) THEN SnapLimits(t, r[t]) ELSE Hw[t]]
           f == [t \in Target |-> IF t \in ToSet(s) THEN Effective(t) ELSE Hw[t]]
       IN  /\ s # <<>> /\ ToSet(s) \subseteq mem.claims \cap registry
           /\ \A t \in ToSet(s) : r[t] \in Window(t) /\ FastWrites(t, w[t])
           /\ mem' = WithIntents(mem, s, f, w)
           /\ Begin("fast", s, w, f, "write")
           /\ StartTarget(s, f, w, 1)
  /\ UNCHANGED <<kernelVars, disk, recovery, registry, crashes>>

\* Mutant: a failed journal write does not stop the mutation.
PersistIntentUnchecked ==
  /\ pc = "persistIntent"
  /\ disk' \in {disk, Stored(mem)}
  /\ pc' = IF kind = "batch" THEN "write" ELSE "reset"
  /\ idx' = 1
  /\ plan' = IF kind = "batch"
             THEN OrderedWrites(from[order[1]], want[order[1]])
             ELSE ResetWrites(order[1], want[order[1]])
  /\ UNCHANGED <<kernelVars, recovery, registry, crashes, mem, mode, kind, order,
                 want, from, verdict, failed, saved>>

\* The pre-mutation journal write.  store_durable may fail before or after
\* the rename.  A batch forgets its intents; restore and recovery keep them.
PersistIntent ==
  /\ pc = "persistIntent"
  /\ \/ /\ disk' = Stored(mem)
        /\ pc' = IF kind = "batch" THEN "write" ELSE "reset"
        /\ idx' = 1
        /\ plan' = IF kind = "batch"
                   THEN OrderedWrites(from[order[1]], want[order[1]])
                   ELSE ResetWrites(order[1], want[order[1]])
        /\ UNCHANGED <<mem, mode, kind, order, want, from, verdict, failed, saved>>
     \/ /\ disk' \in {disk, Stored(mem)}
        /\ mem' = IF kind = "batch" THEN saved ELSE mem
        /\ Degrade
  /\ UNCHANGED <<kernelVars, recovery, registry, crashes>>

-----------------------------------------------------------------------------
(* The write loop shared by apply_batch and apply_owned_batch_fast.        *)

\* rollback_frequency_requests starts with the target that failed.
StartRollback(k, v) ==
  /\ pc' = "rollback" /\ idx' = k /\ verdict' = v /\ failed' = FALSE
  /\ plan' = ResetWrites(order[k], saved.entry[order[k]].desired)
  /\ UNCHANGED <<mode, kind, order, want, from, saved>>

WriteNode ==
  /\ pc \in {"write", "reset", "rollback"} /\ plan # <<>>
  /\ nodes' = [nodes EXCEPT ![order[idx]] = Written(@, Head(plan))]
  /\ plan' = Tail(plan)
  /\ UNCHANGED <<cap, boot, disk, mode, recovery, registry, mem, saved, pc, kind,
                 order, idx, want, from, verdict, failed, crashes>>

\* Mutant: the readback is awaited without a deadline.
WriteFailsEarly ==
  /\ pc = "write" /\ plan # <<>>
  /\ StartRollback(idx, "abort")
  /\ UNCHANGED <<kernelVars, disk, recovery, registry, mem, crashes>>

\* The write or the readback fails, or the readback does not settle.
WriteFails ==
  /\ pc = "write"
  /\ StartRollback(idx, "abort")
  /\ UNCHANGED <<kernelVars, disk, recovery, registry, mem, crashes>>

\* wait_for_limits saw the requested pair.
WriteSettles ==
  /\ pc = "write" /\ plan = <<>>
  /\ Effective(order[idx]) = want[order[idx]]
  /\ mem' = [mem EXCEPT !.entry[order[idx]] = Settled(want[order[idx]])]
  /\ \/ /\ idx < Len(order)
        /\ StartTarget(order, from, want, idx + 1)
        /\ UNCHANGED <<pc, mode, kind, order, want, from, verdict, failed, saved>>
     \/ /\ idx = Len(order) /\ kind = "batch"
        /\ pc' = "persistApplied"
        /\ UNCHANGED <<mode, kind, order, idx, want, from, plan, verdict, failed, saved>>
     \/ /\ idx = Len(order) /\ kind = "fast"
        /\ Return(mode)
  /\ UNCHANGED <<kernelVars, disk, recovery, registry, crashes>>

\* The post-mutation journal write; a failure rolls the batch back and
\* degrades.
PersistApplied ==
  /\ pc = "persistApplied"
  /\ \/ disk' = Stored(mem) /\ Return(mode)
     \/ disk' \in {disk, Stored(mem)} /\ StartRollback(Len(order), "degrade")
  /\ UNCHANGED <<kernelVars, recovery, registry, mem, crashes>>

-----------------------------------------------------------------------------
(* Rollback, in reverse order of the attempts; a failure does not stop it. *)

\* Mutant: the fast path keeps the intents of a batch it rolled back.
NextRollbackKeepsIntents(bad) ==
  \/ /\ idx > 1
     /\ idx' = idx - 1 /\ failed' = bad
     /\ plan' = ResetWrites(order[idx - 1], saved.entry[order[idx - 1]].desired)
     /\ UNCHANGED <<pc, mode, mem, kind, order, want, from, verdict, saved>>
  \/ idx = 1 /\ bad /\ Degrade /\ UNCHANGED mem
  \/ idx = 1 /\ ~bad /\ kind = "fast" /\ Return(mode) /\ UNCHANGED mem
  \/ /\ idx = 1 /\ ~bad /\ kind = "batch"
     /\ mem' = saved
     /\ pc' = "finish"
     /\ UNCHANGED <<mode, kind, order, idx, want, from, plan, verdict, failed, saved>>

NextRollback(bad) ==
  \/ /\ idx > 1
     /\ idx' = idx - 1 /\ failed' = bad
     /\ plan' = ResetWrites(order[idx - 1], saved.entry[order[idx - 1]].desired)
     /\ UNCHANGED <<pc, mode, mem, kind, order, want, from, verdict, saved>>
  \/ /\ idx = 1 /\ bad
     /\ Degrade
     /\ UNCHANGED mem
  \/ /\ idx = 1 /\ ~bad /\ kind = "fast"
     /\ mem' = saved
     /\ Return(mode)
  \/ /\ idx = 1 /\ ~bad /\ kind = "batch"
     /\ mem' = saved
     /\ pc' = "finish"
     /\ UNCHANGED <<mode, kind, order, idx, want, from, plan, verdict, failed, saved>>

RollbackSettles ==
  /\ pc = "rollback" /\ plan = <<>>
  /\ Effective(order[idx]) = saved.entry[order[idx]].desired
  /\ NextRollback(failed)
  /\ UNCHANGED <<kernelVars, disk, recovery, registry, crashes>>

RollbackFails ==
  /\ pc = "rollback"
  /\ NextRollback(TRUE)
  /\ UNCHANGED <<kernelVars, disk, recovery, registry, crashes>>

-----------------------------------------------------------------------------
(* restore_targets and recover_pending.                                    *)

Restore ==
  /\ Ready
  /\ \E s \in Orders :
       /\ ToSet(s) \subseteq mem.claims
       /\ mem' = WithIntents(mem, s, Requested(mem), Hw)
       /\ Begin("restore", s, Hw, Requested(mem),
                IF s = <<>> THEN "finish" ELSE "persistIntent")
  /\ idx' = 0 /\ plan' = <<>>
  /\ UNCHANGED <<kernelVars, disk, recovery, registry, crashes>>

NeedsRecovery == pc = "idle" /\ mode = "ReadWrite" /\ recovery

\* A journal of another boot is discarded.
DiscardStale ==
  /\ NeedsRecovery /\ disk.boot # boot
  /\ \/ disk' = NoFile /\ mem' = EmptyJournal /\ recovery' = FALSE /\ Return(mode)
     \/ disk' \in {disk, NoFile} /\ Degrade /\ UNCHANGED <<mem, recovery>>
  /\ UNCHANGED <<kernelVars, registry, crashes>>

\* A journaled target is missing or its paths or manifest changed.
RefuseRecovery ==
  /\ NeedsRecovery /\ disk.boot = boot
  /\ ~(mem.claims \subseteq registry)
  /\ Degrade
  /\ UNCHANGED <<kernelVars, disk, recovery, registry, mem, crashes>>

Recover ==
  /\ NeedsRecovery /\ disk.boot = boot
  /\ mem.claims \subseteq registry
  /\ \E s \in Orders :
       /\ ToSet(s) = mem.claims
       /\ mem' = WithIntents(mem, s, Requested(mem), Hw)
       /\ Begin("recover", s, Hw, Requested(mem), "persistIntent")
  /\ idx' = 0 /\ plan' = <<>>
  /\ UNCHANGED <<kernelVars, disk, recovery, registry, crashes>>

\* restore_frequency_request read the hardware range back.
ResetSettles ==
  /\ pc = "reset" /\ plan = <<>>
  /\ Effective(order[idx]) = want[order[idx]]
  /\ \/ /\ idx < Len(order)
        /\ idx' = idx + 1
        /\ plan' = ResetWrites(order[idx + 1], want[order[idx + 1]])
        /\ UNCHANGED <<mem, pc>>
     \/ /\ idx = Len(order)
        /\ mem' = IF kind = "restore" THEN Without(mem, order) ELSE mem
        /\ pc' = "finish"
        /\ UNCHANGED <<idx, plan>>
  /\ UNCHANGED <<kernelVars, disk, mode, recovery, registry, saved, kind, order,
                 want, from, verdict, failed, crashes>>

\* Mutant: a target that could not be reset is skipped.
ResetFailsSilently ==
  /\ pc = "reset" /\ idx = Len(order)
  /\ pc' = "finish"
  /\ UNCHANGED <<kernelVars, disk, mode, recovery, registry, mem, saved, kind, order,
                 idx, plan, want, from, verdict, failed, crashes>>

ResetFails ==
  /\ pc = "reset"
  /\ Degrade
  /\ UNCHANGED <<kernelVars, disk, recovery, registry, mem, crashes>>

\* Mutant: every restore removes the whole journal.
FinalJournalEmpty == EmptyJournal

\* persist_or_remove_locked (remove_durable for a recovery, whose entries
\* are cleared only when the file is gone).
FinalJournal == IF kind = "recover" THEN EmptyJournal ELSE mem

Finish ==
  /\ pc = "finish"
  /\ \/ /\ disk' = StoredOrRemoved(FinalJournal)
        /\ mem' = FinalJournal
        /\ recovery' = IF kind = "recover" THEN FALSE ELSE recovery
        /\ Return(IF verdict = "degrade" THEN "ReadOnlyDegraded" ELSE mode)
     \/ /\ disk' \in {disk, StoredOrRemoved(FinalJournal)}
        /\ UNCHANGED <<mem, recovery>>
        /\ Degrade
  /\ UNCHANGED <<kernelVars, registry, crashes>>

-----------------------------------------------------------------------------
(* The process.                                                            *)

Down == /\ pc' = "down" /\ mode' = "ReadWrite" /\ recovery' = FALSE
        /\ mem' = EmptyJournal /\ saved' = EmptyJournal /\ registry' = Target
        /\ kind' = "none" /\ order' = <<>> /\ idx' = 0 /\ plan' = <<>>
        /\ want' = [t \in Target |-> Hw[t]] /\ from' = [t \in Target |-> Hw[t]]
        /\ verdict' = "none" /\ failed' = FALSE

Crash ==
  /\ pc # "down" /\ crashes < MaxCrash
  /\ crashes' = crashes + 1
  /\ Down
  /\ UNCHANGED <<kernelVars, disk>>

\* The kernel comes back with its defaults; the runtime directory may or
\* may not survive.
Reboot ==
  /\ boot < MaxBoot
  /\ boot' = boot + 1
  /\ nodes' = [t \in Target |-> Hw[t]] /\ cap' = [t \in Target |-> Hw[t].max]
  /\ disk' \in {disk, NoFile}
  /\ Down
  /\ UNCHANGED crashes

\* FrequencyActuator::new: an unreadable or undecodable journal degrades.
New ==
  /\ pc = "down" /\ pc' = "idle"
  /\ registry' \in SUBSET Target
  /\ \/ /\ ~disk.present \/ Decodes(disk.journal)
        /\ mem' = IF disk.present THEN disk.journal ELSE EmptyJournal
        /\ recovery' = (disk.present /\ disk.journal.claims # {})
        /\ mode' = "ReadWrite"
     \/ /\ disk.present
        /\ mem' = EmptyJournal /\ recovery' = TRUE /\ mode' = "ReadOnlyDegraded"
  /\ UNCHANGED <<kernelVars, disk, crashes, opVars>>

-----------------------------------------------------------------------------

Init ==
  /\ nodes = [t \in Target |-> Hw[t]] /\ cap = [t \in Target |-> Hw[t].max]
  /\ boot = 0 /\ disk = NoFile
  /\ mode = "ReadWrite" /\ recovery = FALSE /\ registry = Target
  /\ mem = EmptyJournal /\ saved = EmptyJournal
  /\ pc = "down" /\ kind = "none" /\ order = <<>> /\ idx = 0 /\ plan = <<>>
  /\ want = [t \in Target |-> Hw[t]] /\ from = [t \in Target |-> Hw[t]]
  /\ verdict = "none" /\ failed = FALSE /\ crashes = 0

Step ==
  \/ PersistIntent \/ WriteNode \/ WriteFails \/ WriteSettles \/ PersistApplied
  \/ RollbackSettles \/ RollbackFails \/ ResetSettles \/ ResetFails \/ Finish

Next ==
  \/ ApplyBatch \/ ApplyFast \/ Restore
  \/ DiscardStale \/ RefuseRecovery \/ Recover
  \/ Step
  \/ Crash \/ Reboot \/ New
  \/ \E t \in Target : ConstraintChange(t)

Spec == Init /\ [][Next]_vars

\* A thread inside an operation runs on (every wait in it is bounded by a
\* timeout); systemd restarts the daemon; the daemon recovers before it
\* serves anything.
Fairness ==
  /\ WF_vars(Step)
  /\ WF_vars(New)
  /\ WF_vars(DiscardStale \/ RefuseRecovery \/ Recover)

FairSpec == Spec /\ Fairness
-----------------------------------------------------------------------------
(* Properties.                                                             *)

KernelType ==
  /\ nodes \in [Target -> Limits]
  /\ cap \in [Target -> Freq]
  /\ boot \in 0 .. MaxBoot /\ crashes \in 0 .. MaxCrash
JournalType ==
  /\ disk \in [present : BOOLEAN, boot : 0 .. MaxBoot, journal : Journal]
  /\ mem \in Journal /\ saved \in Journal
ModeType ==
  /\ mode \in {"ReadWrite", "ReadOnlyDegraded"} /\ recovery \in BOOLEAN
  /\ registry \in SUBSET Target
  /\ pc \in {"down", "idle", "persistIntent", "write", "persistApplied",
             "rollback", "reset", "finish"}
  /\ kind \in {"none", "batch", "fast", "restore", "recover"}
  /\ verdict \in {"none", "abort", "degrade"} /\ failed \in BOOLEAN
OperationType ==
  /\ order \in Seq(Target) /\ idx \in 0 .. Len(order)
  /\ want \in [Target -> Limits] /\ from \in [Target -> Limits]
  /\ plan \in Seq([node : {"min", "max"}, value : Freq])

\* Shape of the state: the attributes of the kernel, the two copies of the
\* journal, the mode of the actuator and the bookkeeping of the operation in
\* flight, whose position is always inside its batch.
TypeOK == KernelType /\ JournalType /\ ModeType /\ OperationType

\* "No durable journal means no mutation": whenever an attribute differs from
\* the hardware range, at any step of any operation, after any crash and any
\* failed write, the journal file of this boot claims the target.
DurableClaim ==
  \A t \in Target :
    nodes[t] # Hw[t] =>
      disk.present /\ disk.boot = boot /\ t \in disk.journal.claims

\* Whatever the daemon writes, its own decoder accepts: no sequence of
\* batches, fast updates and restores leaves a file that a restart refuses
\* as "legal frequency pairs do not match its exact ordered transition".
JournalDecodes == disk.present => Decodes(disk.journal)

\* Between operations the file claims exactly what memory owns, although the
\* fast path never writes the file and a failed write may have replaced it.
ClaimsOnDisk ==
  Ready => mem.claims = IF disk.present THEN disk.journal.claims ELSE {}

\* The journal can be trusted by the next process: a restart decodes what this
\* one left (JournalDecodes), and it claims what this one owns (ClaimsOnDisk).
JournalSound == JournalDecodes /\ ClaimsOnDisk

\* The two attributes are never requested reversed, not even between the two
\* writes of a transition or in the middle of a rollback (write_ordered,
\* reset_frequency_request).
RequestNeverReversed == \A t \in Target : nodes[t].min <= nodes[t].max

\* A degraded actuator mutates neither the machine nor its evidence until
\* the process is replaced.
DegradedWritesNothing ==
  [][mode = "ReadOnlyDegraded" /\ mode' = "ReadOnlyDegraded"
       => nodes' = nodes /\ disk' = disk]_vars

\* When a started recovery is over, every attribute it found changed is back
\* at the hardware range, whatever other clients' constraints did meanwhile;
\* a journal of an older boot has nothing left to reset.
RecoveryReleases ==
  [][recovery /\ ~recovery' /\ pc' = "idle" => \A t \in Target : nodes'[t] = Hw[t]]_vars

\* What a failure leaves is contained: a recovery is over only when the machine
\* is released, and one that cannot go on writes nothing more
\* (recover_pending, degrade_locked).
FailuresContained == RecoveryReleases /\ DegradedWritesNothing

\* The journal of this boot as an owner of targets, and the targets whose
\* attributes are not the hardware range.
DiskClaims == IF disk.present /\ disk.boot = boot THEN disk.journal.claims ELSE {}
Dirty == {t \in Target : nodes[t] # Hw[t]}

Abstract == INSTANCE DurableOwnership
              WITH Resource <- Target, owned <- DiskClaims, dirty <- Dirty

\* Every step of the actuator, of its crashes and restarts, and of the other
\* clients is a step of the ownership protocol: claim, mutate, release.
ImplementsOwnership == Abstract!Spec

\* No other client constrains the target.
Exclusive(t) == Caps[t] = {Hw[t].max}

\* A target that nobody else constrains is exact, whatever happens to the others
\* of its batch: between operations of a writable actuator it carries the request
\* the journal holds, the hardware range when it is not owned (a failed batch was
\* rolled back completely, a restored target fully released, a recovered one
\* reset), and no moment of a batch, of a rollback or of a recovery is a reversed
\* request (write_ordered, reset_frequency_request).
BatchExact ==
  \A t \in Target : Exclusive(t) =>
    /\ Ready => nodes[t] = mem.entry[t].desired
    /\ nodes[t].min <= nodes[t].max

\* Every operation that began returns, whatever fails inside it.
OperationReturns == pc \notin {"idle", "down"} ~> pc \in {"idle", "down"}

\* After a crash the daemon ends up writable with everything it left behind
\* released, or read-only degraded.
RecoveryConcludes ==
  pc = "down" ~> (mode = "ReadOnlyDegraded" \/ (pc = "idle" /\ ~recovery))

\* No operation hangs and no start-up stays half recovered, whatever fails.
OperationsEnd == OperationReturns /\ RecoveryConcludes
=============================================================================
