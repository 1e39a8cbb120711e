-------------------------- MODULE ScalarActuator --------------------------
(***************************************************************************)
(* The scalar half of crates/uperf-actuator: apply_scalars,                *)
(* restore_scalars and recover_scalars_locked.  Unlike a frequency request *)
(* a scalar attribute has one value for all its writers: the actuator      *)
(* shares it with administrators and other daemons, recognises its own     *)
(* values by comparing them with the journal and gives a resource up when  *)
(* somebody else changed it.                                               *)
(*                                                                         *)
(* Every read, write and journal write is a step; another writer, a crash  *)
(* and a reboot may come between any two.  A refused or no-op request is a *)
(* stuttering step.                                                        *)
(***************************************************************************)
EXTENDS Integers, Sequences, FiniteSets, SequencesExt

CONSTANTS
  Target,      \* scalar attributes
  Value,       \* values of their (common) domain
  Start,       \* [Target -> Value]: values the kernel boots with
  Kept,        \* [Value -> SUBSET Value]: what the kernel may keep of a write
  Scenes       \* bound: what one behaviour is about, see scene

ASSUME StartAssumption == Start \in [Target -> Value]
ASSUME KeptAssumption == Kept \in [Value -> SUBSET Value]
ASSUME ScalarScenes ==
  \A c \in Scenes : /\ c.targets \subseteq Target /\ IsFiniteSet(c.targets)
                    /\ {c.racing, c.torn} \subseteq BOOLEAN
                    /\ {c.boots, c.crashes, c.foreign} \subseteq Nat

VARIABLES
  scene,      \* the targets in play; whether others also write while an operation
              \* runs; whether a store that reports failure may have replaced the
              \* file; how many reboots, crashes and writes of others there are
  value,      \* kernel: the attribute
  foreign,    \* history: the values others chose since boot
  boot, disk, mode, recovery, mem, saved,
  pc, kind,
  ids,        \* the targets a restore or recovery gives up
  order,      \* the targets the operation writes
  idx,
  want,       \* value to write
  before,     \* value read before
  verdict, failed, crashes, writes

vars == <<scene, value, foreign, boot, disk, mode, recovery, mem, saved, pc, kind, ids,
          order, idx, want, before, verdict, failed, crashes, writes>>
kernelVars == <<value, foreign, boot, writes>>
opVars == <<kind, ids, order, idx, want, before, verdict, failed, saved>>

-----------------------------------------------------------------------------
(* The journal.  Entries of targets that are not claimed are defaults.     *)

Entry == [original : Value, desired : Value, applied : Value]
Journal == [claims : SUBSET Target, entry : [Target -> Entry]]
DefaultEntry(t) == [original |-> Start[t], desired |-> Start[t], applied |-> Start[t]]
EmptyJournal == [claims |-> {}, entry |-> [t \in Target |-> DefaultEntry(t)]]

NoFile == [present |-> FALSE, boot |-> 0, journal |-> EmptyJournal]
Stored(j) == [present |-> TRUE, boot |-> boot, journal |-> j]
StoredOrRemoved(j) == IF j.claims = {} THEN NoFile ELSE Stored(j)

\* store_durable and remove_durable report a failure of the directory fsync
\* after the rename or the removal already happened.
AfterFailure(file) == IF scene.torn THEN {disk, file} ELSE {disk}

Orders(S) == {s \in UNION {[1 .. n -> S] : n \in 0 .. Cardinality(S)} :
                \A j, k \in DOMAIN s : j # k => s[j] # s[k]}

\* The journal with the targets of S about to go from their current value to w.
WithIntents(j, S, w) ==
  [claims |-> j.claims \cup S,
   entry |-> [t \in Target |->
     IF t \in S
     THEN [original |-> IF t \in j.claims THEN j.entry[t].original ELSE value[t],
           desired |-> w[t], applied |-> value[t]]
     ELSE j.entry[t]]]

Without(j, S) ==
  [claims |-> j.claims \ S,
   entry |-> [t \in Target |-> IF t \in S THEN DefaultEntry(t) ELSE j.entry[t]]]

-----------------------------------------------------------------------------
(* Beginning and ending an operation.                                      *)

Ready == pc = "idle" /\ mode = "ReadWrite" /\ ~recovery
NeedsRecovery == pc = "idle" /\ mode = "ReadWrite" /\ recovery

Clear ==
  /\ kind' = "none" /\ ids' = {} /\ order' = <<>> /\ idx' = 0
  /\ want' = Start /\ before' = Start /\ saved' = EmptyJournal
  /\ verdict' = "none" /\ failed' = FALSE

Return(m) == pc' = "idle" /\ mode' = m /\ Clear
Degrade == Return("ReadOnlyDegraded")

\* Mutant: somebody else's value does not end the ownership.
StillOwnedAlways(t) == TRUE

\* The value the kernel holds still is one the journal knows.
StillOwned(t) == value[t] \in {mem.entry[t].applied, mem.entry[t].desired}

-----------------------------------------------------------------------------
(* apply_scalars.  A claimed target that holds a third value refuses the   *)
(* batch.  Between operations every entry is settled (EntriesSettled), so a *)
(* request that needs no write needs no journal write either.              *)

Apply ==
  /\ Ready
  /\ \E s \in Orders(scene.targets) : \E r \in [ToSet(s) -> Value] :
       LET w == [t \in Target |-> IF t \in ToSet(s) THEN r[t] ELSE Start[t]]
       IN  /\ s # <<>>
           /\ \A t \in ToSet(s) : /\ value[t] # r[t]
                                  /\ t \in mem.claims => StillOwned(t)
           /\ mem' = WithIntents(mem, ToSet(s), w)
           /\ order' = s /\ want' = w
           /\ before' = [t \in Target |-> IF t \in ToSet(s) THEN value[t] ELSE Start[t]]
  /\ kind' = "apply" /\ ids' = {} /\ idx' = 0 /\ saved' = mem
  /\ verdict' = "none" /\ failed' = FALSE /\ pc' = "persistIntent"
  /\ UNCHANGED <<scene, kernelVars, disk, mode, recovery, crashes>>

(* restore_scalars and recover_scalars_locked read every target, journal   *)
(* the way back of those that still hold a value of the actuator and write *)
(* the originals; the others are given up as they are.                     *)

BackWrites(S) == {t \in S : StillOwned(t) /\ value[t] # mem.entry[t].original}

GiveBack(k, S) ==
  /\ \E s \in Orders(BackWrites(S)) :
       /\ ToSet(s) = BackWrites(S)
       /\ LET w == [t \in Target |-> IF t \in ToSet(s) THEN mem.entry[t].original ELSE Start[t]]
              m == WithIntents(mem, ToSet(s), w)
          IN  /\ order' = s /\ want' = w
              /\ mem' = IF s = <<>> /\ k = "restore" THEN Without(m, S) ELSE m
              /\ pc' = IF s = <<>> THEN "finish" ELSE "persistIntent"
  /\ kind' = k /\ ids' = S /\ idx' = 0 /\ saved' = mem /\ before' = Start
  /\ verdict' = "none" /\ failed' = FALSE
  /\ UNCHANGED <<scene, kernelVars, disk, mode, recovery, crashes>>

Restore == Ready /\ \E S \in SUBSET mem.claims : GiveBack("restore", S)

Recover == NeedsRecovery /\ disk.boot = boot /\ GiveBack("recover", mem.claims)

\* A target is missing, changed its identity or cannot be read.
Unreadable ==
  /\ mem.claims # {}
  /\ Ready \/ (NeedsRecovery /\ disk.boot = boot)
  /\ \E S \in SUBSET mem.claims :
       mem' = WithIntents(mem, BackWrites(S), [t \in Target |-> mem.entry[t].original])
  /\ Degrade
  /\ UNCHANGED <<scene, kernelVars, disk, recovery, crashes>>

DiscardStale ==
  /\ NeedsRecovery /\ disk.boot # boot
  /\ \/ disk' = NoFile /\ mem' = EmptyJournal /\ recovery' = FALSE /\ Return(mode)
     \/ disk' \in AfterFailure(NoFile) /\ Degrade /\ UNCHANGED <<mem, recovery>>
  /\ UNCHANGED <<scene, kernelVars, crashes>>

\* Mutant: the first write precedes the journal.
PersistIntentLate ==
  /\ pc = "persistIntent"
  /\ pc' = "write" /\ idx' = 1
  /\ UNCHANGED <<scene, kernelVars, disk, mem, mode, recovery, crashes, kind, ids, order, want,
                 before, verdict, failed, saved>>

PersistIntent ==
  /\ pc = "persistIntent"
  /\ \/ /\ disk' = Stored(mem)
        /\ pc' = "write" /\ idx' = 1
        /\ UNCHANGED <<mem, mode, kind, ids, order, want, before, verdict, failed, saved>>
     \/ /\ disk' \in AfterFailure(Stored(mem))
        /\ mem' = IF kind = "apply" THEN saved ELSE mem
        /\ Degrade
  /\ UNCHANGED <<scene, kernelVars, recovery, crashes>>

-----------------------------------------------------------------------------
(* write_scalar: write, read back, compare.                                *)

StartRollback(k, v) ==
  /\ pc' = "rollbackRead" /\ idx' = k /\ verdict' = v
  /\ UNCHANGED <<mode, kind, ids, order, want, before, failed, saved>>

\* A write or a readback failed.
Abort == IF kind = "apply" THEN StartRollback(idx, "abort") ELSE Degrade

Write ==
  /\ pc = "write"
  /\ \/ /\ \E v \in Kept[want[order[idx]]] : value' = [value EXCEPT ![order[idx]] = v]
        /\ pc' = "check"
        /\ UNCHANGED <<mode, opVars>>
     \/ Abort /\ UNCHANGED value
  /\ UNCHANGED <<scene, foreign, boot, writes, disk, recovery, mem, crashes>>

\* Mutant: the value read back does not reach the entry.
SettleForgotten(t) == mem

Settle(t) == [mem EXCEPT !.entry[t].applied = want[t], !.entry[t].desired = want[t]]

Check ==
  /\ pc = "check"
  /\ \/ /\ value[order[idx]] = want[order[idx]]
        /\ \/ /\ idx < Len(order)
              /\ pc' = "write" /\ idx' = idx + 1
              /\ mem' = IF kind = "apply" THEN Settle(order[idx]) ELSE mem
           \/ /\ idx = Len(order)
              /\ pc' = IF kind = "apply" THEN "persistApplied" ELSE "finish"
              /\ mem' = CASE kind = "apply"   -> Settle(order[idx])
                          [] kind = "restore" -> Without(mem, ids)
                          [] kind = "recover" -> mem
              /\ UNCHANGED idx
        /\ UNCHANGED <<mode, kind, ids, order, want, before, verdict, failed, saved>>
     \/ Abort /\ UNCHANGED mem
  /\ UNCHANGED <<scene, kernelVars, disk, recovery, crashes>>

PersistApplied ==
  /\ pc = "persistApplied"
  /\ \/ disk' = Stored(mem) /\ Return(mode)
     \/ disk' \in AfterFailure(Stored(mem)) /\ StartRollback(Len(order), "degrade")
  /\ UNCHANGED <<scene, kernelVars, recovery, mem, crashes>>

-----------------------------------------------------------------------------
(* rollback_scalars, in reverse order of the attempts.  Only the value the *)
(* batch asked for is taken back.                                          *)

RollbackNext(bad) ==
  \/ /\ idx > 1
     /\ pc' = "rollbackRead" /\ idx' = idx - 1 /\ failed' = bad
     /\ UNCHANGED <<mode, mem, kind, ids, order, want, before, verdict, saved>>
  \/ idx = 1 /\ bad /\ Degrade /\ UNCHANGED mem
  \/ /\ idx = 1 /\ ~bad
     /\ mem' = saved /\ pc' = "finish"
     /\ UNCHANGED <<mode, kind, ids, order, idx, want, before, verdict, failed, saved>>

\* Mutant: a target that settled is not taken back.
RollbackReadSkips ==
  /\ pc = "rollbackRead"
  /\ RollbackNext(failed)
  /\ UNCHANGED <<scene, kernelVars, disk, recovery, crashes>>

RollbackRead ==
  /\ pc = "rollbackRead"
  /\ LET t == order[idx]
     IN  \/ /\ value[t] # before[t] /\ value[t] = want[t]
            /\ pc' = "rollbackWrite"
            /\ UNCHANGED <<mode, mem, opVars>>
         \/ /\ value[t] = before[t] \/ value[t] # want[t]
            /\ RollbackNext(failed)
         \/ RollbackNext(TRUE)
  /\ UNCHANGED <<scene, kernelVars, disk, recovery, crashes>>

RollbackWrite ==
  /\ pc = "rollbackWrite"
  /\ \/ /\ \E v \in Kept[before[order[idx]]] : value' = [value EXCEPT ![order[idx]] = v]
        /\ pc' = "rollbackCheck"
        /\ UNCHANGED <<mode, mem, opVars>>
     \/ RollbackNext(TRUE) /\ UNCHANGED value
  /\ UNCHANGED <<scene, foreign, boot, writes, disk, recovery, crashes>>

RollbackCheck ==
  /\ pc = "rollbackCheck"
  /\ \/ value[order[idx]] = before[order[idx]] /\ RollbackNext(failed)
     \/ RollbackNext(TRUE)
  /\ UNCHANGED <<scene, kernelVars, disk, recovery, crashes>>

-----------------------------------------------------------------------------
(* persist_or_remove_locked, or remove_durable after a recovery.           *)

FinalJournal == IF kind = "recover" THEN EmptyJournal ELSE mem

Finish ==
  /\ pc = "finish"
  /\ \/ /\ disk' = StoredOrRemoved(FinalJournal)
        /\ mem' = FinalJournal
        /\ recovery' = IF kind = "recover" THEN FALSE ELSE recovery
        /\ Return(IF verdict = "degrade" THEN "ReadOnlyDegraded" ELSE mode)
     \/ /\ disk' \in AfterFailure(StoredOrRemoved(FinalJournal))
        /\ UNCHANGED <<mem, recovery>>
        /\ Degrade
  /\ UNCHANGED <<scene, kernelVars, crashes>>

-----------------------------------------------------------------------------
(* The process and everybody else.                                         *)

Down == /\ pc' = "down" /\ mode' = "ReadWrite" /\ recovery' = FALSE
        /\ mem' = EmptyJournal /\ Clear

Crash ==
  /\ pc # "down" /\ crashes < scene.crashes
  /\ crashes' = crashes + 1
  /\ Down
  /\ UNCHANGED <<scene, kernelVars, disk>>

Reboot ==
  /\ boot < scene.boots
  /\ boot' = boot + 1
  /\ value' = Start /\ foreign' = [t \in Target |-> {Start[t]}]
  /\ disk' \in {disk, NoFile}
  /\ Down
  /\ UNCHANGED <<scene, crashes, writes>>

New ==
  /\ pc = "down" /\ pc' = "idle"
  /\ \/ /\ mem' = IF disk.present THEN disk.journal ELSE EmptyJournal
        /\ recovery' = disk.present /\ mode' = "ReadWrite"
     \/ /\ disk.present
        /\ mem' = EmptyJournal /\ recovery' = TRUE /\ mode' = "ReadOnlyDegraded"
  /\ UNCHANGED <<scene, kernelVars, disk, crashes, opVars>>

\* Another writer changes an attribute.
Foreign(t) ==
  /\ scene.racing \/ pc \in {"idle", "down"}
  /\ writes < scene.foreign /\ writes' = writes + 1
  /\ \E v \in Value \ {value[t]} :
       /\ value' = [value EXCEPT ![t] = v]
       /\ foreign' = [foreign EXCEPT ![t] = @ \cup {v}]
  /\ UNCHANGED <<scene, boot, disk, mode, recovery, mem, pc, crashes, opVars>>

-----------------------------------------------------------------------------

Init ==
  /\ scene \in Scenes
  /\ value = Start /\ foreign = [t \in Target |-> {Start[t]}] /\ writes = 0
  /\ boot = 0 /\ disk = NoFile /\ mode = "ReadWrite" /\ recovery = FALSE
  /\ mem = EmptyJournal /\ saved = EmptyJournal
  /\ pc = "down" /\ kind = "none" /\ ids = {} /\ order = <<>> /\ idx = 0
  /\ want = Start /\ before = Start
  /\ verdict = "none" /\ failed = FALSE /\ crashes = 0

Next ==
  \/ Apply \/ Restore \/ Recover \/ Unreadable \/ DiscardStale
  \/ PersistIntent \/ Write \/ Check \/ PersistApplied
  \/ RollbackRead \/ RollbackWrite \/ RollbackCheck \/ Finish
  \/ Crash \/ Reboot \/ New
  \/ \E t \in scene.targets : Foreign(t)

Spec == Init /\ [][Next]_vars

-----------------------------------------------------------------------------
(* Properties.                                                             *)

\* Shape of the state; the position of an operation stays inside its batch.
TypeOK ==
  /\ value \in [Target -> Value] /\ foreign \in [Target -> SUBSET Value]
  /\ boot \in 0 .. scene.boots /\ crashes \in 0 .. scene.crashes /\ writes \in 0 .. scene.foreign
  /\ disk \in [present : BOOLEAN, boot : 0 .. scene.boots, journal : Journal]
  /\ mem \in Journal /\ saved \in Journal
  /\ mode \in {"ReadWrite", "ReadOnlyDegraded"} /\ recovery \in BOOLEAN
  /\ pc \in {"down", "idle", "persistIntent", "write", "check", "persistApplied",
             "rollbackRead", "rollbackWrite", "rollbackCheck", "finish"}
  /\ kind \in {"none", "apply", "restore", "recover"}
  /\ ids \in SUBSET Target /\ order \in Seq(Target) /\ idx \in 0 .. Len(order)
  /\ want \in [Target -> Value] /\ before \in [Target -> Value]
  /\ verdict \in {"none", "abort", "degrade"} /\ failed \in BOOLEAN

\* A target is dirty when it holds a value that only the actuator chose.
Dirty == {t \in Target : value[t] \notin foreign[t]}
DiskClaims == IF disk.present /\ disk.boot = boot THEN disk.journal.claims ELSE {}

Abstract == INSTANCE DurableOwnership
              WITH Resource <- Target, owned <- DiskClaims, dirty <- Dirty

\* A value that only the actuator chose is in force only under a durable
\* claim, and the claim is dropped only when no such value is left
\* (apply_scalars, restore_scalars, recover_scalars_locked), also with other
\* writers acting in the middle of an operation.
ImplementsOwnership == Abstract!Spec

\* Between operations no entry is half way: desired and applied agree, so
\* StillOwned accepts exactly one value of the actuator.
EntriesSettled ==
  Ready => \A t \in mem.claims : mem.entry[t].applied = mem.entry[t].desired

\* What a restore or a recovery would write back is never a value of the
\* actuator itself, however often it crashed between claim and restore.
OriginalNotOurs ==
  disk.present /\ disk.boot = boot =>
    \A t \in disk.journal.claims : disk.journal.entry[t].original \in foreign[t]

\* What the journal says can be acted on by the next operation and by the next
\* process.
EntriesSound == EntriesSettled /\ OriginalNotOurs

\* A third-party value is preserved: when an operation begins on a target it
\* already claimed, none of its writes (apply, restore, recovery, rollback)
\* replaces a value that neither the journal it began with nor its own batch
\* knows.  Other writers are quiet during the operation (~scene.racing): the
\* code reads and writes in two steps, so a value set in between is lost.
ThirdValueUntouched ==
  [][~scene.racing => \A t \in saved.claims :
       value'[t] # value[t] /\ writes' = writes /\ boot' = boot =>
         value[t] \in {saved.entry[t].applied, saved.entry[t].desired, want[t]}]_vars

\* Between operations a writable actuator owns every value only it chose:
\* nothing of a failed batch is left behind without an owner.
NothingLeftBehind == Ready => Dirty \subseteq mem.claims
=============================================================================
