-------------------------- MODULE InstanceActuator --------------------------
(***************************************************************************)
(* The part of crates/uperf-actuator that changes processes and systemd    *)
(* units: apply_tasks and apply_units, restore_tasks and restore_units,    *)
(* recover_tasks_locked and recover_units_locked, over the backends that   *)
(* write the fields (write_scheduling, write_unit_properties).             *)
(*                                                                         *)
(* Ownership is per field of an instance.  A slot is a process ID or a     *)
(* unit name; its occupant may go away and another may take the slot       *)
(* between any two steps.  The two families differ in how the journal is   *)
(* keyed, in where the identity is checked again, and in whether fields    *)
(* are written one by one; a scene picks one of them for a behaviour.      *)
(* A boot that replaces the journal is in FrequencyActuator.               *)
(***************************************************************************)
EXTENDS Integers, Sequences, FiniteSets

CONSTANTS
  Slot,        \* process IDs, or unit names
  Field,       \* scheduling fields, or unit properties
  Value,       \* values of a field
  TornStore,   \* a store that reports failure may have replaced the file
  Scenes,      \* bound: what one behaviour is about, see scene
  MaxCrash     \* bound: daemon crashes

ASSUME InstanceConstants ==
  /\ IsFiniteSet(Slot) /\ Value # {} /\ TornStore \in BOOLEAN /\ MaxCrash \in Nat
  /\ \A c \in Scenes : /\ c.family \in {"task", "unit"}
                       /\ c.inPlay \subseteq Slot \X Field \X Value /\ c.lives \in [Slot -> Nat]
                       /\ c.foreign \in Nat

VARIABLES
  scene,      \* the family, the fields and values requested and changed, the
              \* instances that occupy each slot (the last one for good), and how often others
              \* change a field
  inst,       \* the occupant of each slot, 0 for none
  born,       \* the newest instance of each slot
  field,      \* the fields of the occupant
  others,     \* history: values others chose for them
  stranger,   \* history: slots whose occupant was written as somebody else
  disk, mem,  \* the journal: file and RuntimeState; empty means no file
  mode, recovery,
  op,         \* the operation that holds the mutex
  crashes, writes

worldVars == <<inst, born, field, others, stranger, writes>>
vars == <<scene, worldVars, disk, mem, mode, recovery, op, crashes>>

family == scene.family
Key == UNION {{s} \X (1 .. scene.lives[s]) : s \in Slot}
State == [Field -> Value]
Blank == [f \in Field |-> CHOOSE v \in Value : TRUE]
InPlay(s, x) == \A f \in Field : x[f] = Blank[f] \/ <<s, f, x[f]>> \in scene.inPlay
NoEntries == [k \in {} |-> Blank]
Entry == [original : State, desired : State, applied : State,
          owned : SUBSET Field, relinquished : SUBSET Field]
Idle ==
  [at |-> "idle", kind |-> "none", order |-> <<>>, idx |-> 0,
   request |-> [s \in Slot |-> Blank], before |-> [s \in Slot |-> Blank],
   want |-> [s \in Slot |-> Blank], cur |-> Blank, tgt |-> Blank, base |-> Blank,
   todo |-> {}, done |-> {}, attempted |-> {}, start |-> NoEntries, saved |-> NoEntries,
   degrades |-> FALSE, failed |-> FALSE, raced |-> FALSE]

-----------------------------------------------------------------------------
(* TaskFieldMask and UnitFieldMask.                                        *)

Changed(a, b) == {f \in Field : a[f] # b[f]}
Copy(mask, to, source) == [f \in Field |-> IF f \in mask THEN source[f] ELSE to[f]]
Matching(mask, cur, a, b) == {f \in mask : cur[f] \in {a[f], b[f]}}

\* Mutant: a lost field is forgotten instead of given up.
StillForgets(e, cur) ==
  LET still == Matching(e.owned, cur, e.applied, e.applied)
  IN  [original |-> e.original, desired |-> cur, applied |-> cur,
       owned |-> still, relinquished |-> e.relinquished]

\* An entry met again: fields somebody else changed are given up.
Still(e, cur) ==
  LET still == Matching(e.owned, cur, e.applied, e.applied)
  IN  [original |-> Copy(e.owned \ still, e.original, cur), desired |-> cur, applied |-> cur,
       owned |-> still, relinquished |-> e.relinquished \cup (e.owned \ still)]

Fresh(cur) == [original |-> cur, desired |-> cur, applied |-> cur,
               owned |-> {}, relinquished |-> {}]

\* The entry with the requested fields claimed that were not given up.
Claim(e, cur, r) ==
  LET owned == e.owned \cup (Changed(cur, r) \ e.relinquished)
  IN  [e EXCEPT !.original = Copy(owned \ e.owned, @, cur), !.desired = Copy(owned, cur, r),
                !.applied = cur, !.owned = owned]

\* validate_decoded_journal, for tasks and units.
Decodes(j) ==
  /\ \A k \in DOMAIN j : j[k].owned \cap j[k].relinquished = {}
  /\ family = "unit" => \A k, l \in DOMAIN j : k[1] = l[1] => k = l

-----------------------------------------------------------------------------
(* Beginning, ending and failing.                                          *)

Ready == op.at = "idle" /\ mode = "ReadWrite" /\ ~recovery
Return(m) == op' = Idle /\ mode' = m
Degrade == Return("ReadOnlyDegraded")
AfterFailure(j) == IF TornStore THEN {disk, j} ELSE {disk}

ToSet(s) == {s[k] : k \in DOMAIN s}
Orders(S) == {s \in [1 .. Cardinality(S) -> S] : ToSet(s) = S}

Here == op.order[op.idx]
Place == Here[1]
Current == inst[Place] = Here[2]

Clear(o) == [o EXCEPT !.cur = Blank, !.tgt = Blank, !.base = Blank, !.todo = {}, !.done = {}]

\* apply goes on to its next write, the others to their next instance.
Following(o) ==
  IF o.idx < Len(o.order)
  THEN [Clear(o) EXCEPT !.idx = @ + 1, !.at = IF o.kind = "apply" THEN "open" ELSE "verify"]
  ELSE [Clear(o) EXCEPT !.at = IF o.kind = "apply" THEN "persistApplied" ELSE "finish"]

\* rollback_tasks and rollback_units, over what was attempted, in the order of
\* the keys, which is not that of the batch.
StartRollback(degrades) ==
  /\ \E s \in Orders(op.attempted) :
       op' = [Clear(op) EXCEPT !.kind = "rollback", !.order = s, !.idx = 1,
                !.at = IF s = <<>> THEN "finish" ELSE "verify", !.degrades = degrades]
  /\ UNCHANGED mode

\* record_task_rollback_failure_if_present.
Forgiven == family = "task" /\ op.at # "verify" /\ inst[Place] = 0

StepFails ==
  CASE op.kind = "apply" /\ op.at \in {"verify", "read"} -> Return(mode)
    [] op.kind = "apply" /\ op.at \in {"open", "original", "fields"} -> StartRollback(FALSE)
    [] op.kind = "rollback" -> /\ \E counts \in {b \in BOOLEAN : b \/ Forgiven} :
                                    op' = Following([op EXCEPT !.failed = @ \/ counts])
                               /\ UNCHANGED mode
    [] op.kind \in {"restore", "recover"} -> Degrade

-----------------------------------------------------------------------------
(* The operations.                                                         *)

Apply ==
  /\ Ready
  /\ \E S \in SUBSET {s \in Slot : inst[s] # 0} : \E s \in Orders(S) :
     \E r \in [S -> State] :
       /\ S # {} /\ \A t \in S : InPlay(t, r[t])
       /\ op' = [Idle EXCEPT !.at = "verify", !.kind = "apply", !.idx = 1, !.start = mem,
                   !.order = [n \in DOMAIN s |-> <<s[n], inst[s[n]]>>],
                   !.request = [t \in Slot |-> IF t \in S THEN r[t] ELSE Blank]]
  /\ UNCHANGED <<scene, worldVars, disk, mem, mode, recovery, crashes>>

GiveBack(kind, S) ==
  /\ S # {}
  /\ \E s \in Orders(S) :
       op' = [Idle EXCEPT !.at = "verify", !.kind = kind, !.idx = 1, !.start = mem, !.order = s]
  /\ UNCHANGED <<scene, worldVars, disk, mem, mode, recovery, crashes>>

Restore == Ready /\ \E S \in SUBSET DOMAIN mem : GiveBack("restore", S)
Recover == op.at = "idle" /\ mode = "ReadWrite" /\ recovery /\ GiveBack("recover", DOMAIN mem)

\* A batch of units takes the identity it finds.
Observes == family = "unit" /\ op.kind = "apply"

\* verify_process_identity or unit_instance_is_current before the read.
Verify ==
  /\ op.at = "verify"
  /\ \/ /\ inst[Place] # 0 /\ (Current \/ Observes)
        /\ op' = [op EXCEPT !.at = "read", !.order[op.idx] = <<Place, inst[Place]>>]
        /\ UNCHANGED mode
     \/ ~Current /\ op.kind # "apply" /\ op' = Following(op) /\ UNCHANGED mode
     \/ StepFails
  /\ UNCHANGED <<scene, worldVars, disk, mem, recovery, crashes>>

\* What a batch journals before it writes, and what it goes back to.
Prepared(o) ==
  LET keys == ToSet(o.order)
      rest == {k \in DOMAIN mem \ keys :
                 family = "unit" => \A l \in keys : k[1] # l[1]}
      held(k) == IF k \in DOMAIN mem THEN Still(mem[k], o.before[k[1]])
                                     ELSE Fresh(o.before[k[1]])
      next(k) == Claim(held(k), o.before[k[1]], o.request[k[1]])
      claimed == {k \in keys : next(k).owned \cup next(k).relinquished # {}}
  IN  [mem |-> [k \in rest \cup claimed |-> IF k \in keys THEN next(k) ELSE mem[k]],
       saved |-> [k \in rest \cup (keys \cap DOMAIN mem) |->
                    IF k \in keys THEN held(k) ELSE mem[k]],
       want |-> [s \in Slot |-> IF \E k \in keys : k[1] = s
                                THEN LET k == CHOOSE k \in keys : k[1] = s IN next(k).desired
                                ELSE Blank]]

\* What a rollback, a restore or a recovery writes, given what it reads.
Goal(cur) ==
  LET e == mem[Here]
      before == op.before[Place]
      want == op.want[Place]
  IN  IF op.kind = "rollback"
      THEN Copy(Matching(Changed(before, want), cur, want, before), cur, before)
      ELSE Copy(Matching(e.owned, cur, e.applied, e.desired), cur, e.original)

\* read_scheduling or read_unit_properties.
Read ==
  /\ op.at = "read"
  /\ \/ /\ inst[Place] # 0
        /\ Observes => Current
        /\ LET o == [op EXCEPT !.before[Place] = field[Place]]
               p == Prepared(o)
           IN  \/ /\ op.kind = "apply" /\ op.idx < Len(op.order)
                  /\ op' = [o EXCEPT !.at = "verify", !.idx = @ + 1] /\ UNCHANGED mem
               \/ /\ op.kind = "apply" /\ op.idx = Len(op.order)
                  /\ mem' = p.mem
                  /\ op' = [o EXCEPT !.at = "persistIntent", !.saved = p.saved, !.want = p.want,
                              !.request = Idle.request]
        /\ UNCHANGED mode
     \/ /\ inst[Place] # 0 /\ op.kind # "apply"
        /\ op' = [op EXCEPT !.at = "open", !.cur = field[Place], !.tgt = Goal(field[Place])]
        /\ UNCHANGED <<mode, mem>>
     \/ StepFails /\ UNCHANGED mem
  /\ UNCHANGED <<scene, worldVars, disk, recovery, crashes>>

\* Mutant: the batch goes on when its journal was not written.
PersistIntentUnchecked ==
  /\ op.at = "persistIntent"
  /\ disk' \in {disk, mem}
  /\ op' = [op EXCEPT !.at = "open", !.idx = 1]
  /\ UNCHANGED <<scene, worldVars, mem, mode, recovery, crashes>>

PersistIntent ==
  /\ op.at = "persistIntent"
  /\ \/ disk' = mem /\ op' = [op EXCEPT !.at = "open", !.idx = 1] /\ UNCHANGED mode
     \/ disk' \in AfterFailure(mem) /\ Degrade
  /\ UNCHANGED <<scene, worldVars, mem, recovery, crashes>>

-----------------------------------------------------------------------------
(* Writing one instance.                                                   *)

\* Where the identity is checked again right before the write.
Rechecks ==
  \/ op.kind = "apply"
  \/ family = "task" /\ op.kind = "rollback"
  \/ family = "unit" /\ op.kind \in {"restore", "recover"}

Wanted == IF op.kind = "apply" THEN op.want[Place] ELSE op.tgt
Nothing == Wanted = IF op.kind = "apply" THEN op.before[Place] ELSE op.cur

\* The last check of the identity, and nothing to do.
Open ==
  /\ op.at = "open"
  /\ \/ /\ Nothing /\ (op.kind # "apply" /\ Rechecks => Current)
        /\ op' = Following(op) /\ UNCHANGED mode
     \/ /\ ~Nothing /\ (Rechecks => Current)
        /\ op' = [op EXCEPT !.at = "original",
                    !.attempted = IF op.kind = "apply" THEN @ \cup {Here} ELSE @]
        /\ UNCHANGED mode
     \/ /\ Rechecks /\ op.kind # "rollback" /\ (op.kind = "apply" => ~Nothing)
        /\ StepFails
     \/ /\ Rechecks /\ op.kind = "rollback"
        /\ \/ Degrade
           \/ ~Current /\ op' = Following(op) /\ UNCHANGED mode
  /\ UNCHANGED <<scene, worldVars, disk, mem, recovery, crashes>>

\* The backend reads what it would take back.
ReadOriginal ==
  /\ op.at = "original" /\ inst[Place] # 0
  /\ op' = [op EXCEPT !.at = "fields", !.base = field[Place],
              !.todo = IF family = "unit" THEN Field ELSE Changed(field[Place], Wanted)]
  /\ UNCHANGED <<scene, worldVars, disk, mem, mode, recovery, crashes>>

\* A process is written field by field, a unit in one call.
WriteFields ==
  /\ op.at = "fields" /\ inst[Place] # 0
  /\ \E F \in IF family = "unit" THEN {op.todo} \ {{}} ELSE {{f} : f \in op.todo} :
       /\ field' = [field EXCEPT ![Place] = Copy(F, @, Wanted)]
       /\ op' = [op EXCEPT !.todo = @ \ F, !.done = @ \cup F]
  /\ stranger' = IF Current THEN stranger ELSE stranger \cup {Place}
  /\ UNCHANGED <<scene, inst, born, others, writes, disk, mem, mode, recovery, crashes>>

\* The value read back is the one written, by the instance that was meant.
ReadBack ==
  /\ op.at = "fields" /\ op.todo = {}
  /\ Current /\ field[Place] = Wanted
  /\ op' = Following(op)
  /\ mem' = IF op.kind = "apply" /\ Here \in DOMAIN mem
            THEN [mem EXCEPT ![Here].applied = Wanted, ![Here].desired = Wanted] ELSE mem
  /\ UNCHANGED <<scene, worldVars, disk, mode, recovery, crashes>>

TakenBack ==
  IF inst[Place] = 0 THEN {{}} ELSE IF family = "unit" THEN {{}, op.done} ELSE SUBSET op.done

\* A call or the readback fails; the backend takes back what it can.
WriteFails ==
  /\ op.at \in {"original", "fields"}
  /\ \E F \in TakenBack :
       /\ field' = [field EXCEPT ![Place] = Copy(F, @, op.base)]
       /\ stranger' = IF Current \/ F = {} THEN stranger ELSE stranger \cup {Place}
  /\ StepFails
  /\ UNCHANGED <<scene, inst, born, others, writes, disk, mem, recovery, crashes>>

\* Mutant: a failed journal write leaves the batch in force.
PersistAppliedKeeps ==
  /\ op.at = "persistApplied"
  /\ disk' \in {disk, mem} /\ mem' = op.saved /\ Return(mode)
  /\ UNCHANGED <<scene, worldVars, recovery, crashes>>

PersistApplied ==
  /\ op.at = "persistApplied"
  /\ \/ disk' = mem /\ Return(mode)
     \/ disk' \in AfterFailure(mem) /\ StartRollback(TRUE)
  /\ UNCHANGED <<scene, worldVars, mem, recovery, crashes>>

Without(j, S) == [k \in DOMAIN j \ S |-> j[k]]

\* The end of a rollback, a restore or a recovery.
Finish ==
  /\ op.at = "finish"
  /\ LET final == CASE op.kind = "rollback" -> op.saved
                    [] op.kind = "restore"  -> Without(mem, ToSet(op.order))
                    [] op.kind = "recover"  -> NoEntries
     IN  \/ /\ ~op.failed /\ ~op.degrades
            /\ disk' = final /\ mem' = final /\ recovery' = FALSE /\ Return(mode)
         \/ /\ ~op.failed /\ ~op.degrades
            /\ disk' \in AfterFailure(final)
            /\ mem' = IF op.kind = "recover" THEN mem ELSE final
            /\ Degrade /\ UNCHANGED recovery
         \/ (op.failed \/ op.degrades) /\ Degrade /\ UNCHANGED <<disk, mem, recovery>>
  /\ UNCHANGED <<scene, worldVars, crashes>>

-----------------------------------------------------------------------------
(* The daemon, the processes and everybody else.                           *)

Crash ==
  /\ op.at # "down" /\ crashes < MaxCrash /\ crashes' = crashes + 1
  /\ op' = [Idle EXCEPT !.at = "down"] /\ mem' = NoEntries
  /\ mode' = "ReadWrite" /\ recovery' = FALSE
  /\ UNCHANGED <<scene, worldVars, disk>>

New ==
  /\ op.at = "down" /\ op' = Idle
  /\ \/ /\ Decodes(disk)
        /\ mem' = disk /\ recovery' = (disk # NoEntries) /\ mode' = "ReadWrite"
     \/ /\ disk # NoEntries
        /\ mem' = NoEntries /\ recovery' = TRUE /\ mode' = "ReadOnlyDegraded"
  /\ UNCHANGED <<scene, worldVars, disk, crashes>>

Exit(s) ==
  /\ inst[s] # 0 /\ born[s] < scene.lives[s] /\ inst' = [inst EXCEPT ![s] = 0]
  /\ field' = [field EXCEPT ![s] = Blank]
  /\ others' = [others EXCEPT ![s] = [f \in Field |-> {Blank[f]}]]
  /\ stranger' = stranger \ {s}
  /\ UNCHANGED <<scene, born, writes, disk, mem, mode, recovery, op, crashes>>

\* The slot is taken again, with whatever the new occupant inherited.
Spawn(s) ==
  /\ inst[s] = 0 /\ born[s] < scene.lives[s]
  /\ born' = [born EXCEPT ![s] = @ + 1] /\ inst' = [inst EXCEPT ![s] = born[s] + 1]
  /\ \E x \in {y \in State : InPlay(s, y)} :
                      /\ field' = [field EXCEPT ![s] = x]
                      /\ others' = [others EXCEPT ![s] = [f \in Field |-> {x[f]}]]
  /\ UNCHANGED <<scene, stranger, writes, disk, mem, mode, recovery, op, crashes>>

Foreign(s, f) ==
  /\ inst[s] # 0 /\ writes < scene.foreign /\ writes' = writes + 1
  /\ \E v \in {w \in Value : w = Blank[f] \/ <<s, f, w>> \in scene.inPlay} \ {field[s][f]} :
       /\ field' = [field EXCEPT ![s][f] = v]
       /\ others' = [others EXCEPT ![s][f] = @ \cup {v}]
  /\ op' = [op EXCEPT !.raced = op.at \notin {"idle", "down"}]
  /\ UNCHANGED <<scene, inst, born, stranger, disk, mem, mode, recovery, crashes>>

-----------------------------------------------------------------------------

Init ==
  /\ scene \in Scenes
  /\ born = [s \in Slot |-> IF scene.lives[s] = 0 THEN 0 ELSE 1] /\ inst = born
  /\ field = [s \in Slot |-> Blank]
  /\ others = [s \in Slot |-> [f \in Field |-> {Blank[f]}]]
  /\ stranger = {} /\ disk = NoEntries /\ mem = NoEntries
  /\ mode = "ReadWrite" /\ recovery = FALSE
  /\ op = [Idle EXCEPT !.at = "down"] /\ crashes = 0 /\ writes = 0

Next ==
  \/ Apply \/ Restore \/ Recover \/ Verify \/ Read \/ PersistIntent \/ Open
  \/ ReadOriginal \/ WriteFields \/ ReadBack \/ WriteFails \/ PersistApplied \/ Finish
  \/ Crash \/ New
  \/ \E s \in Slot : Exit(s) \/ Spawn(s) \/ \E f \in Field : Foreign(s, f)

Spec == Init /\ [][Next]_vars

-----------------------------------------------------------------------------
(* Properties.                                                             *)

Journal(j) == DOMAIN j \subseteq Key /\ \A k \in DOMAIN j : j[k] \in Entry

\* Shape of the state; an operation stays inside its batch and writes only
\* fields it has opened.
TypeOK ==
  /\ \A s \in Slot : born[s] \in 0 .. scene.lives[s] /\ inst[s] \in {0, born[s]}
  /\ field \in [Slot -> State] /\ others \in [Slot -> [Field -> SUBSET Value]]
  /\ stranger \subseteq Slot
  /\ Journal(disk) /\ Journal(mem) /\ Journal(op.start) /\ Journal(op.saved)
  /\ mode \in {"ReadWrite", "ReadOnlyDegraded"} /\ recovery \in BOOLEAN
  /\ op.order \in Seq(Key) /\ op.idx \in 0 .. Len(op.order) + 1
  /\ op.todo \cap op.done = {}

\* Fields of the occupant that hold a value only the daemon chose.  A value
\* that reached an occupant as somebody else is CheckedBeforeWrite's matter.
Dirty(s) == IF inst[s] = 0 \/ s \in stranger THEN {}
            ELSE {f \in Field : field[s][f] \notin others[s][f]}
OwnedBy(j, s) == IF <<s, inst[s]>> \in DOMAIN j THEN j[<<s, inst[s]>>].owned ELSE {}

\* No field of a live process or unit holds a value of the daemon unless the
\* journal file owns that field of that very instance, at any step of any
\* operation, with processes coming and going and others changing fields.
DurableFieldClaim == \A s \in Slot : Dirty(s) \subseteq OwnedBy(disk, s)

\* What would be written back to a live instance is never a value the daemon
\* itself put there, however often fields were claimed, lost and claimed again.
OriginalNotOurs ==
  \A s \in Slot \ stranger : \A f \in OwnedBy(disk, s) :
    disk[<<s, inst[s]>>].original[f] \in others[s][f]

\* The journal is always accepted by its own decoder: a field is never both
\* owned and given up, a unit never has two entries.
JournalDecodes == Decodes(disk)

\* Between operations a writable actuator owns every field only it chose.
NothingLeftBehind == Ready => \A s \in Slot : Dirty(s) \subseteq OwnedBy(mem, s)

\* The journal, the live instances and the operation in flight fit together: the
\* file decodes, owns every value only the daemon chose, and can put back what
\* was there before.
FieldsSound ==
  TypeOK /\ JournalDecodes /\ DurableFieldClaim /\ OriginalNotOurs /\ NothingLeftBehind

\* An administrator's change is final: unless somebody writes in the middle of
\* the operation, no operation touches a field that was given up, nor one whose
\* value is no longer the one the journal knew when the operation began.
AdministratorWins ==
  [][\A s \in Slot : \A f \in Field :
       field'[s][f] # field[s][f] /\ inst' = inst /\ writes' = writes /\ ~op.raced =>
         LET k == <<s, inst[s]>>
         IN  k \in DOMAIN op.start =>
               /\ f \notin op.start[k].relinquished
               /\ f \in op.start[k].owned =>
                    field[s][f] \in {op.start[k].applied[f], op.start[k].desired[f],
                                     op.want[s][f], op.tgt[f]}]_vars
=============================================================================
