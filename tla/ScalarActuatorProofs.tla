------------------------ MODULE ScalarActuatorProofs ------------------------
(***************************************************************************)
(* Proofs about ScalarActuator, for any targets, values, batches, crashes,  *)
(* reboots and writes of others:                                            *)
(*   Spec => ThirdValueUntouched     (ThirdValuesKept), for any kernel;     *)
(*   Spec => []EntriesSound          (SoundEntries),                        *)
(*   Spec => []NothingLeftBehind     (OwnedBetweenOperations) and           *)
(*   Spec => ImplementsOwnership     (ScalarImplementsOwnership) for a      *)
(*     kernel that keeps what it is given (ExactKernel) and a store that    *)
(*     has not replaced the file when it reports a failure (HonestStore);   *)
(*     the runs scalar_rounded and scalar_torn show that both are needed.   *)
(*                                                                          *)
(* The journal on disk always knows every value only the actuator chose     *)
(* (DiskSound).  To keep that through a batch the invariant says which      *)
(* values a target of the batch may hold while it is applied or rolled back *)
(* (ApplySound), and that what a restore or a recovery gives up holds no    *)
(* such value (BackSound).                                                  *)
(***************************************************************************)
EXTENDS ScalarActuator, TLAPS

\* The kernel keeps what it is given; a store that reports a failure has not
\* replaced the file.
ExactKernel == \A v \in Value : Kept[v] \subseteq {v}
HonestStore == \A c \in Scenes : ~c.torn

Batch == ToSet(order)
Known(e) == {e.applied, e.desired}
Live == disk.present /\ disk.boot = boot

\* j knows every value only the actuator chose; its originals are not of these;
\* no entry is half way.
Covers(j) == \A t \in Dirty : t \in j.claims /\ value[t] \in Known(j.entry[t])
Originals(j) == \A t \in j.claims : j.entry[t].original \in foreign[t]
Even(j) == \A t \in j.claims : j.entry[t].applied = j.entry[t].desired

\* Shape of what the kernel and the file, the process and the operation keep.
World ==
  /\ scene \in Scenes
  /\ value \in [Target -> Value] /\ foreign \in [Target -> SUBSET Value]
  /\ boot \in Nat /\ writes \in Nat
  /\ disk \in [present : BOOLEAN, boot : Nat, journal : Journal] /\ disk.boot <= boot
  /\ ~disk.present => disk = NoFile
Process ==
  /\ mem \in Journal
  /\ mode \in {"ReadWrite", "ReadOnlyDegraded"} /\ recovery \in BOOLEAN
  /\ pc \in {"down", "idle", "persistIntent", "write", "check", "persistApplied",
             "rollbackRead", "rollbackWrite", "rollbackCheck", "finish"}
Operation ==
  /\ saved \in Journal
  /\ kind \in {"none", "apply", "restore", "recover"}
  /\ ids \in SUBSET Target /\ order \in Seq(Target) /\ idx \in 0 .. Len(order)
  /\ \A j, k \in 1 .. Len(order) : j # k => order[j] # order[k]
  /\ want \in [Target -> Value] /\ before \in [Target -> Value]
  /\ verdict \in {"none", "abort", "degrade"} /\ failed \in BOOLEAN
Types == World /\ Process /\ Operation

\* An operation is under way exactly outside "idle" and "down".
Busy == pc \notin {"idle", "down"}
Rolling == pc \in {"rollbackRead", "rollbackWrite", "rollbackCheck"}
Control ==
  /\ kind = "none" <=> ~Busy
  /\ ~Busy => saved = EmptyJournal /\ ids = {} /\ order = << >> /\ idx = 0 /\ ~failed
  /\ Busy => mode = "ReadWrite" /\ (recovery <=> kind = "recover")
  /\ kind \in {"restore", "recover"} => pc \in {"persistIntent", "write", "check", "finish"}
  /\ pc \in {"write", "check", "persistApplied"} \/ Rolling => idx >= 1
  /\ pc = "persistIntent" => idx = 0 /\ order # << >>
  /\ pc = "persistApplied" => idx = Len(order)
  /\ pc \in {"persistIntent", "write", "check", "persistApplied"} => ~failed

DiskSound ==
  /\ Live => Covers(disk.journal) /\ Originals(disk.journal)
  /\ ~Live => Dirty = {}

IdleSound ==
  pc = "idle" /\ mode = "ReadWrite" =>
    IF recovery THEN disk.present /\ mem = disk.journal
    ELSE disk = StoredOrRemoved(mem) /\ Even(mem)

\* The journal of an apply with its first n targets settled.
Intents(n) ==
  [claims |-> saved.claims \cup Batch,
   entry |-> [t \in Target |->
     IF t \in Batch
     THEN [original |-> IF t \in saved.claims THEN saved.entry[t].original ELSE before[t],
           desired |-> want[t],
           applied |-> IF \E k \in 1 .. n : order[k] = t THEN want[t] ELSE before[t]]
     ELSE saved.entry[t]]]

\* How many targets of the batch have settled.
Settled == IF pc = "persistApplied" THEN idx ELSE idx - 1

\* An apply began with a sound journal: outside its batch that still holds, and
\* what it read of the batch is in that journal or was chosen by others.
Began ==
  /\ Originals(saved) /\ Even(saved)
  /\ \A t \in Dirty \ Batch : t \in saved.claims /\ value[t] \in Known(saved.entry[t])
  /\ \A t \in Batch : IF t \in saved.claims THEN before[t] \in Known(saved.entry[t])
                      ELSE before[t] \in foreign[t]

\* What the file and the journal in memory say while an apply runs.
Written ==
  /\ pc = "persistIntent" => disk = StoredOrRemoved(saved) /\ mem = Intents(0)
  /\ pc # "persistIntent" => disk = Stored(Intents(0))
  /\ pc \in {"write", "check", "persistApplied"} => mem = Intents(Settled)
  /\ pc = "finish" => mem = saved

\* Which values of the actuator the batch holds: as before, or as wanted where
\* the apply has been; nothing but wanted ones where it settled; none that the
\* old journal does not know once it is rolled back.
Held ==
  /\ pc \in {"write", "check", "persistApplied"} =>
       \A k \in 1 .. Settled : order[k] \in Dirty => value[order[k]] = want[order[k]]
  /\ pc # "finish" /\ ~failed =>
       \A k \in 1 .. Len(order) : order[k] \in Dirty =>
         value[order[k]] = before[order[k]] \/ (k <= idx /\ value[order[k]] = want[order[k]])
  /\ pc = "finish" => Covers(saved)

ApplySound == kind = "apply" => Began /\ Written /\ Held

\* A restore or a recovery began with a sound journal that the file still has
\* the claims of.
BackBegan ==
  /\ Batch \subseteq ids /\ ids \subseteq saved.claims
  /\ kind = "recover" => ids = saved.claims
  /\ kind = "restore" => Even(saved)
  /\ DiskClaims = saved.claims /\ Originals(saved)
  /\ \A t \in Dirty \ ids : t \in saved.claims /\ value[t] \in Known(saved.entry[t])
  /\ \A t \in Batch : want[t] = saved.entry[t].original

\* What the journals say before and after the writes.
BackWritten ==
  /\ pc # "finish" =>
       /\ mem.claims = saved.claims
       /\ \A t \in Target : mem.entry[t].original = saved.entry[t].original
  /\ pc # "finish" \/ kind = "restore" =>
       \A t \in Target \ ids : mem.entry[t] = saved.entry[t]
  /\ pc = "persistIntent" =>
       Covers(mem) /\ \A t \in Batch : mem.entry[t].desired = want[t]
  /\ pc \in {"write", "check"} => Live
  /\ pc = "finish" /\ kind = "restore" => mem.claims = saved.claims \ ids

\* What is given up is clean, but for what the operation still has to write.
BackHeld ==
  /\ pc # "finish" =>
       \A t \in Dirty \cap ids : \E k \in 1 .. Len(order) : k >= idx /\ order[k] = t
  /\ pc = "finish" => Dirty \cap ids = {}

BackSound == kind \in {"restore", "recover"} => BackBegan /\ BackWritten /\ BackHeld

Owner == DiskSound /\ IdleSound /\ ApplySound /\ BackSound
IInv == Types /\ Control /\ Owner

\* While others are quiet, a claimed target is still as the operation found it
\* when its turn comes, and the rollback writes over the batch's own value.
Undisturbed ==
  ~scene.racing =>
    /\ pc \in {"persistIntent", "write", "check"} =>
         \A k \in 1 .. Len(order) :
           /\ order[k] \in saved.claims
           /\ k > idx \/ (k = idx /\ pc # "check")
           => value[order[k]] \in Known(saved.entry[order[k]])
    /\ pc = "rollbackWrite" => value[order[idx]] = want[order[idx]]

-----------------------------------------------------------------------------
(* Journals and orders.                                                     *)

\* The set of a sequence's elements, by positions.
LEMMA ToSetByIndex ==
  ASSUME NEW S, NEW s \in Seq(S)
  PROVE  /\ ToSet(s) \subseteq S
         /\ \A x : x \in ToSet(s) <=> \E k \in 1 .. Len(s) : s[k] = x
  BY DEF ToSet

\* An order is a sequence of its set without repetitions.
LEMMA OrdersTyped ==
  ASSUME NEW S, NEW s \in Orders(S)
  PROVE  /\ s \in Seq(S) /\ Len(s) \in Nat
         /\ \A j, k \in 1 .. Len(s) : j # k => s[j] # s[k]
<1>1. PICK n \in 0 .. Cardinality(S) : s \in [1 .. n -> S]
  BY DEF Orders
<1>2. n \in Nat
  BY <1>1
<1>3. s \in Seq(S) /\ Len(s) = n /\ DOMAIN s = 1 .. n
  BY <1>1, <1>2
<1>. QED BY <1>2, <1>3 DEF Orders

\* The entries of a journal and the parts of an entry.
LEMMA JournalParts ==
  ASSUME NEW j \in Journal
  PROVE  /\ j.claims \subseteq Target
         /\ \A t \in Target : /\ j.entry[t] \in Entry /\ j.entry[t].original \in Value
                              /\ j.entry[t].desired \in Value /\ j.entry[t].applied \in Value
  BY DEF Journal, Entry

\* The journal nobody owns anything in is one.
LEMMA EmptyJournalTyped == EmptyJournal \in Journal /\ EmptyJournal.claims = {}
  BY StartAssumption DEF EmptyJournal, Journal, DefaultEntry, Entry

\* Adding intents keeps a journal one, and this is what it says then.
LEMMA WithIntentsParts ==
  ASSUME NEW j \in Journal, NEW S, S \subseteq Target, NEW w \in [Target -> Value],
         value \in [Target -> Value]
  PROVE  /\ WithIntents(j, S, w) \in Journal
         /\ WithIntents(j, S, w).claims = j.claims \cup S
<1>1. \A t \in S : [original |-> IF t \in j.claims THEN j.entry[t].original ELSE value[t],
                    desired |-> w[t], applied |-> value[t]] \in Entry
  BY JournalParts DEF Entry
<1>. QED BY <1>1, JournalParts DEF WithIntents, Journal

\* The intent of a batch in the journal, entry by entry.
LEMMA WithIntentsEntry ==
  ASSUME NEW j, NEW S, NEW w, NEW t \in Target
  PROVE  /\ t \notin S => WithIntents(j, S, w).entry[t] = j.entry[t]
         /\ t \in S =>
              /\ WithIntents(j, S, w).entry[t].original =
                   IF t \in j.claims THEN j.entry[t].original ELSE value[t]
              /\ WithIntents(j, S, w).entry[t].desired = w[t]
              /\ WithIntents(j, S, w).entry[t].applied = value[t]
<1>. DEFINE o == IF t \in j.claims THEN j.entry[t].original ELSE value[t]
            e == [original |-> o, desired |-> w[t], applied |-> value[t]]
<1>1. WithIntents(j, S, w).entry[t] = IF t \in S THEN e ELSE j.entry[t]
  BY DEF WithIntents
<1>. HIDE DEF o
<1>2. e.original = o /\ e.desired = w[t] /\ e.applied = value[t]
  OBVIOUS
<1>. HIDE DEF e
<1>. QED BY <1>1, <1>2 DEF o

\* Giving targets up keeps a journal one, and this is what it says then.
LEMMA WithoutParts ==
  ASSUME NEW j \in Journal, NEW S, S \subseteq Target
  PROVE  /\ Without(j, S) \in Journal
         /\ Without(j, S).claims = j.claims \ S
         /\ \A t \in Target \ S : Without(j, S).entry[t] = j.entry[t]
<1>1. \A t \in Target : DefaultEntry(t) \in Entry
  BY StartAssumption DEF DefaultEntry, Entry
<1>. QED BY <1>1, JournalParts DEF Without, Journal

\* What settling a target makes of the journal.
LEMMA SettleParts ==
  ASSUME NEW t \in Target, mem \in Journal, want \in [Target -> Value]
  PROVE  /\ Settle(t) \in Journal
         /\ Settle(t).claims = mem.claims
         /\ \A u \in Target \ {t} : Settle(t).entry[u] = mem.entry[u]
         /\ Settle(t).entry[t] = [original |-> mem.entry[t].original,
                                  desired |-> want[t], applied |-> want[t]]
<1>. DEFINE e == mem.entry[t]
            g == [e EXCEPT !.applied = want[t]]
            f == [g EXCEPT !.desired = want[t]]
<1>1. e \in Entry /\ want[t] \in Value
  BY JournalParts
<1>2. f = [original |-> e.original, desired |-> want[t], applied |-> want[t]] /\ f \in Entry
  <2>. HIDE DEF e
  <2>1. e = [original |-> e.original, desired |-> e.desired, applied |-> e.applied]
        /\ e.original \in Value
    BY <1>1 DEF Entry
  <2>2. g = [original |-> e.original, desired |-> e.desired, applied |-> want[t]]
    BY <2>1
  <2>. HIDE DEF g
  <2>3. f = [original |-> e.original, desired |-> want[t], applied |-> want[t]]
    BY <2>2
  <2>. QED BY <1>1, <2>1, <2>3 DEF Entry
<1>3. mem = [claims |-> mem.claims, entry |-> mem.entry] /\ mem.entry \in [Target -> Entry]
      /\ mem.claims \in SUBSET Target
  BY DEF Journal
<1>4. Settle(t) = [mem EXCEPT !.entry[t] = f]
  <2>1. [mem EXCEPT !.entry[t].applied = want[t]]
          = [mem EXCEPT !.entry[t] = [e EXCEPT !.applied = want[t]]]
    BY <1>1, <1>3
  <2>. QED BY <1>1, <1>3, <2>1 DEF Settle, Entry
<1>. HIDE DEF f
<1>5. Settle(t) = [claims |-> mem.claims, entry |-> [mem.entry EXCEPT ![t] = f]]
  BY <1>3, <1>4
<1>6. [mem.entry EXCEPT ![t] = f] \in [Target -> Entry]
  BY <1>2, <1>3
<1>. QED BY <1>2, <1>3, <1>5, <1>6 DEF Journal

-----------------------------------------------------------------------------
(* Types and control.                                                       *)

\* The target of the current step is one of the batch.
LEMMA CurrentTarget ==
  ASSUME Operation, idx >= 1
  PROVE  /\ idx \in 1 .. Len(order) /\ Len(order) \in Nat
         /\ order[idx] \in Target /\ order[idx] \in Batch
         /\ want[order[idx]] \in Value /\ before[order[idx]] \in Value
<1>1. idx \in 1 .. Len(order) /\ Len(order) \in Nat /\ order \in Seq(Target)
  BY DEF Operation
<1>2. order[idx] \in Target
  BY <1>1
<1>. QED BY <1>1, <1>2, ToSetByIndex DEF Operation, Batch

\* What an operation leaves behind.
LEMMA ClearTyped ==
  ASSUME Clear
  PROVE  Operation'
<1>1. EmptyJournal \in Journal /\ Start \in [Target -> Value]
  BY EmptyJournalTyped, StartAssumption
<1>2. \A j, k \in 1 .. Len(order') : FALSE
  BY DEF Clear
<1>3. order' \in Seq(Target) /\ idx' \in 0 .. Len(order')
  BY DEF Clear
<1>. QED BY <1>1, <1>2, <1>3 DEF Clear, Operation

\* A file that was written is one.
LEMMA StoredTyped ==
  ASSUME boot \in Nat, NEW j \in Journal
  PROVE  /\ Stored(j) \in [present : BOOLEAN, boot : Nat, journal : Journal]
         /\ Stored(j).present /\ Stored(j).boot = boot /\ Stored(j).journal = j
  BY DEF Stored

\* So is one that is not there.
LEMMA NoFileTyped ==
  /\ NoFile \in [present : BOOLEAN, boot : Nat, journal : Journal]
  /\ ~NoFile.present /\ NoFile.boot = 0
  BY EmptyJournalTyped DEF NoFile

\* Replacing the file, or failing to, keeps the world typed.
LEMMA FileTyped ==
  ASSUME World, UNCHANGED <<scene, kernelVars>>, NEW j \in Journal,
         disk' \in {disk, Stored(j), NoFile, StoredOrRemoved(j)}
  PROVE  World'
<1>1. boot \in Nat /\ boot' = boot /\ scene' = scene /\ value' = value /\ foreign' = foreign
      /\ writes' = writes
  BY DEF World, kernelVars
<1>2. disk' \in {disk, Stored(j), NoFile}
  BY DEF StoredOrRemoved
<1>3. CASE disk' = disk
  BY <1>1, <1>3 DEF World
<1>4. CASE disk' = Stored(j)
  <2>1. disk' \in [present : BOOLEAN, boot : Nat, journal : Journal] /\ disk'.boot <= boot
        /\ disk'.present
    BY <1>1, <1>4, StoredTyped
  <2>. QED BY <1>1, <2>1 DEF World
<1>5. CASE disk' = NoFile
  <2>1. disk' \in [present : BOOLEAN, boot : Nat, journal : Journal] /\ disk'.boot <= boot
    BY <1>1, <1>5, NoFileTyped
  <2>. QED BY <1>1, <1>5, <2>1 DEF World, NoFile
<1>. QED BY <1>2, <1>3, <1>4, <1>5

\* Writing a value keeps the world typed.
LEMMA ValueTyped ==
  ASSUME World, UNCHANGED <<scene, boot, disk>>, NEW t \in Target, NEW v \in Value,
         value' = [value EXCEPT ![t] = v], writes' \in {writes, writes + 1},
         foreign' \in {foreign, [foreign EXCEPT ![t] = @ \cup {v}]}
  PROVE  World'
<1>1. value' \in [Target -> Value]
  BY DEF World
<1>2. foreign' \in [Target -> SUBSET Value]
  BY DEF World
<1>. QED BY <1>1, <1>2 DEF World, NoFile

\* The journal of a restore or a recovery with the way back.
LEMMA GiveBackTyped ==
  ASSUME Types, NEW k \in {"restore", "recover"}, NEW S, S \subseteq mem.claims, GiveBack(k, S)
  PROVE  /\ Types'
         /\ order' \in Seq(BackWrites(S))
         /\ ToSet(order') = BackWrites(S) /\ BackWrites(S) \subseteq S
         /\ want' \in [Target -> Value]
         /\ \A t \in BackWrites(S) : want'[t] = mem.entry[t].original
         /\ mem' = IF order' = << >> /\ k = "restore"
                   THEN Without(WithIntents(mem, BackWrites(S), want'), S)
                   ELSE WithIntents(mem, BackWrites(S), want')
         /\ pc' = IF order' = << >> THEN "finish" ELSE "persistIntent"
<1>. DEFINE B == BackWrites(S)
<1>1. B \subseteq S /\ S \subseteq Target /\ B \subseteq Target /\ mem \in Journal
      /\ value \in [Target -> Value]
  BY JournalParts DEF BackWrites, Types, World, Process
<1>2. PICK s \in Orders(B) :
        /\ ToSet(s) = B
        /\ order' = s
        /\ want' = [t \in Target |-> IF t \in ToSet(s) THEN mem.entry[t].original ELSE Start[t]]
        /\ mem' = IF s = << >> /\ k = "restore"
                  THEN Without(WithIntents(mem, ToSet(s), want'), S)
                  ELSE WithIntents(mem, ToSet(s), want')
        /\ pc' = IF s = << >> THEN "finish" ELSE "persistIntent"
  BY DEF GiveBack
<1>. HIDE DEF B
<1>3. /\ s \in Seq(B) /\ s \in Seq(Target) /\ Len(s) \in Nat
      /\ \A i, j \in 1 .. Len(s) : i # j => s[i] # s[j]
  BY <1>1, OrdersTyped
<1>4. want' \in [Target -> Value] /\ \A t \in B : want'[t] = mem.entry[t].original
  <2>1. \A t \in Target : mem.entry[t].original \in Value /\ Start[t] \in Value
    BY <1>1, JournalParts, StartAssumption
  <2>. QED BY <1>1, <1>2, <2>1
<1>5. WithIntents(mem, B, want') \in Journal
  BY <1>1, <1>4, WithIntentsParts
<1>6. mem' \in Journal
  BY <1>1, <1>2, <1>5, WithoutParts
<1>7. World'
  BY DEF GiveBack, Types, World, kernelVars, NoFile
<1>8. Process'
  BY <1>2, <1>6 DEF GiveBack, Types, Process
<1>9. Operation'
  <2>1. idx' \in 0 .. Len(order')
    BY <1>2, <1>3 DEF GiveBack
  <2>2. ids' \in SUBSET Target
    BY <1>1 DEF GiveBack
  <2>3. \A i, j \in 1 .. Len(order') : i # j => order'[i] # order'[j]
    BY <1>2, <1>3
  <2>4. saved' \in Journal /\ before' \in [Target -> Value]
    BY <1>1, StartAssumption DEF GiveBack
  <2>5. kind' \in {"none", "apply", "restore", "recover"} /\ verdict' \in {"none", "abort", "degrade"}
        /\ failed' \in BOOLEAN
    BY DEF GiveBack
  <2>. QED BY <1>2, <1>3, <1>4, <2>1, <2>2, <2>3, <2>4, <2>5 DEF Operation
<1>10. Types'
  BY <1>7, <1>8, <1>9 DEF Types
<1>. QED BY <1>1, <1>2, <1>3, <1>4, <1>10 DEF B

\* Every step keeps the shape of the state.
LEMMA TypesStep ==
  ASSUME Types, Control, [Next]_vars
  PROVE  Types'
<1>. USE DEF Types
<1>0. boot \in Nat /\ mem \in Journal /\ saved \in Journal /\ EmptyJournal \in Journal
      /\ disk.journal \in Journal
  BY EmptyJournalTyped DEF World, Process, Operation
<1>1. CASE Apply
  <2>1. PICK s \in Orders(scene.targets) : \E r \in [ToSet(s) -> Value] :
          LET w == [t \in Target |-> IF t \in ToSet(s) THEN r[t] ELSE Start[t]]
          IN  /\ mem' = WithIntents(mem, ToSet(s), w)
              /\ order' = s /\ want' = w
              /\ before' = [t \in Target |-> IF t \in ToSet(s) THEN value[t] ELSE Start[t]]
    BY <1>1 DEF Apply
  <2>2. PICK r \in [ToSet(s) -> Value] :
          /\ want' = [t \in Target |-> IF t \in ToSet(s) THEN r[t] ELSE Start[t]]
          /\ mem' = WithIntents(mem, ToSet(s), want')
          /\ order' = s
          /\ before' = [t \in Target |-> IF t \in ToSet(s) THEN value[t] ELSE Start[t]]
    BY <2>1
  <2>3. scene.targets \subseteq Target
    BY ScalarScenes DEF World
  <2>4. /\ s \in Seq(Target) /\ Len(s) \in Nat
        /\ \A i, j \in 1 .. Len(s) : i # j => s[i] # s[j]
    BY <2>3, OrdersTyped
  <2>5. ToSet(s) \subseteq Target
    BY <2>4, ToSetByIndex
  <2>6. want' \in [Target -> Value] /\ before' \in [Target -> Value]
    BY <2>2, <2>5, StartAssumption DEF World
  <2>7. mem' \in Journal
    BY <2>2, <2>5, <2>6, <1>0, WithIntentsParts DEF World
  <2>8. World'
    BY <1>1 DEF Apply, kernelVars, World, NoFile
  <2>9. Process'
    BY <1>1, <2>7 DEF Apply, Process
  <2>10. idx' \in 0 .. Len(order')
    BY <1>1, <2>2, <2>4 DEF Apply
  <2>11. \A i, j \in 1 .. Len(order') : i # j => order'[i] # order'[j]
    BY <2>2, <2>4
  <2>12. saved' \in Journal /\ kind' = "apply" /\ ids' = {} /\ verdict' = "none" /\ failed' = FALSE
    BY <1>1, <1>0 DEF Apply
  <2>13. Operation'
    BY <2>2, <2>4, <2>6, <2>10, <2>11, <2>12 DEF Operation
  <2>. QED BY <2>8, <2>9, <2>13
<1>2. CASE Restore
  BY <1>2, GiveBackTyped DEF Restore
<1>3. CASE Recover
  BY <1>3, GiveBackTyped DEF Recover
<1>4. CASE Unreadable
  <2>1. PICK S \in SUBSET mem.claims :
          mem' = WithIntents(mem, BackWrites(S), [t \in Target |-> mem.entry[t].original])
    BY <1>4 DEF Unreadable
  <2>2. BackWrites(S) \subseteq Target /\ [t \in Target |-> mem.entry[t].original] \in [Target -> Value]
    BY <1>0, JournalParts DEF BackWrites
  <2>3. mem' \in Journal
    BY <1>0, <2>1, <2>2, WithIntentsParts DEF World
  <2>4. World'
    BY <1>4 DEF Unreadable, World, kernelVars, NoFile
  <2>5. Process' /\ Operation'
    BY <1>4, <2>3, ClearTyped DEF Unreadable, Degrade, Return, Process
  <2>. QED BY <2>4, <2>5
<1>5. CASE DiscardStale
  <2>1. disk' \in {disk, NoFile}
    BY <1>5 DEF DiscardStale, AfterFailure
  <2>2. World'
    BY <1>0, <1>5, <2>1, FileTyped DEF DiscardStale
  <2>3. Process' /\ Operation'
    BY <1>0, <1>5, ClearTyped DEF DiscardStale, Degrade, Return, Process
  <2>. QED BY <2>2, <2>3
<1>6. CASE PersistIntent
  <2>1. disk' \in {disk, Stored(mem)}
    BY <1>6 DEF PersistIntent, AfterFailure
  <2>2. World'
    BY <1>0, <1>6, <2>1, FileTyped DEF PersistIntent
  <2>3. CASE Degrade
    <3>1. mem' \in Journal /\ recovery' = recovery
      BY <1>0, <1>6 DEF PersistIntent
    <3>2. Operation'
      BY <2>3, ClearTyped DEF Degrade, Return
    <3>3. Process'
      BY <2>3, <3>1 DEF Degrade, Return, Process
    <3>. QED BY <2>2, <3>2, <3>3
  <2>4. CASE /\ pc' = "write" /\ idx' = 1
             /\ UNCHANGED <<mem, mode, kind, ids, order, want, before, verdict, failed, saved>>
    <3>1. order # << >> /\ order' = order /\ order \in Seq(Target)
      BY <1>6, <2>4 DEF PersistIntent, Control, Operation
    <3>2. idx' \in 0 .. Len(order')
      BY <2>4, <3>1
    <3>. QED BY <1>6, <2>2, <2>4, <3>1, <3>2 DEF PersistIntent, Process, Operation
  <2>. QED BY <1>6, <2>3, <2>4 DEF PersistIntent
<1>7. ASSUME UNCHANGED <<scene, kernelVars, disk>>, Degrade, mem' \in Journal, recovery' = recovery
      PROVE  Types'
  <2>1. World'
    BY <1>7 DEF World, kernelVars, NoFile
  <2>2. Operation'
    BY <1>7, ClearTyped DEF Degrade, Return
  <2>3. Process'
    BY <1>7 DEF Degrade, Return, Process
  <2>. QED BY <2>1, <2>2, <2>3
<1>8. ASSUME Process', World', idx' \in 0 .. Len(order), verdict' \in {"none", "abort", "degrade"},
             failed' \in BOOLEAN, UNCHANGED <<kind, ids, order, want, before, saved>>
      PROVE  Types'
  BY <1>8 DEF Operation
<1>9. ASSUME NEW k \in 0 .. Len(order), NEW v \in {"none", "abort", "degrade"},
             StartRollback(k, v), mem' \in Journal, recovery' = recovery, World'
      PROVE  Types'
  <2>1. Process'
    BY <1>9 DEF StartRollback, Process
  <2>2. failed' \in BOOLEAN
    BY <1>9 DEF StartRollback, Operation
  <2>. QED BY <1>8, <1>9, <2>1, <2>2 DEF StartRollback
<1>10. Len(order) \in Nat /\ idx \in 0 .. Len(order) /\ verdict \in {"none", "abort", "degrade"}
       /\ failed \in BOOLEAN
  BY DEF Operation
<1>11. ASSUME UNCHANGED <<scene, kernelVars, disk>>, Abort, mem' = mem, recovery' = recovery
       PROVE  Types'
  <2>1. World'
    BY <1>11 DEF World, kernelVars, NoFile
  <2>. QED BY <1>0, <1>7, <1>9, <1>10, <1>11, <2>1 DEF Abort
<1>12. CASE Write
  <2>1. CASE Abort /\ UNCHANGED value
    BY <1>11, <1>12, <2>1 DEF Write, kernelVars
  <2>2. CASE /\ \E v \in Kept[want[order[idx]]] : value' = [value EXCEPT ![order[idx]] = v]
             /\ pc' = "check"
             /\ UNCHANGED <<mode, opVars>>
    <3>1. order[idx] \in Target /\ want[order[idx]] \in Value
      BY <1>12, CurrentTarget DEF Write, Control
    <3>2. Kept[want[order[idx]]] \subseteq Value
      BY <3>1, KeptAssumption
    <3>3. World'
      BY <1>12, <2>2, <3>1, <3>2, ValueTyped DEF Write
    <3>4. Process'
      BY <1>12, <2>2 DEF Write, Process
    <3>5. Operation'
      BY <2>2 DEF Operation, opVars
    <3>. QED BY <3>3, <3>4, <3>5
  <2>. QED BY <1>12, <2>1, <2>2 DEF Write
<1>13. CASE Check
  <2>1. CASE Abort /\ UNCHANGED mem
    BY <1>11, <1>13, <2>1 DEF Check
  <2>2. CASE ~(Abort /\ UNCHANGED mem)
    <3>1. order[idx] \in Target
      BY <1>13, CurrentTarget DEF Check, Control
    <3>2. Settle(order[idx]) \in Journal
      BY <1>0, <3>1, SettleParts DEF Operation
    <3>3. Without(mem, ids) \in Journal
      BY <1>0, WithoutParts DEF Operation
    <3>4. mem' \in Journal
      <4>1. kind \in {"apply", "restore", "recover"}
        BY <1>13 DEF Check, Control, Busy, Operation
      <4>2. CASE mem' = IF kind = "apply" THEN Settle(order[idx]) ELSE mem
        BY <1>0, <3>2, <4>2
      <4>3. CASE mem' = CASE kind = "apply"   -> Settle(order[idx])
                          [] kind = "restore" -> Without(mem, ids)
                          [] kind = "recover" -> mem
        BY <1>0, <3>2, <3>3, <4>1, <4>3
      <4>. QED BY <1>13, <2>2, <4>2, <4>3 DEF Check
    <3>5. World'
      BY <1>13 DEF Check, World, kernelVars, NoFile
    <3>6. Process'
      BY <1>13, <2>2, <3>4 DEF Check, Process
    <3>7. idx' \in 0 .. Len(order)
      BY <1>10, <1>13, <2>2 DEF Check
    <3>. QED BY <1>8, <1>10, <1>13, <2>2, <3>5, <3>6, <3>7 DEF Check
  <2>. QED BY <2>1, <2>2
<1>14. CASE PersistApplied
  <2>1. disk' \in {disk, Stored(mem)}
    BY <1>14 DEF PersistApplied, AfterFailure
  <2>2. World'
    BY <1>0, <1>14, <2>1, FileTyped DEF PersistApplied
  <2>3. CASE Return(mode)
    BY <1>14, <2>2, <2>3, ClearTyped DEF PersistApplied, Return, Process
  <2>4. CASE StartRollback(Len(order), "degrade")
    BY <1>0, <1>9, <1>10, <1>14, <2>2, <2>4 DEF PersistApplied
  <2>. QED BY <1>14, <2>3, <2>4 DEF PersistApplied
<1>15. ASSUME NEW bad \in BOOLEAN, RollbackNext(bad), UNCHANGED <<scene, kernelVars, disk, recovery>>
       PROVE  Types'
  <2>1. World'
    BY <1>15 DEF World, kernelVars, NoFile
  <2>2. CASE Degrade /\ UNCHANGED mem
    BY <1>0, <1>7, <1>15, <2>2
  <2>3. CASE ~(Degrade /\ UNCHANGED mem)
    <3>1. Process'
      BY <1>0, <1>15, <2>3 DEF RollbackNext, Process
    <3>2. idx' \in 0 .. Len(order) /\ verdict' = verdict /\ failed' \in BOOLEAN
      BY <1>10, <1>15, <2>3 DEF RollbackNext
    <3>. QED BY <1>8, <1>10, <1>15, <2>1, <2>3, <3>1, <3>2 DEF RollbackNext
  <2>. QED BY <2>2, <2>3
<1>16. CASE RollbackRead
  <2>1. CASE pc' = "rollbackWrite" /\ UNCHANGED <<mode, mem, opVars>>
    BY <1>16, <2>1 DEF RollbackRead, World, Process, Operation, kernelVars, opVars, NoFile
  <2>2. CASE RollbackNext(failed) \/ RollbackNext(TRUE)
    BY <1>10, <1>15, <1>16, <2>2 DEF RollbackRead
  <2>. QED BY <1>16, <2>1, <2>2 DEF RollbackRead
<1>17. CASE RollbackWrite
  <2>1. CASE RollbackNext(TRUE) /\ UNCHANGED value
    BY <1>15, <1>17, <2>1 DEF RollbackWrite, kernelVars
  <2>2. CASE /\ \E v \in Kept[before[order[idx]]] : value' = [value EXCEPT ![order[idx]] = v]
             /\ pc' = "rollbackCheck"
             /\ UNCHANGED <<mode, mem, opVars>>
    <3>1. order[idx] \in Target /\ before[order[idx]] \in Value
      BY <1>17, CurrentTarget DEF RollbackWrite, Control, Rolling
    <3>2. Kept[before[order[idx]]] \subseteq Value
      BY <3>1, KeptAssumption
    <3>3. World'
      BY <1>17, <2>2, <3>1, <3>2, ValueTyped DEF RollbackWrite
    <3>4. Process'
      BY <1>17, <2>2 DEF RollbackWrite, Process
    <3>5. Operation'
      BY <2>2 DEF Operation, opVars
    <3>. QED BY <3>3, <3>4, <3>5
  <2>. QED BY <1>17, <2>1, <2>2 DEF RollbackWrite
<1>18. CASE RollbackCheck
  BY <1>10, <1>15, <1>18 DEF RollbackCheck
<1>19. CASE Finish
  <2>1. FinalJournal \in Journal
    BY <1>0 DEF FinalJournal
  <2>2. disk' \in {disk, StoredOrRemoved(FinalJournal)}
    BY <1>19 DEF Finish, AfterFailure
  <2>3. World'
    BY <1>19, <2>1, <2>2, FileTyped DEF Finish
  <2>4. Clear /\ mem' \in Journal
    BY <1>0, <1>19, <2>1 DEF Finish, Return, Degrade
  <2>5. Process'
    BY <1>19, <2>4 DEF Finish, Return, Degrade, Process
  <2>. QED BY <2>3, <2>4, <2>5, ClearTyped
<1>20. CASE Crash
  <2>1. World'
    BY <1>20 DEF Crash, World, kernelVars, NoFile
  <2>. QED BY <1>0, <1>20, <2>1, ClearTyped DEF Crash, Down, Process
<1>21. CASE Reboot
  <2>1. value' \in [Target -> Value] /\ foreign' \in [Target -> SUBSET Value]
    BY <1>21, StartAssumption DEF Reboot
  <2>2. disk' \in [present : BOOLEAN, boot : Nat, journal : Journal] /\ disk'.boot <= boot'
        /\ boot' \in Nat /\ scene' = scene /\ writes' \in Nat
    BY <1>21, NoFileTyped DEF Reboot, World
  <2>3. ~disk'.present => disk' = NoFile
    BY <1>21 DEF Reboot, World
  <2>4. World'
    BY <2>1, <2>2, <2>3 DEF World, NoFile
  <2>. QED BY <1>0, <1>21, <2>4, ClearTyped DEF Reboot, Down, Process
<1>22. CASE New
  <2>1. World' /\ Operation'
    BY <1>22 DEF New, World, Operation, kernelVars, opVars, NoFile
  <2>2. Process'
    BY <1>0, <1>22 DEF New, World, Process
  <2>. QED BY <2>1, <2>2
<1>23. CASE \E t \in scene.targets : Foreign(t)
  <2>1. PICK t \in scene.targets : Foreign(t)
    BY <1>23
  <2>2. t \in Target
    BY ScalarScenes DEF World
  <2>3. PICK v \in Value : value' = [value EXCEPT ![t] = v] /\ foreign' = [foreign EXCEPT ![t] = @ \cup {v}]
    BY <2>1 DEF Foreign
  <2>4. World'
    BY <2>1, <2>2, <2>3, ValueTyped DEF Foreign
  <2>. QED BY <2>1, <2>4 DEF Foreign, Process, Operation, opVars
<1>24. CASE UNCHANGED vars
  BY <1>24 DEF vars, World, Process, Operation, NoFile
<1>. QED BY <1>1, <1>2, <1>3, <1>4, <1>5, <1>6, <1>12, <1>13, <1>14, <1>16, <1>17, <1>18, <1>19,
            <1>20, <1>21, <1>22, <1>23, <1>24 DEF Next

\* Every step keeps the control.
LEMMA ControlStep ==
  ASSUME Types, Control, [Next]_vars
  PROVE  Control'
<1>. USE DEF Busy, Rolling
<1>1. ASSUME Clear, pc' \in {"idle", "down"}
      PROVE  Control'
  BY <1>1 DEF Clear, Control
<1>2. Len(order) \in Nat /\ idx \in 0 .. Len(order) /\ failed \in BOOLEAN /\ recovery \in BOOLEAN
      /\ kind \in {"none", "apply", "restore", "recover"}
  BY DEF Types, Operation, Process
<1>3. ASSUME StartRollback(idx, "abort"), idx >= 1, ~failed, kind = "apply", mode = "ReadWrite",
             recovery' = recovery, ~recovery
      PROVE  Control'
  BY <1>3 DEF StartRollback, Control
<1>4. ASSUME Abort, idx >= 1, ~failed, Busy, recovery' = recovery
      PROVE  Control'
  BY <1>1, <1>2, <1>3, <1>4 DEF Abort, Degrade, Return, Control
<1>5. CASE Apply
  <2>1. order' # << >>
    BY <1>5 DEF Apply
  <2>. QED BY <1>5, <2>1 DEF Apply, Ready, Control
<1>6. ASSUME NEW k \in {"restore", "recover"}, NEW S, GiveBack(k, S), pc = "idle", mode = "ReadWrite",
             recovery <=> k = "recover"
      PROVE  Control'
  <2>1. pc' = IF order' = << >> THEN "finish" ELSE "persistIntent"
    BY <1>6 DEF GiveBack
  <2>. QED BY <1>2, <1>6, <2>1 DEF GiveBack, Control
<1>7. CASE Restore
  BY <1>6, <1>7 DEF Restore, Ready
<1>8. CASE Recover
  BY <1>6, <1>8 DEF Recover, NeedsRecovery
<1>9. CASE Unreadable \/ DiscardStale \/ Crash \/ Reboot
  BY <1>1, <1>9 DEF Unreadable, DiscardStale, Crash, Reboot, Degrade, Return, Down
<1>10. CASE PersistIntent
  BY <1>1, <1>10 DEF PersistIntent, Degrade, Return, Control
<1>11. CASE Write
  <2>1. CASE Abort
    BY <1>4, <1>11, <2>1 DEF Write, Control
  <2>2. CASE pc' = "check" /\ UNCHANGED <<mode, opVars>>
    BY <1>11, <2>2 DEF Write, opVars, Control
  <2>. QED BY <1>11, <2>1, <2>2 DEF Write
<1>12. CASE Check
  <2>1. CASE Abort
    BY <1>4, <1>12, <2>1 DEF Check, Control
  <2>2. CASE ~Abort
    BY <1>2, <1>12, <2>2 DEF Check, Control
  <2>. QED BY <2>1, <2>2
<1>13. CASE PersistApplied
  <2>1. CASE Return(mode)
    BY <1>1, <2>1 DEF Return
  <2>2. CASE StartRollback(Len(order), "degrade")
    BY <1>2, <1>13, <2>2 DEF PersistApplied, StartRollback, Control
  <2>. QED BY <1>13, <2>1, <2>2 DEF PersistApplied
<1>14. ASSUME NEW bad \in BOOLEAN, RollbackNext(bad), recovery' = recovery, Rolling
       PROVE  Control'
  <2>1. CASE Degrade
    BY <1>1, <2>1 DEF Degrade, Return
  <2>2. CASE ~Degrade
    BY <1>2, <1>14, <2>2 DEF RollbackNext, Control
  <2>. QED BY <2>1, <2>2
<1>15. CASE RollbackRead
  <2>1. CASE pc' = "rollbackWrite" /\ UNCHANGED <<mode, mem, opVars>>
    BY <1>15, <2>1 DEF RollbackRead, opVars, Control
  <2>2. CASE RollbackNext(failed) \/ RollbackNext(TRUE)
    BY <1>2, <1>14, <1>15, <2>2 DEF RollbackRead
  <2>. QED BY <1>15, <2>1, <2>2 DEF RollbackRead
<1>16. CASE RollbackWrite
  <2>1. CASE RollbackNext(TRUE)
    BY <1>14, <1>16, <2>1 DEF RollbackWrite
  <2>2. CASE pc' = "rollbackCheck" /\ UNCHANGED <<mode, mem, opVars>>
    BY <1>16, <2>2 DEF RollbackWrite, opVars, Control
  <2>. QED BY <1>16, <2>1, <2>2 DEF RollbackWrite
<1>17. CASE RollbackCheck
  BY <1>2, <1>14, <1>17 DEF RollbackCheck
<1>18. CASE Finish
  BY <1>1, <1>18 DEF Finish, Degrade, Return
<1>19. CASE New
  BY <1>19 DEF New, opVars, Control
<1>20. CASE \E t \in scene.targets : Foreign(t)
  BY <1>20 DEF Foreign, opVars, Control
<1>21. CASE UNCHANGED vars
  BY <1>21 DEF vars, Control
<1>. QED BY <1>5, <1>7, <1>8, <1>9, <1>10, <1>11, <1>12, <1>13, <1>15, <1>16, <1>17, <1>18, <1>19,
            <1>20, <1>21 DEF Next

-----------------------------------------------------------------------------
(* The values of others, for any kernel and any store.                      *)

\* Every step leaves a third value undisturbed, on any kernel and any store.
LEMMA UndisturbedStep ==
  ASSUME Types, Control, Undisturbed, [Next]_vars
  PROVE  Undisturbed'
<1>. USE DEF Known
<1>1. scene' = scene
  BY DEF Next, vars, Apply, Restore, Recover, GiveBack, Unreadable, DiscardStale, PersistIntent, Write,
         Check, PersistApplied, RollbackRead, RollbackWrite, RollbackCheck, Finish, Crash, Reboot,
         New, Foreign
<1>2. SUFFICES ASSUME ~scene.racing PROVE Undisturbed'
  BY <1>1 DEF Undisturbed
<1>3. ASSUME pc' \notin {"persistIntent", "write", "check", "rollbackWrite"}
      PROVE  Undisturbed'
  BY <1>3 DEF Undisturbed
<1>4. Len(order) \in Nat /\ idx \in 0 .. Len(order) /\ order \in Seq(Target)
  BY DEF Types, Operation
<1>5. CASE Apply
  <2>1. PICK s \in Orders(scene.targets) :
          /\ \A t \in ToSet(s) : t \in mem.claims => StillOwned(t)
          /\ order' = s
    BY <1>5 DEF Apply
  <2>2. \A k \in 1 .. Len(s) : s[k] \in ToSet(s)
    BY OrdersTyped, ToSetByIndex
  <2>. QED BY <1>5, <2>1, <2>2 DEF Apply, Undisturbed, StillOwned, kernelVars
<1>6. ASSUME NEW k \in {"restore", "recover"}, NEW S, S \subseteq mem.claims, GiveBack(k, S)
      PROVE  Undisturbed'
  <2>1. order' \in Seq(BackWrites(S)) /\ pc' \in {"finish", "persistIntent"}
    BY <1>6, GiveBackTyped
  <2>2. \A i \in 1 .. Len(order') : StillOwned(order'[i])
    BY <2>1 DEF BackWrites
  <2>. QED BY <1>6, <2>1, <2>2 DEF GiveBack, Undisturbed, StillOwned, kernelVars
<1>7. CASE Restore
  BY <1>6, <1>7 DEF Restore
<1>8. CASE Recover
  BY <1>6, <1>8 DEF Recover
<1>9. CASE Unreadable \/ DiscardStale \/ PersistApplied \/ RollbackCheck \/ Finish \/ Crash \/ Reboot \/ New
  BY <1>3, <1>9 DEF Unreadable, DiscardStale, PersistApplied, RollbackCheck, Finish, Crash, Reboot,
       New, Degrade, Return, Down, StartRollback, RollbackNext
<1>10. CASE PersistIntent
  <2>1. CASE pc' = "idle"
    BY <1>3, <2>1
  <2>2. CASE pc' # "idle"
    BY <1>4, <1>10, <2>2 DEF PersistIntent, Degrade, Return, Control, Undisturbed, kernelVars
  <2>. QED BY <2>1, <2>2
<1>11. CASE Write
  <2>1. CASE pc' # "check"
    BY <1>3, <1>11, <2>1 DEF Write, Abort, StartRollback, Degrade, Return
  <2>2. CASE pc' = "check"
    <3>1. \A k \in 1 .. Len(order) : k > idx => order[k] # order[idx]
      BY <1>11, CurrentTarget DEF Write, Control, Types, Operation
    <3>2. \A k \in 1 .. Len(order) : k > idx => value'[order[k]] = value[order[k]]
      BY <1>4, <1>11, <2>2, <3>1 DEF Write, Types, World, Abort, StartRollback, Degrade, Return
    <3>3. UNCHANGED <<saved, order, idx>>
      BY <1>11, <2>2 DEF Write, opVars, Abort, StartRollback, Degrade, Return
    <3>. QED BY <1>4, <1>11, <2>2, <3>2, <3>3 DEF Write, Undisturbed
  <2>. QED BY <2>1, <2>2
<1>12. CASE Check
  <2>1. CASE pc' # "write"
    BY <1>3, <1>12, <2>1 DEF Check, Abort, StartRollback, Degrade, Return
  <2>2. CASE pc' = "write"
    <3>1. UNCHANGED <<saved, order, value>> /\ idx' = idx + 1
      BY <1>12, <2>2 DEF Check, kernelVars, Abort, StartRollback, Degrade, Return
    <3>. QED BY <1>4, <1>12, <2>2, <3>1 DEF Check, Undisturbed
  <2>. QED BY <2>1, <2>2
<1>13. CASE RollbackRead
  <2>1. CASE pc' # "rollbackWrite"
    BY <1>3, <1>13, <2>1 DEF RollbackRead, RollbackNext, Degrade, Return
  <2>2. CASE pc' = "rollbackWrite"
    <3>1. UNCHANGED <<saved, order, idx, value, want>> /\ value[order[idx]] = want[order[idx]]
      BY <1>13, <2>2 DEF RollbackRead, kernelVars, opVars, RollbackNext, Degrade, Return
    <3>. QED BY <2>2, <3>1 DEF Undisturbed
  <2>. QED BY <2>1, <2>2
<1>14. CASE RollbackWrite
  BY <1>3, <1>14 DEF RollbackWrite, RollbackNext, Degrade, Return
<1>15. CASE \E t \in scene.targets : Foreign(t)
  BY <1>2, <1>3, <1>15 DEF Foreign
<1>16. CASE UNCHANGED vars
  BY <1>16 DEF vars, Undisturbed
<1>. QED BY <1>5, <1>7, <1>8, <1>9, <1>10, <1>11, <1>12, <1>13, <1>14, <1>15, <1>16 DEF Next

\* A third value is undisturbed in every state, on any kernel and any store.
LEMMA UndisturbedInvariant == Spec => [](Types /\ Control /\ Undisturbed)
<1>1. Init => Types /\ Control /\ Undisturbed
  <2>. SUFFICES ASSUME Init PROVE Types /\ Control /\ Undisturbed
    OBVIOUS
  <2>1. World
    BY StartAssumption, NoFileTyped DEF Init, World
  <2>2. Process
    BY EmptyJournalTyped DEF Init, Process
  <2>3. order = << >> /\ Len(order) = 0 /\ order \in Seq(Target)
    BY DEF Init
  <2>4. Operation
    <3>1. idx \in 0 .. Len(order) /\ \A j, k \in 1 .. Len(order) : FALSE
      BY <2>3 DEF Init
    <3>. QED BY <2>3, <3>1, StartAssumption, EmptyJournalTyped DEF Init, Operation
  <2>5. Control /\ Undisturbed
    BY DEF Init, Control, Busy, Rolling, Undisturbed
  <2>. QED BY <2>1, <2>2, <2>4, <2>5 DEF Types
<1>. QED BY <1>1, TypesStep, ControlStep, UndisturbedStep, PTL DEF Spec

\* A third-party value is preserved: for every batch, failure, crash and
\* whatever the kernel keeps of a write, no write of an operation over a target
\* that was claimed when the operation began replaces a value that neither the
\* journal of that moment nor the batch knows, as long as other writers are quiet
\* while the operation runs.
THEOREM ThirdValuesKept == Spec => ThirdValueUntouched
<1>. DEFINE Kind == ~scene.racing => \A t \in saved.claims :
                      value'[t] # value[t] /\ writes' = writes /\ boot' = boot =>
                        value[t] \in {saved.entry[t].applied, saved.entry[t].desired, want[t]}
<1>1. Types /\ Control /\ Undisturbed /\ [Next]_vars => [Kind]_vars
  <2>. SUFFICES ASSUME Types, Control, Undisturbed, Next, ~scene.racing,
                       NEW t \in saved.claims, value'[t] # value[t], writes' = writes, boot' = boot
                PROVE  value[t] \in {saved.entry[t].applied, saved.entry[t].desired, want[t]}
    OBVIOUS
  <2>1. Len(order) \in Nat /\ idx \in 0 .. Len(order) /\ value \in [Target -> Value]
        /\ boot \in Nat /\ t \in Target
    BY JournalParts DEF Types, World, Operation
  <2>2. CASE Write
    <3>1. idx \in 1 .. Len(order) /\ order[idx] \in Target
      BY <2>2, CurrentTarget DEF Write, Control, Types
    <3>2. t = order[idx]
      BY <2>1, <2>2, <3>1 DEF Write
    <3>. QED BY <2>2, <3>1, <3>2 DEF Write, Undisturbed, Known
  <2>3. CASE RollbackWrite
    <3>1. idx \in 1 .. Len(order) /\ order[idx] \in Target
      BY <2>3, CurrentTarget DEF RollbackWrite, Control, Types, Rolling
    <3>2. t = order[idx]
      BY <2>1, <2>3, <3>1 DEF RollbackWrite
    <3>. QED BY <2>3, <3>2 DEF RollbackWrite, Undisturbed
  <2>4. CASE Reboot
    BY <2>1, <2>4 DEF Reboot
  <2>5. CASE \E u \in scene.targets : Foreign(u)
    <3>1. writes' # writes
      BY <2>5 DEF Foreign, Types, World
    <3>. QED BY <3>1
  <2>6. CASE \/ Apply \/ Restore \/ Recover \/ Unreadable \/ DiscardStale \/ PersistIntent \/ Check
             \/ PersistApplied \/ RollbackRead \/ RollbackCheck \/ Finish \/ Crash \/ New
    BY <2>6 DEF Apply, Restore, Recover, GiveBack, Unreadable, DiscardStale, PersistIntent, Check,
         PersistApplied, RollbackRead, RollbackCheck, Finish, Crash, New, kernelVars
  <2>. QED BY <2>2, <2>3, <2>4, <2>5, <2>6 DEF Next
<1>. QED BY <1>1, UndisturbedInvariant, PTL DEF Spec, ThirdValueUntouched

-----------------------------------------------------------------------------
(* Ownership, for an exact kernel and an honest store.                      *)

\* A step that ends the operation in read-only mode, or the process, leaves
\* only the file to be sound.
LEMMA NothingRuns ==
  ASSUME Clear, pc' = "down" \/ (pc' = "idle" /\ mode' = "ReadOnlyDegraded"), DiskSound'
  PROVE  Owner'
  BY DEF Clear, Owner, IdleSound, ApplySound, BackSound

\* The file says as much as before when the kernel and the file are untouched.
LEMMA DiskKept ==
  ASSUME DiskSound, UNCHANGED <<value, foreign, boot, disk>>
  PROVE  DiskSound'
  BY DEF DiskSound, Live, Covers, Originals, Dirty, Known

\* A store that failed left the file as it was.
LEMMA FailedStore ==
  ASSUME HonestStore, World, NEW file
  PROVE  AfterFailure(file) = {disk}
  BY DEF HonestStore, World, AfterFailure

\* What an exact kernel keeps of a write.
LEMMA ExactWrite ==
  ASSUME ExactKernel, World, NEW t \in Target, NEW w \in Value,
         \E v \in Kept[w] : value' = [value EXCEPT ![t] = v]
  PROVE  value'[t] = w /\ \A u \in Target \ {t} : value'[u] = value[u]
  BY DEF ExactKernel, World

\* Foreign writes only make targets cleaner; so does writing an original back.
Cleaner ==
  /\ \A t \in Target : foreign[t] \subseteq foreign'[t]
  /\ Dirty' \subseteq Dirty
  /\ \A t \in Dirty' : value'[t] = value[t]

\* A store that is as sound stays so while the attributes only get cleaner.
LEMMA DiskCleaner ==
  ASSUME World, DiskSound, Cleaner, UNCHANGED <<boot, disk>>
  PROVE  DiskSound'
<1>1. disk.journal.claims \subseteq Target
  BY JournalParts DEF World
<1>2. CASE Live
  <2>1. Live'
    BY <1>2 DEF Live
  <2>2. Covers(disk.journal)'
    BY <1>2 DEF DiskSound, Covers, Cleaner, Known
  <2>3. Originals(disk.journal)'
    BY <1>1, <1>2 DEF DiskSound, Originals, Cleaner
  <2>. QED BY <2>1, <2>2, <2>3 DEF DiskSound
<1>3. CASE ~Live
  BY <1>3 DEF DiskSound, Live, Cleaner
<1>. QED BY <1>2, <1>3

\* A write from outside keeps what the journal owes.
LEMMA ForeignOwner ==
  ASSUME Types, Control, Owner, NEW t \in scene.targets, Foreign(t)
  PROVE  Owner'
<1>1. t \in Target /\ Batch \subseteq Target /\ Len(order) \in Nat /\ saved.claims \subseteq Target
      /\ \A k \in 1 .. Len(order) : order[k] \in Batch
  BY ScalarScenes, ToSetByIndex, JournalParts DEF Types, World, Operation, Batch
<1>2. PICK v \in Value : value' = [value EXCEPT ![t] = v] /\ foreign' = [foreign EXCEPT ![t] = @ \cup {v}]
  BY DEF Foreign
<1>3. Cleaner
  BY <1>1, <1>2 DEF Cleaner, Dirty, Types, World
<1>4. UNCHANGED <<boot, disk, mode, recovery, mem, pc, kind, ids, order, idx, want, before, verdict,
                  failed, saved>>
  BY DEF Foreign, opVars
<1>5. DiskSound'
  BY <1>3, <1>4, DiskCleaner DEF Owner, Types
<1>6. IdleSound'
  BY <1>4 DEF Owner, IdleSound, Even, StoredOrRemoved, Stored, NoFile
<1>7. \A j \in Journal : Originals(j) => Originals(j)'
  BY <1>3, JournalParts DEF Originals, Cleaner
<1>8. \A j : Covers(j) => Covers(j)'
  BY <1>3 DEF Covers, Cleaner, Known
<1>9. \A n : Intents(n)' = Intents(n)
  BY <1>4 DEF Intents, Batch
<1>10. Settled' = Settled /\ Batch' = Batch
  BY <1>4 DEF Settled, Batch
<1>11. \A j : Stored(j)' = Stored(j) /\ StoredOrRemoved(j)' = StoredOrRemoved(j)
  BY <1>4 DEF Stored, StoredOrRemoved, NoFile
<1>12. ApplySound'
  <2>. SUFFICES ASSUME kind = "apply" PROVE (Began /\ Written /\ Held)'
    BY <1>4 DEF ApplySound
  <2>0. Began /\ Written /\ Held
    BY DEF Owner, ApplySound
  <2>1. Originals(saved)' /\ Even(saved)'
    BY <1>4, <1>7, <2>0 DEF Began, Even, Types, Operation, Originals
  <2>2. Began'
    BY <1>1, <1>3, <1>4, <1>10, <2>0, <2>1 DEF Began, Cleaner, Known
  <2>3. Written'
    BY <1>4, <1>9, <1>10, <1>11, <2>0 DEF Written
  <2>4. Held'
    <3>1. Covers(saved) => Covers(saved)'
      BY <1>3, <1>4 DEF Covers, Cleaner, Known
    <3>. QED BY <1>3, <1>4, <1>10, <2>0, <3>1 DEF Held, Cleaner
  <2>. QED BY <2>2, <2>3, <2>4
<1>13. BackSound'
  <2>. SUFFICES ASSUME kind \in {"restore", "recover"} PROVE (BackBegan /\ BackWritten /\ BackHeld)'
    BY <1>4 DEF BackSound
  <2>0. BackBegan /\ BackWritten /\ BackHeld
    BY DEF Owner, BackSound
  <2>1. Originals(saved)' /\ (Even(saved)' <=> Even(saved)) /\ DiskClaims' = DiskClaims /\ Live' = Live
    BY <1>4, <1>7, <2>0 DEF BackBegan, Even, Types, Operation, Originals, DiskClaims, Live
  <2>2. BackBegan'
    BY <1>1, <1>3, <1>4, <1>10, <2>0, <2>1 DEF BackBegan, Cleaner, Known
  <2>3. BackWritten'
    <3>1. Covers(mem) => Covers(mem)'
      BY <1>3, <1>4 DEF Covers, Cleaner, Known
    <3>. QED BY <1>4, <1>10, <2>0, <2>1, <3>1 DEF BackWritten
  <2>4. BackHeld'
    BY <1>3, <1>4, <2>0 DEF BackHeld, Cleaner
  <2>. QED BY <2>2, <2>3, <2>4
<1>. QED BY <1>5, <1>6, <1>12, <1>13 DEF Owner

\* An apply begins from the journal the file has.
LEMMA ApplyOwner ==
  ASSUME Types, Control, Owner, Apply
  PROVE  Owner'
<1>1. PICK s \in Orders(scene.targets) : \E r \in [ToSet(s) -> Value] :
        LET w == [t \in Target |-> IF t \in ToSet(s) THEN r[t] ELSE Start[t]]
        IN  /\ \A t \in ToSet(s) : t \in mem.claims => StillOwned(t)
            /\ mem' = WithIntents(mem, ToSet(s), w)
            /\ order' = s /\ want' = w
            /\ before' = [t \in Target |-> IF t \in ToSet(s) THEN value[t] ELSE Start[t]]
  BY DEF Apply
<1>2. /\ \A t \in ToSet(s) : t \in mem.claims => StillOwned(t)
      /\ mem' = WithIntents(mem, ToSet(s), want') /\ order' = s /\ Batch' = ToSet(s)
      /\ before' = [t \in Target |-> IF t \in ToSet(s) THEN value[t] ELSE Start[t]]
  BY <1>1 DEF Batch
<1>3. /\ pc = "idle" /\ mode = "ReadWrite" /\ ~recovery
      /\ kind' = "apply" /\ idx' = 0 /\ saved' = mem /\ failed' = FALSE /\ pc' = "persistIntent"
      /\ UNCHANGED <<scene, value, foreign, boot, disk, mode, recovery>>
  BY DEF Apply, Ready, kernelVars
<1>4. disk = StoredOrRemoved(mem) /\ Even(mem)
  BY <1>3 DEF Owner, IdleSound
<1>5. mem \in Journal /\ mem.claims \subseteq Target /\ scene.targets \subseteq Target
      /\ value \in [Target -> Value] /\ boot \in Nat
  BY ScalarScenes, JournalParts DEF Types, World, Process
<1>6. s \in Seq(Target) /\ Len(s) \in Nat /\ ToSet(s) \subseteq Target
      /\ \A k \in 1 .. Len(s) : s[k] \in ToSet(s)
  BY <1>5, OrdersTyped, ToSetByIndex
<1>7. \A t \in ToSet(s) : before'[t] = value[t]
  BY <1>2, <1>6
<1>8. Covers(mem) /\ Originals(mem)
  <2>1. CASE mem.claims = {}
    <3>1. ~Live
      BY <1>4, <2>1 DEF StoredOrRemoved, NoFile, Live
    <3>. QED BY <2>1, <3>1 DEF Owner, DiskSound, Covers, Originals
  <2>2. CASE mem.claims # {}
    <3>1. Live /\ disk.journal = mem
      BY <1>4, <1>5, <2>2 DEF StoredOrRemoved, Stored, Live
    <3>. QED BY <3>1 DEF Owner, DiskSound
  <2>. QED BY <2>1, <2>2
<1>9. Dirty' = Dirty
  BY <1>3 DEF Dirty
<1>10. DiskSound'
  BY <1>3, DiskKept DEF Owner
<1>11. Began'
  <2>1. Originals(saved)' /\ Even(saved)'
    BY <1>3, <1>4, <1>8 DEF Originals, Even
  <2>2. (\A t \in Dirty \ Batch : t \in saved.claims /\ value[t] \in Known(saved.entry[t]))'
    BY <1>3, <1>8, <1>9 DEF Covers, Known
  <2>3. (\A t \in Batch : IF t \in saved.claims THEN before[t] \in Known(saved.entry[t])
                          ELSE before[t] \in foreign[t])'
    <3>. SUFFICES ASSUME NEW t \in ToSet(s)
                  PROVE  IF t \in mem.claims THEN value[t] \in Known(mem.entry[t])
                         ELSE value[t] \in foreign[t]
      BY <1>2, <1>3, <1>7 DEF Known
    <3>1. CASE t \in mem.claims
      BY <1>2, <3>1 DEF StillOwned, Known
    <3>2. CASE t \notin mem.claims
      BY <1>6, <1>8, <3>2 DEF Covers, Dirty
    <3>. QED BY <3>1, <3>2
  <2>. QED BY <2>1, <2>2, <2>3 DEF Began
<1>12. Written'
  <2>. DEFINE E(t) == [original |-> IF t \in mem.claims THEN mem.entry[t].original ELSE value[t],
                       desired |-> want'[t], applied |-> value[t]]
  <2>1. mem' = [claims |-> mem.claims \cup ToSet(s),
                entry |-> [t \in Target |-> IF t \in ToSet(s) THEN E(t) ELSE mem.entry[t]]]
    BY <1>2 DEF WithIntents
  <2>2. Intents(0)' = [claims |-> mem.claims \cup ToSet(s),
                       entry |-> [t \in Target |-> IF t \in ToSet(s) THEN E(t) ELSE mem.entry[t]]]
    <3>. DEFINE F(t) == [original |-> IF t \in saved'.claims THEN saved'.entry[t].original ELSE before'[t],
                         desired |-> want'[t],
                         applied |-> IF \E k \in 1 .. 0 : order'[k] = t THEN want'[t] ELSE before'[t]]
    <3>1. \A t \in ToSet(s) : F(t) = E(t)
      BY <1>3, <1>7
    <3>2. Intents(0)' = [claims |-> saved'.claims \cup Batch',
                         entry |-> [t \in Target |-> IF t \in Batch' THEN F(t) ELSE saved'.entry[t]]]
      BY DEF Intents
    <3>. HIDE DEF E, F
    <3>. QED BY <1>2, <1>3, <3>1, <3>2
  <2>3. mem' = Intents(0)'
    BY <2>1, <2>2
  <2>4. disk' = StoredOrRemoved(saved)'
    BY <1>3, <1>4 DEF StoredOrRemoved, Stored, NoFile
  <2>. QED BY <1>3, <2>3, <2>4 DEF Written
<1>13. Held'
  BY <1>2, <1>3, <1>6, <1>7 DEF Held
<1>. QED BY <1>3, <1>10, <1>11, <1>12, <1>13 DEF Owner, IdleSound, ApplySound, BackSound

\* So does a restore or a recovery.
LEMMA GiveBackOwner ==
  ASSUME Types, Control, Owner, NEW k \in {"restore", "recover"}, NEW S, S \subseteq mem.claims,
         GiveBack(k, S), pc = "idle", mode = "ReadWrite",
         k = "restore" => disk = StoredOrRemoved(mem) /\ Even(mem),
         k = "recover" => Live /\ mem = disk.journal /\ S = mem.claims
  PROVE  Owner'
<1>. DEFINE B == BackWrites(S)
            m == WithIntents(mem, B, want')
<1>1. /\ order' \in Seq(B) /\ ToSet(order') = B /\ B \subseteq S
      /\ want' \in [Target -> Value] /\ \A t \in B : want'[t] = mem.entry[t].original
      /\ mem' = IF order' = << >> /\ k = "restore" THEN Without(m, S) ELSE m
      /\ pc' = IF order' = << >> THEN "finish" ELSE "persistIntent"
  BY GiveBackTyped
<1>2. /\ kind' = k /\ ids' = S /\ idx' = 0 /\ saved' = mem /\ failed' = FALSE /\ Batch' = B
      /\ UNCHANGED <<scene, value, foreign, boot, disk, mode, recovery>>
  BY <1>1 DEF GiveBack, kernelVars, Batch
<1>3. mem \in Journal /\ mem.claims \subseteq Target /\ S \subseteq Target /\ B \subseteq Target
      /\ value \in [Target -> Value] /\ boot \in Nat
  BY <1>1, JournalParts DEF Types, World, Process
<1>4. Covers(mem) /\ Originals(mem) /\ DiskClaims = mem.claims
  <2>1. CASE k = "recover"
    BY <2>1 DEF Owner, DiskSound, DiskClaims, Live
  <2>2. CASE k = "restore" /\ mem.claims = {}
    <3>1. ~Live /\ DiskClaims = {}
      BY <2>2 DEF StoredOrRemoved, NoFile, Live, DiskClaims
    <3>. QED BY <2>2, <3>1 DEF Owner, DiskSound, Covers, Originals
  <2>3. CASE k = "restore" /\ mem.claims # {}
    <3>1. Live /\ disk.journal = mem
      BY <1>3, <2>3 DEF StoredOrRemoved, Stored, Live
    <3>. QED BY <3>1 DEF Owner, DiskSound, DiskClaims, Live
  <2>. QED BY <2>1, <2>2, <2>3
<1>5. Dirty' = Dirty /\ Dirty \subseteq Target
  BY <1>2 DEF Dirty
<1>6. \A t \in Dirty \cap S : t \in B
  BY <1>4 DEF Covers, Originals, Dirty, BackWrites, StillOwned, Known
<1>7. /\ m \in Journal /\ m.claims = mem.claims
      /\ \A t \in Target \ B : m.entry[t] = mem.entry[t]
      /\ \A t \in B : /\ m.entry[t].original = mem.entry[t].original
                      /\ m.entry[t].desired = want'[t] /\ m.entry[t].applied = value[t]
  <2>. HIDE DEF B
  <2>1. B \subseteq mem.claims
    BY <1>1
  <2>2. want' \in [Target -> Value] /\ mem \in Journal /\ B \subseteq Target
        /\ value \in [Target -> Value]
    BY <1>1, <1>3
  <2>3. m \in Journal /\ m.claims = mem.claims \cup B
    BY <2>2, WithIntentsParts
  <2>4. ASSUME NEW t \in Target
        PROVE  /\ t \notin B => m.entry[t] = mem.entry[t]
               /\ t \in B => /\ m.entry[t].original = mem.entry[t].original
                             /\ m.entry[t].desired = want'[t] /\ m.entry[t].applied = value[t]
    <3>1. /\ t \notin B => m.entry[t] = mem.entry[t]
          /\ t \in B => /\ m.entry[t].original =
                             IF t \in mem.claims THEN mem.entry[t].original ELSE value[t]
                        /\ m.entry[t].desired = want'[t] /\ m.entry[t].applied = value[t]
      BY WithIntentsEntry
    <3>. HIDE DEF m
    <3>. QED BY <2>1, <3>1
  <2>. HIDE DEF m
  <2>. QED BY <2>1, <2>2, <2>3, <2>4
<1>. HIDE DEF B, m
<1>8. DiskSound'
  BY <1>2, DiskKept DEF Owner
<1>9. BackBegan'
  <2>1. Originals(saved)' /\ DiskClaims' = saved'.claims
    BY <1>2, <1>4 DEF Originals, DiskClaims
  <2>2. kind' = "restore" => Even(saved)'
    BY <1>2 DEF Even
  <2>3. (\A t \in Dirty \ ids : t \in saved.claims /\ value[t] \in Known(saved.entry[t]))'
    BY <1>2, <1>4, <1>5 DEF Covers, Known
  <2>. QED BY <1>1, <1>2, <2>1, <2>2, <2>3 DEF BackBegan
<1>10. \A t \in Target : m.entry[t].original = mem.entry[t].original
  BY <1>7
<1>11. CASE order' = << >>
  <2>1. B = {} /\ m.claims = mem.claims /\ \A t \in Target : m.entry[t] = mem.entry[t]
    <3>1. B = {}
      BY <1>1, <1>11 DEF ToSet
    <3>. QED BY <1>7, <3>1
  <2>2. pc' = "finish" /\ Dirty' \cap ids' = {}
    BY <1>1, <1>2, <1>5, <1>6, <1>11, <2>1
  <2>3. k = "restore" => mem'.claims = mem.claims \ S /\ \A t \in Target \ S : mem'.entry[t] = mem.entry[t]
    BY <1>1, <1>3, <1>7, <1>11, <2>1, WithoutParts
  <2>4. BackWritten'
    BY <1>2, <2>2, <2>3 DEF BackWritten
  <2>5. BackHeld'
    BY <2>2 DEF BackHeld
  <2>. QED BY <1>2, <1>8, <1>9, <2>2, <2>4, <2>5 DEF Owner, IdleSound, ApplySound, BackSound
<1>12. CASE order' # << >>
  <2>1. pc' = "persistIntent" /\ mem' = m
    BY <1>1, <1>12
  <2>2. Covers(mem)'
    <3>. SUFFICES ASSUME NEW t \in Dirty PROVE t \in m.claims /\ value[t] \in Known(m.entry[t])
      BY <1>2, <1>5, <2>1 DEF Covers, Known
    <3>1. t \in mem.claims /\ value[t] \in Known(mem.entry[t]) /\ t \in Target
      BY <1>4, <1>5 DEF Covers
    <3>. QED BY <1>7, <3>1 DEF Known
  <2>3. \A t \in Batch' : mem'.entry[t].desired = want'[t]
    BY <1>2, <1>7, <2>1
  <2>4. \A t \in Target \ ids' : mem'.entry[t] = saved'.entry[t]
    BY <1>1, <1>2, <1>7, <2>1
  <2>5. BackWritten'
    BY <1>2, <1>7, <1>10, <2>1, <2>2, <2>3, <2>4 DEF BackWritten
  <2>6. BackHeld'
    <3>1. \A t \in B : \E i \in 1 .. Len(order') : order'[i] = t
      BY <1>1, ToSetByIndex
    <3>2. Len(order') \in Nat
      BY <1>1
    <3>. QED BY <1>2, <1>5, <1>6, <2>1, <3>1, <3>2 DEF BackHeld
  <2>. QED BY <1>2, <1>8, <1>9, <2>1, <2>5, <2>6 DEF Owner, IdleSound, ApplySound, BackSound
<1>. QED BY <1>11, <1>12

\* What the journal of an apply says when its first n targets have settled.
LEMMA IntentsParts ==
  ASSUME NEW n, Batch \subseteq Target
  PROVE  /\ Intents(n).claims = saved.claims \cup Batch
         /\ \A t \in Target \ Batch : Intents(n).entry[t] = saved.entry[t]
         /\ \A t \in Batch :
              /\ Intents(n).entry[t].original =
                   IF t \in saved.claims THEN saved.entry[t].original ELSE before[t]
              /\ Intents(n).entry[t].desired = want[t]
              /\ Intents(n).entry[t].applied =
                   IF \E k \in 1 .. n : order[k] = t THEN want[t] ELSE before[t]
<1>. DEFINE a(t) == IF \E k \in 1 .. n : order[k] = t THEN want[t] ELSE before[t]
            o(t) == IF t \in saved.claims THEN saved.entry[t].original ELSE before[t]
            E(t) == IF t \in Batch THEN [original |-> o(t), desired |-> want[t], applied |-> a(t)]
                    ELSE saved.entry[t]
<1>1. Intents(n) = [claims |-> saved.claims \cup Batch, entry |-> [t \in Target |-> E(t)]]
  BY DEF Intents
<1>. HIDE DEF a, o
<1>2. \A t \in Batch : E(t).original = o(t) /\ E(t).desired = want[t] /\ E(t).applied = a(t)
  OBVIOUS
<1>3. \A t \in Target \ Batch : E(t) = saved.entry[t]
  OBVIOUS
<1>. HIDE DEF E
<1>4. Intents(n).claims = saved.claims \cup Batch /\ \A t \in Target : Intents(n).entry[t] = E(t)
  BY <1>1
<1>. QED BY <1>2, <1>3, <1>4 DEF a, o

\* The intents reach the file, or the operation ends.
LEMMA PersistIntentOwner ==
  ASSUME HonestStore, Types, Control, Owner, PersistIntent
  PROVE  Owner'
<1>1. pc = "persistIntent" /\ UNCHANGED <<value, foreign, boot, scene, recovery>>
      /\ kind \in {"apply", "restore", "recover"}
  BY DEF PersistIntent, kernelVars, Control, Busy, Types, Operation
<1>2. CASE disk' \in AfterFailure(Stored(mem)) /\ Degrade
  <2>1. disk' = disk
    BY <1>2, FailedStore DEF Types
  <2>. QED BY <1>1, <1>2, <2>1, NothingRuns, DiskKept DEF Owner, Degrade, Return
<1>3. CASE /\ disk' = Stored(mem) /\ pc' = "write" /\ idx' = 1
           /\ UNCHANGED <<mem, mode, kind, ids, order, want, before, verdict, failed, saved>>
  <2>1. Dirty' = Dirty /\ Batch' = Batch /\ idx = 0 /\ Len(order) \in Nat /\ ~failed /\ mem \in Journal
        /\ Batch \subseteq Target /\ saved \in Journal /\ saved.claims \subseteq Target
    BY <1>1, <1>3, ToSetByIndex, JournalParts DEF Dirty, Batch, Control, Types, Operation, Process
  <2>2. Live' /\ disk'.journal = mem
    BY <1>1, <1>3 DEF Live, Stored
  <2>3. ASSUME kind = "apply" PROVE Owner'
    <3>1. Began /\ Written /\ Held /\ mem = Intents(0)
      BY <1>1, <2>3 DEF Owner, ApplySound, Written
    <3>2. Intents(0)' = Intents(0)
      BY <1>3, <2>1 DEF Intents
    <3>3. Settled' = 0
      BY <1>3 DEF Settled
    <3>4. Began'
      BY <1>1, <1>3, <2>1, <3>1 DEF Began, Originals, Even, Known
    <3>5. Written'
      <4>1. disk' = Stored(Intents(0))'
        BY <1>1, <1>3, <3>1, <3>2 DEF Stored
      <4>. QED BY <1>3, <3>1, <3>2, <3>3, <4>1 DEF Written
    <3>6. Held'
      BY <1>1, <1>3, <2>1, <3>1, <3>3 DEF Held
    <3>7. /\ mem.claims = saved.claims \cup Batch
          /\ \A t \in Target \ Batch : mem.entry[t] = saved.entry[t]
          /\ \A t \in Batch :
               /\ mem.entry[t].original = IF t \in saved.claims THEN saved.entry[t].original ELSE before[t]
               /\ mem.entry[t].desired = want[t] /\ mem.entry[t].applied = before[t]
      BY <2>1, <3>1, IntentsParts
    <3>8. Covers(mem)
      <4>. SUFFICES ASSUME NEW t \in Dirty PROVE t \in mem.claims /\ value[t] \in Known(mem.entry[t])
        BY DEF Covers
      <4>0. t \in Target
        BY DEF Dirty
      <4>1. CASE t \in Batch
        <5>1. PICK k \in 1 .. Len(order) : order[k] = t
          BY <4>1, ToSetByIndex DEF Batch, Types, Operation
        <5>2. value[t] = before[t]
          BY <1>1, <2>1, <3>1, <5>1 DEF Held
        <5>. QED BY <3>7, <4>1, <5>2 DEF Known
      <4>2. CASE t \notin Batch
        BY <3>1, <3>7, <4>0, <4>2 DEF Began, Known
      <4>. QED BY <4>1, <4>2
    <3>9. Originals(mem)
      <4>. SUFFICES ASSUME NEW t \in mem.claims PROVE mem.entry[t].original \in foreign[t]
        BY DEF Originals
      <4>1. CASE t \in Batch
        BY <3>1, <3>7, <4>1 DEF Began, Originals
      <4>2. CASE t \notin Batch
        BY <2>1, <3>1, <3>7, <4>2 DEF Began, Originals
      <4>. QED BY <4>1, <4>2
    <3>10. DiskSound'
      BY <1>1, <2>1, <2>2, <3>8, <3>9 DEF DiskSound, Covers, Originals, Known
    <3>. QED BY <1>3, <2>3, <3>4, <3>5, <3>6, <3>10 DEF Owner, IdleSound, ApplySound, BackSound
  <2>4. ASSUME kind \in {"restore", "recover"} PROVE Owner'
    <3>1. BackBegan /\ BackWritten /\ BackHeld
      BY <2>4 DEF Owner, BackSound
    <3>2. Covers(mem) /\ Originals(mem) /\ mem.claims = saved.claims
      BY <1>1, <2>1, <3>1 DEF BackBegan, BackWritten, Originals
    <3>3. DiskSound'
      BY <1>1, <2>1, <2>2, <3>2 DEF DiskSound, Covers, Originals, Known
    <3>4. DiskClaims' = saved.claims
      BY <2>2, <3>2 DEF DiskClaims, Live
    <3>5. BackBegan'
      BY <1>1, <1>3, <2>1, <3>1, <3>4 DEF BackBegan, Originals, Even, Known
    <3>6. BackWritten'
      BY <1>1, <1>3, <2>1, <2>2, <3>1 DEF BackWritten
    <3>7. BackHeld'
      BY <1>1, <1>3, <2>1, <3>1 DEF BackHeld
    <3>. QED BY <1>3, <2>4, <3>3, <3>5, <3>6, <3>7 DEF Owner, IdleSound, ApplySound, BackSound
  <2>. QED BY <1>1, <2>3, <2>4
<1>. QED BY <1>2, <1>3 DEF PersistIntent

\* The frame of a step that moves the apply on without touching its journals.
LEMMA ApplyFrame ==
  ASSUME UNCHANGED <<boot, order, want, before, saved>>
  PROVE  /\ Batch' = Batch /\ \A n : Intents(n)' = Intents(n)
         /\ \A j : Stored(j)' = Stored(j) /\ StoredOrRemoved(j)' = StoredOrRemoved(j)
  BY DEF Batch, Intents, Stored, StoredOrRemoved, NoFile

\* A write or a readback that failed starts the rollback of an apply and ends
\* any other operation.
LEMMA AbortOwner ==
  ASSUME Types, Control, Owner, Abort, pc \in {"write", "check"},
         UNCHANGED <<value, foreign, boot, disk, mem, recovery>>
  PROVE  Owner'
<1>1. DiskSound'
  BY DiskKept DEF Owner
<1>2. CASE kind # "apply"
  BY <1>1, <1>2, NothingRuns DEF Abort, Degrade, Return
<1>3. CASE kind = "apply"
  <2>1. /\ pc' = "rollbackRead" /\ idx' = idx
        /\ UNCHANGED <<mode, kind, ids, order, want, before, failed, saved>>
    BY <1>3 DEF Abort, StartRollback
  <2>2. Began /\ Written /\ Held
    BY <1>3 DEF Owner, ApplySound
  <2>3. Dirty' = Dirty
    BY DEF Dirty
  <2>4. Began'
    BY <2>1, <2>2, <2>3, ApplyFrame DEF Began, Originals, Even, Known
  <2>5. Written'
    BY <2>1, <2>2, ApplyFrame DEF Written
  <2>6. Held'
    BY <2>1, <2>2, <2>3 DEF Held
  <2>. QED BY <1>1, <1>3, <2>1, <2>4, <2>5, <2>6 DEF Owner, IdleSound, ApplySound, BackSound
<1>. QED BY <1>2, <1>3

\* Writing a wanted value of an apply, or an original.
LEMMA WriteOwner ==
  ASSUME ExactKernel, Types, Control, Owner, Write
  PROVE  Owner'
<1>. DEFINE t == order[idx]
<1>0. pc = "write" /\ UNCHANGED <<foreign, boot, disk, recovery, mem>>
  BY DEF Write
<1>1. CASE Abort /\ UNCHANGED value
  BY <1>0, <1>1, AbortOwner
<1>2. CASE /\ \E v \in Kept[want[t]] : value' = [value EXCEPT ![t] = v]
           /\ pc' = "check" /\ UNCHANGED <<mode, opVars>>
  <2>1. idx \in 1 .. Len(order) /\ Len(order) \in Nat /\ t \in Target /\ t \in Batch /\ want[t] \in Value
        /\ Batch \subseteq Target /\ order \in Seq(Target)
    BY <1>0, CurrentTarget, ToSetByIndex DEF Control, Types, Operation, Batch
  <2>2. \A k \in 1 .. Len(order) : k # idx => order[k] # t
    BY <2>1 DEF Types, Operation
  <2>3. \A k \in 1 .. Len(order) : order[k] \in Target
    BY <2>1
  <2>. HIDE DEF t
  <2>4. value'[t] = want[t] /\ \A u \in Target \ {t} : value'[u] = value[u]
    BY <1>2, <2>1, ExactWrite DEF Types
  <2>5. \A u \in Target \ {t} : u \in Dirty' <=> u \in Dirty
    BY <1>0, <2>4 DEF Dirty
  <2>6. UNCHANGED <<mode, kind, ids, order, idx, want, before, verdict, failed, saved>>
    BY <1>2 DEF opVars
  <2>7. kind \in {"apply", "restore", "recover"}
    BY <1>0 DEF Control, Busy, Types, Operation
  <2>8. ASSUME kind = "apply" PROVE Owner'
    <3>1. Began /\ Written /\ Held
      BY <2>8 DEF Owner, ApplySound
    <3>2. disk = Stored(Intents(0)) /\ disk.present /\ disk.boot = boot /\ disk.journal = Intents(0)
      BY <1>0, <3>1 DEF Written, Stored
    <3>3. Live /\ Live' /\ disk'.journal = Intents(0)
      BY <1>0, <3>2 DEF Live
    <3>4. Covers(Intents(0)) /\ Originals(Intents(0))
      BY <3>2, <3>3 DEF Owner, DiskSound
    <3>5. t \in Intents(0).claims /\ Intents(0).entry[t].desired = want[t]
      BY <2>1, IntentsParts
    <3>6. DiskSound'
      <4>. DEFINE j == Intents(0)
      <4>. HIDE DEF j
      <4>1. \A u \in Dirty' : u \in j.claims /\ value'[u] \in Known(j.entry[u])
        <5>. TAKE u \in Dirty'
        <5>1. u \in Target
          BY DEF Dirty
        <5>. QED BY <2>4, <2>5, <3>4, <3>5, <5>1 DEF Covers, Known, j
      <4>2. \A u \in j.claims : j.entry[u].original \in foreign'[u]
        BY <1>0, <3>4 DEF Originals, j
      <4>3. disk'.journal = j
        BY <3>3 DEF j
      <4>. QED BY <3>3, <4>1, <4>2, <4>3 DEF DiskSound, Covers, Originals, Known
    <3>7. Began'
      <4>1. \A u \in Dirty' \ Batch : u \in saved.claims /\ value'[u] \in Known(saved.entry[u])
        <5>. TAKE u \in Dirty' \ Batch
        <5>1. u \in Target \ {t}
          BY <2>1 DEF Dirty
        <5>. QED BY <2>4, <2>5, <3>1, <5>1 DEF Began
      <4>. QED BY <1>0, <2>6, <3>1, <4>1, ApplyFrame DEF Began, Originals, Even, Known
    <3>8. Settled' = Settled /\ Settled = idx - 1
      BY <1>0, <1>2, <2>6 DEF Settled
    <3>9. Written'
      BY <1>0, <1>2, <2>6, <3>1, <3>8, ApplyFrame DEF Written
    <3>10. Held'
      <4>1. \A k \in 1 .. idx - 1 : order[k] \in Dirty' => value'[order[k]] = want[order[k]]
        BY <1>0, <2>1, <2>2, <2>3, <2>4, <2>5, <3>1, <3>8 DEF Held
      <4>2. ~failed => \A k \in 1 .. Len(order) : order[k] \in Dirty' =>
              value'[order[k]] = before[order[k]] \/ (k <= idx /\ value'[order[k]] = want[order[k]])
        <5>. SUFFICES ASSUME ~failed, NEW k \in 1 .. Len(order), order[k] \in Dirty'
                      PROVE  value'[order[k]] = before[order[k]]
                               \/ (k <= idx /\ value'[order[k]] = want[order[k]])
          OBVIOUS
        <5>1. CASE k = idx
          BY <2>1, <2>4, <5>1 DEF t
        <5>2. CASE k # idx
          BY <1>0, <2>2, <2>3, <2>4, <2>5, <3>1, <5>2 DEF Held
        <5>. QED BY <5>1, <5>2
      <4>. QED BY <1>2, <2>6, <3>8, <4>1, <4>2 DEF Held
    <3>. QED BY <1>2, <2>6, <2>8, <3>6, <3>7, <3>9, <3>10 DEF Owner, IdleSound, ApplySound, BackSound
  <2>9. ASSUME kind \in {"restore", "recover"} PROVE Owner'
    <3>1. BackBegan /\ BackWritten /\ BackHeld
      BY <2>9 DEF Owner, BackSound
    <3>2. want[t] \in foreign[t]
      BY <2>1, <3>1 DEF BackBegan, Originals
    <3>3. t \notin Dirty'
      BY <1>0, <2>4, <3>2 DEF Dirty
    <3>4. Cleaner
      <4>1. \A u \in Dirty' : u \in Target \ {t}
        BY <3>3 DEF Dirty
      <4>. QED BY <1>0, <2>4, <2>5, <4>1 DEF Cleaner
    <3>5. DiskSound'
      BY <1>0, <3>4, DiskCleaner DEF Owner, Types
    <3>6. DiskClaims' = DiskClaims /\ Live' = Live /\ Batch' = Batch
      BY <1>0, <2>6 DEF DiskClaims, Live, Batch
    <3>7. BackBegan'
      BY <1>0, <2>6, <3>1, <3>4, <3>6 DEF BackBegan, Originals, Even, Known, Cleaner
    <3>8. BackWritten'
      BY <1>0, <1>2, <2>6, <3>1, <3>6 DEF BackWritten
    <3>9. BackHeld'
      BY <1>0, <1>2, <2>6, <3>1, <3>4 DEF BackHeld, Cleaner
    <3>. QED BY <1>2, <2>6, <2>9, <3>5, <3>7, <3>8, <3>9 DEF Owner, IdleSound, ApplySound, BackSound
  <2>. QED BY <2>7, <2>8, <2>9
<1>. QED BY <1>1, <1>2 DEF Write

\* Settling one more target of an apply.
LEMMA SettleIntents ==
  ASSUME Types, idx \in 1 .. Len(order), mem = Intents(idx - 1)
  PROVE  Settle(order[idx]) = Intents(idx)
<1>. DEFINE t == order[idx]
            j == Intents(idx)
<1>0. order \in Seq(Target) /\ Len(order) \in Nat /\ Batch \subseteq Target /\ t \in Batch /\ t \in Target
      /\ \A k \in 1 .. Len(order) : k # idx => order[k] # t
  BY ToSetByIndex DEF Types, Operation, Batch
<1>1. Settle(t) \in Journal /\ Settle(t).claims = mem.claims
  BY <1>0, SettleParts DEF Types, Process, Operation
<1>2. mem.claims = j.claims
  BY <1>0, IntentsParts
<1>3. j = [claims |-> j.claims, entry |-> j.entry] /\ j.entry = [u \in Target |-> j.entry[u]]
  BY DEF Intents
<1>4. ASSUME NEW u \in Target PROVE Settle(t).entry[u] = j.entry[u]
  <2>. DEFINE a(n) == IF \E k \in 1 .. n : order[k] = u THEN want[u] ELSE before[u]
              o == IF u \in saved.claims THEN saved.entry[u].original ELSE before[u]
              e(n) == [original |-> o, desired |-> want[u], applied |-> a(n)]
  <2>1. mem.entry[u] = IF u \in Batch THEN e(idx - 1) ELSE saved.entry[u]
    BY DEF Intents
  <2>2. j.entry[u] = IF u \in Batch THEN e(idx) ELSE saved.entry[u]
    BY DEF Intents
  <2>3. CASE u # t
    <3>1. Settle(t).entry[u] = mem.entry[u]
      BY ZenonT(60), <1>0, <2>3, SettleParts DEF Types, Process, Operation
    <3>2. (\E k \in 1 .. idx : order[k] = u) <=> (\E k \in 1 .. idx - 1 : order[k] = u)
      BY <1>0, <2>3
    <3>3. a(idx) = a(idx - 1)
      BY <3>2
    <3>. HIDE DEF a, o, j, t
    <3>. QED BY <2>1, <2>2, <3>1, <3>3
  <2>4. CASE u = t
    <3>1. Settle(t).entry[t] = [original |-> mem.entry[t].original,
                                desired |-> want[t], applied |-> want[t]]
      BY <1>0, SettleParts DEF Types, Process, Operation
    <3>2. \E k \in 1 .. idx : order[k] = u
      BY <1>0, <2>4
    <3>3. a(idx) = want[u]
      BY <3>2
    <3>4. u \in Batch
      BY <1>0, <2>4
    <3>. HIDE DEF a, o, j, t
    <3>5. mem.entry[u].original = o
      BY <2>1, <3>4
    <3>. QED BY <2>2, <2>4, <3>1, <3>3, <3>4, <3>5
  <2>. QED BY <2>3, <2>4
<1>5. Settle(t) = [claims |-> Settle(t).claims, entry |-> Settle(t).entry]
      /\ Settle(t).entry = [u \in Target |-> Settle(t).entry[u]]
  BY <1>1 DEF Journal
<1>. HIDE DEF j, t
<1>6. Settle(t).entry = j.entry
  BY <1>3, <1>4, <1>5
<1>7. Settle(t) = j
  BY <1>1, <1>2, <1>3, <1>5, <1>6
<1>. QED BY <1>7 DEF j, t

\* The value read back settles the target.
LEMMA CheckOwner ==
  ASSUME Types, Control, Owner, Check
  PROVE  Owner'
<1>. DEFINE t == order[idx]
<1>0. pc = "check" /\ UNCHANGED <<value, foreign, boot, disk, recovery>>
  BY DEF Check, kernelVars
<1>1. CASE Abort /\ UNCHANGED mem
  BY <1>0, <1>1, AbortOwner
<1>2. CASE ~(Abort /\ UNCHANGED mem)
  <2>1. /\ idx \in 1 .. Len(order) /\ Len(order) \in Nat /\ t \in Batch /\ t \in Target
        /\ Batch \subseteq Target /\ order \in Seq(Target) /\ ~failed
        /\ saved.claims \subseteq Target /\ ids \subseteq Target
    BY <1>0, CurrentTarget, ToSetByIndex, JournalParts DEF Control, Types, Operation, Batch
  <2>2. value[t] = want[t]
    BY <1>2 DEF Check
  <2>3. UNCHANGED <<mode, kind, ids, order, want, before, verdict, failed, saved>>
    BY <1>2 DEF Check
  <2>4. \/ idx < Len(order) /\ pc' = "write" /\ idx' = idx + 1
        \/ idx = Len(order) /\ idx' = idx /\ pc' = IF kind = "apply" THEN "persistApplied" ELSE "finish"
    BY <1>2 DEF Check
  <2>5. Dirty' = Dirty /\ Batch' = Batch
    BY <1>0, <2>3 DEF Dirty, Batch
  <2>6. DiskSound'
    BY <1>0, DiskKept DEF Owner
  <2>7. kind \in {"apply", "restore", "recover"}
    BY <1>0 DEF Control, Busy, Types, Operation
  <2>8. ASSUME kind = "apply" PROVE Owner'
    <3>1. Began /\ Written /\ Held
      BY <2>8 DEF Owner, ApplySound
    <3>2. Settled = idx - 1 /\ Settled' = idx
      BY <1>0, <2>1, <2>4, <2>8 DEF Settled
    <3>3. mem' = Settle(t)
      BY <1>2, <2>8 DEF Check
    <3>4. mem' = Intents(idx)
      BY <1>0, <2>1, <3>1, <3>2, <3>3, SettleIntents DEF Written
    <3>5. Began'
      BY <1>0, <2>3, <2>5, <3>1 DEF Began, Originals, Even, Known
    <3>6. Written'
      BY <1>0, <2>3, <2>4, <2>8, <3>1, <3>2, <3>4, ApplyFrame DEF Written
    <3>7. Held'
      <4>. HIDE DEF t
      <4>1. \A k \in 1 .. idx : order[k] \in Dirty => value[order[k]] = want[order[k]]
        <5>. TAKE k \in 1 .. idx
        <5>1. CASE k = idx
          BY <2>2, <5>1 DEF t
        <5>2. CASE k # idx
          <6>1. k \in 1 .. Settled
            BY <2>1, <3>2, <5>2
          <6>. QED BY <1>0, <3>1, <6>1 DEF Held
        <5>. QED BY <5>1, <5>2
      <4>2. \A k \in 1 .. Len(order) : order[k] \in Dirty =>
              value[order[k]] = before[order[k]] \/ (k <= idx' /\ value[order[k]] = want[order[k]])
        BY <1>0, <2>1, <2>4, <3>1 DEF Held
      <4>. QED BY <1>0, <2>3, <2>4, <2>5, <2>8, <3>2, <4>1, <4>2 DEF Held
    <3>. QED BY <2>3, <2>4, <2>6, <2>8, <3>5, <3>6, <3>7 DEF Owner, IdleSound, ApplySound, BackSound
  <2>9. ASSUME kind \in {"restore", "recover"} PROVE Owner'
    <3>1. BackBegan /\ BackWritten /\ BackHeld
      BY <2>9 DEF Owner, BackSound
    <3>2. t \notin Dirty
      <4>1. want[t] \in foreign[t]
        BY <2>1, <3>1 DEF BackBegan, Originals
      <4>. QED BY <2>2, <4>1 DEF Dirty
    <3>3. DiskClaims' = DiskClaims /\ Live' = Live
      BY <1>0 DEF DiskClaims, Live
    <3>4. BackBegan'
      BY <1>0, <2>3, <2>5, <3>1, <3>3 DEF BackBegan, Originals, Even, Known
    <3>5. \A u \in Dirty \cap ids : \E k \in 1 .. Len(order) : k >= idx + 1 /\ order[k] = u
      <4>. TAKE u \in Dirty \cap ids
      <4>1. PICK k \in 1 .. Len(order) : k >= idx /\ order[k] = u
        BY <1>0, <3>1 DEF BackHeld
      <4>2. k # idx
        BY <3>2, <4>1
      <4>. QED BY <2>1, <4>1, <4>2
    <3>6. CASE idx < Len(order)
      <4>1. pc' = "write" /\ idx' = idx + 1 /\ mem' = mem
        BY <1>2, <2>1, <2>9, <3>6 DEF Check
      <4>2. BackWritten'
        BY <1>0, <2>3, <2>5, <3>1, <3>3, <4>1 DEF BackWritten
      <4>3. BackHeld'
        BY <2>3, <2>5, <3>5, <4>1 DEF BackHeld
      <4>. QED BY <2>3, <2>6, <2>9, <3>4, <4>1, <4>2, <4>3 DEF Owner, IdleSound, ApplySound, BackSound
    <3>7. CASE idx = Len(order)
      <4>1. pc' = "finish" /\ idx' = idx
        BY <2>1, <2>4, <2>9, <3>7
      <4>2. kind = "restore" => mem' = Without(mem, ids)
        BY <1>2, <2>1, <2>9, <3>7 DEF Check
      <4>3. kind = "restore" => /\ mem'.claims = saved.claims \ ids
                                /\ \A u \in Target \ ids : mem'.entry[u] = saved.entry[u]
        <5>1. mem.claims = saved.claims /\ \A u \in Target \ ids : mem.entry[u] = saved.entry[u]
          BY <1>0, <3>1 DEF BackWritten
        <5>2. Without(mem, ids).claims = mem.claims \ ids
              /\ \A u \in Target \ ids : Without(mem, ids).entry[u] = mem.entry[u]
          BY <2>1, WithoutParts DEF Types, Process
        <5>. QED BY <4>2, <5>1, <5>2
      <4>4. Dirty \cap ids = {}
        BY <2>1, <3>5, <3>7
      <4>5. BackWritten'
        BY <2>3, <4>1, <4>3 DEF BackWritten
      <4>6. BackHeld'
        BY <2>3, <2>5, <4>1, <4>4 DEF BackHeld
      <4>. QED BY <2>3, <2>6, <2>9, <3>4, <4>1, <4>5, <4>6 DEF Owner, IdleSound, ApplySound, BackSound
    <3>. QED BY <2>4, <3>6, <3>7
  <2>. QED BY <2>7, <2>8, <2>9
<1>. QED BY <1>1, <1>2

\* The settled batch reaches the file, or is rolled back.
LEMMA PersistAppliedOwner ==
  ASSUME HonestStore, Types, Control, Owner, PersistApplied
  PROVE  Owner'
<1>0. /\ pc = "persistApplied" /\ UNCHANGED <<value, foreign, boot, recovery, mem>>
      /\ kind = "apply" /\ mode = "ReadWrite" /\ ~recovery /\ ~failed
      /\ idx = Len(order) /\ idx >= 1
  BY DEF PersistApplied, kernelVars, Control, Busy, Types, Operation
<1>1. Len(order) \in Nat /\ Batch \subseteq Target /\ order \in Seq(Target) /\ mem \in Journal /\ boot \in Nat
      /\ saved.claims \subseteq Target /\ \A t \in Batch : \E k \in 1 .. Len(order) : order[k] = t
  BY ToSetByIndex, JournalParts DEF Types, World, Process, Operation, Batch
<1>2. Began /\ Written /\ Held /\ Settled = Len(order) /\ mem = Intents(Len(order))
  BY <1>0 DEF Owner, ApplySound, Settled, Written
<1>3. Dirty' = Dirty
  BY <1>0 DEF Dirty
<1>4. CASE disk' = Stored(mem) /\ Return(mode)
  <2>1. /\ mem.claims = saved.claims \cup Batch
        /\ \A t \in Target \ Batch : mem.entry[t] = saved.entry[t]
        /\ \A t \in Batch :
             /\ mem.entry[t].original = IF t \in saved.claims THEN saved.entry[t].original ELSE before[t]
             /\ mem.entry[t].desired = want[t] /\ mem.entry[t].applied = want[t]
    <3>1. \A t \in Batch : \E k \in 1 .. Len(order) : order[k] = t
      BY <1>1
    <3>. QED BY <1>1, <1>2, <3>1, IntentsParts
  <2>2. mem.claims # {}
    <3>1. order[1] \in Batch
      BY <1>0, <1>1, ToSetByIndex DEF Batch
    <3>. QED BY <2>1, <3>1
  <2>3. Even(mem)
    <3>. SUFFICES ASSUME NEW t \in mem.claims PROVE mem.entry[t].applied = mem.entry[t].desired
      BY DEF Even
    <3>1. CASE t \in Batch
      BY <2>1, <3>1
    <3>2. CASE t \notin Batch
      BY <1>1, <1>2, <2>1, <3>2 DEF Began, Even
    <3>. QED BY <3>1, <3>2
  <2>4. Covers(mem)
    <3>. SUFFICES ASSUME NEW t \in Dirty PROVE t \in mem.claims /\ value[t] \in Known(mem.entry[t])
      BY DEF Covers
    <3>0. t \in Target
      BY DEF Dirty
    <3>1. CASE t \in Batch
      <4>1. value[t] = want[t]
        BY <1>0, <1>1, <1>2, <3>1 DEF Held
      <4>. QED BY <2>1, <3>1, <4>1 DEF Known
    <3>2. CASE t \notin Batch
      BY <1>2, <2>1, <3>0, <3>2 DEF Began, Known
    <3>. QED BY <3>1, <3>2
  <2>5. Originals(mem)
    <3>. SUFFICES ASSUME NEW t \in mem.claims PROVE mem.entry[t].original \in foreign[t]
      BY DEF Originals
    <3>1. CASE t \in Batch
      BY <1>2, <2>1, <3>1 DEF Began, Originals
    <3>2. CASE t \notin Batch
      BY <1>1, <1>2, <2>1, <3>2 DEF Began, Originals
    <3>. QED BY <3>1, <3>2
  <2>6. Live' /\ disk'.journal = mem
    BY <1>0, <1>4 DEF Live, Stored
  <2>7. DiskSound'
    BY <1>0, <1>3, <2>4, <2>5, <2>6 DEF DiskSound, Covers, Originals, Known
  <2>8. IdleSound'
    BY <1>0, <1>4, <2>2, <2>3 DEF IdleSound, StoredOrRemoved, Stored, Even
  <2>. QED BY <1>4, <2>7, <2>8 DEF Owner, Return, Clear, ApplySound, BackSound
<1>5. CASE disk' \in AfterFailure(Stored(mem)) /\ StartRollback(Len(order), "degrade")
  <2>1. disk' = disk
    BY <1>5, FailedStore DEF Types
  <2>2. /\ pc' = "rollbackRead" /\ idx' = Len(order)
        /\ UNCHANGED <<mode, kind, ids, order, want, before, failed, saved>>
    BY <1>5 DEF StartRollback
  <2>3. DiskSound'
    BY <1>0, <2>1, DiskKept DEF Owner
  <2>4. Began'
    BY <1>0, <1>2, <1>3, <2>2, ApplyFrame DEF Began, Originals, Even, Known
  <2>5. Written'
    BY <1>0, <1>2, <2>1, <2>2, ApplyFrame DEF Written
  <2>6. Held'
    BY <1>0, <1>2, <1>3, <2>2 DEF Held
  <2>. QED BY <1>0, <2>2, <2>3, <2>4, <2>5, <2>6 DEF Owner, IdleSound, ApplySound, BackSound
<1>. QED BY <1>4, <1>5 DEF PersistApplied

\* The rollback goes on to the next target, once the current one holds no value
\* of the batch or the rollback has failed already; or it ends.
LEMMA RollbackNextOwner ==
  ASSUME Types, Control, Owner, Rolling, NEW bad \in BOOLEAN, RollbackNext(bad),
         UNCHANGED <<value, foreign, boot, disk, recovery>>,
         ~bad => ~failed /\ (order[idx] \in Dirty => value[order[idx]] = before[order[idx]])
  PROVE  Owner'
<1>0. kind = "apply" /\ mode = "ReadWrite" /\ ~recovery /\ idx >= 1 /\ pc # "finish" /\ pc # "persistIntent"
      /\ pc \notin {"write", "check", "persistApplied"}
  BY DEF Rolling, Control, Busy, Types, Operation
<1>1. Len(order) \in Nat /\ idx \in 1 .. Len(order)
      /\ \A t \in Batch : \E k \in 1 .. Len(order) : order[k] = t
  BY <1>0, ToSetByIndex DEF Types, Operation, Batch
<1>2. DiskSound' /\ Dirty' = Dirty
  BY DiskKept DEF Owner, Dirty
<1>3. Began /\ Written /\ Held
  BY <1>0 DEF Owner, ApplySound
<1>4. CASE Degrade
  BY <1>2, <1>4, NothingRuns DEF Degrade, Return
<1>5. ASSUME ~bad, NEW k \in 1 .. Len(order), order[k] \in Dirty
      PROVE  value[order[k]] = before[order[k]] \/ (k < idx /\ value[order[k]] = want[order[k]])
  BY <1>0, <1>1, <1>3, <1>5 DEF Held
<1>6. CASE /\ idx > 1 /\ pc' = "rollbackRead" /\ idx' = idx - 1 /\ failed' = bad
           /\ UNCHANGED <<mode, mem, kind, ids, order, want, before, verdict, saved>>
  <2>1. Began'
    BY <1>2, <1>3, <1>6, ApplyFrame DEF Began, Originals, Even, Known
  <2>2. Written'
    BY <1>0, <1>3, <1>6, ApplyFrame DEF Written
  <2>3. Held'
    <3>1. ~bad => \A k \in 1 .. Len(order) : order[k] \in Dirty =>
            value[order[k]] = before[order[k]] \/ (k <= idx - 1 /\ value[order[k]] = want[order[k]])
      BY <1>1, <1>5
    <3>. QED BY <1>2, <1>6, <3>1 DEF Held
  <2>. QED BY <1>0, <1>2, <1>6, <2>1, <2>2, <2>3 DEF Owner, IdleSound, ApplySound, BackSound
<1>7. CASE /\ idx = 1 /\ ~bad /\ mem' = saved /\ pc' = "finish"
           /\ UNCHANGED <<mode, kind, ids, order, idx, want, before, verdict, failed, saved>>
  <2>1. Began'
    BY <1>2, <1>3, <1>7, ApplyFrame DEF Began, Originals, Even, Known
  <2>2. Written'
    BY <1>0, <1>3, <1>7, ApplyFrame DEF Written
  <2>3. Covers(saved)
    <3>. SUFFICES ASSUME NEW t \in Dirty PROVE t \in saved.claims /\ value[t] \in Known(saved.entry[t])
      BY DEF Covers
    <3>1. CASE t \in Batch
      <4>1. PICK k \in 1 .. Len(order) : order[k] = t
        BY <1>1, <3>1
      <4>2. value[t] = before[t]
        BY <1>1, <1>5, <1>7, <4>1
      <4>3. value[t] \notin foreign[t]
        BY DEF Dirty
      <4>. QED BY <1>3, <3>1, <4>2, <4>3 DEF Began
    <3>2. CASE t \notin Batch
      BY <1>3, <3>2 DEF Began
    <3>. QED BY <3>1, <3>2
  <2>4. Held'
    BY <1>2, <1>7, <2>3 DEF Held, Covers, Known
  <2>. QED BY <1>0, <1>2, <1>7, <2>1, <2>2, <2>4 DEF Owner, IdleSound, ApplySound, BackSound
<1>. QED BY <1>4, <1>6, <1>7 DEF RollbackNext

\* The read of a rollback keeps what the journal owes.
LEMMA RollbackReadOwner ==
  ASSUME Types, Control, Owner, RollbackRead
  PROVE  Owner'
<1>. DEFINE t == order[idx]
<1>0. Rolling /\ pc = "rollbackRead" /\ UNCHANGED <<value, foreign, boot, disk, recovery>>
      /\ kind = "apply" /\ idx >= 1 /\ failed \in BOOLEAN
  BY DEF RollbackRead, Rolling, kernelVars, Control, Busy, Types, Operation
<1>1. Began /\ Written /\ Held /\ idx \in 1 .. Len(order)
  BY <1>0, CurrentTarget DEF Owner, ApplySound, Types
<1>2. CASE RollbackNext(TRUE)
  BY <1>0, <1>2, RollbackNextOwner
<1>3. CASE (value[t] = before[t] \/ value[t] # want[t]) /\ RollbackNext(failed)
  <2>1. ~failed => (t \in Dirty => value[t] = before[t])
    BY <1>0, <1>1, <1>3 DEF Held
  <2>2. CASE failed
    BY <1>0, <1>3, <2>2, RollbackNextOwner
  <2>3. CASE ~failed
    BY <1>0, <1>3, <2>1, <2>3, RollbackNextOwner
  <2>. QED BY <2>2, <2>3
<1>4. CASE pc' = "rollbackWrite" /\ UNCHANGED <<mode, mem, opVars>>
  <2>1. UNCHANGED <<mode, mem, kind, ids, order, idx, want, before, verdict, failed, saved>>
    BY <1>4 DEF opVars
  <2>2. DiskSound' /\ Dirty' = Dirty
    BY <1>0, DiskKept DEF Owner, Dirty
  <2>3. Began'
    BY <1>0, <1>1, <2>1, <2>2, ApplyFrame DEF Began, Originals, Even, Known
  <2>4. Written'
    BY <1>0, <1>1, <1>4, <2>1, ApplyFrame DEF Written
  <2>5. Held'
    BY <1>0, <1>1, <1>4, <2>1, <2>2 DEF Held
  <2>. QED BY <1>0, <1>4, <2>1, <2>2, <2>3, <2>4, <2>5 DEF Owner, IdleSound, ApplySound, BackSound
<1>. QED BY <1>2, <1>3, <1>4 DEF RollbackRead

\* The write of a rollback keeps what the journal owes.
LEMMA RollbackWriteOwner ==
  ASSUME ExactKernel, Types, Control, Owner, RollbackWrite
  PROVE  Owner'
<1>. DEFINE t == order[idx]
<1>0. Rolling /\ pc = "rollbackWrite" /\ UNCHANGED <<foreign, boot, disk, recovery>>
      /\ kind = "apply" /\ idx >= 1
  BY DEF RollbackWrite, Rolling, Control, Busy, Types, Operation
<1>1. CASE RollbackNext(TRUE) /\ UNCHANGED value
  BY <1>0, <1>1, RollbackNextOwner
<1>2. CASE /\ \E v \in Kept[before[t]] : value' = [value EXCEPT ![t] = v]
           /\ pc' = "rollbackCheck" /\ UNCHANGED <<mode, mem, opVars>>
  <2>1. idx \in 1 .. Len(order) /\ Len(order) \in Nat /\ t \in Target /\ t \in Batch /\ before[t] \in Value
        /\ Batch \subseteq Target /\ order \in Seq(Target)
    BY <1>0, CurrentTarget, ToSetByIndex DEF Types, Operation, Batch
  <2>2. \A k \in 1 .. Len(order) : k # idx => order[k] # t
    BY <2>1 DEF Types, Operation
  <2>3. \A k \in 1 .. Len(order) : order[k] \in Target
    BY <2>1
  <2>. HIDE DEF t
  <2>4. value'[t] = before[t] /\ \A u \in Target \ {t} : value'[u] = value[u]
    BY <1>2, <2>1, ExactWrite DEF Types
  <2>5. \A u \in Target \ {t} : u \in Dirty' <=> u \in Dirty
    BY <1>0, <2>4 DEF Dirty
  <2>6. UNCHANGED <<mode, mem, kind, ids, order, idx, want, before, verdict, failed, saved>>
    BY <1>2 DEF opVars
  <2>7. Began /\ Written /\ Held
    BY <1>0 DEF Owner, ApplySound
  <2>8. disk.present /\ disk.boot = boot /\ disk.journal = Intents(0)
    BY <1>0, <2>7 DEF Written, Stored
  <2>9. Live /\ Live'
    BY <1>0, <2>8 DEF Live
  <2>10. Covers(Intents(0)) /\ Originals(Intents(0))
    BY <2>8, <2>9 DEF Owner, DiskSound
  <2>11. t \in Intents(0).claims /\ Intents(0).entry[t].applied = before[t]
    BY <2>1, IntentsParts
  <2>12. DiskSound'
    <3>. DEFINE j == Intents(0)
    <3>. HIDE DEF j
    <3>1. \A u \in Dirty' : u \in j.claims /\ value'[u] \in Known(j.entry[u])
      <4>. TAKE u \in Dirty'
      <4>1. u \in Target
        BY DEF Dirty
      <4>. QED BY <2>4, <2>5, <2>10, <2>11, <4>1 DEF Covers, Known, j
    <3>2. \A u \in j.claims : j.entry[u].original \in foreign'[u]
      BY <1>0, <2>10 DEF Originals, j
    <3>3. disk'.journal = j
      BY <1>0, <2>8 DEF j
    <3>. QED BY <2>9, <3>1, <3>2, <3>3 DEF DiskSound, Covers, Originals, Known
  <2>13. Began'
    <3>1. \A u \in Dirty' \ Batch : u \in saved.claims /\ value'[u] \in Known(saved.entry[u])
      <4>. TAKE u \in Dirty' \ Batch
      <4>1. u \in Target \ {t}
        BY <2>1 DEF Dirty
      <4>. QED BY <2>4, <2>5, <2>7, <4>1 DEF Began
    <3>. QED BY <1>0, <2>6, <2>7, <3>1, ApplyFrame DEF Began, Originals, Even, Known
  <2>14. Written'
    BY <1>0, <1>2, <2>6, <2>7, ApplyFrame DEF Written
  <2>15. Held'
    <3>1. ~failed => \A k \in 1 .. Len(order) : order[k] \in Dirty' =>
            value'[order[k]] = before[order[k]] \/ (k <= idx /\ value'[order[k]] = want[order[k]])
      <4>. SUFFICES ASSUME ~failed, NEW k \in 1 .. Len(order), order[k] \in Dirty'
                    PROVE  value'[order[k]] = before[order[k]]
                             \/ (k <= idx /\ value'[order[k]] = want[order[k]])
        OBVIOUS
      <4>1. CASE k = idx
        BY <2>4, <4>1 DEF t
      <4>2. CASE k # idx
        BY <1>0, <2>2, <2>3, <2>4, <2>5, <2>7, <4>2 DEF Held
      <4>. QED BY <4>1, <4>2
    <3>. QED BY <1>2, <2>6, <3>1 DEF Held
  <2>. QED BY <1>0, <1>2, <2>6, <2>12, <2>13, <2>14, <2>15 DEF Owner, IdleSound, ApplySound, BackSound
<1>. QED BY <1>1, <1>2 DEF RollbackWrite

\* The check of a rollback keeps what the journal owes.
LEMMA RollbackCheckOwner ==
  ASSUME Types, Control, Owner, RollbackCheck
  PROVE  Owner'
<1>0. Rolling /\ UNCHANGED <<value, foreign, boot, disk, recovery>> /\ failed \in BOOLEAN
  BY DEF RollbackCheck, Rolling, kernelVars, Types, Operation
<1>1. CASE RollbackNext(TRUE)
  BY <1>0, <1>1, RollbackNextOwner
<1>2. CASE value[order[idx]] = before[order[idx]] /\ RollbackNext(failed)
  <2>1. CASE failed
    BY <1>0, <1>2, <2>1, RollbackNextOwner
  <2>2. CASE ~failed
    BY <1>0, <1>2, <2>2, RollbackNextOwner
  <2>. QED BY <1>0, <2>1, <2>2
<1>. QED BY <1>1, <1>2 DEF RollbackCheck

\* The last journal write drops only clean claims.
LEMMA FinishOwner ==
  ASSUME HonestStore, Types, Control, Owner, Finish
  PROVE  Owner'
<1>0. pc = "finish" /\ UNCHANGED <<scene, value, foreign, boot>> /\ kind \in {"apply", "restore", "recover"}
      /\ mode = "ReadWrite" /\ (recovery <=> kind = "recover") /\ recovery \in BOOLEAN
  BY DEF Finish, kernelVars, Control, Busy, Types, Operation, Process
<1>1. Dirty' = Dirty /\ Dirty \subseteq Target
  BY <1>0 DEF Dirty
<1>2. mem \in Journal /\ saved.claims \subseteq Target /\ ids \subseteq Target /\ boot \in Nat
      /\ EmptyJournal.claims = {}
  BY JournalParts, EmptyJournalTyped DEF Types, World, Process, Operation
<1>3. CASE disk' \in AfterFailure(StoredOrRemoved(FinalJournal)) /\ Degrade
  <2>1. disk' = disk
    BY <1>3, FailedStore DEF Types
  <2>. QED BY <1>0, <1>3, <2>1, NothingRuns, DiskKept DEF Owner, Degrade, Return
<1>4. CASE /\ disk' = StoredOrRemoved(FinalJournal) /\ mem' = FinalJournal
           /\ recovery' = IF kind = "recover" THEN FALSE ELSE recovery
           /\ Return(IF verdict = "degrade" THEN "ReadOnlyDegraded" ELSE mode)
  <2>. DEFINE j == FinalJournal
  <2>1. Covers(j) /\ Originals(j) /\ Even(j)
    <3>1. CASE kind = "apply"
      <4>1. j = saved /\ Covers(saved)
        BY <1>0, <3>1 DEF Owner, ApplySound, Written, Held, FinalJournal
      <4>. QED BY <3>1, <4>1 DEF Owner, ApplySound, Began
    <3>2. CASE kind = "recover"
      <4>1. BackBegan /\ BackHeld
        BY <3>2 DEF Owner, BackSound
      <4>2. Dirty = {}
        BY <1>0, <3>2, <4>1 DEF BackBegan, BackHeld
      <4>. QED BY <1>2, <3>2, <4>2 DEF FinalJournal, Covers, Originals, Even
    <3>3. CASE kind = "restore"
      <4>1. BackBegan /\ BackHeld /\ BackWritten /\ j = mem
        BY <3>3 DEF Owner, BackSound, FinalJournal
      <4>2. mem.claims = saved.claims \ ids /\ \A t \in Target \ ids : mem.entry[t] = saved.entry[t]
        BY <1>0, <3>3, <4>1 DEF BackWritten
      <4>3. Originals(mem) /\ Even(mem)
        BY <1>2, <3>3, <4>1, <4>2 DEF BackBegan, Originals, Even
      <4>4. Covers(mem)
        BY <1>0, <1>1, <4>1, <4>2 DEF BackBegan, BackHeld, Covers
      <4>. QED BY <4>1, <4>3, <4>4
    <3>. QED BY <1>0, <3>1, <3>2, <3>3
  <2>. HIDE DEF j
  <2>2. disk' = StoredOrRemoved(j) /\ mem' = j /\ recovery' = FALSE
    BY <1>0, <1>4 DEF j
  <2>3. DiskSound'
    <3>1. CASE j.claims = {}
      <4>1. Dirty' = {} /\ ~Live'
        BY <1>1, <2>1, <2>2, <3>1 DEF Covers, Live, StoredOrRemoved, NoFile
      <4>. QED BY <4>1 DEF DiskSound
    <3>2. CASE j.claims # {}
      <4>1. Live' /\ disk'.journal = j
        BY <1>0, <2>2, <3>2 DEF Live, StoredOrRemoved, Stored
      <4>. QED BY <1>0, <1>1, <2>1, <4>1 DEF DiskSound, Covers, Originals, Known
    <3>. QED BY <3>1, <3>2
  <2>4. IdleSound'
    BY <1>0, <2>1, <2>2 DEF IdleSound, StoredOrRemoved, Stored, NoFile, Even
  <2>. QED BY <1>4, <2>3, <2>4 DEF Owner, Return, Clear, ApplySound, BackSound
<1>. QED BY <1>3, <1>4 DEF Finish

\* The invariant of the actuator is inductive.
LEMMA OwnerStep ==
  ASSUME ExactKernel, HonestStore, Types, Control, Owner, [Next]_vars
  PROVE  Owner'
<1>1. CASE Apply
  BY <1>1, ApplyOwner
<1>2. CASE Restore
  BY <1>2, GiveBackOwner DEF Restore, Ready, Owner, IdleSound
<1>3. CASE Recover
  BY <1>3, GiveBackOwner DEF Recover, NeedsRecovery, Owner, IdleSound, Live
<1>4. CASE Unreadable \/ Crash
  <2>1. UNCHANGED <<value, foreign, boot, disk>>
    BY <1>4 DEF Unreadable, Crash, kernelVars
  <2>2. DiskSound'
    BY <2>1, DiskKept DEF Owner
  <2>. QED BY <1>4, <2>2, NothingRuns DEF Unreadable, Crash, Degrade, Return, Down
<1>5. CASE DiscardStale
  <2>1. disk' \in {disk, NoFile} /\ UNCHANGED <<value, foreign, boot>> /\ disk.boot # boot
    BY <1>5 DEF DiscardStale, AfterFailure, kernelVars
  <2>2. ~Live /\ ~Live' /\ Dirty' = Dirty
    BY <2>1 DEF Live, NoFile, Dirty
  <2>3. DiskSound'
    BY <2>2 DEF Owner, DiskSound
  <2>4. CASE Degrade
    BY <2>3, <2>4, NothingRuns DEF Degrade, Return
  <2>5. CASE disk' = NoFile /\ mem' = EmptyJournal /\ recovery' = FALSE /\ Return(mode)
    <3>1. IdleSound'
      BY <2>5, EmptyJournalTyped DEF IdleSound, StoredOrRemoved, Even, NoFile, EmptyJournal, DefaultEntry
    <3>. QED BY <2>3, <2>5, <3>1 DEF Owner, Return, Clear, ApplySound, BackSound
  <2>. QED BY <1>5, <2>4, <2>5 DEF DiscardStale
<1>6. CASE PersistIntent
  BY <1>6, PersistIntentOwner
<1>7. CASE Write
  BY <1>7, WriteOwner
<1>8. CASE Check
  BY <1>8, CheckOwner
<1>9. CASE PersistApplied
  BY <1>9, PersistAppliedOwner
<1>10. CASE RollbackRead \/ RollbackWrite \/ RollbackCheck
  BY <1>10, RollbackReadOwner, RollbackWriteOwner, RollbackCheckOwner
<1>11. CASE Finish
  BY <1>11, FinishOwner
<1>12. CASE Reboot
  <2>1. Dirty' = {}
    BY <1>12 DEF Reboot, Dirty
  <2>2. ~Live'
    <3>1. boot \in Nat /\ disk.boot \in Nat /\ disk.boot <= boot /\ boot' = boot + 1
      BY <1>12 DEF Reboot, Types, World
    <3>2. disk' \in {disk, NoFile} /\ ~NoFile.present
      BY <1>12, NoFileTyped DEF Reboot
    <3>. QED BY <3>1, <3>2 DEF Live
  <2>3. DiskSound'
    BY <2>1, <2>2 DEF DiskSound
  <2>. QED BY <1>12, <2>3, NothingRuns DEF Reboot, Down
<1>13. CASE New
  <2>1. UNCHANGED <<value, foreign, boot, disk, kind>> /\ kind = "none" /\ pc' = "idle"
    BY <1>13 DEF New, kernelVars, opVars, Control, Busy
  <2>2. DiskSound'
    BY <2>1, DiskKept DEF Owner
  <2>3. IdleSound'
    <3>1. CASE disk.present
      BY <1>13, <2>1, <3>1 DEF New, IdleSound
    <3>2. CASE ~disk.present
      <4>1. disk = NoFile /\ mem' = EmptyJournal /\ recovery' = FALSE /\ disk' = NoFile
        BY <1>13, <2>1, <3>2 DEF New, Types, World
      <4>. QED BY <4>1, EmptyJournalTyped DEF IdleSound, StoredOrRemoved, Even, NoFile, EmptyJournal, DefaultEntry
    <3>. QED BY <3>1, <3>2 DEF Types, World
  <2>. QED BY <2>1, <2>2, <2>3 DEF Owner, ApplySound, BackSound
<1>14. CASE \E t \in scene.targets : Foreign(t)
  BY <1>14, ForeignOwner
<1>15. CASE UNCHANGED vars
  BY <1>15 DEF vars, Owner, DiskSound, Live, Covers, Originals, Even, Known, Dirty, DiskClaims, IdleSound,
       StoredOrRemoved, Stored, NoFile, ApplySound, Began, Written, Held, Settled, Intents, Batch,
       BackSound, BackBegan, BackWritten, BackHeld
<1>. QED BY <1>1, <1>2, <1>3, <1>4, <1>5, <1>6, <1>7, <1>8, <1>9, <1>10, <1>11, <1>12, <1>13, <1>14,
            <1>15 DEF Next

\* The inductive invariant holds in every state of an exact kernel and an
\* honest store.
THEOREM ScalarInvariant ==
  ASSUME ExactKernel, HonestStore
  PROVE  Spec => []IInv
<1>1. Init => Owner
  <2>. SUFFICES ASSUME Init PROVE Owner
    OBVIOUS
  <2>1. Dirty = {} /\ ~Live
    BY DEF Init, Dirty, Live, NoFile
  <2>. QED BY <2>1 DEF Init, Owner, DiskSound, IdleSound, ApplySound, BackSound
<1>2. Types /\ Control /\ Owner /\ [Next]_vars => Owner'
  BY OwnerStep
<1>. QED BY <1>1, <1>2, UndisturbedInvariant, PTL DEF Spec, IInv

\* What a writable actuator between operations has in memory.
LEMMA ReadyJournal ==
  ASSUME IInv, Ready
  PROVE  Even(mem) /\ Covers(mem)
<1>1. disk = StoredOrRemoved(mem) /\ Even(mem)
  BY DEF IInv, Owner, IdleSound, Ready
<1>2. CASE mem.claims = {}
  <2>1. Dirty = {}
    BY <1>1, <1>2 DEF StoredOrRemoved, NoFile, Live, IInv, Owner, DiskSound
  <2>. QED BY <1>1, <2>1 DEF Covers
<1>3. CASE mem.claims # {}
  <2>1. Live /\ disk.journal = mem
    BY <1>1, <1>3 DEF StoredOrRemoved, Stored, Live
  <2>. QED BY <1>1, <2>1 DEF IInv, Owner, DiskSound
<1>. QED BY <1>2, <1>3

\* Between operations no entry is half way, and what a restore or a recovery
\* would write back is never a value only the actuator chose: for any batches,
\* failures, crashes, reboots and other writers.
THEOREM SoundEntries ==
  ASSUME ExactKernel, HonestStore
  PROVE  Spec => []EntriesSound
<1>1. IInv => EntriesSound
  <2>. SUFFICES ASSUME IInv PROVE EntriesSound
    OBVIOUS
  <2>1. EntriesSettled
    BY ReadyJournal DEF EntriesSettled, Even
  <2>2. OriginalNotOurs
    BY DEF OriginalNotOurs, IInv, Owner, DiskSound, Live, Originals
  <2>. QED BY <2>1, <2>2 DEF EntriesSound
<1>. QED BY <1>1, ScalarInvariant, PTL

\* Between operations a writable actuator owns every value only it chose.
THEOREM OwnedBetweenOperations ==
  ASSUME ExactKernel, HonestStore
  PROVE  Spec => []NothingLeftBehind
<1>1. IInv => NothingLeftBehind
  BY ReadyJournal DEF NothingLeftBehind, Covers
<1>. QED BY <1>1, ScalarInvariant, PTL

\* A step that leaves the attributes alone and moves the claims of the file in
\* one direction is a step of the ownership protocol.
LEMMA FileStepAbstract ==
  ASSUME Types, Types', Dirty' = Dirty, Dirty \subseteq DiskClaims',
         DiskClaims \subseteq DiskClaims' \/ DiskClaims' \subseteq DiskClaims
  PROVE  [Abstract!Next]_(Abstract!vars)
<1>1. DiskClaims \subseteq Target /\ DiskClaims' \subseteq Target
  BY DEF Types, World, Journal, DiskClaims
<1>2. CASE DiskClaims \subseteq DiskClaims'
  <2>1. DiskClaims' \in SUBSET Target /\ DiskClaims' = DiskClaims \cup DiskClaims'
    BY <1>1, <1>2
  <2>. QED BY <2>1 DEF Abstract!Next, Abstract!Claim
<1>3. CASE DiskClaims' \subseteq DiskClaims
  <2>. DEFINE R == DiskClaims \ DiskClaims'
  <2>1. R \in SUBSET (DiskClaims \ Dirty) /\ DiskClaims' = DiskClaims \ R
    BY <1>3
  <2>. QED BY <2>1 DEF Abstract!Next, Abstract!Release
<1>. QED BY <1>2, <1>3

\* A write to a claimed target, or one of others that makes a target clean, is
\* a step of the ownership protocol.
LEMMA ValueStepAbstract ==
  ASSUME NEW t \in Target, Dirty \subseteq DiskClaims, DiskClaims' = DiskClaims,
         t \in DiskClaims \/ t \notin Dirty',
         \A u \in Target \ {t} : u \in Dirty' <=> u \in Dirty
  PROVE  [Abstract!Next]_(Abstract!vars)
<1>1. Dirty \subseteq Target /\ Dirty' \subseteq Target
  BY DEF Dirty
<1>2. CASE t \in DiskClaims
  <2>1. Dirty' \in {Dirty \cup {t}, Dirty \ {t}}
    BY <1>1
  <2>. QED BY <1>2, <2>1 DEF Abstract!Next, Abstract!Mutate
<1>3. CASE t \notin DiskClaims
  <2>1. Dirty' = Dirty
    BY <1>1, <1>3
  <2>. QED BY <2>1 DEF Abstract!vars
<1>. QED BY <1>2, <1>3

\* Every step keeps the promise.
LEMMA StepAbstract ==
  ASSUME HonestStore, IInv, IInv', [Next]_vars
  PROVE  [Abstract!Next]_(Abstract!vars)
<1>0. Types /\ Types' /\ Control /\ Owner /\ Dirty \subseteq DiskClaims /\ Dirty' \subseteq DiskClaims'
  <2>1. Dirty \subseteq DiskClaims
    BY DEF IInv, Owner, DiskSound, Live, Covers, DiskClaims
  <2>2. Dirty' \subseteq DiskClaims'
    BY DEF IInv, Owner, DiskSound, Live, Covers, DiskClaims
  <2>. QED BY <2>1, <2>2 DEF IInv
<1>1. ASSUME UNCHANGED <<value, foreign, boot, disk>>
      PROVE  [Abstract!Next]_(Abstract!vars)
  BY <1>1 DEF Abstract!vars, DiskClaims, Dirty
<1>2. ASSUME UNCHANGED <<value, foreign>>,
             DiskClaims \subseteq DiskClaims' \/ DiskClaims' \subseteq DiskClaims
      PROVE  [Abstract!Next]_(Abstract!vars)
  <2>1. Dirty' = Dirty
    BY <1>2 DEF Dirty
  <2>. QED BY <1>0, <1>2, <2>1, FileStepAbstract
<1>3. CASE Reboot
  <2>1. Dirty' = {}
    BY <1>3 DEF Reboot, Dirty
  <2>2. DiskClaims' = {}
    <3>1. boot \in Nat /\ disk.boot \in Nat /\ disk.boot <= boot /\ boot' = boot + 1
      BY <1>0, <1>3 DEF Reboot, Types, World
    <3>2. disk' \in {disk, NoFile} /\ ~NoFile.present
      BY <1>3, NoFileTyped DEF Reboot
    <3>. QED BY <3>1, <3>2 DEF DiskClaims
  <2>. QED BY <2>1, <2>2 DEF Abstract!Next, Abstract!Reboot
<1>4. CASE Write \/ RollbackWrite
  <2>. DEFINE t == order[idx]
  <2>1. t \in Target /\ t \in Batch /\ Batch \subseteq Target
        /\ kind \in {"apply", "restore", "recover"} /\ pc \in {"write", "rollbackWrite"}
    BY <1>0, <1>4, CurrentTarget, ToSetByIndex
    DEF Write, RollbackWrite, Control, Rolling, Busy, Types, Operation, Batch
  <2>2. t \in DiskClaims
    <3>1. CASE kind = "apply"
      <4>1. disk = Stored(Intents(0))
        BY <1>0, <2>1, <3>1 DEF Owner, ApplySound, Written
      <4>2. t \in Intents(0).claims
        BY <2>1, IntentsParts
      <4>. QED BY <4>1, <4>2 DEF Stored, DiskClaims
    <3>2. CASE kind \in {"restore", "recover"}
      BY <1>0, <2>1, <3>2 DEF Owner, BackSound, BackBegan
    <3>. QED BY <2>1, <3>1, <3>2
  <2>3. UNCHANGED <<foreign, boot, disk>>
    BY <1>4 DEF Write, RollbackWrite
  <2>4. \A u \in Target \ {t} : value'[u] = value[u]
    BY <1>0, <1>4 DEF Write, RollbackWrite, Types, World
  <2>. HIDE DEF t
  <2>5. DiskClaims' = DiskClaims /\ \A u \in Target \ {t} : u \in Dirty' <=> u \in Dirty
    BY <2>3, <2>4 DEF DiskClaims, Dirty
  <2>. QED BY <1>0, <2>1, <2>2, <2>5, ValueStepAbstract
<1>5. CASE \E t \in scene.targets : Foreign(t)
  <2>1. PICK t \in scene.targets : Foreign(t)
    BY <1>5
  <2>2. t \in Target /\ value \in [Target -> Value] /\ foreign \in [Target -> SUBSET Value]
    BY <1>0, ScalarScenes DEF Types, World
  <2>3. PICK v \in Value : value' = [value EXCEPT ![t] = v] /\ foreign' = [foreign EXCEPT ![t] = @ \cup {v}]
    BY <2>1 DEF Foreign
  <2>4. t \notin Dirty' /\ \A u \in Target \ {t} : u \in Dirty' <=> u \in Dirty
    BY <2>2, <2>3 DEF Dirty
  <2>5. DiskClaims' = DiskClaims
    BY <2>1 DEF Foreign, DiskClaims
  <2>. QED BY <1>0, <2>2, <2>4, <2>5, ValueStepAbstract
<1>6. CASE PersistIntent
  <2>1. UNCHANGED <<value, foreign, boot>> /\ disk' \in {disk, Stored(mem)}
    BY <1>6 DEF PersistIntent, AfterFailure, kernelVars
  <2>2. DiskClaims \subseteq mem.claims
    <3>0. pc = "persistIntent" /\ kind \in {"apply", "restore", "recover"} /\ Batch \subseteq Target
      BY <1>0, <1>6, ToSetByIndex DEF PersistIntent, Control, Busy, Types, Operation, Batch
    <3>1. CASE kind = "apply"
      <4>1. disk = StoredOrRemoved(saved) /\ mem.claims = saved.claims \cup Batch
        BY <1>0, <3>0, <3>1, IntentsParts DEF Owner, ApplySound, Written
      <4>. QED BY <4>1 DEF StoredOrRemoved, Stored, NoFile, DiskClaims
    <3>2. CASE kind \in {"restore", "recover"}
      BY <1>0, <3>0, <3>2 DEF Owner, BackSound, BackBegan, BackWritten
    <3>. QED BY <3>0, <3>1, <3>2
  <2>3. DiskClaims \subseteq DiskClaims'
    BY <2>1, <2>2 DEF DiskClaims, Stored
  <2>. QED BY <1>2, <2>1, <2>3
<1>7. CASE PersistApplied
  <2>1. UNCHANGED <<value, foreign, boot>> /\ disk' \in {disk, Stored(mem)}
    BY <1>7 DEF PersistApplied, AfterFailure, kernelVars
  <2>2. DiskClaims = mem.claims
    <3>1. kind = "apply" /\ pc = "persistApplied" /\ Batch \subseteq Target
      BY <1>0, <1>7, ToSetByIndex DEF PersistApplied, Control, Busy, Types, Operation, Batch
    <3>2. disk = Stored(Intents(0)) /\ mem = Intents(Settled)
      BY <1>0, <3>1 DEF Owner, ApplySound, Written
    <3>3. Intents(0).claims = Intents(Settled).claims
      BY <3>1, IntentsParts
    <3>. QED BY <3>2, <3>3 DEF Stored, DiskClaims
  <2>3. DiskClaims \subseteq DiskClaims'
    BY <2>1, <2>2 DEF DiskClaims, Stored
  <2>. QED BY <1>2, <2>1, <2>3
<1>8. CASE Finish
  <2>1. UNCHANGED <<value, foreign, boot>> /\ disk' \in {disk, StoredOrRemoved(FinalJournal)}
    BY <1>8 DEF Finish, AfterFailure, kernelVars
  <2>2. FinalJournal.claims \subseteq DiskClaims
    <3>0. pc = "finish" /\ kind \in {"apply", "restore", "recover"} /\ Batch \subseteq Target
      BY <1>0, <1>8, ToSetByIndex DEF Finish, Control, Busy, Types, Operation, Batch
    <3>1. CASE kind = "apply"
      <4>1. disk = Stored(Intents(0)) /\ FinalJournal = saved
        BY <1>0, <3>0, <3>1 DEF Owner, ApplySound, Written, FinalJournal
      <4>2. saved.claims \subseteq Intents(0).claims
        BY <3>0, IntentsParts
      <4>. QED BY <4>1, <4>2 DEF Stored, DiskClaims
    <3>2. CASE kind = "restore"
      BY <1>0, <3>0, <3>2 DEF Owner, BackSound, BackBegan, BackWritten, FinalJournal
    <3>3. CASE kind = "recover"
      BY <3>3, EmptyJournalTyped DEF FinalJournal
    <3>. QED BY <3>0, <3>1, <3>2, <3>3
  <2>3. DiskClaims' \subseteq DiskClaims
    BY <2>1, <2>2 DEF DiskClaims, StoredOrRemoved, Stored, NoFile
  <2>. QED BY <1>2, <2>1, <2>3
<1>9. CASE DiscardStale
  <2>1. UNCHANGED <<value, foreign, boot>> /\ disk' \in {disk, NoFile}
    BY <1>9 DEF DiscardStale, AfterFailure, kernelVars
  <2>2. DiskClaims' \subseteq DiskClaims
    BY <2>1 DEF DiskClaims, NoFile
  <2>. QED BY <1>2, <2>1, <2>2
<1>10. CASE \/ Apply \/ Restore \/ Recover \/ Unreadable \/ Check \/ RollbackRead \/ RollbackCheck
            \/ Crash \/ New \/ UNCHANGED vars
  BY <1>1, <1>10 DEF Apply, Restore, Recover, GiveBack, Unreadable, Check, RollbackRead, RollbackCheck,
       Crash, New, kernelVars, vars
<1>. QED BY <1>3, <1>4, <1>5, <1>6, <1>7, <1>8, <1>9, <1>10 DEF Next

\* The scalar actuator implements the ownership protocol: claim before mutation,
\* release only when clean, for every interleaving of batches, failures,
\* crashes, reboots and writes of others in the middle of an operation.
THEOREM ScalarImplementsOwnership ==
  ASSUME ExactKernel, HonestStore
  PROVE  Spec => ImplementsOwnership
<1>1. Init => Abstract!Init
  BY DEF Init, NoFile, Abstract!Init, DiskClaims, Dirty
<1>2. IInv /\ IInv' /\ [Next]_vars => [Abstract!Next]_(Abstract!vars)
  BY StepAbstract
<1>. QED BY <1>1, <1>2, ScalarInvariant, PTL DEF Spec, ImplementsOwnership, Abstract!Spec
=============================================================================
