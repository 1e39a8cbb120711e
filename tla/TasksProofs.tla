----------------------------- MODULE TasksProofs -----------------------------
(***************************************************************************)
(* Proofs about what is done to processes, threads and units, for any      *)
(* slots, fields, values, batches, crashes, occupants that come and go,    *)
(* and writes of others:                                                   *)
(*   Spec => []FieldsSound             (SoundFields), for a store that has *)
(*     not replaced the file when it reports a failure (HonestFile);       *)
(*   Spec => [](TypeOK /\ JournalDecodes)  (JournalAlwaysReadable) and     *)
(*   Spec => AdministratorWins         (AdministratorHasLastWord), for any *)
(*     store;                                                              *)
(*   SchedSpec => []ValidConfigIsSafe  (AcceptedConfigIsSafe), in every    *)
(*     scene and for every workload.                                       *)
(*                                                                         *)
(* FieldsSound is kept because of what holds of every instance in its slot *)
(* (Instance): the journal file knows each of its values only the daemon   *)
(* chose.  While a batch is read, written or taken back, or entries are    *)
(* given back, the invariant says which values the instance may hold and   *)
(* which journal accounts for them (Reading, Written, Rolled, GivenBack),  *)
(* and what is about to be written (AtHand).  AdministratorWins rests on   *)
(* AdminInv: what a batch read of an instance and what it wants differ in  *)
(* no field that was given up, and in an owned one only if it was as       *)
(* applied; a goal differs only in owned fields whose value is known.      *)
(***************************************************************************)
EXTENDS InstanceActuator, SchedulingPolicy, FiniteSetTheorems, TLAPS

-----------------------------------------------------------------------------
(* The invariant.                                                          *)

\* A store that reports a failure has not replaced the file.
HonestFile == ~TornStore

OpFields ==
  {"at", "kind", "order", "idx", "request", "before", "want", "cur", "tgt", "base", "todo",
   "done", "attempted", "start", "saved", "degrades", "failed", "raced"}
Steps == {"verify", "read", "open", "original", "fields"}
Writing == {"open", "original", "fields"}

\* What a field may hold: x has in every field a value that others chose (o),
\* one of y, one of y or z.
Clean(x, o) == \A f \in Field : x[f] \in o[f]
Within(x, o, y) == \A f \in Field : x[f] \in o[f] \/ x[f] = y[f]
Between(x, o, y, z) == \A f \in Field : x[f] \in o[f] \/ x[f] = y[f] \/ x[f] = z[f]
\* Every value only the daemon chose is owned by k's entry in j, and is the one
\* applied; or the one applied or desired.
Settled(x, o, j, k) ==
  \A f \in Field : \/ x[f] \in o[f]
                   \/ k \in DOMAIN j /\ f \in j[k].owned /\ x[f] = j[k].applied[f]
Known(x, o, j, k) ==
  \A f \in Field : \/ x[f] \in o[f]
                   \/ /\ k \in DOMAIN j /\ f \in j[k].owned
                      /\ x[f] = j[k].applied[f] \/ x[f] = j[k].desired[f]
Originals(j, k, o) ==
  k \in DOMAIN j => \A f \in Field : f \in j[k].owned => j[k].original[f] \in o[f]

\* The instance k is in its slot, and was not written as somebody else; of a store
\* that may have replaced the file all the same, nothing is claimed.
Sits(k) == HonestFile /\ inst[k[1]] = k[2] /\ k[1] \notin stranger

Members(p) == {p.order[n] : n \in 1 .. Len(p.order)}
\* The part of the order an operation has been through.
Passed(p) ==
  {p.order[n] : n \in 1 .. (IF p.at \in {"persistApplied", "finish"} THEN Len(p.order)
                            ELSE p.idx - 1)}

\* Of an instance whose slot shows x: while a batch is read, ...
Reading(k, x, o, p, m) ==
  /\ Settled(x, o, m, k)
  /\ k \in Passed(p) => Within(x, o, p.before[k[1]]) /\ Settled(p.before[k[1]], o, m, k)
\* ... as a member of a batch that j has the intents of, ...
Batched(k, x, o, p, j) ==
  /\ Settled(p.before[k[1]], o, p.saved, k)
  /\ Known(p.before[k[1]], o, j, k) /\ Known(p.want[k[1]], o, j, k)
  /\ Between(x, o, p.before[k[1]], p.want[k[1]])
\* ... while the batch is written, ...
Written(k, x, o, p, j, m) ==
  /\ k \in Members(p) => Batched(k, x, o, p, j)
  /\ k \in Members(p) /\ k \in DOMAIN m => m[k].applied \in {p.before[k[1]], p.want[k[1]]}
  /\ k \notin Members(p) => Settled(x, o, m, k)
  /\ k \notin p.attempted => Settled(x, o, p.saved, k)
  /\ p.at # "persistIntent" /\ k \in Passed(p) =>
       Within(x, o, p.want[k[1]]) /\ (k \in DOMAIN m => m[k].applied = p.want[k[1]])
\* ... while it is taken back, ...
Rolled(k, x, o, p, d) ==
  /\ k \in p.attempted => Batched(k, x, o, p, d)
  /\ k \notin p.attempted => Settled(x, o, p.saved, k)
  /\ ~p.failed /\ k \in Passed(p) => Within(x, o, p.before[k[1]])
\* ... and while entries are given back.
GivenBack(k, x, o, p, m) ==
  /\ p.kind = "restore" /\ k \notin Members(p) => Settled(x, o, m, k)
  /\ k \in Passed(p) => Clean(x, o)
\* Of the instance that is being written.
AtHand(k, x, o, p, d) ==
  /\ Known(IF p.kind = "apply" THEN p.want[k[1]] ELSE p.tgt, o, d, k)
  /\ p.kind = "apply" /\ p.at # "open" => k \in p.attempted
  /\ p.kind # "apply" /\ p.at = "open" => Within(x, o, p.cur)
  /\ p.kind = "rollback" => Within(p.tgt, o, p.before[k[1]])
  /\ p.kind \in {"restore", "recover"} => Clean(p.tgt, o)
  /\ p.at = "fields" =>
       /\ Known(p.base, o, d, k)
       /\ p.kind \in {"apply", "rollback"} =>
            Between(p.base, o, p.before[k[1]], p.want[k[1]])

\* What holds of every instance in its slot, whose fields are x, others having
\* chosen o, in an operation p, with the journal d in the file and m in memory,
\* when the actuator is ready or not.
Instance(k, x, o, p, d, m, ready) ==
  /\ Known(x, o, d, k)
  /\ Originals(d, k, o) /\ Originals(m, k, o) /\ Originals(p.saved, k, o)
  /\ ready => Settled(x, o, m, k)
  /\ p.kind = "apply" /\ p.at \in {"verify", "read"} => Reading(k, x, o, p, m)
  /\ p.kind = "apply" /\ p.at = "persistIntent" =>
       Known(x, o, m, k) /\ Written(k, x, o, p, m, m)
  /\ p.kind = "apply" /\ p.at \in Writing \cup {"persistApplied"} => Written(k, x, o, p, d, m)
  /\ p.kind = "rollback" => Rolled(k, x, o, p, d)
  /\ p.kind \in {"restore", "recover"} => GivenBack(k, x, o, p, m)
  /\ p.at \in Writing /\ k = p.order[p.idx] => AtHand(k, x, o, p, d)

AllInstances ==
  \A k \in Key : Sits(k) => Instance(k, field[k[1]], others[k[1]], op, disk, mem, Ready)

\* Journals are of instances that exist or existed, and decode.
Fit(j) == Journal(j) /\ Decodes(j) /\ \A k \in DOMAIN j : k[2] <= born[k[1]]

World ==
  /\ scene \in Scenes
  /\ born \in [Slot -> Nat] /\ inst \in [Slot -> Nat]
  /\ \A s \in Slot : born[s] <= scene.lives[s] /\ inst[s] \in {0, born[s]}
  /\ field \in [Slot -> State] /\ others \in [Slot -> [Field -> SUBSET Value]]
  /\ stranger \subseteq Slot
Process ==
  /\ Fit(disk) /\ Fit(mem) /\ Fit(op.saved) /\ Journal(op.start)
  /\ mode \in {"ReadWrite", "ReadOnlyDegraded"} /\ recovery \in BOOLEAN
Operation ==
  /\ DOMAIN op = OpFields
  /\ op.order \in Seq(Key) /\ op.idx \in 0 .. Len(op.order) + 1
  /\ \A m, n \in 1 .. Len(op.order) : op.order[m] = op.order[n] => m = n
  /\ \A n \in 1 .. Len(op.order) : op.order[n][2] <= born[op.order[n][1]]
  /\ op.request \in [Slot -> State] /\ op.before \in [Slot -> State] /\ op.want \in [Slot -> State]
  /\ op.cur \in State /\ op.tgt \in State /\ op.base \in State
  /\ op.todo \subseteq Field /\ op.done \subseteq Field /\ op.attempted \subseteq Key
  /\ op.todo \cap op.done = {}
  /\ op.failed \in BOOLEAN /\ op.degrades \in BOOLEAN
Types == World /\ Process /\ Operation

\* Which operation is where, and in which mode.
Control ==
  /\ op.at \in {"idle", "down", "persistIntent", "persistApplied", "finish"} \cup Steps
  /\ op.at \in {"idle", "down"} => op.kind = "none"
  /\ op.at \notin {"idle", "down"} =>
       /\ op.kind \in {"apply", "rollback", "restore", "recover"} /\ mode = "ReadWrite"
       /\ recovery <=> op.kind = "recover"
  /\ op.at \in {"persistIntent", "persistApplied"} => op.kind = "apply"
  /\ op.at = "finish" => op.kind # "apply"
  /\ op.at \in Steps \cup {"persistIntent"} => op.idx \in 1 .. Len(op.order)
  /\ op.at # "fields" => op.done = {}

\* How file, memory and the batch relate.
SameClaims(d, m) == DOMAIN m = DOMAIN d /\ \A k \in DOMAIN d : m[k].owned = d[k].owned
Sync ==
  /\ op.at = "idle" /\ mode = "ReadWrite" => mem = disk
  /\ op.kind = "apply" /\ op.at \in {"verify", "read"} =>
       /\ mem = disk /\ op.attempted = {}
       /\ \A m, n \in 1 .. Len(op.order) : op.order[m][1] = op.order[n][1] => m = n
       /\ \A n \in 1 .. Len(op.order) : n < op.idx \/ (n = op.idx /\ op.at = "read") =>
            \A k \in DOMAIN mem : k[1] = op.order[n][1] => k[2] <= op.order[n][2]
  /\ op.kind = "apply" => op.attempted \subseteq Members(op)
  /\ op.kind \notin {"apply", "rollback"} => op.attempted = {}
  /\ op.kind = "apply" /\ op.at \in Writing \cup {"persistApplied"} => SameClaims(disk, mem)
  /\ op.kind = "rollback" => op.attempted = Members(op)
  /\ op.kind \in {"restore", "recover"} => mem = disk /\ Members(op) \subseteq DOMAIN mem
  /\ op.kind = "recover" => Members(op) = DOMAIN mem

InstInv == Types /\ Control /\ Sync /\ AllInstances

-----------------------------------------------------------------------------
(* Keys, orders, entries and the fields of an operation.                   *)

\* An instance is a slot and a number.
LEMMA KeyParts ==
  ASSUME NEW k \in Key, World
  PROVE  /\ k[1] \in Slot /\ k[2] \in Nat /\ 1 <= k[2] /\ k[2] <= scene.lives[k[1]]
         /\ k = <<k[1], k[2]>>
<1>1. PICK s \in Slot : k \in {s} \X (1 .. scene.lives[s])
  BY DEF Key
<1>2. scene.lives[s] \in Nat
  BY InstanceConstants DEF World
<1> QED BY <1>1, <1>2

\* A slot and one of its numbers are an instance.
LEMMA KeyFrom ==
  ASSUME NEW s \in Slot, NEW n \in Nat, 1 <= n, n <= scene.lives[s], World
  PROVE  <<s, n>> \in Key
<1>1. scene.lives[s] \in Nat
  BY InstanceConstants DEF World
<1>2. <<s, n>> \in {s} \X (1 .. scene.lives[s])
  BY <1>1
<1> QED BY <1>2 DEF Key

\* The occupant of a slot is a key.
LEMMA OccupantKey ==
  ASSUME NEW s \in Slot, inst[s] # 0, World
  PROVE  <<s, inst[s]>> \in Key /\ inst[s] = born[s] /\ born[s] \in Nat
<1>1. inst[s] = born[s] /\ born[s] <= scene.lives[s] /\ born[s] \in Nat
  BY DEF World
<1>2. 1 <= born[s]
  BY <1>1
<1> QED BY <1>1, <1>2, KeyFrom

\* There are finitely many instances.
LEMMA KeyFinite ==
  ASSUME World
  PROVE  IsFiniteSet(Key)
<1> DEFINE keys(s) == {s} \X (1 .. scene.lives[s])
           all == {keys(s) : s \in Slot}
<1>1. IsFiniteSet(all)
  <2>1. IsFiniteSet(Slot)
    BY InstanceConstants
  <2>2. [s \in Slot |-> keys(s)] \in Surjection(Slot, all)
    BY DEF Surjection
  <2> QED BY <2>1, <2>2, FS_Surjection
<1>2. ASSUME NEW s \in Slot
      PROVE  IsFiniteSet(keys(s))
  <2>1. scene.lives[s] \in Int
    BY InstanceConstants DEF World
  <2>2. IsFiniteSet(1 .. scene.lives[s])
    <3>1. 1 \in Int
      OBVIOUS
    <3> QED BY <2>1, <3>1, FS_Interval, Zenon
  <2>3. IsFiniteSet({s})
    BY FS_Singleton
  <2> QED BY <2>2, <2>3, FS_Product
<1>3. \A S \in all : IsFiniteSet(S)
  BY <1>2
<1>4. IsFiniteSet(UNION all)
  BY <1>1, <1>3, FS_UNION
<1> QED BY <1>4 DEF Key

\* An order of a finite set lists each of its elements once.
LEMMA OrdersParts ==
  ASSUME NEW S, IsFiniteSet(S), NEW s \in Orders(S)
  PROVE  /\ s \in Seq(S) /\ Len(s) \in Nat /\ DOMAIN s = 1 .. Len(s)
         /\ \A m, n \in 1 .. Len(s) : s[m] = s[n] => m = n
         /\ {s[n] : n \in 1 .. Len(s)} = S
         /\ Len(s) = 0 => S = {}
<1> DEFINE c == Cardinality(S)
<1>1. c \in Nat
  BY FS_CardinalityType
<1>2. s \in [1 .. c -> S] /\ ToSet(s) = S
  BY DEF Orders
<1>3. s \in Seq(S) /\ Len(s) = c /\ DOMAIN s = 1 .. c
  BY <1>1, <1>2
<1>4. {s[n] : n \in 1 .. c} = S
  BY <1>2, <1>3 DEF ToSet
<1>5. s \in Surjection(1 .. c, S)
  BY <1>2, <1>4 DEF Surjection
<1>6. IsFiniteSet(1 .. c) /\ Cardinality(1 .. c) = c
  <2>1. 1 \in Int /\ c \in Int
    BY <1>1
  <2>2. IsFiniteSet(1 .. c) /\ Cardinality(1 .. c) = IF 1 > c THEN 0 ELSE c - 1 + 1
    BY <2>1, FS_Interval, Zenon
  <2> QED BY <1>1, <2>2
<1>7. s \in Injection(1 .. c, S)
  BY <1>5, <1>6, FS_SurjSameCardinalityImpliesInj
<1>8. \A m, n \in 1 .. c : s[m] = s[n] => m = n
  BY <1>7 DEF Injection, IsInjective
<1>9. c = 0 => S = {}
  BY FS_EmptySet
<1> QED BY <1>1, <1>3, <1>4, <1>8, <1>9

\* States of an instance's fields.
LEMMA BlankTyped == Blank \in State
BY InstanceConstants DEF Blank, State

\* A copy has the fields of the mask from b and the others from a.
LEMMA CopyParts ==
  ASSUME NEW mask, NEW a \in State, NEW b \in State
  PROVE  /\ Copy(mask, a, b) \in State
         /\ \A f \in Field : Copy(mask, a, b)[f] = IF f \in mask THEN b[f] ELSE a[f]
BY DEF Copy, State

\* Copying no field changes nothing.
LEMMA CopyNothing ==
  ASSUME NEW a \in State, NEW b
  PROVE  Copy({}, a, b) = a
BY DEF Copy, State

\* A journal without entries fits.
LEMMA NoEntriesFit == Fit(NoEntries) /\ DOMAIN NoEntries = {}
BY DEF Fit, Journal, Decodes, NoEntries

\* The operation that is none.
LEMMA IdleParts ==
  /\ DOMAIN Idle = OpFields
  /\ Idle.at = "idle" /\ Idle.kind = "none" /\ Idle.order = <<>> /\ Idle.idx = 0
  /\ Idle.request \in [Slot -> State] /\ Idle.before \in [Slot -> State]
  /\ Idle.want \in [Slot -> State]
  /\ Idle.cur \in State /\ Idle.tgt \in State /\ Idle.base \in State
  /\ Idle.todo = {} /\ Idle.done = {} /\ Idle.attempted = {}
  /\ Idle.start = NoEntries /\ Idle.saved = NoEntries
  /\ Idle.degrades = FALSE /\ Idle.failed = FALSE /\ Idle.raced = FALSE
<1>1. /\ DOMAIN Idle = OpFields
      /\ Idle.at = "idle" /\ Idle.kind = "none" /\ Idle.order = <<>> /\ Idle.idx = 0
      /\ Idle.request = [s \in Slot |-> Blank] /\ Idle.before = [s \in Slot |-> Blank]
      /\ Idle.want = [s \in Slot |-> Blank]
      /\ Idle.cur = Blank /\ Idle.tgt = Blank /\ Idle.base = Blank
      /\ Idle.todo = {} /\ Idle.done = {} /\ Idle.attempted = {}
      /\ Idle.start = NoEntries /\ Idle.saved = NoEntries
  BY DEF Idle, OpFields
<1>2. Idle.degrades = FALSE /\ Idle.failed = FALSE /\ Idle.raced = FALSE
  BY DEF Idle
<1> QED BY <1>1, <1>2, BlankTyped

\* Clear forgets what was read of the instance at hand.
LEMMA ClearParts ==
  ASSUME NEW p, DOMAIN p = OpFields, NEW q, q = Clear(p)
  PROVE  /\ DOMAIN q = OpFields
         /\ q.cur = Blank /\ q.tgt = Blank /\ q.base = Blank /\ q.todo = {} /\ q.done = {}
         /\ \A g \in OpFields \ {"cur", "tgt", "base", "todo", "done"} : q[g] = p[g]
BY DEF Clear, OpFields

\* What an operation is after it has dealt with one instance.
LEMMA FollowingParts ==
  ASSUME NEW p, DOMAIN p = OpFields, NEW q, q = Following(p),
         p.order \in Seq(Key), p.idx \in 1 .. Len(p.order),
         p.at \notin {"persistApplied", "finish"}
  PROVE  /\ DOMAIN q = OpFields
         /\ q.cur = Blank /\ q.tgt = Blank /\ q.base = Blank /\ q.todo = {} /\ q.done = {}
         /\ q.kind = p.kind /\ q.order = p.order /\ q.request = p.request
         /\ q.before = p.before /\ q.want = p.want /\ q.attempted = p.attempted
         /\ q.start = p.start /\ q.saved = p.saved /\ q.degrades = p.degrades
         /\ q.failed = p.failed /\ q.raced = p.raced
         /\ p.idx < Len(p.order) =>
              q.idx = p.idx + 1 /\ q.at = IF p.kind = "apply" THEN "open" ELSE "verify"
         /\ p.idx = Len(p.order) =>
              q.idx = p.idx /\ q.at = IF p.kind = "apply" THEN "persistApplied" ELSE "finish"
         /\ Members(q) = Members(p) /\ Passed(q) = Passed(p) \cup {p.order[p.idx]}
<1> DEFINE c == Clear(p)
<1>1. /\ DOMAIN c = OpFields
      /\ c.cur = Blank /\ c.tgt = Blank /\ c.base = Blank /\ c.todo = {} /\ c.done = {}
      /\ \A g \in OpFields \ {"cur", "tgt", "base", "todo", "done"} : c[g] = p[g]
  BY ClearParts
<1>2. c.idx = p.idx
  BY <1>1 DEF OpFields
<1>3. q = IF p.idx < Len(p.order)
          THEN [c EXCEPT !.idx = @ + 1, !.at = IF p.kind = "apply" THEN "open" ELSE "verify"]
          ELSE [c EXCEPT !.at = IF p.kind = "apply" THEN "persistApplied" ELSE "finish"]
  BY DEF Following
<1> HIDE DEF c
<1>4. /\ DOMAIN q = OpFields
      /\ \A g \in OpFields \ {"idx", "at"} : q[g] = c[g]
      /\ p.idx < Len(p.order) =>
           q.idx = p.idx + 1 /\ q.at = IF p.kind = "apply" THEN "open" ELSE "verify"
      /\ ~(p.idx < Len(p.order)) =>
           q.idx = p.idx /\ q.at = IF p.kind = "apply" THEN "persistApplied" ELSE "finish"
  <2> DEFINE next == IF p.kind = "apply" THEN "open" ELSE "verify"
             last == IF p.kind = "apply" THEN "persistApplied" ELSE "finish"
  <2>1. CASE p.idx < Len(p.order)
    <3>1. q = [c EXCEPT !.idx = p.idx + 1, !.at = next]
      BY <1>2, <1>3, <2>1
    <3> HIDE DEF next, last
    <3>2. /\ DOMAIN q = OpFields /\ q.idx = p.idx + 1 /\ q.at = next
          /\ \A g \in OpFields \ {"idx", "at"} : q[g] = c[g]
      BY <1>1, <3>1 DEF OpFields
    <3> QED BY <2>1, <3>2 DEF next
  <2>2. CASE ~(p.idx < Len(p.order))
    <3>1. q = [c EXCEPT !.at = last]
      BY <1>3, <2>2
    <3> HIDE DEF next, last
    <3>2. /\ DOMAIN q = OpFields /\ q.idx = p.idx /\ q.at = last
          /\ \A g \in OpFields \ {"idx", "at"} : q[g] = c[g]
      BY <1>1, <1>2, <3>1 DEF OpFields
    <3> QED BY <2>2, <3>2 DEF last
  <2> QED BY <2>1, <2>2
<1>5. \A g \in OpFields \ {"idx", "at", "cur", "tgt", "base", "todo", "done"} : q[g] = p[g]
  BY <1>1, <1>4
<1>6. /\ q.kind = p.kind /\ q.order = p.order /\ q.request = p.request
      /\ q.before = p.before /\ q.want = p.want /\ q.attempted = p.attempted
      /\ q.start = p.start /\ q.saved = p.saved /\ q.degrades = p.degrades
      /\ q.failed = p.failed /\ q.raced = p.raced
  BY <1>5 DEF OpFields
<1>7. q.cur = Blank /\ q.tgt = Blank /\ q.base = Blank /\ q.todo = {} /\ q.done = {}
  BY <1>1, <1>4 DEF OpFields
<1>8. Len(p.order) \in Nat
  OBVIOUS
<1>9. Members(q) = Members(p)
  BY <1>6 DEF Members
<1>10. Passed(q) = {p.order[n] : n \in 1 .. p.idx}
  <2>1. CASE p.idx < Len(p.order)
    <3>1. q.at \notin {"persistApplied", "finish"} /\ q.idx - 1 = p.idx
      BY <1>4, <1>8, <2>1
    <3> QED BY <1>6, <3>1 DEF Passed
  <2>2. CASE ~(p.idx < Len(p.order))
    <3>1. q.at \in {"persistApplied", "finish"} /\ Len(q.order) = p.idx
      BY <1>4, <1>6, <1>8, <2>2
    <3> QED BY <1>6, <3>1 DEF Passed
  <2> QED BY <2>1, <2>2
<1>11. Passed(p) = {p.order[n] : n \in 1 .. (p.idx - 1)}
  BY DEF Passed
<1>12. 1 .. p.idx = (1 .. (p.idx - 1)) \cup {p.idx}
  BY <1>8
<1>13. Passed(q) = Passed(p) \cup {p.order[p.idx]}
  BY <1>10, <1>11, <1>12
<1> QED BY <1>4, <1>6, <1>7, <1>8, <1>9, <1>13

-----------------------------------------------------------------------------
(* The processes and everybody else.                                       *)

\* Others choose more, and what changes is theirs.
Moves(x, o, y, c) == \A f \in Field : o[f] \subseteq c[f] /\ (y[f] = x[f] \/ y[f] \in c[f])

\* What is said of the values of fields survives the choices of others.
LEMMA MoveKeeps ==
  ASSUME NEW x, NEW o, NEW y, NEW c, Moves(x, o, y, c)
  PROVE  /\ Clean(x, o) => Clean(y, c)
         /\ \A a : Within(x, o, a) => Within(y, c, a)
         /\ \A a, b : Between(x, o, a, b) => Between(y, c, a, b)
         /\ \A j, k : Settled(x, o, j, k) => Settled(y, c, j, k)
         /\ \A j, k : Known(x, o, j, k) => Known(y, c, j, k)
<1>1. Clean(x, o) => Clean(y, c)
  BY DEF Moves, Clean
<1>2. \A a : Within(x, o, a) => Within(y, c, a)
  BY DEF Moves, Within
<1>3. \A a, b : Between(x, o, a, b) => Between(y, c, a, b)
  BY DEF Moves, Between
<1>4. \A j, k : Settled(x, o, j, k) => Settled(y, c, j, k)
  BY DEF Moves, Settled
<1>5. \A j, k : Known(x, o, j, k) => Known(y, c, j, k)
  BY DEF Moves, Known
<1> QED BY <1>1, <1>2, <1>3, <1>4, <1>5

\* The parts of an operation that instances depend on.
Alike(p, q) ==
  /\ q.kind = p.kind /\ q.at = p.at /\ q.order = p.order /\ q.idx = p.idx
  /\ q.before = p.before /\ q.want = p.want /\ q.cur = p.cur /\ q.tgt = p.tgt /\ q.base = p.base
  /\ q.attempted = p.attempted /\ q.saved = p.saved /\ q.failed = p.failed

\* So does what holds of an instance.
LEMMA InstanceMoves ==
  ASSUME NEW k, NEW x, NEW o, NEW y, NEW c, NEW p, NEW q, NEW d, NEW m, NEW ready,
         Instance(k, x, o, p, d, m, ready), Moves(x, o, y, c), Alike(p, q)
  PROVE  Instance(k, y, c, q, d, m, ready)
<1>1. \A z : Moves(z, o, z, c)
  BY DEF Moves
<1>2. Members(q) = Members(p) /\ Passed(q) = Passed(p)
  BY DEF Alike, Members, Passed
<1>3. \A j : Originals(j, k, o) => Originals(j, k, c)
  BY DEF Moves, Originals
<1>4. \A z : /\ Clean(z, o) => Clean(z, c)
             /\ \A a : Within(z, o, a) => Within(z, c, a)
             /\ \A a, b : Between(z, o, a, b) => Between(z, c, a, b)
             /\ \A j : Settled(z, o, j, k) => Settled(z, c, j, k)
             /\ \A j : Known(z, o, j, k) => Known(z, c, j, k)
  BY <1>1, MoveKeeps
<1>5. /\ Clean(x, o) => Clean(y, c)
      /\ \A a : Within(x, o, a) => Within(y, c, a)
      /\ \A a, b : Between(x, o, a, b) => Between(y, c, a, b)
      /\ \A j : Settled(x, o, j, k) => Settled(y, c, j, k)
      /\ \A j : Known(x, o, j, k) => Known(y, c, j, k)
  BY MoveKeeps
<1>6. \A j : Batched(k, x, o, p, j) => Batched(k, y, c, q, j)
  BY <1>4, <1>5 DEF Batched, Alike
<1>7. Reading(k, x, o, p, m) => Reading(k, y, c, q, m)
  BY <1>2, <1>4, <1>5 DEF Reading, Alike
<1>8. \A j : Written(k, x, o, p, j, m) => Written(k, y, c, q, j, m)
  BY <1>2, <1>5, <1>6 DEF Written, Alike
<1>9. Rolled(k, x, o, p, d) => Rolled(k, y, c, q, d)
  BY <1>2, <1>5, <1>6 DEF Rolled, Alike
<1>10. GivenBack(k, x, o, p, m) => GivenBack(k, y, c, q, m)
  BY <1>2, <1>5 DEF GivenBack, Alike
<1>11. AtHand(k, x, o, p, d) => AtHand(k, y, c, q, d)
  BY <1>4, <1>5 DEF AtHand, Alike
<1> QED BY <1>3, <1>5, <1>7, <1>8, <1>9, <1>10, <1>11 DEF Instance, Alike

\* An instance that nothing speaks of.
LEMMA FreshInstance ==
  ASSUME NEW k, NEW x, NEW o, NEW p, NEW d, NEW m, NEW ready,
         Clean(x, o), k \notin DOMAIN d, k \notin DOMAIN m, k \notin DOMAIN p.saved,
         k \notin Members(p), k \notin p.attempted, k \notin Passed(p),
         p.at \in Writing => p.order[p.idx] # k
  PROVE  Instance(k, x, o, p, d, m, ready)
<1>1. \A j : Settled(x, o, j, k) /\ Known(x, o, j, k)
  BY DEF Clean, Settled, Known
<1>2. Originals(d, k, o) /\ Originals(m, k, o) /\ Originals(p.saved, k, o)
  BY DEF Originals
<1>3. /\ Reading(k, x, o, p, m) /\ Written(k, x, o, p, m, m) /\ Written(k, x, o, p, d, m)
      /\ Rolled(k, x, o, p, d) /\ GivenBack(k, x, o, p, m)
  BY <1>1 DEF Reading, Written, Rolled, GivenBack
<1> QED BY <1>1, <1>2, <1>3 DEF Instance

\* A journal goes on fitting as instances come and go.
LEMMA FitKept ==
  ASSUME NEW j, Fit(j), World, scene' = scene,
         \A s \in Slot : born'[s] \in Nat /\ born[s] <= born'[s]
  PROVE  Journal(j)' /\ Decodes(j)' /\ (\A k \in DOMAIN j : k[2] <= born'[k[1]])
<1>1. Journal(j)' /\ Decodes(j)'
  BY DEF Fit, Journal, Key, Decodes, family
<1>2. ASSUME NEW k \in DOMAIN j
      PROVE  k[2] <= born'[k[1]]
  <2>1. k \in Key /\ k[2] <= born[k[1]]
    BY DEF Fit, Journal
  <2>2. k[1] \in Slot /\ k[2] \in Nat
    BY <2>1, KeyParts
  <2>3. born[k[1]] \in Nat
    BY <2>2 DEF World
  <2> QED BY <2>1, <2>2, <2>3
<1> QED BY <1>1, <1>2

\* A step of the world: an instance is still there, and what changed of its
\* fields is the choice of others; or it is new.
LEMMA WorldStep ==
  ASSUME InstInv, World', scene' = scene, UNCHANGED <<disk, mem, mode, recovery>>,
         \A s \in Slot : born[s] <= born'[s],
         DOMAIN op' = OpFields, \A g \in OpFields \ {"raced"} : op'[g] = op[g],
         \A k \in Key : Sits(k)' =>
           \/ Sits(k) /\ Moves(field[k[1]], others[k[1]], field'[k[1]], others'[k[1]])
           \/ born[k[1]] < k[2] /\ Clean(field'[k[1]], others'[k[1]])
  PROVE  InstInv'
<1> USE DEF InstInv, Types
<1>1. /\ op'.at = op.at /\ op'.kind = op.kind /\ op'.order = op.order /\ op'.idx = op.idx
      /\ op'.request = op.request /\ op'.before = op.before /\ op'.want = op.want
      /\ op'.cur = op.cur /\ op'.tgt = op.tgt /\ op'.base = op.base
      /\ op'.todo = op.todo /\ op'.done = op.done /\ op'.attempted = op.attempted
      /\ op'.start = op.start /\ op'.saved = op.saved
      /\ op'.degrades = op.degrades /\ op'.failed = op.failed
  BY DEF OpFields
<1>2. Key' = Key /\ \A s \in Slot : born[s] \in Nat /\ born'[s] \in Nat
  BY DEF Key, World
<1>3. Process'
  <2>1. Fit(disk)' /\ Fit(mem)' /\ Fit(op.saved)'
    <3>1. Fit(disk) /\ Fit(mem) /\ Fit(op.saved)
      BY DEF Process
    <3>2. ASSUME NEW j, Fit(j)
          PROVE  Journal(j)' /\ Decodes(j)' /\ (\A k \in DOMAIN j : k[2] <= born'[k[1]])
      BY <1>2, <3>2, FitKept
    <3> QED BY <1>1, <3>1, <3>2 DEF Fit, Journal, Decodes, Key, family
  <2>2. Journal(op.start)'
    BY <1>1, <1>2 DEF Process, Journal
  <2> QED BY <2>1, <2>2 DEF Process
<1>4. Operation'
  <2>1. ASSUME NEW n \in 1 .. Len(op.order)
        PROVE  op.order[n][2] <= born'[op.order[n][1]]
    <3>1. op.order[n] \in Key /\ op.order[n][2] <= born[op.order[n][1]]
      BY DEF Operation
    <3>2. op.order[n][1] \in Slot /\ op.order[n][2] \in Nat
      BY <3>1, KeyParts
    <3> QED BY <1>2, <3>1, <3>2
  <2> QED BY <1>1, <1>2, <2>1 DEF Operation
<1>5. Control'
  BY <1>1 DEF Control
<1>6. Sync'
  <2>1. Members(op)' = Members(op)
    BY <1>1 DEF Members
  <2> QED BY <1>1, <2>1 DEF Sync, SameClaims
<1>7. AllInstances'
  <2> SUFFICES ASSUME NEW k \in Key, Sits(k)'
               PROVE  Instance(k, field'[k[1]], others'[k[1]], op', disk, mem, Ready')
    BY <1>2 DEF AllInstances
  <2>1. Alike(op, op')
    BY <1>1 DEF Alike
  <2>2. Ready' = Ready
    BY <1>1 DEF Ready
  <2>3. CASE Sits(k) /\ Moves(field[k[1]], others[k[1]], field'[k[1]], others'[k[1]])
    <3>1. Instance(k, field[k[1]], others[k[1]], op, disk, mem, Ready)
      BY <2>3 DEF AllInstances
    <3> QED BY <2>1, <2>2, <2>3, <3>1, InstanceMoves
  <2>4. CASE born[k[1]] < k[2] /\ Clean(field'[k[1]], others'[k[1]])
    <3>0. k[1] \in Slot /\ k[2] \in Nat /\ ~(k[2] <= born[k[1]])
      BY <1>2, <2>4, KeyParts
    <3>1. k \notin DOMAIN disk /\ k \notin DOMAIN mem /\ k \notin DOMAIN op'.saved
      BY <1>1, <3>0 DEF Process, Fit
    <3>2. \A n \in 1 .. Len(op'.order) : op'.order[n] # k
      BY <1>1, <3>0 DEF Operation
    <3>3. k \notin Members(op')
      BY <3>2 DEF Members
    <3>4. /\ op'.order \in Seq(Key) /\ op'.idx \in 0 .. Len(op'.order) + 1
          /\ op'.at \in Steps => op'.idx \in 1 .. Len(op'.order)
      BY <1>1 DEF Operation, Control
    <3>5. k \notin Passed(op')
      BY <3>2, <3>4 DEF Passed
    <3>6. k \notin op'.attempted
      <4>1. op.kind \in {"apply", "rollback"} => op.attempted \subseteq Members(op)
        BY DEF Sync
      <4>2. op.kind \notin {"apply", "rollback"} => op.attempted = {}
        BY DEF Sync
      <4>3. Members(op') = Members(op)
        BY <1>1 DEF Members
      <4> QED BY <1>1, <3>3, <4>1, <4>2, <4>3
    <3>7. op'.at \in Writing => op'.order[op'.idx] # k
      BY <3>2, <3>4 DEF Writing, Steps
    <3> QED BY <2>4, <3>1, <3>3, <3>5, <3>6, <3>7, FreshInstance
  <2> QED BY <2>3, <2>4
<1> QED BY <1>3, <1>4, <1>5, <1>6, <1>7

\* An occupant leaves: nothing is said of an empty slot.
LEMMA ExitStep ==
  ASSUME InstInv, NEW s \in Slot, Exit(s)
  PROVE  InstInv'
<1> USE DEF InstInv, Types
<1>1. /\ scene' = scene /\ born' = born /\ op' = op /\ UNCHANGED <<disk, mem, mode, recovery>>
      /\ inst' = [inst EXCEPT ![s] = 0] /\ field' = [field EXCEPT ![s] = Blank]
      /\ others' = [others EXCEPT ![s] = [f \in Field |-> {Blank[f]}]]
      /\ stranger' = stranger \ {s}
  BY DEF Exit
<1>2. [f \in Field |-> {Blank[f]}] \in [Field -> SUBSET Value]
  BY BlankTyped DEF State
<1>3. World'
  BY <1>1, <1>2, BlankTyped DEF World
<1>4. ASSUME NEW k \in Key, Sits(k)'
      PROVE  Sits(k) /\ Moves(field[k[1]], others[k[1]], field'[k[1]], others'[k[1]])
  <2>1. k[1] \in Slot /\ k[2] # 0
    BY KeyParts
  <2>2. k[1] # s
    BY <1>1, <1>4, <2>1 DEF Sits, World
  <2>3. Sits(k) /\ field'[k[1]] = field[k[1]] /\ others'[k[1]] = others[k[1]]
    BY <1>1, <1>4, <2>1, <2>2 DEF Sits, World
  <2> QED BY <2>3 DEF Moves
<1>5. \A t \in Slot : born[t] <= born'[t]
  BY <1>1 DEF World
<1>6. DOMAIN op' = OpFields /\ \A g \in OpFields \ {"raced"} : op'[g] = op[g]
  BY <1>1 DEF Operation
<1> QED BY <1>1, <1>3, <1>4, <1>5, <1>6, WorldStep

\* A new occupant has a number no journal and no operation knows.
LEMMA SpawnStep ==
  ASSUME InstInv, NEW s \in Slot, Spawn(s)
  PROVE  InstInv'
<1> USE DEF InstInv, Types
<1>1. PICK x \in State :
        /\ field' = [field EXCEPT ![s] = x]
        /\ others' = [others EXCEPT ![s] = [f \in Field |-> {x[f]}]]
  BY DEF Spawn
<1>2. /\ scene' = scene /\ op' = op /\ UNCHANGED <<disk, mem, mode, recovery, stranger>>
      /\ born[s] < scene.lives[s] /\ inst[s] = 0
      /\ born' = [born EXCEPT ![s] = born[s] + 1] /\ inst' = [inst EXCEPT ![s] = born[s] + 1]
  BY DEF Spawn
<1>3. [f \in Field |-> {x[f]}] \in [Field -> SUBSET Value]
  BY DEF State
<1>4. scene.lives \in [Slot -> Nat] /\ born \in [Slot -> Nat] /\ inst \in [Slot -> Nat]
  BY InstanceConstants DEF World
<1>5. born' \in [Slot -> Nat] /\ inst' \in [Slot -> Nat]
  BY <1>2, <1>4
<1>6. \A t \in Slot : /\ born'[t] <= scene.lives[t] /\ inst'[t] \in {0, born'[t]}
                      /\ born[t] <= born'[t]
  BY <1>2, <1>4 DEF World
<1>7. World'
  BY <1>1, <1>2, <1>3, <1>5, <1>6 DEF World
<1>8. ASSUME NEW k \in Key, Sits(k)'
      PROVE  \/ Sits(k) /\ Moves(field[k[1]], others[k[1]], field'[k[1]], others'[k[1]])
             \/ born[k[1]] < k[2] /\ Clean(field'[k[1]], others'[k[1]])
  <2>1. k[1] \in Slot /\ k[2] \in Nat
    BY KeyParts
  <2>2. CASE k[1] = s
    <3>1. k[2] = born[s] + 1 /\ born[s] \in Nat
      BY <1>2, <1>4, <1>8, <2>2 DEF Sits
    <3>2. field'[s] = x /\ others'[s] = [f \in Field |-> {x[f]}]
      BY <1>1 DEF World
    <3>3. Clean(field'[s], others'[s])
      BY <3>2 DEF Clean
    <3> QED BY <2>2, <3>1, <3>3
  <2>3. CASE k[1] # s
    <3>1. Sits(k) /\ field'[k[1]] = field[k[1]] /\ others'[k[1]] = others[k[1]]
      BY <1>1, <1>2, <1>8, <2>1, <2>3 DEF Sits, World
    <3> QED BY <3>1 DEF Moves
  <2> QED BY <2>2, <2>3
<1>9. DOMAIN op' = OpFields /\ \A g \in OpFields \ {"raced"} : op'[g] = op[g]
  BY <1>2 DEF Operation
<1> QED BY <1>2, <1>6, <1>7, <1>8, <1>9, WorldStep

\* Others change a field.
LEMMA ForeignStep ==
  ASSUME InstInv, NEW s \in Slot, NEW f \in Field, Foreign(s, f)
  PROVE  InstInv'
<1> USE DEF InstInv, Types
<1>1. PICK v \in Value :
        /\ field' = [field EXCEPT ![s][f] = v]
        /\ others' = [others EXCEPT ![s][f] = @ \cup {v}]
  BY DEF Foreign
<1>2. /\ scene' = scene /\ inst' = inst /\ born' = born
      /\ UNCHANGED <<disk, mem, mode, recovery, stranger>>
      /\ op' = [op EXCEPT !.raced = op.at \notin {"idle", "down"}]
  BY DEF Foreign
<1>3. field' \in [Slot -> State] /\ others' \in [Slot -> [Field -> SUBSET Value]]
  BY <1>1 DEF World, State
<1>4. World'
  BY <1>2, <1>3 DEF World
<1>5. DOMAIN op' = OpFields /\ \A g \in OpFields \ {"raced"} : op'[g] = op[g]
  <2> DEFINE race == op.at \notin {"idle", "down"}
  <2>1. op' = [op EXCEPT !.raced = race]
    BY <1>2
  <2> HIDE DEF race
  <2> QED BY <2>1 DEF Operation, OpFields
<1>6. ASSUME NEW k \in Key, Sits(k)'
      PROVE  Sits(k) /\ Moves(field[k[1]], others[k[1]], field'[k[1]], others'[k[1]])
  <2>1. k[1] \in Slot
    BY KeyParts
  <2>2. ASSUME NEW g \in Field
        PROVE  /\ others[k[1]][g] \subseteq others'[k[1]][g]
               /\ field'[k[1]][g] = field[k[1]][g] \/ field'[k[1]][g] \in others'[k[1]][g]
    BY <1>1, <2>1 DEF World, State
  <2> QED BY <1>2, <1>6, <2>2 DEF Sits, Moves
<1>7. \A t \in Slot : born[t] <= born'[t]
  BY <1>2 DEF World
<1> QED BY <1>2, <1>4, <1>5, <1>6, <1>7, WorldStep

-----------------------------------------------------------------------------
(* The daemon: between operations.                                         *)

\* No operation.
Rest(p) ==
  /\ DOMAIN p = OpFields
  /\ p.at \in {"idle", "down"} /\ p.kind = "none" /\ p.order = <<>> /\ p.idx = 0
  /\ p.request \in [Slot -> State] /\ p.before \in [Slot -> State] /\ p.want \in [Slot -> State]
  /\ p.cur \in State /\ p.tgt \in State /\ p.base \in State
  /\ p.todo = {} /\ p.done = {} /\ p.attempted = {}
  /\ p.start = NoEntries /\ p.saved = NoEntries
  /\ p.degrades = FALSE /\ p.failed = FALSE

\* Idle is no operation.
LEMMA IdleRests == Rest(Idle) /\ Idle.at = "idle"
BY IdleParts DEF Rest

\* Neither is the state of a daemon that is down.
LEMMA DownRests ==
  ASSUME NEW p, p = [Idle EXCEPT !.at = "down"]
  PROVE  Rest(p) /\ p.at = "down"
<1>1. DOMAIN p = OpFields /\ p.at = "down" /\ \A g \in OpFields \ {"at"} : p[g] = Idle[g]
  BY IdleParts DEF OpFields
<1>2. /\ p.kind = Idle.kind /\ p.order = Idle.order /\ p.idx = Idle.idx
      /\ p.request = Idle.request /\ p.before = Idle.before /\ p.want = Idle.want
      /\ p.cur = Idle.cur /\ p.tgt = Idle.tgt /\ p.base = Idle.base
      /\ p.todo = Idle.todo /\ p.done = Idle.done /\ p.attempted = Idle.attempted
      /\ p.start = Idle.start /\ p.saved = Idle.saved
      /\ p.degrades = Idle.degrades /\ p.failed = Idle.failed
  BY <1>1 DEF OpFields
<1> QED BY <1>1, <1>2, IdleParts DEF Rest

\* A step of the daemon: instances stay where they are, and what held of those in
\* their slots holds of their fields as they are now.
Mid ==
  /\ World' /\ scene' = scene /\ born' = born /\ inst' = inst /\ others' = others
  /\ \A k \in Key : Sits(k)' =>
       Instance(k, field'[k[1]], others'[k[1]], op, disk, mem, Ready)

\* A step that leaves the world alone is one.
LEMMA MidStill ==
  ASSUME InstInv, UNCHANGED <<scene, worldVars>>
  PROVE  Mid
<1>1. World'
  BY DEF InstInv, Types, World, worldVars
<1> QED BY <1>1 DEF InstInv, AllInstances, Mid, worldVars, Sits

\* A journal fits or not whatever happens to fields.
LEMMA FitStays ==
  ASSUME NEW j, Fit(j), scene' = scene, born' = born
  PROVE  Journal(j)' /\ Decodes(j)' /\ \A k \in DOMAIN j : k[2] <= born'[k[1]]
BY DEF Fit, Journal, Key, Decodes, family

\* What an operation that ends owes: the journals fit, the file knows every
\* value of the daemon, and so does memory, exactly, when the actuator is ready.
LEMMA RestStep ==
  ASSUME World', scene' = scene, born' = born, Rest(op'), Fit(disk'), Fit(mem'),
         mode' \in {"ReadWrite", "ReadOnlyDegraded"}, recovery' \in BOOLEAN,
         op'.at = "idle" /\ mode' = "ReadWrite" => mem' = disk',
         \A k \in Key : Sits(k)' =>
           /\ Known(field'[k[1]], others'[k[1]], disk', k)
           /\ Originals(disk', k, others'[k[1]]) /\ Originals(mem', k, others'[k[1]])
           /\ Ready' => Settled(field'[k[1]], others'[k[1]], mem', k)
  PROVE  InstInv'
<1>1. Key' = Key
  BY DEF Key
<1>2. Journal(NoEntries) /\ Fit(NoEntries)
  BY NoEntriesFit DEF Fit
<1>3. Process'
  <2>1. Fit(disk)' /\ Fit(mem)'
    BY DEF Fit, Journal, Key, Decodes, family
  <2>2. Fit(op.saved)' /\ Journal(op.start)'
    BY <1>2 DEF Fit, Journal, Key, Decodes, family, Rest
  <2> QED BY <2>1, <2>2 DEF Process
<1>4. Operation'
  <2>1. op'.order = <<>> /\ Len(op'.order) = 0 /\ op'.order \in Seq(Key')
    BY DEF Rest
  <2>2. op'.idx \in 0 .. Len(op'.order) + 1 /\ 1 .. Len(op'.order) = {}
    BY <2>1 DEF Rest
  <2>3. op'.failed \in BOOLEAN /\ op'.degrades \in BOOLEAN
    BY Zenon DEF Rest
  <2> QED BY <2>1, <2>2, <2>3 DEF Rest, Operation
<1>5. Control'
  BY DEF Rest, Control, Steps
<1>6. Sync'
  BY DEF Rest, Sync
<1>7. AllInstances'
  <2> SUFFICES ASSUME NEW k \in Key, Sits(k)'
               PROVE  Instance(k, field'[k[1]], others'[k[1]], op', disk', mem', Ready')
    BY <1>1 DEF AllInstances
  <2>1. Originals(op'.saved, k, others'[k[1]])
    BY NoEntriesFit DEF Originals, Rest
  <2> QED BY <2>1 DEF Rest, Instance, Writing
<1> QED BY <1>3, <1>4, <1>5, <1>6, <1>7 DEF InstInv, Types

\* Nothing said of a journal without entries.
LEMMA NoOriginals ==
  ASSUME NEW k, NEW o
  PROVE  Originals(NoEntries, k, o)
BY NoEntriesFit DEF Originals

\* A crash loses memory, not the file.
LEMMA CrashStep ==
  ASSUME InstInv, Crash
  PROVE  InstInv'
<1> USE DEF InstInv, Types
<1>1. /\ op' = [Idle EXCEPT !.at = "down"] /\ mem' = NoEntries /\ disk' = disk
      /\ mode' = "ReadWrite" /\ recovery' = FALSE /\ UNCHANGED <<scene, worldVars>>
  BY DEF Crash
<1>2. Rest(op') /\ op'.at = "down"
  BY <1>1, DownRests
<1>3. Fit(disk') /\ Fit(mem')
  BY <1>1, NoEntriesFit DEF Process
<1>4. ~Ready'
  BY <1>2 DEF Ready
<1>5. ASSUME NEW k \in Key, Sits(k)'
      PROVE  /\ Known(field'[k[1]], others'[k[1]], disk', k)
             /\ Originals(disk', k, others'[k[1]]) /\ Originals(mem', k, others'[k[1]])
  BY <1>1, <1>5, NoOriginals, MidStill DEF Mid, Instance
<1>6. World' /\ scene' = scene /\ born' = born
  BY <1>1, MidStill DEF Mid
<1> QED BY <1>1, <1>2, <1>3, <1>4, <1>5, <1>6, RestStep

\* A daemon that starts owes nothing, or owes a recovery.
LEMMA NewStep ==
  ASSUME InstInv, New
  PROVE  InstInv'
<1> USE DEF InstInv, Types
<1>1. op' = Idle /\ disk' = disk /\ UNCHANGED <<scene, worldVars>>
  BY DEF New
<1>2. Rest(op') /\ op'.at = "idle"
  BY <1>1, IdleRests
<1>3. ASSUME NEW k \in Key, Sits(k)'
      PROVE  /\ Known(field'[k[1]], others'[k[1]], disk, k)
             /\ Originals(disk, k, others'[k[1]]) /\ Originals(NoEntries, k, others'[k[1]])
  BY <1>1, <1>3, NoOriginals, MidStill DEF Mid, Instance
<1>6. World' /\ scene' = scene /\ born' = born
  BY <1>1, MidStill DEF Mid
<1>4. CASE mem' = disk /\ recovery' = (disk # NoEntries) /\ mode' = "ReadWrite"
  <2>1. Fit(disk') /\ Fit(mem')
    BY <1>1, <1>4 DEF Process
  <2>2. ASSUME NEW k \in Key, Sits(k)', Ready'
        PROVE  Settled(field'[k[1]], others'[k[1]], mem', k)
    <3>1. disk = NoEntries
      BY <1>4, <2>2 DEF Ready
    <3>2. k \notin DOMAIN disk
      BY <3>1, NoEntriesFit
    <3>3. Known(field'[k[1]], others'[k[1]], disk, k)
      BY <1>3, <2>2
    <3> QED BY <3>2, <3>3 DEF Known, Settled
  <2>3. recovery' \in BOOLEAN
    BY <1>4
  <2> QED BY <1>1, <1>2, <1>3, <1>4, <1>6, <2>1, <2>2, <2>3, RestStep
<1>5. CASE mem' = NoEntries /\ recovery' = TRUE /\ mode' = "ReadOnlyDegraded"
  <2>1. Fit(disk') /\ Fit(mem')
    BY <1>1, <1>5, NoEntriesFit DEF Process
  <2>2. ~Ready'
    BY <1>5 DEF Ready
  <2> QED BY <1>1, <1>2, <1>3, <1>5, <1>6, <2>1, <2>2, RestStep
<1> QED BY <1>4, <1>5 DEF New

\* The initial states.
LEMMA InstInitially ==
  ASSUME Init
  PROVE  InstInv
<1>1. /\ scene \in Scenes /\ born = [s \in Slot |-> IF scene.lives[s] = 0 THEN 0 ELSE 1]
      /\ inst = born /\ field = [s \in Slot |-> Blank]
      /\ others = [s \in Slot |-> [f \in Field |-> {Blank[f]}]]
      /\ stranger = {} /\ disk = NoEntries /\ mem = NoEntries
      /\ mode = "ReadWrite" /\ recovery = FALSE
      /\ op = [Idle EXCEPT !.at = "down"]
  BY DEF Init
<1>2. scene.lives \in [Slot -> Nat]
  BY <1>1, InstanceConstants
<1>3. World
  <2>1. born \in [Slot -> Nat] /\ \A s \in Slot : born[s] <= scene.lives[s]
    BY <1>1, <1>2
  <2>2. [f \in Field |-> {Blank[f]}] \in [Field -> SUBSET Value]
    BY BlankTyped DEF State
  <2> QED BY <1>1, <2>1, <2>2, BlankTyped DEF World
<1>4. Rest(op) /\ op.at = "down"
  BY <1>1, DownRests
<1>5. Process
  BY <1>1, <1>4, NoEntriesFit DEF Process, Rest, Fit
<1>6. Operation
  <2>1. op.order = <<>> /\ Len(op.order) = 0 /\ op.order \in Seq(Key)
    BY <1>4 DEF Rest
  <2>2. op.idx \in 0 .. Len(op.order) + 1 /\ 1 .. Len(op.order) = {}
    BY <1>4, <2>1 DEF Rest
  <2>3. op.failed \in BOOLEAN /\ op.degrades \in BOOLEAN
    BY <1>4, Zenon DEF Rest
  <2> QED BY <1>4, <2>1, <2>2, <2>3 DEF Rest, Operation
<1>7. Control
  BY <1>4 DEF Rest, Control, Steps
<1>8. Sync
  BY <1>4 DEF Rest, Sync
<1>9. AllInstances
  <2> SUFFICES ASSUME NEW k \in Key, Sits(k)
               PROVE  Instance(k, field[k[1]], others[k[1]], op, disk, mem, Ready)
    BY DEF AllInstances
  <2>1. k[1] \in Slot
    BY <1>3, KeyParts
  <2>2. Clean(field[k[1]], others[k[1]])
    BY <1>1, <2>1 DEF Clean
  <2>3. /\ k \notin DOMAIN disk /\ k \notin DOMAIN mem /\ k \notin DOMAIN op.saved
        /\ k \notin op.attempted /\ op.at \notin Writing
    BY <1>1, <1>4, NoEntriesFit DEF Rest, Writing
  <2>4. k \notin Members(op) /\ k \notin Passed(op)
    BY <1>4 DEF Rest, Members, Passed
  <2> QED BY <2>2, <2>3, <2>4, FreshInstance
<1> QED BY <1>3, <1>5, <1>6, <1>7, <1>8, <1>9 DEF InstInv, Types

-----------------------------------------------------------------------------
(* The daemon: beginning an operation.                                     *)

\* An operation that begins with an order.
Begins(p, kind, order) ==
  /\ DOMAIN p = OpFields
  /\ p.at = "verify" /\ p.kind = kind /\ p.order = order /\ p.idx = 1 /\ p.start = mem
  /\ p.request \in [Slot -> State] /\ p.before \in [Slot -> State] /\ p.want \in [Slot -> State]
  /\ p.cur \in State /\ p.tgt \in State /\ p.base \in State
  /\ p.todo = {} /\ p.done = {} /\ p.attempted = {} /\ p.saved = NoEntries
  /\ p.degrades \in BOOLEAN /\ p.failed \in BOOLEAN

\* What Apply and GiveBack make of Idle begins.
LEMMA BeginsParts ==
  ASSUME NEW kind, NEW order, NEW r \in [Slot -> State], NEW p,
         \/ p = [Idle EXCEPT !.at = "verify", !.kind = kind, !.idx = 1, !.start = mem,
                             !.order = order]
         \/ p = [Idle EXCEPT !.at = "verify", !.kind = kind, !.idx = 1, !.start = mem,
                             !.order = order, !.request = r]
  PROVE  Begins(p, kind, order)
<1>1. /\ DOMAIN p = OpFields /\ p.at = "verify" /\ p.kind = kind /\ p.order = order /\ p.idx = 1
      /\ p.start = mem /\ p.request \in {Idle.request, r}
      /\ \A g \in OpFields \ {"at", "kind", "idx", "start", "order", "request"} : p[g] = Idle[g]
  <2>1. CASE p = [Idle EXCEPT !.at = "verify", !.kind = kind, !.idx = 1, !.start = mem,
                              !.order = order]
    BY <2>1, IdleParts DEF OpFields
  <2>2. CASE p = [Idle EXCEPT !.at = "verify", !.kind = kind, !.idx = 1, !.start = mem,
                              !.order = order, !.request = r]
    BY <2>2, IdleParts DEF OpFields
  <2> QED BY <2>1, <2>2
<1>2. /\ p.before = Idle.before /\ p.want = Idle.want
      /\ p.cur = Idle.cur /\ p.tgt = Idle.tgt /\ p.base = Idle.base
      /\ p.todo = Idle.todo /\ p.done = Idle.done /\ p.attempted = Idle.attempted
      /\ p.saved = Idle.saved /\ p.degrades = Idle.degrades /\ p.failed = Idle.failed
  BY <1>1 DEF OpFields
<1>3. p.degrades \in BOOLEAN /\ p.failed \in BOOLEAN
  BY <1>2, IdleParts, Zenon
<1> QED BY <1>1, <1>2, <1>3, IdleParts DEF Begins

\* An operation begins with nothing read and nothing written.
LEMMA BeginStep ==
  ASSUME InstInv, op.at = "idle", mode = "ReadWrite",
         UNCHANGED <<scene, worldVars, disk, mem, mode, recovery>>,
         NEW kind \in {"apply", "restore", "recover"}, NEW s, Begins(op', kind, s),
         s \in Seq(Key), Len(s) # 0, \A m, n \in 1 .. Len(s) : s[m] = s[n] => m = n,
         \A n \in 1 .. Len(s) : s[n][2] <= born[s[n][1]],
         recovery <=> kind = "recover",
         kind = "apply" => \A m, n \in 1 .. Len(s) : s[m][1] = s[n][1] => m = n,
         kind = "restore" => Members(op') \subseteq DOMAIN mem,
         kind = "recover" => Members(op') = DOMAIN mem
  PROVE  InstInv'
<1> USE DEF InstInv, Types
<1>1. World' /\ Key' = Key
  BY DEF World, worldVars, Key
<1>2. Process'
  <2>1. Fit(disk)' /\ Fit(mem)'
    BY DEF Process, Fit, Journal, Key, Decodes, family, worldVars
  <2>2. Fit(op.saved)' /\ Journal(op.start)'
    BY NoEntriesFit DEF Process, Fit, Journal, Key, Decodes, family, worldVars, Begins
  <2> QED BY <2>1, <2>2 DEF Process
<1>3. Len(s) \in Nat /\ 1 \in 1 .. Len(s)
  OBVIOUS
<1>4. Operation'
  <2>1. /\ op'.order \in Seq(Key') /\ op'.idx \in 0 .. Len(op'.order) + 1
        /\ \A m, n \in 1 .. Len(op'.order) : op'.order[m] = op'.order[n] => m = n
        /\ \A n \in 1 .. Len(op'.order) : op'.order[n][2] <= born'[op'.order[n][1]]
    BY <1>1, <1>3 DEF Begins, worldVars
  <2> QED BY <2>1 DEF Begins, Operation
<1>5. Control'
  <2>1. op'.idx \in 1 .. Len(op'.order)
    BY <1>3 DEF Begins
  <2> QED BY <2>1 DEF Begins, Control, Steps
<1>6. mem = disk
  BY DEF Sync
<1>7. Sync'
  <2>1. \A n \in 1 .. Len(op'.order) : ~(n < op'.idx \/ (n = op'.idx /\ op'.at = "read"))
    BY <1>3 DEF Begins
  <2>2. op'.kind = kind /\ op'.at = "verify" /\ op'.attempted = {} /\ op'.order = s
    BY DEF Begins
  <2>3. kind = "apply" => \A m, n \in 1 .. Len(op'.order) : op'.order[m][1] = op'.order[n][1] => m = n
    BY <2>2
  <2> QED BY <1>6, <2>1, <2>2, <2>3 DEF Sync, Writing
<1>8. AllInstances'
  <2> SUFFICES ASSUME NEW k \in Key, Sits(k)
               PROVE  Instance(k, field[k[1]], others[k[1]], op', disk, mem, Ready')
    BY <1>1 DEF AllInstances, worldVars, Sits
  <2> DEFINE x == field[k[1]]
             o == others[k[1]]
  <2>1. Instance(k, x, o, op, disk, mem, Ready)
    BY DEF AllInstances
  <2>2. kind # "recover" => Settled(x, o, mem, k)
    BY <2>1 DEF Ready, Instance
  <2>3. k \notin Passed(op')
    BY <1>3 DEF Passed, Begins
  <2>4. Originals(op'.saved, k, o)
    BY NoOriginals DEF Begins
  <2>5. ~Ready'
    BY DEF Ready, Begins
  <2>6. op'.kind = kind /\ op'.at = "verify"
    BY DEF Begins
  <2>7. Reading(k, x, o, op', mem) \/ kind # "apply"
    BY <2>2, <2>3 DEF Reading
  <2>8. GivenBack(k, x, o, op', mem) \/ kind = "apply"
    BY <2>2, <2>3, <2>6 DEF GivenBack
  <2> HIDE DEF x, o
  <2>9. Instance(k, x, o, op', disk, mem, Ready')
    BY <2>1, <2>4, <2>5, <2>6, <2>7, <2>8 DEF Instance, Writing
  <2> QED BY <2>9 DEF x, o
<1> QED BY <1>1, <1>2, <1>4, <1>5, <1>7, <1>8

\* A batch begins with the occupants of its slots.
LEMMA ApplyStep ==
  ASSUME InstInv, Apply
  PROVE  InstInv'
<1> USE DEF InstInv, Types
<1>0. PICK S \in SUBSET {s \in Slot : inst[s] # 0} : \E s \in Orders(S) : \E r \in [S -> State] :
        /\ S # {} /\ \A t \in S : InPlay(t, r[t])
        /\ op' = [Idle EXCEPT !.at = "verify", !.kind = "apply", !.idx = 1, !.start = mem,
                    !.order = [n \in DOMAIN s |-> <<s[n], inst[s[n]]>>],
                    !.request = [t \in Slot |-> IF t \in S THEN r[t] ELSE Blank]]
  BY DEF Apply
<1>1. PICK s \in Orders(S) : \E r \in [S -> State] :
        /\ S # {} /\ \A t \in S : InPlay(t, r[t])
        /\ op' = [Idle EXCEPT !.at = "verify", !.kind = "apply", !.idx = 1, !.start = mem,
                    !.order = [n \in DOMAIN s |-> <<s[n], inst[s[n]]>>],
                    !.request = [t \in Slot |-> IF t \in S THEN r[t] ELSE Blank]]
  BY <1>0
<1>1a. PICK r \in [S -> State] :
        /\ S # {}
        /\ op' = [Idle EXCEPT !.at = "verify", !.kind = "apply", !.idx = 1, !.start = mem,
                    !.order = [n \in DOMAIN s |-> <<s[n], inst[s[n]]>>],
                    !.request = [t \in Slot |-> IF t \in S THEN r[t] ELSE Blank]]
  BY <1>1
<1> DEFINE q == [n \in DOMAIN s |-> <<s[n], inst[s[n]]>>]
           w == [t \in Slot |-> IF t \in S THEN r[t] ELSE Blank]
<1>2. IsFiniteSet(S)
  BY InstanceConstants, FS_Subset
<1>3. /\ s \in Seq(S) /\ Len(s) \in Nat /\ DOMAIN s = 1 .. Len(s)
      /\ \A m, n \in 1 .. Len(s) : s[m] = s[n] => m = n
      /\ Len(s) # 0
  BY <1>1a, <1>2, OrdersParts
<1>4. w \in [Slot -> State]
  BY BlankTyped
<1>5. \A n \in 1 .. Len(s) : s[n] \in Slot /\ inst[s[n]] # 0
  BY <1>3
<1>6. \A n \in 1 .. Len(s) : /\ <<s[n], inst[s[n]]>> \in Key /\ inst[s[n]] = born[s[n]]
                             /\ born[s[n]] \in Nat
  BY <1>5, OccupantKey
<1>7. q \in Seq(Key) /\ Len(q) = Len(s)
  BY <1>3, <1>6
<1>8. /\ \A m, n \in 1 .. Len(q) : q[m][1] = q[n][1] => m = n
      /\ \A n \in 1 .. Len(q) : q[n][2] <= born[q[n][1]]
  <2>1. \A n \in 1 .. Len(s) : q[n] = <<s[n], inst[s[n]]>>
    BY <1>3
  <2> HIDE DEF q
  <2>2. \A n \in 1 .. Len(s) : q[n][1] = s[n] /\ q[n][2] = inst[s[n]]
    BY <2>1
  <2>3. \A m, n \in 1 .. Len(q) : q[m][1] = q[n][1] => m = n
    BY <1>3, <1>7, <2>2
  <2>4. ASSUME NEW n \in 1 .. Len(q)
        PROVE  q[n][2] <= born[q[n][1]]
    <3>1. q[n][1] = s[n] /\ q[n][2] = born[s[n]] /\ born[s[n]] \in Nat
      BY <1>6, <1>7, <2>2
    <3> QED BY <3>1
  <2> QED BY <2>3, <2>4
<1>9. Begins(op', "apply", q)
  <2> HIDE DEF q, w
  <2>1. op' = [Idle EXCEPT !.at = "verify", !.kind = "apply", !.idx = 1, !.start = mem,
                           !.order = q, !.request = w]
    BY <1>1a DEF q, w
  <2> QED BY <1>4, <2>1, BeginsParts
<1>10. /\ op.at = "idle" /\ mode = "ReadWrite" /\ ~recovery
       /\ UNCHANGED <<scene, worldVars, disk, mem, mode, recovery>>
  BY DEF Apply, Ready
<1> HIDE DEF q
<1>11. \A m, n \in 1 .. Len(q) : q[m] = q[n] => m = n
  BY <1>8
<1> QED BY <1>3, <1>7, <1>8, <1>9, <1>10, <1>11, BeginStep

\* A restore or a recovery begins with entries of the journal.
LEMMA GiveBackStep ==
  ASSUME InstInv, NEW kind \in {"restore", "recover"}, NEW S \in SUBSET DOMAIN mem,
         GiveBack(kind, S), op.at = "idle", mode = "ReadWrite", recovery <=> kind = "recover",
         kind = "recover" => S = DOMAIN mem
  PROVE  InstInv'
<1> USE DEF InstInv, Types
<1>1. PICK s \in Orders(S) :
        op' = [Idle EXCEPT !.at = "verify", !.kind = kind, !.idx = 1, !.start = mem, !.order = s]
  BY DEF GiveBack
<1>2. S # {} /\ UNCHANGED <<scene, worldVars, disk, mem, mode, recovery>>
  BY DEF GiveBack
<1>3. S \subseteq Key /\ \A k \in S : k[2] <= born[k[1]]
  BY DEF Process, Fit, Journal
<1>4. IsFiniteSet(S)
  BY <1>3, KeyFinite, FS_Subset
<1>5. /\ s \in Seq(S) /\ Len(s) \in Nat
      /\ \A m, n \in 1 .. Len(s) : s[m] = s[n] => m = n
      /\ {s[n] : n \in 1 .. Len(s)} = S
      /\ Len(s) # 0
  BY <1>2, <1>4, OrdersParts
<1>6. s \in Seq(Key) /\ \A n \in 1 .. Len(s) : s[n][2] <= born[s[n][1]]
  BY <1>3, <1>5
<1>7. Begins(op', kind, s)
  <2>1. Idle.request \in [Slot -> State]
    BY IdleParts
  <2> QED BY <1>1, <2>1, BeginsParts
<1>8. Members(op') = S
  BY <1>5, <1>7 DEF Members, Begins
<1>9. kind # "apply"
  OBVIOUS
<1> QED BY <1>2, <1>5, <1>6, <1>7, <1>8, <1>9, BeginStep

\* restore_tasks and restore_units.
LEMMA RestoreStep ==
  ASSUME InstInv, Restore
  PROVE  InstInv'
<1>1. PICK S \in SUBSET DOMAIN mem : GiveBack("restore", S)
  BY DEF Restore
<1>2. op.at = "idle" /\ mode = "ReadWrite" /\ ~recovery
  BY DEF Restore, Ready
<1> QED BY <1>1, <1>2, GiveBackStep

\* recover_tasks_locked and recover_units_locked.
LEMMA RecoverStep ==
  ASSUME InstInv, Recover
  PROVE  InstInv'
<1>1. op.at = "idle" /\ mode = "ReadWrite" /\ recovery /\ GiveBack("recover", DOMAIN mem)
  BY DEF Recover
<1> QED BY <1>1, GiveBackStep

-----------------------------------------------------------------------------
(* The daemon: the end of an operation, and the next instance.             *)

\* The actuator gives up and becomes read-only.
LEMMA DegradeStep ==
  ASSUME Types, Mid, op' = Idle, mode' = "ReadOnlyDegraded", Fit(disk'), HonestFile => disk' = disk,
         UNCHANGED <<mem, recovery>>
  PROVE  InstInv'
<1>1. Rest(op')
  BY IdleRests
<1>2. ~Ready'
  BY DEF Ready
<1>3. Fit(disk') /\ Fit(mem') /\ recovery' \in BOOLEAN
  BY DEF Types, Process
<1>4. \A k \in Key : Sits(k)' =>
        /\ Known(field'[k[1]], others'[k[1]], disk', k)
        /\ Originals(disk', k, others'[k[1]]) /\ Originals(mem', k, others'[k[1]])
  BY DEF Mid, Instance, Sits, HonestFile
<1> QED BY <1>1, <1>2, <1>3, <1>4, RestStep DEF Mid

\* What memory says of an entry, but for the instance h.
SameBut(h, m, w) ==
  /\ DOMAIN w = DOMAIN m
  /\ \A k \in DOMAIN m :
       /\ w[k].owned = m[k].owned /\ w[k].original = m[k].original
       /\ k # h => w[k] = m[k]

\* The instance at hand is dealt with.
LEMMA FollowStep ==
  ASSUME Types, Control, Sync, Mid, op.at \in Steps,
         NEW p, DOMAIN p = OpFields, \A g \in OpFields \ {"failed"} : p[g] = op[g],
         p.failed \in BOOLEAN, op.failed => p.failed,
         op' = Following(p), UNCHANGED <<disk, mode, recovery>>,
         NEW h, h = op.order[op.idx],
         Fit(mem'), SameBut(h, mem, mem'), op.kind # "apply" => mem' = mem,
         op.kind = "apply" => op.at \in Writing,
         Sits(h)' =>
           /\ op.kind = "apply" =>
                /\ Within(field'[h[1]], others'[h[1]], op.want[h[1]])
                /\ h \in DOMAIN mem => mem'[h].applied = op.want[h[1]]
           /\ op.kind = "rollback" /\ ~p.failed =>
                Within(field'[h[1]], others'[h[1]], op.before[h[1]])
           /\ op.kind \in {"restore", "recover"} => Clean(field'[h[1]], others'[h[1]])
  PROVE  InstInv'
<1> USE DEF Types
<1> DEFINE q == Following(p)
<1>1. /\ p.at = op.at /\ p.kind = op.kind /\ p.order = op.order /\ p.idx = op.idx
      /\ p.request = op.request /\ p.before = op.before /\ p.want = op.want
      /\ p.attempted = op.attempted /\ p.start = op.start /\ p.saved = op.saved
      /\ p.degrades = op.degrades
  BY DEF OpFields
<1>2. /\ op.order \in Seq(Key) /\ op.idx \in 1 .. Len(op.order) /\ Len(op.order) \in Nat
      /\ op.at \notin {"persistApplied", "finish", "persistIntent", "idle", "down"}
      /\ op.kind \in {"apply", "rollback", "restore", "recover"}
  BY DEF Operation, Control, Steps
<1>3. /\ DOMAIN q = OpFields
      /\ q.cur = Blank /\ q.tgt = Blank /\ q.base = Blank /\ q.todo = {} /\ q.done = {}
      /\ q.kind = op.kind /\ q.order = op.order /\ q.request = op.request
      /\ q.before = op.before /\ q.want = op.want /\ q.attempted = op.attempted
      /\ q.start = op.start /\ q.saved = op.saved /\ q.degrades = op.degrades
      /\ q.failed = p.failed
      /\ op.idx < Len(op.order) =>
           q.idx = op.idx + 1 /\ q.at = IF op.kind = "apply" THEN "open" ELSE "verify"
      /\ op.idx = Len(op.order) =>
           q.idx = op.idx /\ q.at = IF op.kind = "apply" THEN "persistApplied" ELSE "finish"
      /\ Members(q) = Members(p) /\ Passed(q) = Passed(p) \cup {op.order[op.idx]}
  BY <1>1, <1>2, FollowingParts
<1>4. Members(q) = Members(op) /\ Passed(q) = Passed(op) \cup {h}
  <2>1. Members(p) = Members(op) /\ Passed(p) = Passed(op)
    BY <1>1 DEF Members, Passed
  <2> QED BY <1>3, <2>1
<1>5. op' = q
  OBVIOUS
<1> HIDE DEF q
<1>6. /\ q.idx \in 1 .. Len(op.order)
      /\ op.kind = "apply" => q.at \in {"open", "persistApplied"}
      /\ op.kind # "apply" => q.at \in {"verify", "finish"}
  BY <1>2, <1>3
<1>7. Key' = Key
  BY DEF Key, Mid
<1>8. Process'
  <2>1. Fit(disk) /\ Fit(op.saved) /\ Journal(op.start)
    BY DEF Process
  <2>2. ASSUME NEW j, Fit(j)
        PROVE  Journal(j)' /\ Decodes(j)' /\ \A k \in DOMAIN j : k[2] <= born'[k[1]]
    BY <2>2, FitStays DEF Mid
  <2>3. Fit(disk)' /\ Fit(op.saved)' /\ Fit(mem)'
    BY <1>3, <1>5, <2>1, <2>2 DEF Fit, Journal, Decodes, Key, family
  <2>4. Journal(op.start)'
    BY <1>3, <1>5, <1>7, <2>1 DEF Journal
  <2> QED BY <2>3, <2>4 DEF Process
<1>9. Operation'
  <2>1. /\ q.idx \in 0 .. Len(op.order) + 1
    BY <1>2, <1>6
  <2> QED BY <1>3, <1>5, <1>7, <2>1, BlankTyped DEF Operation, Mid
<1>10. Control'
  BY <1>2, <1>3, <1>5, <1>6 DEF Control, Steps
<1>11. Sync'
  <2>1. op.kind = "apply" => SameClaims(disk, mem')
    BY DEF Sync, SameBut, SameClaims
  <2> QED BY <1>2, <1>3, <1>4, <1>5, <1>6, <2>1 DEF Sync
<1>12. AllInstances'
  <2> SUFFICES ASSUME NEW k \in Key, Sits(k)'
               PROVE  Instance(k, field'[k[1]], others'[k[1]], q, disk, mem', Ready')
    BY <1>5, <1>7 DEF AllInstances
  <2> DEFINE x == field'[k[1]]
             o == others'[k[1]]
  <2>1. Instance(k, x, o, op, disk, mem, Ready)
    BY DEF Mid
  <2>2. ~Ready'
    BY <1>5, <1>6, <1>2 DEF Ready
  <2>3. Originals(mem', k, o)
    BY <2>1 DEF Instance, Originals, SameBut
  <2> SUFFICES Instance(k, x, o, q, disk, mem', Ready')
    OBVIOUS
  <2> HIDE DEF x, o
  <2>5. CASE op.kind = "apply"
    <3>1. Written(k, x, o, op, disk, mem)
      BY <2>1, <2>5 DEF Instance
    <3>2. k \in Members(op) => Batched(k, x, o, q, disk)
      BY <1>3, <3>1 DEF Written, Batched
    <3>3. k \in Passed(q) =>
            Within(x, o, q.want[k[1]]) /\ (k \in DOMAIN mem' => mem'[k].applied = q.want[k[1]])
      <4>1. CASE k = h
        BY <1>3, <2>5, <4>1 DEF SameBut, x, o
      <4>2. CASE k # h
        BY <1>2, <1>3, <1>4, <3>1, <4>2 DEF Written, SameBut
      <4> QED BY <4>1, <4>2
    <3>4. k \in Members(q) /\ k \in DOMAIN mem' => mem'[k].applied \in {q.before[k[1]], q.want[k[1]]}
      <4>1. CASE k = h
        BY <1>3, <2>5, <4>1 DEF SameBut
      <4>2. CASE k # h
        BY <1>3, <1>4, <3>1, <4>2 DEF Written, SameBut
      <4> QED BY <4>1, <4>2, SMTT(30)
    <3>5. k \notin Members(q) => Settled(x, o, mem', k)
      <4>1. h \in Members(op)
        BY <1>2 DEF Members
      <4>2. k \notin Members(op) => k # h /\ Settled(x, o, mem, k)
        BY <3>1, <4>1 DEF Written
      <4> QED BY <1>4, <4>2 DEF Settled, SameBut
    <3>6. k \notin q.attempted => Settled(x, o, q.saved, k)
      BY <1>3, <3>1 DEF Written
    <3>7. Written(k, x, o, q, disk, mem')
      BY <1>4, <3>2, <3>3, <3>4, <3>5, <3>6 DEF Written
    <3>8. q.at \in Writing /\ k = q.order[q.idx] => AtHand(k, x, o, q, disk)
      <4> SUFFICES ASSUME q.at = "open", k = q.order[q.idx]
                   PROVE  AtHand(k, x, o, q, disk)
        BY <1>6, <2>5 DEF Writing
      <4>1. k \in Members(op)
        BY <1>3, <1>6 DEF Members
      <4>2. Known(q.want[k[1]], o, disk, k)
        BY <3>2, <4>1 DEF Batched
      <4> QED BY <1>3, <2>5, <4>2 DEF AtHand
    <3>9. Originals(disk, k, o) /\ Originals(q.saved, k, o) /\ Known(x, o, disk, k)
      BY <1>3, <2>1 DEF Instance
    <3> QED BY <1>3, <1>6, <2>2, <2>3, <2>5, <3>7, <3>8, <3>9 DEF Instance
  <2>6. CASE op.kind = "rollback"
    <3>1. Rolled(k, x, o, op, disk)
      BY <2>1, <2>6 DEF Instance
    <3>2. k \in q.attempted => Batched(k, x, o, q, disk)
      BY <1>3, <3>1 DEF Rolled, Batched
    <3>3. ~q.failed /\ k \in Passed(q) => Within(x, o, q.before[k[1]])
      <4>1. CASE k = h
        BY <1>3, <2>6, <4>1 DEF x, o
      <4>2. CASE k # h
        BY <1>3, <1>4, <3>1, <4>2 DEF Rolled
      <4> QED BY <4>1, <4>2
    <3>4. Rolled(k, x, o, q, disk)
      BY <1>3, <3>1, <3>2, <3>3 DEF Rolled
    <3>5. Originals(disk, k, o) /\ Originals(q.saved, k, o) /\ Known(x, o, disk, k)
      BY <1>3, <2>1 DEF Instance
    <3> QED BY <1>3, <1>6, <2>2, <2>3, <2>6, <3>4, <3>5 DEF Instance, Writing
  <2>7. CASE op.kind \in {"restore", "recover"}
    <3>1. GivenBack(k, x, o, op, mem)
      BY <2>1, <2>7 DEF Instance
    <3>2. k \in Passed(q) => Clean(x, o)
      <4>1. CASE k = h
        BY <2>7, <4>1 DEF x, o
      <4>2. CASE k # h
        BY <1>4, <3>1, <4>2 DEF GivenBack
      <4> QED BY <4>1, <4>2
    <3>3. GivenBack(k, x, o, q, mem')
      BY <1>3, <1>4, <2>7, <3>1, <3>2 DEF GivenBack
    <3>5. Originals(disk, k, o) /\ Originals(q.saved, k, o) /\ Known(x, o, disk, k)
      BY <1>3, <2>1 DEF Instance
    <3> QED BY <1>3, <1>6, <2>2, <2>3, <2>7, <3>3, <3>5 DEF Instance, Writing
  <2> QED BY <1>2, <2>5, <2>6, <2>7
<1> QED BY <1>8, <1>9, <1>10, <1>11, <1>12 DEF InstInv, Mid

\* A batch begins to be taken back.
LEMMA RollbackStart ==
  ASSUME Types, Control, Sync, Mid, op.kind = "apply", op.at \in Writing \cup {"persistApplied"},
         NEW degrades \in BOOLEAN, StartRollback(degrades), UNCHANGED <<mem, recovery>>,
         Fit(disk'), HonestFile => disk' = disk
  PROVE  InstInv'
<1> USE DEF Types
<1>1. PICK s \in Orders(op.attempted) :
        op' = [Clear(op) EXCEPT !.kind = "rollback", !.order = s, !.idx = 1,
                 !.at = IF s = <<>> THEN "finish" ELSE "verify", !.degrades = degrades]
  BY DEF StartRollback
<1> DEFINE c == Clear(op)
           at == IF s = <<>> THEN "finish" ELSE "verify"
<1>2. /\ DOMAIN c = OpFields
      /\ c.cur = Blank /\ c.tgt = Blank /\ c.base = Blank /\ c.todo = {} /\ c.done = {}
      /\ \A g \in OpFields \ {"cur", "tgt", "base", "todo", "done"} : c[g] = op[g]
  BY ClearParts DEF Operation
<1>3. op' = [c EXCEPT !.kind = "rollback", !.order = s, !.idx = 1, !.at = at,
                      !.degrades = degrades]
  BY <1>1
<1>4. at \in {"finish", "verify"} /\ (at = "finish" <=> s = <<>>)
  OBVIOUS
<1> HIDE DEF c, at
<1>5. /\ DOMAIN op' = OpFields /\ op'.kind = "rollback" /\ op'.order = s /\ op'.idx = 1
      /\ op'.at = at /\ op'.degrades = degrades
      /\ \A g \in OpFields \ {"kind", "order", "idx", "at", "degrades"} : op'[g] = c[g]
  BY <1>2, <1>3 DEF OpFields
<1>6. /\ op'.cur = Blank /\ op'.tgt = Blank /\ op'.base = Blank /\ op'.todo = {} /\ op'.done = {}
      /\ op'.request = op.request /\ op'.before = op.before /\ op'.want = op.want
      /\ op'.attempted = op.attempted /\ op'.start = op.start /\ op'.saved = op.saved
      /\ op'.failed = op.failed
  BY <1>2, <1>5 DEF OpFields
<1>7. mode' = mode
  BY DEF StartRollback
<1>8. op.attempted \subseteq Members(op) /\ op.attempted \subseteq Key
  BY DEF Sync, Operation
<1>9. IsFiniteSet(op.attempted)
  BY <1>8, KeyFinite, FS_Subset
<1>10. /\ s \in Seq(op.attempted) /\ Len(s) \in Nat
       /\ \A m, n \in 1 .. Len(s) : s[m] = s[n] => m = n
       /\ {s[n] : n \in 1 .. Len(s)} = op.attempted
  BY <1>9, OrdersParts
<1>11. s \in Seq(Key) /\ (s # <<>> => 1 \in 1 .. Len(s)) /\ 1 \in 0 .. Len(s) + 1
  BY <1>8, <1>10
<1>12. \A n \in 1 .. Len(s) : s[n][2] <= born[s[n][1]]
  <2>1. \A k \in Members(op) : k[2] <= born[k[1]]
    BY DEF Members, Operation
  <2> QED BY <1>8, <1>10, <2>1
<1>13. Key' = Key
  BY DEF Key, Mid
<1>14. Process'
  <2>1. Fit(disk') /\ Fit(mem) /\ Fit(op.saved) /\ Journal(op.start)
    BY DEF Process
  <2>2. ASSUME NEW j, Fit(j)
        PROVE  Journal(j)' /\ Decodes(j)' /\ \A k \in DOMAIN j : k[2] <= born'[k[1]]
    BY <2>2, FitStays DEF Mid
  <2>3. Fit(disk)' /\ Fit(op.saved)' /\ Fit(mem)'
    BY <1>6, <2>1, <2>2 DEF Fit, Journal, Decodes, Key, family
  <2>4. Journal(op.start)'
    BY <1>6, <1>13, <2>1 DEF Journal
  <2> QED BY <1>7, <2>3, <2>4 DEF Process
<1>15. Operation'
  <2>1. /\ op'.order \in Seq(Key') /\ op'.idx \in 0 .. Len(op'.order) + 1
        /\ \A m, n \in 1 .. Len(op'.order) : op'.order[m] = op'.order[n] => m = n
        /\ \A n \in 1 .. Len(op'.order) : op'.order[n][2] <= born'[op'.order[n][1]]
    BY <1>5, <1>10, <1>11, <1>12, <1>13 DEF Mid
  <2> QED BY <1>5, <1>6, <1>13, <2>1, BlankTyped DEF Operation
<1>16. Control'
  <2>1. mode = "ReadWrite" /\ ~recovery
    BY DEF Control, Writing
  <2> QED BY <1>4, <1>5, <1>6, <1>7, <1>11, <2>1 DEF Control, Steps
<1>17. Members(op)' = op.attempted
  BY <1>5, <1>10 DEF Members
<1>18. Sync'
  BY <1>4, <1>5, <1>6, <1>17 DEF Sync
<1>19. AllInstances'
  <2> SUFFICES ASSUME NEW k \in Key, Sits(k)'
               PROVE  Instance(k, field'[k[1]], others'[k[1]], op', disk, mem, Ready')
    BY <1>13 DEF AllInstances, Sits, HonestFile
  <2> DEFINE x == field'[k[1]]
             o == others'[k[1]]
  <2>1. Instance(k, x, o, op, disk, mem, Ready)
    BY DEF Mid
  <2> SUFFICES Instance(k, x, o, op', disk, mem, Ready')
    OBVIOUS
  <2> HIDE DEF x, o
  <2>2. ~Ready' /\ op'.at \notin Writing
    BY <1>4, <1>5 DEF Ready, Writing
  <2>3. Written(k, x, o, op, disk, mem)
    BY <2>1 DEF Instance
  <2>4. k \in op'.attempted => Batched(k, x, o, op', disk)
    BY <1>6, <1>8, <2>3 DEF Written, Batched
  <2>5. k \notin op'.attempted => Settled(x, o, op'.saved, k)
    BY <1>6, <2>3 DEF Written
  <2>6. k \notin Passed(op')
    <3>1. op'.at = "finish" => Len(op'.order) = 0
      BY <1>4, <1>5
    <3>2. op'.at \notin {"persistApplied", "finish"} => op'.idx - 1 = 0
      BY <1>5
    <3>3. op'.at # "persistApplied"
      BY <1>4, <1>5
    <3> QED BY <3>1, <3>2, <3>3 DEF Passed
  <2>7. Rolled(k, x, o, op', disk)
    BY <2>4, <2>5, <2>6 DEF Rolled
  <2> QED BY <1>5, <1>6, <2>1, <2>2, <2>7 DEF Instance
<1> QED BY <1>14, <1>15, <1>16, <1>18, <1>19 DEF InstInv, Mid

\* A step of an operation fails; mid-way the fields may have changed.
LEMMA FailureStep ==
  ASSUME Types, Control, Sync, Mid, op.at \in Steps, StepFails, UNCHANGED <<disk, mem, recovery>>
  PROVE  InstInv'
<1> USE DEF Types
<1>0. /\ op.kind \in {"apply", "rollback", "restore", "recover"} /\ mode = "ReadWrite"
      /\ op.kind # "recover" => ~recovery
  BY DEF Control, Steps
<1>1. CASE op.kind = "apply" /\ op.at \in {"verify", "read"}
  <2>1. op' = Idle /\ mode' = mode
    BY <1>1 DEF StepFails, Return
  <2>2. Rest(op') /\ op'.at = "idle"
    BY <2>1, IdleRests
  <2>3. Fit(disk') /\ Fit(mem') /\ mem' = disk'
    BY <1>1 DEF Process, Sync
  <2>4. \A k \in Key : Sits(k)' =>
          /\ Known(field'[k[1]], others'[k[1]], disk', k)
          /\ Originals(disk', k, others'[k[1]]) /\ Originals(mem', k, others'[k[1]])
          /\ Settled(field'[k[1]], others'[k[1]], mem', k)
    BY <1>1 DEF Mid, Instance, Reading
  <2> QED BY <1>0, <2>1, <2>2, <2>3, <2>4, RestStep DEF Mid, Process
<1>2. CASE op.kind = "apply" /\ op.at \in Writing
  <2>1. StartRollback(FALSE)
    BY <1>2 DEF StepFails, Writing
  <2> QED BY <1>2, <2>1, RollbackStart DEF Process
<1>3. CASE op.kind = "rollback"
  <2>1. PICK counts \in {b \in BOOLEAN : b \/ Forgiven} :
          op' = Following([op EXCEPT !.failed = op.failed \/ counts])
    BY <1>3 DEF StepFails
  <2>2. mode' = mode
    BY <1>3 DEF StepFails
  <2> DEFINE fail == op.failed \/ counts
             p == [op EXCEPT !.failed = fail]
  <2>3. fail \in BOOLEAN /\ (op.failed => fail) /\ (~fail => Forgiven)
    BY DEF Operation
  <2> HIDE DEF fail
  <2>4. /\ DOMAIN p = OpFields /\ p.failed = fail
        /\ \A g \in OpFields \ {"failed"} : p[g] = op[g]
    BY DEF Operation, OpFields
  <2>5. op' = Following(p)
    BY <2>1 DEF fail
  <2> HIDE DEF p
  <2>6. PICK h : h = op.order[op.idx]
    OBVIOUS
  <2>7. Sits(h)' => p.failed
    <3>1. h \in Key
      BY <2>6 DEF Operation, Control, Steps
    <3>2. h[2] # 0
      BY <3>1, KeyParts
    <3>3. Forgiven => inst[h[1]] = 0
      BY <2>6 DEF Forgiven, Place, Here
    <3> QED BY <2>3, <2>4, <3>2, <3>3 DEF Sits, Mid
  <2>8. SameBut(h, mem, mem') /\ Fit(mem')
    BY DEF SameBut, Process
  <2> QED BY <1>3, <2>2, <2>3, <2>4, <2>5, <2>6, <2>7, <2>8, FollowStep
<1>4. CASE op.kind \in {"restore", "recover"}
  <2>1. op' = Idle /\ mode' = "ReadOnlyDegraded"
    BY <1>4 DEF StepFails, Degrade, Return
  <2> QED BY <2>1, DegradeStep DEF Process
<1> QED BY <1>0, <1>1, <1>2, <1>3, <1>4 DEF Steps, Writing

-----------------------------------------------------------------------------
(* The daemon: identity and reading.                                       *)

\* The instance at hand.
LEMMA HereParts ==
  ASSUME Types, Control, op.at \in Steps
  PROVE  /\ Here \in Key /\ Here = op.order[op.idx] /\ Place \in Slot /\ Here[2] \in Nat
         /\ Here[2] # 0 /\ Here = <<Place, Here[2]>> /\ Here[2] <= born[Place]
         /\ Here \in Members(op) /\ op.idx \in 1 .. Len(op.order) /\ Len(op.order) \in Nat
<1>1. op.idx \in 1 .. Len(op.order) /\ op.order \in Seq(Key)
  BY DEF Types, Operation, Control
<1>2. Here \in Key /\ Here[2] <= born[Here[1]] /\ Here \in Members(op)
  BY <1>1 DEF Here, Members, Types, Operation
<1> QED BY <1>1, <1>2, KeyParts DEF Types, Place, Here

\* The identity holds, or a batch of units takes the one it finds.
LEMMA VerifiedStep ==
  ASSUME InstInv, op.at = "verify", inst[Place] # 0, Current \/ Observes,
         op' = [op EXCEPT !.at = "read", !.order[op.idx] = <<Place, inst[Place]>>],
         UNCHANGED <<scene, worldVars, disk, mem, mode, recovery>>
  PROVE  InstInv'
<1> USE DEF InstInv, Types
<1>0. Mid
  BY MidStill
<1>1. op.at \in Steps
  BY DEF Steps
<1>2. /\ Here \in Key /\ Here = op.order[op.idx] /\ Place \in Slot /\ Here[2] \in Nat
      /\ Here = <<Place, Here[2]>>
      /\ op.idx \in 1 .. Len(op.order) /\ Len(op.order) \in Nat
  BY <1>1, HereParts
<1> DEFINE k0 == <<Place, inst[Place]>>
           q == [op.order EXCEPT ![op.idx] = k0]
<1>3. k0 \in Key /\ inst[Place] = born[Place] /\ born[Place] \in Nat
  BY <1>2, OccupantKey
<1>4. op' = [op EXCEPT !.at = "read", !.order = q]
  BY DEF Operation, OpFields
<1>5. /\ q \in Seq(Key) /\ Len(q) = Len(op.order) /\ q[op.idx] = k0
      /\ \A n \in 1 .. Len(op.order) : n # op.idx => q[n] = op.order[n]
  BY <1>2, <1>3 DEF Operation
<1>6. k0[1] = Place /\ k0[2] = born[Place]
  BY <1>3
<1> HIDE DEF k0, q
<1>7. /\ DOMAIN op' = OpFields /\ op'.at = "read" /\ op'.order = q
      /\ \A g \in OpFields \ {"at", "order"} : op'[g] = op[g]
  BY <1>4 DEF Operation, OpFields
<1>8. /\ op'.kind = op.kind /\ op'.idx = op.idx
      /\ op'.request = op.request /\ op'.before = op.before /\ op'.want = op.want
      /\ op'.cur = op.cur /\ op'.tgt = op.tgt /\ op'.base = op.base
      /\ op'.todo = op.todo /\ op'.done = op.done /\ op'.attempted = op.attempted
      /\ op'.start = op.start /\ op'.saved = op.saved
      /\ op'.degrades = op.degrades /\ op'.failed = op.failed
  BY <1>7 DEF OpFields
<1>9. \A n \in 1 .. Len(q) : q[n][1] = op.order[n][1]
  BY <1>2, <1>5, <1>6 DEF Place
<1>10. Current => q = op.order
  <2> SUFFICES ASSUME Current PROVE q = op.order
    OBVIOUS
  <2>1. k0 = op.order[op.idx]
    BY <1>2 DEF Current, k0
  <2>2. \A n \in 1 .. Len(q) : q[n] = op.order[n]
    BY <1>2, <1>5, <2>1
  <2>3. op.order \in Seq(Key)
    BY DEF Operation
  <2> QED BY <1>5, <2>2, <2>3
<1>11. op.kind = "apply" \/ Current
  BY DEF Observes
<1>12. \A m, n \in 1 .. Len(q) : q[m] = q[n] => m = n
  <2>1. CASE Current
    BY <1>10, <2>1 DEF Operation
  <2>2. CASE op.kind = "apply"
    <3>1. \A m, n \in 1 .. Len(op.order) : op.order[m][1] = op.order[n][1] => m = n
      BY <2>2 DEF Sync
    <3> QED BY <1>5, <1>9, <3>1
  <2> QED BY <1>11, <2>1, <2>2
<1>13. \A n \in 1 .. Len(q) : q[n][2] <= born[q[n][1]]
  <2> TAKE n \in 1 .. Len(q)
  <2>1. CASE n = op.idx
    BY <1>3, <1>5, <1>6, <2>1
  <2>2. CASE n # op.idx
    BY <1>5, <2>2 DEF Operation
  <2> QED BY <2>1, <2>2
<1>14. Key' = Key /\ born' = born
  BY DEF Key, worldVars
<1>15. Process'
  <2>1. Fit(disk) /\ Fit(mem) /\ Fit(op.saved) /\ Journal(op.start)
    BY DEF Process
  <2> QED BY <1>8, <1>14, <2>1 DEF Process, Fit, Journal, Decodes, family
<1>16. Operation'
  <2>1. /\ op'.order \in Seq(Key') /\ op'.idx \in 0 .. Len(op'.order) + 1
        /\ \A m, n \in 1 .. Len(op'.order) : op'.order[m] = op'.order[n] => m = n
        /\ \A n \in 1 .. Len(op'.order) : op'.order[n][2] <= born'[op'.order[n][1]]
    <3>1. op'.order = q /\ op'.idx = op.idx
      BY <1>7, <1>8
    <3>2. op.idx \in 0 .. Len(q) + 1
      BY <1>2, <1>5
    <3>3. q \in Seq(Key')
      BY <1>5, <1>14
    <3> QED BY ONLY <1>12, <1>13, <1>14, <3>1, <3>2, <3>3
  <2> QED BY <1>7, <1>8, <1>14, <2>1 DEF Operation
<1>17. Control'
  BY <1>2, <1>5, <1>7, <1>8 DEF Control, Steps
<1>18. op.kind # "apply" => Members(op') = Members(op)
  BY ONLY <1>7, <1>10, <1>11 DEF Members
<1>19. Passed(op') = Passed(op)
  <2>1. \A n \in 1 .. (op.idx - 1) : q[n] = op.order[n]
    BY <1>2, <1>5
  <2>2. /\ Passed(op') = {q[n] : n \in 1 .. (op.idx - 1)}
        /\ Passed(op) = {op.order[n] : n \in 1 .. (op.idx - 1)}
    BY ONLY <1>7, <1>8, op.at = "verify" DEF Passed
  <2> QED BY ONLY <2>1, <2>2
<1>20. Sync'
  <2>1. CASE op.kind = "apply"
    <3>1. mem = disk /\ op.attempted = {}
      BY <2>1 DEF Sync
    <3>2. \A m, n \in 1 .. Len(op'.order) : op'.order[m][1] = op'.order[n][1] => m = n
      BY <1>5, <1>7, <1>9, <2>1 DEF Sync
    <3>3. ASSUME NEW n \in 1 .. Len(op'.order), n < op'.idx \/ (n = op'.idx /\ op'.at = "read"),
                 NEW k \in DOMAIN mem, k[1] = op'.order[n][1]
          PROVE  k[2] <= op'.order[n][2]
      <4>1. CASE n = op.idx
        <5>1. op'.order[n] = k0
          BY <1>5, <1>7, <4>1
        <5>2. k[2] <= born[k[1]]
          BY DEF Process, Fit
        <5> QED BY <1>6, <3>3, <5>1, <5>2
      <4>2. CASE n # op.idx
        <5>1. op'.order[n] = op.order[n] /\ n \in 1 .. Len(op.order)
          BY <1>5, <1>7, <4>2
        <5>2. n < op.idx
          BY <1>8, <3>3, <4>2
        <5> QED BY <2>1, <3>3, <5>1, <5>2 DEF Sync
      <4> QED BY <4>1, <4>2
    <3> QED BY <1>7, <1>8, <2>1, <3>1, <3>2, <3>3 DEF Sync, Writing
  <2>2. CASE op.kind # "apply"
    BY <1>7, <1>8, <1>18, <2>2 DEF Sync
  <2> QED BY <2>1, <2>2
<1>21. AllInstances'
  <2> SUFFICES ASSUME NEW k \in Key, Sits(k)'
               PROVE  Instance(k, field'[k[1]], others'[k[1]], op', disk, mem, Ready')
    BY <1>14 DEF AllInstances
  <2> DEFINE x == field'[k[1]]
             o == others'[k[1]]
  <2>1. Instance(k, x, o, op, disk, mem, Ready)
    BY <1>0 DEF Mid
  <2> SUFFICES Instance(k, x, o, op', disk, mem, Ready')
    OBVIOUS
  <2> HIDE DEF x, o
  <2>2. ~Ready' /\ op'.at \notin Writing
    BY <1>7 DEF Ready, Writing
  <2>3. op.kind = "apply" => Reading(k, x, o, op', mem)
    BY <1>8, <1>19, <2>1 DEF Instance, Reading
  <2>4. op.kind = "rollback" => Rolled(k, x, o, op', disk)
    BY <1>8, <1>19, <2>1 DEF Instance, Rolled, Batched
  <2>5. op.kind \in {"restore", "recover"} => GivenBack(k, x, o, op', mem)
    BY <1>8, <1>18, <1>19, <2>1 DEF Instance, GivenBack
  <2> QED BY <1>7, <1>8, <2>1, <2>2, <2>3, <2>4, <2>5 DEF Instance, Writing
<1> QED BY <1>0, <1>15, <1>16, <1>17, <1>20, <1>21 DEF Mid

\* Every way the check of the identity ends.
LEMMA VerifyStep ==
  ASSUME InstInv, Verify
  PROVE  InstInv'
<1>0. /\ op.at = "verify" /\ op.at \in Steps
      /\ UNCHANGED <<scene, worldVars, disk, mem, recovery>> /\ Types /\ Control /\ Sync /\ Mid
  BY MidStill DEF Verify, Steps, InstInv
<1>1. CASE /\ inst[Place] # 0 /\ (Current \/ Observes)
           /\ op' = [op EXCEPT !.at = "read", !.order[op.idx] = <<Place, inst[Place]>>]
           /\ UNCHANGED mode
  BY <1>0, <1>1, VerifiedStep
<1>2. CASE ~Current /\ op.kind # "apply" /\ op' = Following(op) /\ UNCHANGED mode
  <2>1. PICK h : h = op.order[op.idx]
    OBVIOUS
  <2>2. ~Sits(h)'
    BY <1>0, <1>2, <2>1 DEF Sits, Current, Place, Here, worldVars
  <2>3. SameBut(h, mem, mem') /\ Fit(mem')
    BY <1>0 DEF SameBut, Types, Process
  <2>4. DOMAIN op = OpFields /\ op.failed \in BOOLEAN
    BY <1>0 DEF Types, Operation
  <2> QED BY <1>0, <1>2, <2>1, <2>2, <2>3, <2>4, FollowStep
<1>3. CASE StepFails
  BY <1>0, <1>3, FailureStep
<1> QED BY <1>1, <1>2, <1>3 DEF Verify

-----------------------------------------------------------------------------
(* What a batch journals before it writes.                                 *)

Disjoint(e) == e.owned \cap e.relinquished = {}

\* An entry met again keeps the fields whose value is the one applied.
LEMMA StillParts ==
  ASSUME NEW e \in Entry, NEW cur \in State, NEW r, r = Still(e, cur)
  PROVE  /\ r \in Entry /\ r.applied = cur /\ r.desired = cur
         /\ \A f \in Field : f \in r.owned <=> f \in e.owned /\ cur[f] = e.applied[f]
         /\ \A f \in Field : f \in r.owned => r.original[f] = e.original[f]
         /\ Disjoint(e) => Disjoint(r)
         /\ r.relinquished = e.relinquished \cup (e.owned \ r.owned)
<1> DEFINE still == Matching(e.owned, cur, e.applied, e.applied)
<1>1. /\ e.original \in State /\ e.owned \subseteq Field /\ e.relinquished \subseteq Field
  BY DEF Entry
<1>2. still \subseteq e.owned /\ \A f \in Field : f \in still <=> f \in e.owned /\ cur[f] = e.applied[f]
  BY <1>1 DEF Matching
<1>3. /\ Copy(e.owned \ still, e.original, cur) \in State
      /\ \A f \in Field : f \in still => Copy(e.owned \ still, e.original, cur)[f] = e.original[f]
  <2> HIDE DEF still
  <2>1. PICK mask : mask = e.owned \ still
    OBVIOUS
  <2>2. /\ Copy(mask, e.original, cur) \in State
        /\ \A f \in Field :
             Copy(mask, e.original, cur)[f] = IF f \in mask THEN cur[f] ELSE e.original[f]
    BY <1>1, CopyParts
  <2> QED BY <2>1, <2>2
<1>4. /\ r.original = Copy(e.owned \ still, e.original, cur) /\ r.desired = cur /\ r.applied = cur
      /\ r.owned = still /\ r.relinquished = e.relinquished \cup (e.owned \ still)
  BY DEF Still
<1>5. r \in Entry
  <2>1. r = [original |-> r.original, desired |-> r.desired, applied |-> r.applied,
             owned |-> r.owned, relinquished |-> r.relinquished]
    BY DEF Still
  <2> HIDE DEF still
  <2> QED BY <1>1, <1>2, <1>3, <1>4, <2>1 DEF Entry
<1> HIDE DEF still
<1> QED BY <1>2, <1>3, <1>4, <1>5 DEF Disjoint

\* An entry of an instance met for the first time owns nothing.
LEMMA FreshParts ==
  ASSUME NEW cur \in State, NEW r, r = Fresh(cur)
  PROVE  /\ r \in Entry /\ r.applied = cur /\ r.desired = cur /\ r.original = cur
         /\ r.owned = {} /\ r.relinquished = {} /\ Disjoint(r)
BY DEF Fresh, Entry, Disjoint

\* A claim takes fields that were not given up, and remembers what they held.
LEMMA ClaimParts ==
  ASSUME NEW e \in Entry, NEW cur \in State, NEW want \in State, NEW r, r = Claim(e, cur, want)
  PROVE  /\ r \in Entry /\ r.applied = cur /\ r.relinquished = e.relinquished
         /\ e.owned \subseteq r.owned
         /\ \A f \in Field : r.desired[f] = IF f \in r.owned THEN want[f] ELSE cur[f]
         /\ \A f \in Field : f \in r.owned =>
              r.original[f] = IF f \in e.owned THEN e.original[f] ELSE cur[f]
         /\ Disjoint(e) => Disjoint(r)
<1> DEFINE owned == e.owned \cup (Changed(cur, want) \ e.relinquished)
<1>1. /\ e.original \in State /\ e.owned \subseteq Field /\ e.relinquished \subseteq Field
      /\ DOMAIN e = {"original", "desired", "applied", "owned", "relinquished"}
  BY DEF Entry
<1>2. /\ owned \subseteq Field /\ e.owned \subseteq owned
      /\ Disjoint(e) => owned \cap e.relinquished = {}
  BY <1>1 DEF Changed, Disjoint
<1> HIDE DEF owned
<1>3. /\ Copy(owned \ e.owned, e.original, cur) \in State /\ Copy(owned, cur, want) \in State
      /\ \A f \in Field : Copy(owned, cur, want)[f] = IF f \in owned THEN want[f] ELSE cur[f]
      /\ \A f \in Field : f \in owned =>
           Copy(owned \ e.owned, e.original, cur)[f] = IF f \in e.owned THEN e.original[f] ELSE cur[f]
  <2>1. PICK mask : mask = owned \ e.owned
    OBVIOUS
  <2>2. /\ Copy(mask, e.original, cur) \in State
        /\ \A f \in Field :
             Copy(mask, e.original, cur)[f] = IF f \in mask THEN cur[f] ELSE e.original[f]
    BY <1>1, CopyParts
  <2>3. /\ Copy(owned, cur, want) \in State
        /\ \A f \in Field : Copy(owned, cur, want)[f] = IF f \in owned THEN want[f] ELSE cur[f]
    BY CopyParts
  <2> QED BY <2>1, <2>2, <2>3
<1>4. r = [e EXCEPT !.original = Copy(owned \ e.owned, e.original, cur),
                    !.desired = Copy(owned, cur, want), !.applied = cur, !.owned = owned]
  BY DEF Claim, owned
<1>5. /\ DOMAIN r = DOMAIN e /\ r.original = Copy(owned \ e.owned, e.original, cur)
      /\ r.desired = Copy(owned, cur, want)
      /\ r.applied = cur /\ r.owned = owned /\ r.relinquished = e.relinquished
  BY <1>1, <1>4
<1>6. r \in Entry
  <2>1. r = [original |-> r.original, desired |-> r.desired, applied |-> r.applied,
             owned |-> r.owned, relinquished |-> r.relinquished]
    BY <1>1, <1>4
  <2> QED BY <1>1, <1>2, <1>3, <1>5, <2>1 DEF Entry
<1> QED BY <1>2, <1>3, <1>5, <1>6 DEF Disjoint

\* The entry a batch finds of an instance, and the one it journals.
HeldEntry(m, k, b) == IF k \in DOMAIN m THEN Still(m[k], b) ELSE Fresh(b)
NextEntry(m, k, b, r) == Claim(HeldEntry(m, k, b), b, r)
RestKeys(m, keys) == {k \in DOMAIN m \ keys : family = "unit" => \A l \in keys : k[1] # l[1]}

\* An instance in its slot, whose fields were b when they were read.
LEMMA ClaimFacts ==
  ASSUME NEW k, NEW x, NEW o, NEW m, NEW b \in State, NEW r \in State,
         k \in DOMAIN m => m[k] \in Entry,
         Within(x, o, b), Settled(b, o, m, k), Originals(m, k, o),
         NEW held, held = HeldEntry(m, k, b), NEW next, next = NextEntry(m, k, b, r),
         NEW j, k \in DOMAIN j <=> next.owned \cup next.relinquished # {},
         k \in DOMAIN j => j[k] = next,
         NEW saved, k \in DOMAIN saved <=> k \in DOMAIN m, k \in DOMAIN saved => saved[k] = held
  PROVE  /\ Settled(x, o, saved, k) /\ Settled(b, o, saved, k)
         /\ Known(b, o, j, k) /\ Known(next.desired, o, j, k) /\ Known(x, o, j, k)
         /\ Originals(j, k, o) /\ Originals(saved, k, o)
         /\ Between(x, o, b, next.desired)
         /\ k \in DOMAIN j => j[k].applied = b
<1>1. /\ held \in Entry /\ held.applied = b
      /\ \A f \in Field : f \in held.owned <=>
           k \in DOMAIN m /\ f \in m[k].owned /\ b[f] = m[k].applied[f]
      /\ \A f \in Field : f \in held.owned => held.original[f] = m[k].original[f]
  <2>1. CASE k \in DOMAIN m
    <3>1. held = Still(m[k], b)
      BY <2>1 DEF HeldEntry
    <3> QED BY <2>1, <3>1, StillParts
  <2>2. CASE k \notin DOMAIN m
    <3>1. held = Fresh(b)
      BY <2>2 DEF HeldEntry
    <3> QED BY <2>2, <3>1, FreshParts
  <2> QED BY <2>1, <2>2
<1>2. next = Claim(held, b, r)
  BY DEF NextEntry
<1>3. /\ next.applied = b /\ held.owned \subseteq next.owned
      /\ \A f \in Field : next.desired[f] = IF f \in next.owned THEN r[f] ELSE b[f]
      /\ \A f \in Field : f \in next.owned =>
           next.original[f] = IF f \in held.owned THEN held.original[f] ELSE b[f]
  <2>1. held \in Entry
    BY <1>1
  <2> QED BY ONLY <1>2, <2>1, ClaimParts, b \in State, r \in State
<1>4. \A f \in Field : b[f] \in o[f] \/ f \in held.owned
  BY <1>1 DEF Settled
<1>5. \A f \in Field : f \in next.owned => k \in DOMAIN j
  OBVIOUS
<1>6. Settled(b, o, saved, k)
  BY <1>1, <1>4 DEF Settled
<1>7. Settled(x, o, saved, k)
  BY <1>6 DEF Settled, Within
<1>8. Known(b, o, j, k)
  BY <1>3, <1>4, <1>5 DEF Known
<1>9. Known(x, o, j, k)
  BY <1>8 DEF Known, Within
<1>10. Known(next.desired, o, j, k)
  BY <1>3, <1>4, <1>5 DEF Known
<1>11. Originals(saved, k, o)
  BY <1>1 DEF Originals
<1>12. Originals(j, k, o)
  <2> SUFFICES ASSUME k \in DOMAIN j, NEW f \in Field, f \in next.owned
               PROVE  next.original[f] \in o[f]
    BY DEF Originals
  <2>1. CASE f \in held.owned
    BY <1>1, <1>3, <2>1 DEF Originals
  <2>2. CASE f \notin held.owned
    BY <1>3, <1>4, <2>2
  <2> QED BY <2>1, <2>2
<1>13. Between(x, o, b, next.desired)
  BY DEF Between, Within
<1> QED BY <1>3, <1>6, <1>7, <1>8, <1>9, <1>10, <1>11, <1>12, <1>13

\* A journal of entries kept and of entries of the batch.
LEMMA BatchFits ==
  ASSUME Types, NEW keys \in SUBSET Key, \A k, l \in keys : k[1] = l[1] => k = l,
         \A k \in keys : k[2] <= born[k[1]],
         NEW j, DOMAIN j \subseteq RestKeys(mem, keys) \cup keys,
         \A k \in DOMAIN j \cap keys : j[k] \in Entry /\ Disjoint(j[k]),
         \A k \in DOMAIN j \ keys : j[k] = mem[k]
  PROVE  Fit(j)
<1>1. Fit(mem)
  BY DEF Types, Process
<1>2. RestKeys(mem, keys) \subseteq DOMAIN mem
  BY DEF RestKeys
<1>3. ASSUME NEW k \in DOMAIN j
      PROVE  k \in Key /\ j[k] \in Entry /\ Disjoint(j[k]) /\ k[2] <= born[k[1]]
  <2>1. CASE k \in keys
    BY <2>1
  <2>2. CASE k \notin keys
    <3>1. k \in DOMAIN mem /\ j[k] = mem[k]
      BY <1>2, <2>2
    <3> QED BY <1>1, <3>1 DEF Fit, Journal, Decodes, Disjoint
  <2> QED BY <2>1, <2>2
<1>4. ASSUME family = "unit", NEW k \in DOMAIN j, NEW l \in DOMAIN j, k[1] = l[1]
      PROVE  k = l
  <2>1. CASE k \in keys /\ l \in keys
    BY <1>4, <2>1
  <2>2. CASE k \in keys /\ l \notin keys
    BY <1>4, <2>2 DEF RestKeys
  <2>3. CASE k \notin keys /\ l \in keys
    BY <1>4, <2>3 DEF RestKeys
  <2>4. CASE k \notin keys /\ l \notin keys
    BY <1>1, <1>2, <1>4, <2>4 DEF Fit, Decodes
  <2> QED BY <2>1, <2>2, <2>3, <2>4
<1> QED BY <1>3, <1>4 DEF Fit, Journal, Decodes, Disjoint

\* What a batch finds and journals are entries that decode.
LEMMA BatchEntries ==
  ASSUME Types, NEW k \in Key, NEW b \in State, NEW r \in State
  PROVE  /\ HeldEntry(mem, k, b) \in Entry /\ Disjoint(HeldEntry(mem, k, b))
         /\ NextEntry(mem, k, b, r) \in Entry /\ Disjoint(NextEntry(mem, k, b, r))
<1>1. PICK held : held = HeldEntry(mem, k, b)
  OBVIOUS
<1>2. held \in Entry /\ Disjoint(held)
  <2>1. CASE k \in DOMAIN mem
    <3>1. mem[k] \in Entry /\ Disjoint(mem[k])
      BY <2>1 DEF Types, Process, Fit, Journal, Decodes, Disjoint
    <3>2. held = Still(mem[k], b)
      BY <1>1, <2>1 DEF HeldEntry
    <3> QED BY ONLY <3>1, <3>2, StillParts, b \in State
  <2>2. CASE k \notin DOMAIN mem
    <3>1. held = Fresh(b)
      BY <1>1, <2>2 DEF HeldEntry
    <3> QED BY ONLY <3>1, FreshParts, b \in State
  <2> QED BY <2>1, <2>2
<1>3. PICK next : next = NextEntry(mem, k, b, r)
  OBVIOUS
<1>4. next = Claim(held, b, r)
  BY <1>1, <1>3 DEF NextEntry
<1>5. next \in Entry /\ Disjoint(next)
  BY ONLY <1>2, <1>4, ClaimParts, b \in State, r \in State
<1> QED BY <1>1, <1>2, <1>3, <1>5

\* What w is for a batch of keys, with fields b read and r requested.
Prepares(w, keys, b, r) ==
  /\ Fit(w.mem) /\ Fit(w.saved) /\ w.want \in [Slot -> State]
  /\ \A k \in keys :
       LET held == HeldEntry(mem, k, b[k[1]])
           next == NextEntry(mem, k, b[k[1]], r[k[1]])
       IN  /\ k \in DOMAIN w.mem <=> next.owned \cup next.relinquished # {}
           /\ k \in DOMAIN w.mem => w.mem[k] = next
           /\ k \in DOMAIN w.saved <=> k \in DOMAIN mem
           /\ k \in DOMAIN w.saved => w.saved[k] = held
           /\ w.want[k[1]] = next.desired
  /\ \A k : k \notin keys =>
       /\ k \in DOMAIN w.mem <=> k \in RestKeys(mem, keys)
       /\ k \in DOMAIN w.saved <=> k \in RestKeys(mem, keys)
       /\ k \in RestKeys(mem, keys) => w.mem[k] = mem[k] /\ w.saved[k] = mem[k]

\* What Prepared makes of the fields that were read.
LEMMA PreparedParts ==
  ASSUME Types, NEW o, o.order \in Seq(Key), o.before \in [Slot -> State],
         o.request \in [Slot -> State],
         \A m, n \in 1 .. Len(o.order) : o.order[m][1] = o.order[n][1] => m = n,
         \A n \in 1 .. Len(o.order) : o.order[n][2] <= born[o.order[n][1]],
         NEW p, p = Prepared(o), NEW keys, keys = {o.order[n] : n \in 1 .. Len(o.order)}
  PROVE  Prepares(p, keys, o.before, o.request)
<1> DEFINE held(k) == HeldEntry(mem, k, o.before[k[1]])
           next(k) == NextEntry(mem, k, o.before[k[1]], o.request[k[1]])
           rest == RestKeys(mem, keys)
           claimed == {k \in keys : next(k).owned \cup next(k).relinquished # {}}
<1>1. ToSet(o.order) = keys
  BY DEF ToSet
<1>2. /\ p.mem = [k \in rest \cup claimed |-> IF k \in keys THEN next(k) ELSE mem[k]]
      /\ p.saved = [k \in rest \cup (keys \cap DOMAIN mem) |->
                      IF k \in keys THEN held(k) ELSE mem[k]]
      /\ p.want = [s \in Slot |-> IF \E k \in keys : k[1] = s
                                  THEN next(CHOOSE k \in keys : k[1] = s).desired ELSE Blank]
  BY <1>1, Zenon DEF Prepared, NextEntry, HeldEntry, RestKeys
<1>3. keys \subseteq Key /\ \A k \in keys : k[2] <= born[k[1]]
  OBVIOUS
<1>4. \A k, l \in keys : k[1] = l[1] => k = l
  OBVIOUS
<1>5. \A k \in keys : k[1] \in Slot
  BY <1>3, KeyParts DEF Types
<1>6. \A k \in keys : /\ held(k) \in Entry /\ Disjoint(held(k))
                      /\ next(k) \in Entry /\ Disjoint(next(k))
  <2> TAKE k \in keys
  <2>1. k \in Key /\ o.before[k[1]] \in State /\ o.request[k[1]] \in State
    BY <1>3, <1>5
  <2> QED BY <2>1, BatchEntries
<1>7. rest \cap keys = {} /\ claimed \subseteq keys
  BY DEF RestKeys
<1> HIDE DEF held, next, rest, claimed
<1>8. Fit(p.mem)
  <2>1. DOMAIN p.mem = rest \cup claimed
    BY <1>2
  <2>2. \A k \in DOMAIN p.mem \cap keys : p.mem[k] \in Entry /\ Disjoint(p.mem[k])
    BY <1>2, <1>6
  <2>3. \A k \in DOMAIN p.mem \ keys : p.mem[k] = mem[k]
    BY <1>2
  <2>4. DOMAIN p.mem \subseteq RestKeys(mem, keys) \cup keys
    BY <1>7, <2>1 DEF rest
  <2> QED BY ONLY Types, <1>3, <1>4, <2>2, <2>3, <2>4, BatchFits
<1>9. Fit(p.saved)
  <2>1. DOMAIN p.saved = rest \cup (keys \cap DOMAIN mem)
    BY <1>2
  <2>2. \A k \in DOMAIN p.saved \cap keys : p.saved[k] \in Entry /\ Disjoint(p.saved[k])
    BY <1>2, <1>6
  <2>3. \A k \in DOMAIN p.saved \ keys : p.saved[k] = mem[k]
    BY <1>2
  <2>4. DOMAIN p.saved \subseteq RestKeys(mem, keys) \cup keys
    BY <1>7, <2>1 DEF rest
  <2> QED BY ONLY Types, <1>3, <1>4, <2>2, <2>3, <2>4, BatchFits
<1>10. \A k \in keys : next(k).desired \in State
  BY <1>6 DEF Entry
<1>11. \A k \in keys : p.want[k[1]] = next(k).desired
  <2> TAKE k \in keys
  <2>1. (CHOOSE l \in keys : l[1] = k[1]) = k
    BY <1>4
  <2> QED BY <1>2, <1>5, <2>1
<1>12. p.want \in [Slot -> State]
  <2>1. ASSUME NEW s \in Slot
        PROVE  p.want[s] \in State
    <3>1. CASE \E k \in keys : k[1] = s
      BY <1>10, <1>11, <3>1
    <3>2. CASE ~\E k \in keys : k[1] = s
      BY <1>2, <3>2, BlankTyped
    <3> QED BY <3>1, <3>2
  <2> QED BY <1>2, <2>1
<1>13. \A k \in keys : /\ k \in DOMAIN p.mem <=> next(k).owned \cup next(k).relinquished # {}
                       /\ k \in DOMAIN p.mem => p.mem[k] = next(k)
                       /\ k \in DOMAIN p.saved <=> k \in DOMAIN mem
                       /\ k \in DOMAIN p.saved => p.saved[k] = held(k)
  <2>1. \A k \in keys : k \in claimed <=> next(k).owned \cup next(k).relinquished # {}
    BY DEF claimed
  <2> QED BY <1>2, <1>7, <2>1
<1>14. \A k : k \notin keys =>
         /\ k \in DOMAIN p.mem <=> k \in rest
         /\ k \in DOMAIN p.saved <=> k \in rest
         /\ k \in rest => p.mem[k] = mem[k] /\ p.saved[k] = mem[k]
  BY ONLY <1>2, <1>7
<1> QED BY ONLY <1>8, <1>9, <1>11, <1>12, <1>13, <1>14, Zenon DEF Prepares, held, next, rest

-----------------------------------------------------------------------------
(* The daemon: reading.                                                    *)

\* Journals that fit go on fitting in a step of the daemon.
LEMMA ProcessStep ==
  ASSUME Types, scene' = scene, born' = born, Fit(disk'), Fit(mem'), Fit(op'.saved),
         op'.start = op.start, mode' = mode, recovery' = recovery
  PROVE  Process'
<1>1. Key' = Key
  BY DEF Key
<1>2. Fit(disk)' /\ Fit(mem)' /\ Fit(op.saved)'
  BY DEF Fit, Journal, Key, Decodes, family
<1>3. Journal(op.start)'
  BY <1>1 DEF Types, Process, Journal
<1> QED BY <1>2, <1>3 DEF Types, Process

\* One instance of a batch is read, and another one is next.
LEMMA ReadNextStep ==
  ASSUME InstInv, op.at = "read", op.kind = "apply", op.idx < Len(op.order),
         NEW p, p = [op EXCEPT !.before[Place] = field[Place]],
         op' = [p EXCEPT !.at = "verify", !.idx = @ + 1],
         UNCHANGED <<scene, worldVars, disk, mem, mode, recovery>>
  PROVE  InstInv'
<1> USE DEF InstInv, Types
<1>0. Mid
  BY MidStill
<1>1. op.at \in Steps
  BY DEF Steps
<1>2. /\ Here \in Key /\ Here = op.order[op.idx] /\ Place \in Slot /\ Here \in Members(op)
      /\ op.idx \in 1 .. Len(op.order) /\ Len(op.order) \in Nat
  BY <1>1, HereParts
<1> DEFINE b == [op.before EXCEPT ![Place] = field[Place]]
<1>3. /\ b \in [Slot -> State] /\ b[Place] = field[Place]
      /\ \A s \in Slot : s # Place => b[s] = op.before[s]
  BY <1>2 DEF Operation, World
<1>4. p = [op EXCEPT !.before = b]
  BY DEF Operation, OpFields
<1> HIDE DEF b
<1>5. DOMAIN p = OpFields /\ p.before = b /\ \A g \in OpFields \ {"before"} : p[g] = op[g]
  BY <1>4 DEF Operation, OpFields
<1>6. p.idx = op.idx
  BY <1>5 DEF OpFields
<1>7. /\ DOMAIN op' = OpFields /\ op'.at = "verify" /\ op'.idx = op.idx + 1
      /\ \A g \in OpFields \ {"at", "idx"} : op'[g] = p[g]
  BY ONLY <1>5, <1>6, op' = [p EXCEPT !.at = "verify", !.idx = @ + 1] DEF OpFields
<1>8. /\ op'.before = b
      /\ op'.kind = op.kind /\ op'.order = op.order /\ op'.request = op.request /\ op'.want = op.want
      /\ op'.cur = op.cur /\ op'.tgt = op.tgt /\ op'.base = op.base
      /\ op'.todo = op.todo /\ op'.done = op.done /\ op'.attempted = op.attempted
      /\ op'.start = op.start /\ op'.saved = op.saved
      /\ op'.degrades = op.degrades /\ op'.failed = op.failed
  BY <1>5, <1>7 DEF OpFields
<1>9. /\ op'.idx \in 1 .. Len(op.order) /\ op'.idx \in 0 .. Len(op.order) + 1
      /\ op'.idx - 1 = op.idx
  BY <1>2, <1>7
<1>10. Key' = Key /\ born' = born
  BY DEF Key, worldVars
<1>11. Process'
  BY <1>8, <1>10, ProcessStep DEF Process
<1>12. Operation'
  <2>1. Operation
    OBVIOUS
  <2> QED BY ONLY <1>3, <1>7, <1>8, <1>9, <1>10, <2>1 DEF Operation
<1>13. Control'
  BY <1>7, <1>8, <1>9 DEF Control, Steps
<1>14. Members(op') = Members(op)
  BY <1>8 DEF Members
<1>15. \A m, n \in 1 .. Len(op.order) : op.order[m][1] = op.order[n][1] => m = n
  BY DEF Sync
<1>16. Sync'
  <2>1. mem = disk /\ op.attempted = {}
    BY DEF Sync
  <2>2. ASSUME NEW n \in 1 .. Len(op.order), n < op'.idx,
               NEW k \in DOMAIN mem, k[1] = op.order[n][1]
        PROVE  k[2] <= op.order[n][2]
    <3>1. n < op.idx \/ (n = op.idx /\ op.at = "read")
      BY <1>2, <1>9, <2>2
    <3> QED BY <2>2, <3>1 DEF Sync
  <2> QED BY <1>7, <1>8, <1>14, <1>15, <2>1, <2>2 DEF Sync, Writing
<1>17. AllInstances'
  <2> SUFFICES ASSUME NEW k \in Key, Sits(k)'
               PROVE  Instance(k, field'[k[1]], others'[k[1]], op', disk, mem, Ready')
    BY <1>10 DEF AllInstances
  <2> DEFINE x == field'[k[1]]
             o == others'[k[1]]
  <2>1. Instance(k, x, o, op, disk, mem, Ready)
    BY <1>0 DEF Mid
  <2> SUFFICES Instance(k, x, o, op', disk, mem, Ready')
    OBVIOUS
  <2>0. k[1] = Place => b[k[1]] = x
    BY <1>3 DEF worldVars
  <2> HIDE DEF x, o
  <2>2. ~Ready' /\ op'.at \notin Writing
    BY <1>7 DEF Ready, Writing
  <2>3. /\ Settled(x, o, mem, k)
        /\ k \in Passed(op) =>
             Within(x, o, op.before[k[1]]) /\ Settled(op.before[k[1]], o, mem, k)
    BY <2>1 DEF Instance, Reading
  <2>4. ASSUME k \in Passed(op')
        PROVE  Within(x, o, b[k[1]]) /\ Settled(b[k[1]], o, mem, k)
    <3>1. PICK n \in 1 .. op.idx : k = op.order[n]
      BY <1>7, <1>8, <1>9, <2>4 DEF Passed
    <3>2. CASE n = op.idx
      <4>1. k[1] = Place
        BY <1>2, <3>1, <3>2 DEF Place
      <4> QED BY <2>0, <2>3, <4>1 DEF Within
    <3>3. CASE n # op.idx
      <4>1. n \in 1 .. (op.idx - 1) /\ n \in 1 .. Len(op.order)
        BY <1>2, <3>1, <3>3
      <4>2. k \in Passed(op)
        BY <3>1, <4>1 DEF Passed
      <4>3. k[1] # Place /\ k[1] \in Slot
        BY <1>2, <1>15, <3>1, <3>3, <4>1, KeyParts DEF Place
      <4> QED BY <1>3, <2>3, <4>2, <4>3
    <3> QED BY <3>2, <3>3
  <2>5. Reading(k, x, o, op', mem)
    BY <1>8, <2>3, <2>4 DEF Reading
  <2> QED BY <1>7, <1>8, <2>1, <2>2, <2>5 DEF Instance
<1> QED BY <1>0, <1>11, <1>12, <1>13, <1>16, <1>17 DEF Mid

\* What the fields of an instance may be set to when they are given back.
LEMMA GoalParts ==
  ASSUME Types, Control, Sync, op.at \in Steps, op.kind # "apply",
         NEW cur \in State, NEW g, g = Goal(cur)
  PROVE  /\ g \in State
         /\ op.kind = "rollback" => \A f \in Field :
              g[f] = IF /\ op.before[Place][f] # op.want[Place][f]
                        /\ cur[f] \in {op.want[Place][f], op.before[Place][f]}
                     THEN op.before[Place][f] ELSE cur[f]
         /\ op.kind # "rollback" => Here \in DOMAIN mem /\ \A f \in Field :
              g[f] = IF /\ f \in mem[Here].owned
                        /\ cur[f] \in {mem[Here].applied[f], mem[Here].desired[f]}
                     THEN mem[Here].original[f] ELSE cur[f]
<1>1. Place \in Slot /\ Here \in Members(op) /\ op.kind \in {"rollback", "restore", "recover"}
  BY HereParts DEF Control, Steps
<1>2. CASE op.kind = "rollback"
  <2> DEFINE mask == Matching(Changed(op.before[Place], op.want[Place]), cur,
                              op.want[Place], op.before[Place])
  <2>1. g = Copy(mask, cur, op.before[Place])
    BY <1>2 DEF Goal
  <2>2. \A f \in Field : f \in mask <=> /\ op.before[Place][f] # op.want[Place][f]
                                        /\ cur[f] \in {op.want[Place][f], op.before[Place][f]}
    BY DEF Matching, Changed
  <2>3. op.before[Place] \in State
    BY <1>1 DEF Types, Operation
  <2> HIDE DEF mask
  <2>4. g \in State /\ \A f \in Field : g[f] = IF f \in mask THEN op.before[Place][f] ELSE cur[f]
    BY <2>1, <2>3, CopyParts
  <2> QED BY <1>2, <2>2, <2>4
<1>3. CASE op.kind # "rollback"
  <2>1. Here \in DOMAIN mem
    BY <1>1, <1>3 DEF Sync
  <2>2. mem[Here] \in Entry
    BY <2>1 DEF Types, Process, Fit, Journal
  <2> DEFINE e == mem[Here]
             mask == Matching(e.owned, cur, e.applied, e.desired)
  <2>3. g = Copy(mask, cur, e.original)
    BY <1>3 DEF Goal
  <2>4. \A f \in Field : f \in mask <=> f \in e.owned /\ cur[f] \in {e.applied[f], e.desired[f]}
    BY DEF Matching
  <2>5. e.original \in State
    BY <2>2 DEF Entry
  <2> HIDE DEF mask, e
  <2>6. g \in State /\ \A f \in Field : g[f] = IF f \in mask THEN e.original[f] ELSE cur[f]
    BY <2>3, <2>5, CopyParts
  <2> QED BY <1>3, <2>1, <2>4, <2>6 DEF e
<1> QED BY <1>2, <1>3

\* The last instance of a batch is read: intents are journalled in memory.
LEMMA ReadLastStep ==
  ASSUME InstInv, op.at = "read", op.kind = "apply", op.idx = Len(op.order),
         NEW p, p = [op EXCEPT !.before[Place] = field[Place]],
         NEW w, w = Prepared(p), mem' = w.mem,
         op' = [p EXCEPT !.at = "persistIntent", !.saved = w.saved, !.want = w.want,
                         !.request = Idle.request],
         UNCHANGED <<scene, worldVars, disk, mode, recovery>>
  PROVE  InstInv'
<1> USE DEF InstInv, Types
<1>0. Mid
  BY MidStill
<1>1. op.at \in Steps
  BY DEF Steps
<1>2. /\ Here \in Key /\ Here = op.order[op.idx] /\ Place \in Slot /\ Here \in Members(op)
      /\ op.idx \in 1 .. Len(op.order) /\ Len(op.order) \in Nat
  BY <1>1, HereParts
<1> DEFINE b == [op.before EXCEPT ![Place] = field[Place]]
           keys == {op.order[n] : n \in 1 .. Len(op.order)}
<1>3. /\ b \in [Slot -> State] /\ b[Place] = field[Place]
      /\ \A s \in Slot : s # Place => b[s] = op.before[s]
  BY <1>2 DEF Operation, World
<1>4. p = [op EXCEPT !.before = b]
  BY DEF Operation, OpFields
<1>k. keys = Members(op) /\ keys \subseteq Key /\ \A k \in keys : k[2] <= born[k[1]]
  BY DEF Members, Operation
<1> HIDE DEF b, keys
<1>5. DOMAIN p = OpFields /\ p.before = b /\ \A g \in OpFields \ {"before"} : p[g] = op[g]
  BY <1>4 DEF Operation, OpFields
<1>6. p.order = op.order /\ p.request = op.request
  BY <1>5 DEF OpFields
<1>7. /\ DOMAIN op' = OpFields /\ op'.at = "persistIntent" /\ op'.saved = w.saved
      /\ op'.want = w.want /\ op'.request = Idle.request
      /\ \A g \in OpFields \ {"at", "saved", "want", "request"} : op'[g] = p[g]
  <2> DEFINE v == Idle.request
  <2> HIDE DEF v
  <2>1. op' = [p EXCEPT !.at = "persistIntent", !.saved = w.saved, !.want = w.want, !.request = v]
    BY DEF v
  <2>2. op'.request = v
    BY ONLY <1>5, <2>1 DEF OpFields
  <2>3. /\ DOMAIN op' = OpFields /\ op'.at = "persistIntent" /\ op'.saved = w.saved
        /\ op'.want = w.want
        /\ \A g \in OpFields \ {"at", "saved", "want", "request"} : op'[g] = p[g]
    BY ONLY <1>5, <2>1 DEF OpFields
  <2> QED BY ONLY <2>2, <2>3 DEF v
<1>8. /\ op'.before = b
      /\ op'.kind = op.kind /\ op'.order = op.order /\ op'.idx = op.idx
      /\ op'.cur = op.cur /\ op'.tgt = op.tgt /\ op'.base = op.base
      /\ op'.todo = op.todo /\ op'.done = op.done /\ op'.attempted = op.attempted
      /\ op'.start = op.start
      /\ op'.degrades = op.degrades /\ op'.failed = op.failed
  BY ONLY <1>5, <1>7 DEF OpFields
<1>9. /\ \A m, n \in 1 .. Len(op.order) : op.order[m][1] = op.order[n][1] => m = n
      /\ mem = disk /\ op.attempted = {}
      /\ \A n \in 1 .. Len(op.order) : n <= op.idx =>
           \A k \in DOMAIN mem : k[1] = op.order[n][1] => k[2] <= op.order[n][2]
  BY <1>2 DEF Sync
<1>10. Types /\ op.order \in Seq(Key) /\ op.request \in [Slot -> State]
       /\ \A n \in 1 .. Len(op.order) : op.order[n][2] <= born[op.order[n][1]]
  BY DEF Operation
<1>11. keys = {p.order[n] : n \in 1 .. Len(p.order)}
  BY <1>6 DEF keys
<1>12. Prepares(w, keys, b, op.request)
  <2>1. /\ p.order \in Seq(Key) /\ p.before \in [Slot -> State] /\ p.request \in [Slot -> State]
        /\ \A m, n \in 1 .. Len(p.order) : p.order[m][1] = p.order[n][1] => m = n
        /\ \A n \in 1 .. Len(p.order) : p.order[n][2] <= born[p.order[n][1]]
    BY ONLY <1>3, <1>5, <1>6, <1>9, <1>10
  <2>2. Prepares(w, keys, p.before, p.request)
    BY ONLY <1>10, <1>11, <2>1, w = Prepared(p), PreparedParts
  <2> QED BY ONLY <1>5, <1>6, <2>2
<1>13. Key' = Key /\ born' = born
  BY DEF Key, worldVars
<1>14. Process'
  <2>1. Fit(disk') /\ Fit(mem') /\ Fit(op'.saved)
    BY <1>7, <1>12 DEF Process, Prepares
  <2> QED BY <1>8, <1>13, <2>1, ProcessStep
<1>15. Operation'
  <2>1. Operation
    OBVIOUS
  <2>2. w.want \in [Slot -> State]
    BY <1>12 DEF Prepares
  <2> QED BY ONLY <1>3, <1>7, <1>8, <1>13, <2>1, <2>2, IdleParts DEF Operation
<1>16. Control'
  <2>1. Control /\ mode' = mode /\ recovery' = recovery
    OBVIOUS
  <2> QED BY ONLY <1>1, <1>2, <1>7, <1>8, <2>1, op.at = "read", op.kind = "apply" DEF Control, Steps
<1>17. Members(op') = keys
  BY ONLY <1>8 DEF Members, keys
<1>18. Sync'
  BY ONLY <1>7, <1>8, <1>9, op.kind = "apply" DEF Sync, Writing
<1>19. AllInstances'
  <2> SUFFICES ASSUME NEW k \in Key, Sits(k)'
               PROVE  Instance(k, field'[k[1]], others'[k[1]], op', disk, mem', Ready')
    BY <1>13 DEF AllInstances
  <2> DEFINE x == field'[k[1]]
             o == others'[k[1]]
  <2>1. Instance(k, x, o, op, disk, mem, Ready)
    BY <1>0 DEF Mid
  <2> SUFFICES Instance(k, x, o, op', disk, mem', Ready')
    OBVIOUS
  <2>0. k[1] = Place => b[k[1]] = x
    BY <1>3 DEF worldVars
  <2> HIDE DEF x, o
  <2>2. ~Ready' /\ op'.at = "persistIntent" /\ op'.kind = "apply" /\ op'.attempted = {}
    BY <1>7, <1>8, <1>9 DEF Ready
  <2>3. /\ Settled(x, o, mem, k) /\ Originals(mem, k, o) /\ Originals(disk, k, o)
        /\ Known(x, o, disk, k)
        /\ k \in Passed(op) =>
             Within(x, o, op.before[k[1]]) /\ Settled(op.before[k[1]], o, mem, k)
    BY <2>1 DEF Instance, Reading
  <2>4. k[1] \in Slot /\ k[2] \in Nat /\ k[2] # 0 /\ k = <<k[1], k[2]>>
    BY KeyParts
  <2>5. CASE k \in keys
    <3>1. Within(x, o, b[k[1]]) /\ Settled(b[k[1]], o, mem, k)
      <4>1. PICK n \in 1 .. Len(op.order) : k = op.order[n]
        BY <2>5 DEF keys
      <4>2. CASE n = op.idx
        <5>1. k[1] = Place
          BY <1>2, <4>1, <4>2 DEF Place
        <5> QED BY <2>0, <2>3, <5>1 DEF Within
      <4>3. CASE n # op.idx
        <5>1. n \in 1 .. (op.idx - 1)
          BY <1>2, <4>1, <4>3
        <5>2. k \in Passed(op)
          BY <4>1, <5>1 DEF Passed
        <5>3. k[1] # Place
          BY <1>2, <1>9, <4>1, <4>3 DEF Place
        <5> QED BY <1>3, <2>3, <2>4, <5>2, <5>3
      <4> QED BY <4>2, <4>3
    <3> DEFINE held == HeldEntry(mem, k, b[k[1]])
               next == NextEntry(mem, k, b[k[1]], op.request[k[1]])
    <3>2. /\ k \in DOMAIN mem' <=> next.owned \cup next.relinquished # {}
          /\ k \in DOMAIN mem' => mem'[k] = next
          /\ k \in DOMAIN w.saved <=> k \in DOMAIN mem
          /\ k \in DOMAIN w.saved => w.saved[k] = held
          /\ w.want[k[1]] = next.desired
      BY ONLY <1>12, <2>5, mem' = w.mem DEF Prepares
    <3>3. b[k[1]] \in State /\ op.request[k[1]] \in State /\ (k \in DOMAIN mem => mem[k] \in Entry)
      BY <1>3, <1>10, <2>4 DEF Process, Fit, Journal
    <3>4. held = HeldEntry(mem, k, b[k[1]]) /\ next = NextEntry(mem, k, b[k[1]], op.request[k[1]])
      OBVIOUS
    <3> HIDE DEF held, next
    <3>5. /\ Settled(x, o, w.saved, k) /\ Settled(b[k[1]], o, w.saved, k)
          /\ Known(b[k[1]], o, mem', k) /\ Known(next.desired, o, mem', k) /\ Known(x, o, mem', k)
          /\ Originals(mem', k, o) /\ Originals(w.saved, k, o)
          /\ Between(x, o, b[k[1]], next.desired)
          /\ k \in DOMAIN mem' => mem'[k].applied = b[k[1]]
      BY ONLY <2>3, <3>1, <3>2, <3>3, <3>4, ClaimFacts
    <3>6. Batched(k, x, o, op', mem')
      BY ONLY <1>7, <1>8, <3>2, <3>5 DEF Batched
    <3>7. Written(k, x, o, op', mem', mem')
      BY ONLY <1>7, <1>8, <1>17, <2>2, <2>5, <3>5, <3>6 DEF Written
    <3> QED BY ONLY <1>7, <2>2, <2>3, <3>5, <3>7 DEF Instance, Writing
  <2>6. CASE k \notin keys
    <3>1. k \in DOMAIN mem => k \in RestKeys(mem, keys)
      <4> SUFFICES ASSUME k \in DOMAIN mem, NEW l \in keys, k[1] = l[1]
                   PROVE  FALSE
        BY <2>6 DEF RestKeys
      <4>1. PICK n \in 1 .. Len(op.order) : l = op.order[n]
        BY DEF keys
      <4>2. k[2] <= l[2]
        BY <1>2, <1>9, <4>1
      <4>3. l \in Key /\ l[2] <= born[k[1]] /\ l[2] \in Nat /\ l = <<l[1], l[2]>>
        BY <1>k, KeyParts
      <4>4. k[2] = born[k[1]]
        BY <2>4 DEF Sits, World, worldVars
      <4>5. k[2] = l[2]
        BY <2>4, <4>2, <4>3, <4>4
      <4> QED BY <2>4, <2>6, <4>3, <4>5
    <3>2. RestKeys(mem, keys) \subseteq DOMAIN mem
      BY DEF RestKeys
    <3>3. /\ k \in DOMAIN mem' <=> k \in DOMAIN mem
          /\ k \in DOMAIN w.saved <=> k \in DOMAIN mem
          /\ k \in DOMAIN mem => mem'[k] = mem[k] /\ w.saved[k] = mem[k]
      BY ONLY <1>12, <2>6, <3>1, <3>2, mem' = w.mem DEF Prepares
    <3>4. Settled(x, o, mem', k) /\ Settled(x, o, w.saved, k)
      BY ONLY <2>3, <3>3 DEF Settled
    <3>5. Known(x, o, mem', k)
      BY ONLY <3>4 DEF Settled, Known
    <3>6. Originals(mem', k, o) /\ Originals(w.saved, k, o)
      BY ONLY <2>3, <3>3 DEF Originals
    <3>7. Written(k, x, o, op', mem', mem')
      BY ONLY <1>7, <1>17, <2>2, <2>6, <3>4 DEF Written
    <3> QED BY ONLY <1>7, <2>2, <2>3, <3>5, <3>6, <3>7 DEF Instance, Writing
  <2> QED BY <2>5, <2>6
<1> QED BY <1>0, <1>14, <1>15, <1>16, <1>18, <1>19 DEF Mid

\* A step that goes on with the instance at hand.
LEMMA OnwardStep ==
  ASSUME Types, Control, Sync, Mid, op.at \in Writing \cup {"read"},
         op.kind = "apply" => op.at \in Writing,
         DOMAIN op' = OpFields, op'.at \in Writing,
         \A g \in OpFields \ {"at", "cur", "tgt", "base", "todo", "done", "attempted"} :
           op'[g] = op[g],
         op'.cur \in State, op'.tgt \in State, op'.base \in State,
         op'.todo \subseteq Field, op'.done \subseteq Field, op'.todo \cap op'.done = {},
         op'.at # "fields" => op'.done = {},
         NEW h, h = op.order[op.idx],
         \/ op'.attempted = op.attempted
         \/ op.kind = "apply" /\ op'.attempted = op.attempted \cup {h},
         UNCHANGED <<disk, mem, mode, recovery>>,
         Sits(h)' => AtHand(h, field'[h[1]], others'[h[1]], op', disk)
  PROVE  InstInv'
<1> USE DEF Types
<1>1. op.at \in Steps /\ op'.at \in Steps
  BY DEF Steps, Writing
<1>2. /\ h \in Key /\ h \in Members(op) /\ op.idx \in 1 .. Len(op.order) /\ Len(op.order) \in Nat
      /\ op.kind \in {"apply", "rollback", "restore", "recover"}
  BY <1>1, HereParts DEF Control, Steps
<1>3. /\ op'.kind = op.kind /\ op'.order = op.order /\ op'.idx = op.idx
      /\ op'.request = op.request /\ op'.before = op.before /\ op'.want = op.want
      /\ op'.start = op.start /\ op'.saved = op.saved
      /\ op'.degrades = op.degrades /\ op'.failed = op.failed
  BY DEF OpFields
<1>4. scene' = scene /\ born' = born /\ Key' = Key
  BY DEF Mid, Key
<1>5. Process'
  BY <1>3, <1>4, ProcessStep DEF Process
<1>6. op'.attempted \subseteq Key /\ (op.kind = "apply" => op'.attempted \subseteq Members(op))
  BY <1>2 DEF Operation, Sync
<1>7. Operation'
  BY <1>3, <1>4, <1>6 DEF Operation
<1>8. Control'
  BY <1>1, <1>2, <1>3 DEF Control, Steps, Writing
<1>9. Members(op') = Members(op) /\ Passed(op') = Passed(op)
  BY <1>1, <1>3 DEF Members, Passed, Steps
<1>10. op.attempted \subseteq op'.attempted /\ (op.kind # "apply" => op'.attempted = op.attempted)
  OBVIOUS
<1>11. Sync'
  <2>1. op'.at \notin {"idle", "verify", "read"}
    BY DEF Writing
  <2>2. op.kind = "apply" => SameClaims(disk, mem)
    BY DEF Sync
  <2> QED BY <1>2, <1>3, <1>6, <1>9, <1>10, <2>1, <2>2 DEF Sync
<1>12. AllInstances'
  <2> SUFFICES ASSUME NEW k \in Key, Sits(k)'
               PROVE  Instance(k, field'[k[1]], others'[k[1]], op', disk, mem, Ready')
    BY <1>4 DEF AllInstances
  <2> DEFINE x == field'[k[1]]
             o == others'[k[1]]
  <2>1. Instance(k, x, o, op, disk, mem, Ready)
    BY DEF Mid
  <2> SUFFICES Instance(k, x, o, op', disk, mem, Ready')
    OBVIOUS
  <2>2. k = op'.order[op'.idx] => AtHand(k, x, o, op', disk)
    BY <1>3
  <2> HIDE DEF x, o
  <2>3. ~Ready'
    BY DEF Ready, Writing
  <2>4. op'.at \notin {"verify", "read", "persistIntent"}
    BY DEF Writing
  <2>5. op.kind = "apply" => Written(k, x, o, op', disk, mem)
    <3> SUFFICES ASSUME op.kind = "apply"
                 PROVE  Written(k, x, o, op', disk, mem)
      OBVIOUS
    <3>1. Written(k, x, o, op, disk, mem) /\ op.at # "persistIntent"
      BY <2>1 DEF Instance, Writing
    <3>2. Batched(k, x, o, op, disk) => Batched(k, x, o, op', disk)
      BY <1>3 DEF Batched
    <3> QED BY <1>3, <1>9, <1>10, <3>1, <3>2 DEF Written
  <2>6. op.kind = "rollback" => Rolled(k, x, o, op', disk)
    BY <1>3, <1>9, <1>10, <2>1 DEF Instance, Rolled, Batched
  <2>7. op.kind \in {"restore", "recover"} => GivenBack(k, x, o, op', mem)
    BY <1>3, <1>9, <2>1 DEF Instance, GivenBack
  <2> QED BY <1>3, <2>1, <2>2, <2>3, <2>4, <2>5, <2>6, <2>7 DEF Instance
<1> QED BY <1>5, <1>7, <1>8, <1>11, <1>12 DEF InstInv, Mid

\* An instance that is given back is read.
LEMMA ReadGoalStep ==
  ASSUME InstInv, op.at = "read", op.kind # "apply",
         op' = [op EXCEPT !.at = "open", !.cur = field[Place], !.tgt = Goal(field[Place])],
         UNCHANGED <<scene, worldVars, disk, mem, mode, recovery>>
  PROVE  InstInv'
<1>0. Types /\ Control /\ Sync /\ Mid /\ op.at \in Steps
  BY MidStill DEF InstInv, Steps
<1>1. /\ Here \in Key /\ Here \in Members(op) /\ Place \in Slot
      /\ op.kind \in {"rollback", "restore", "recover"}
  BY <1>0, HereParts DEF Control, Steps
<1> DEFINE cur == field[Place]
           g == Goal(cur)
<1>2. cur \in State
  BY <1>0, <1>1 DEF Types, World
<1>3. g = Goal(cur)
  OBVIOUS
<1>4. /\ g \in State
      /\ op.kind = "rollback" => \A f \in Field :
           g[f] = IF /\ op.before[Place][f] # op.want[Place][f]
                     /\ cur[f] \in {op.want[Place][f], op.before[Place][f]}
                  THEN op.before[Place][f] ELSE cur[f]
      /\ op.kind # "rollback" => Here \in DOMAIN mem /\ \A f \in Field :
           g[f] = IF /\ f \in mem[Here].owned
                     /\ cur[f] \in {mem[Here].applied[f], mem[Here].desired[f]}
                  THEN mem[Here].original[f] ELSE cur[f]
  <2> HIDE DEF g, cur
  <2> QED BY ONLY <1>0, <1>2, <1>3, GoalParts, op.kind # "apply"
<1> HIDE DEF g
<1>5. op' = [op EXCEPT !.at = "open", !.cur = cur, !.tgt = g]
  BY DEF g
<1>5a. cur = field'[Place] /\ Here = op.order[op.idx] /\ Place = Here[1]
  BY DEF worldVars, Here, Place
<1> HIDE DEF cur
<1>6. /\ DOMAIN op' = OpFields /\ op'.at = "open" /\ op'.cur = cur /\ op'.tgt = g
      /\ \A e \in OpFields \ {"at", "cur", "tgt"} : op'[e] = op[e]
  BY ONLY <1>0, <1>5 DEF Types, Operation, OpFields
<1>7. /\ op'.kind = op.kind /\ op'.before = op.before /\ op'.base = op.base /\ op'.todo = op.todo
      /\ op'.done = op.done /\ op'.attempted = op.attempted
  BY ONLY <1>6 DEF OpFields
<1>8. PICK h : h = op.order[op.idx]
  OBVIOUS
<1>9. ASSUME Sits(h)'
      PROVE  AtHand(h, field'[h[1]], others'[h[1]], op', disk)
  <2> DEFINE o == others'[h[1]]
  <2>1. field'[h[1]] = cur /\ h = Here /\ h[1] = Place
    BY <1>5a, <1>8
  <2>2. Instance(h, field'[h[1]], o, op, disk, mem, Ready)
    BY <1>0, <1>1, <1>9, <2>1 DEF Mid
  <2>3. Instance(h, cur, o, op, disk, mem, Ready)
    BY ONLY <2>1, <2>2
  <2> SUFFICES AtHand(h, cur, o, op', disk)
    BY <2>1
  <2> HIDE DEF o
  <2>4. Known(cur, o, disk, h) /\ Originals(mem, h, o) /\ Within(cur, o, cur)
    BY ONLY <2>3 DEF Instance, Within
  <2>5. CASE op.kind = "rollback"
    <3>1. Batched(h, cur, o, op, disk)
      BY ONLY <1>0, <1>1, <2>1, <2>3, <2>5 DEF Instance, Rolled, Sync
    <3>2. Known(op.before[Place], o, disk, h) /\ Between(cur, o, op.before[Place], op.want[Place])
      BY ONLY <2>1, <3>1 DEF Batched
    <3>3. \A f \in Field :
            g[f] = IF /\ op.before[Place][f] # op.want[Place][f]
                      /\ cur[f] \in {op.want[Place][f], op.before[Place][f]}
                   THEN op.before[Place][f] ELSE cur[f]
      BY <1>4, <2>5
    <3>4. Known(g, o, disk, h)
      BY ONLY <2>4, <3>2, <3>3 DEF Known
    <3>5. Within(g, o, op.before[Place])
      BY ONLY <3>2, <3>3 DEF Within, Between
    <3> QED BY ONLY <1>6, <1>7, <2>1, <2>4, <2>5, <3>4, <3>5 DEF AtHand
  <2>6. CASE op.kind # "rollback"
    <3>1. mem = disk /\ op.kind \in {"restore", "recover"}
      BY <1>0, <1>1, <2>6 DEF Sync
    <3>2. /\ Here \in DOMAIN mem
          /\ \A f \in Field :
               g[f] = IF /\ f \in mem[Here].owned
                         /\ cur[f] \in {mem[Here].applied[f], mem[Here].desired[f]}
                      THEN mem[Here].original[f] ELSE cur[f]
      BY <1>4, <2>6
    <3>3. Clean(g, o)
      BY ONLY <2>1, <2>4, <3>1, <3>2 DEF Clean, Known, Originals
    <3>4. Known(g, o, disk, h)
      BY ONLY <3>3 DEF Clean, Known
    <3> QED BY ONLY <1>6, <1>7, <2>4, <3>1, <3>3, <3>4 DEF AtHand
  <2> QED BY <2>5, <2>6
<1>10. op'.base \in State /\ op'.todo \subseteq Field /\ op'.done \subseteq Field
       /\ op'.todo \cap op'.done = {} /\ op'.done = {}
  BY ONLY <1>0, <1>7, op.at = "read" DEF Types, Operation, Control
<1>11. op.at \in Writing \cup {"read"} /\ op'.at \in Writing
  BY <1>6 DEF Writing
<1>12. UNCHANGED <<disk, mem, mode, recovery>>
  OBVIOUS
<1>13. \A e \in OpFields \ {"at", "cur", "tgt", "base", "todo", "done", "attempted"} : op'[e] = op[e]
  BY ONLY <1>6
<1> QED BY ONLY <1>0, <1>2, <1>4, <1>6, <1>7, <1>8, <1>9, <1>10, <1>11, <1>12, <1>13, OnwardStep,
                op.kind # "apply"

\* Every way a read ends.
LEMMA ReadStep ==
  ASSUME InstInv, Read
  PROVE  InstInv'
<1>0. op.at = "read" /\ op.at \in Steps /\ UNCHANGED <<scene, worldVars, disk, recovery>>
      /\ Types /\ Control /\ Sync
  BY DEF Read, Steps, InstInv
<1>1. PICK p : p = [op EXCEPT !.before[Place] = field[Place]]
  OBVIOUS
<1>2. PICK w : w = Prepared(p)
  OBVIOUS
<1>3. CASE /\ op.kind = "apply" /\ op.idx < Len(op.order)
           /\ op' = [p EXCEPT !.at = "verify", !.idx = @ + 1] /\ UNCHANGED mem /\ UNCHANGED mode
  BY <1>0, <1>1, <1>3, ReadNextStep
<1>4. CASE /\ op.kind = "apply" /\ op.idx = Len(op.order) /\ mem' = w.mem
           /\ op' = [p EXCEPT !.at = "persistIntent", !.saved = w.saved, !.want = w.want,
                              !.request = Idle.request]
           /\ UNCHANGED mode
  BY <1>0, <1>1, <1>2, <1>4, ReadLastStep
<1>5. CASE /\ op.kind # "apply"
           /\ op' = [op EXCEPT !.at = "open", !.cur = field[Place], !.tgt = Goal(field[Place])]
           /\ UNCHANGED <<mode, mem>>
  BY <1>0, <1>5, ReadGoalStep
<1>6. CASE StepFails /\ UNCHANGED mem
  <2>1. Mid
    BY <1>0, MidStill
  <2> QED BY <1>0, <1>6, <2>1, FailureStep
<1> QED BY <1>1, <1>2, <1>3, <1>4, <1>5, <1>6 DEF Read

-----------------------------------------------------------------------------
(* The daemon: writing.                                                    *)

\* What a failed store leaves in the file.
LEMMA FailureKeeps ==
  ASSUME NEW j, NEW d \in AfterFailure(j)
  PROVE  d \in {disk, j} /\ (HonestFile => d = disk)
BY DEF HonestFile, AfterFailure

\* The intents are in the file, or the actuator gives up.
LEMMA PersistIntentStep ==
  ASSUME InstInv, PersistIntent
  PROVE  InstInv'
<1> USE DEF InstInv, Types
<1>0. op.at = "persistIntent" /\ op.kind = "apply" /\ UNCHANGED <<scene, worldVars, mem, recovery>>
  BY DEF PersistIntent, Control
<1>1. Mid
  BY <1>0, MidStill
<1>2. CASE disk' \in AfterFailure(mem) /\ Degrade
  <2>1. Fit(disk') /\ (HonestFile => disk' = disk)
    BY <1>2, FailureKeeps DEF Process
  <2> QED BY <1>0, <1>1, <1>2, <2>1, DegradeStep DEF Degrade, Return
<1>3. CASE disk' = mem /\ op' = [op EXCEPT !.at = "open", !.idx = 1] /\ UNCHANGED mode
  <2>1. /\ DOMAIN op' = OpFields /\ op'.at = "open" /\ op'.idx = 1
        /\ \A g \in OpFields \ {"at", "idx"} : op'[g] = op[g]
    BY <1>3 DEF Operation, OpFields
  <2>2. /\ op'.kind = op.kind /\ op'.order = op.order
        /\ op'.request = op.request /\ op'.before = op.before /\ op'.want = op.want
        /\ op'.cur = op.cur /\ op'.tgt = op.tgt /\ op'.base = op.base
        /\ op'.todo = op.todo /\ op'.done = op.done /\ op'.attempted = op.attempted
        /\ op'.start = op.start /\ op'.saved = op.saved
        /\ op'.degrades = op.degrades /\ op'.failed = op.failed
    BY ONLY <2>1 DEF OpFields
  <2>3. op.order \in Seq(Key) /\ Len(op.order) \in Nat /\ op.idx \in 1 .. Len(op.order)
    BY <1>0 DEF Operation, Control
  <2>4. 1 \in 1 .. Len(op.order) /\ 1 \in 0 .. Len(op.order) + 1
    BY <2>3
  <2>5. Key' = Key /\ born' = born /\ scene' = scene
    BY <1>0 DEF Key, worldVars
  <2>6. Process'
    BY <1>0, <1>3, <2>2, <2>5, ProcessStep DEF Process
  <2>7. Operation'
    <3>1. Operation
      OBVIOUS
    <3> QED BY ONLY <2>1, <2>2, <2>4, <2>5, <3>1 DEF Operation
  <2>8. Control'
    <3>1. Control /\ mode' = mode /\ recovery' = recovery
      BY <1>0, <1>3
    <3> QED BY ONLY <1>0, <2>1, <2>2, <2>4, <3>1 DEF Control, Steps
  <2>9. Members(op') = Members(op) /\ Passed(op') = {}
    BY ONLY <2>1, <2>2 DEF Members, Passed
  <2>10. Sync'
    <3>1. op.attempted \subseteq Members(op)
      BY <1>0 DEF Sync
    <3>2. SameClaims(disk', mem')
      BY <1>0, <1>3 DEF SameClaims
    <3> QED BY ONLY <1>0, <2>1, <2>2, <2>9, <3>1, <3>2 DEF Sync, Writing
  <2>11. AllInstances'
    <3> SUFFICES ASSUME NEW k \in Key, Sits(k)'
                 PROVE  Instance(k, field'[k[1]], others'[k[1]], op', mem, mem, Ready')
      BY <1>0, <1>3, <2>5 DEF AllInstances
    <3> DEFINE x == field'[k[1]]
               o == others'[k[1]]
    <3>1. Instance(k, x, o, op, disk, mem, Ready)
      BY <1>1 DEF Mid
    <3> SUFFICES Instance(k, x, o, op', mem, mem, Ready')
      OBVIOUS
    <3> HIDE DEF x, o
    <3>2. ~Ready'
      BY <2>1 DEF Ready
    <3>3. Known(x, o, mem, k) /\ Written(k, x, o, op, mem, mem)
      BY ONLY <1>0, <3>1 DEF Instance
    <3>4. k \in Members(op) => Batched(k, x, o, op', mem)
      BY ONLY <2>2, <3>3 DEF Written, Batched
    <3>5. Written(k, x, o, op', mem, mem)
      BY ONLY <2>2, <2>9, <3>3, <3>4 DEF Written
    <3>6. k = op'.order[op'.idx] => AtHand(k, x, o, op', mem)
      <4> SUFFICES ASSUME k = op'.order[op'.idx]
                   PROVE  AtHand(k, x, o, op', mem)
        OBVIOUS
      <4>1. k \in Members(op)
        BY ONLY <2>1, <2>2, <2>4, k = op'.order[op'.idx] DEF Members
      <4> QED BY ONLY <1>0, <2>1, <2>2, <3>4, <4>1 DEF Batched, AtHand
    <3> QED BY ONLY <1>0, <2>1, <2>2, <3>1, <3>2, <3>3, <3>5, <3>6 DEF Instance
  <2> QED BY <1>1, <2>6, <2>7, <2>8, <2>10, <2>11 DEF Mid
<1> QED BY <1>2, <1>3 DEF PersistIntent

\* What is known of the instance at hand when it sits in its slot.
LEMMA HandParts ==
  ASSUME InstInv, op.at \in Writing, NEW h, h = op.order[op.idx], Sits(h),
         NEW x, x = field[h[1]], NEW o, o = others[h[1]]
  PROVE  /\ h \in Members(op) /\ h \notin Passed(op)
         /\ Instance(h, x, o, op, disk, mem, Ready) /\ AtHand(h, x, o, op, disk)
         /\ op.kind = "apply" => Written(h, x, o, op, disk, mem) /\ Batched(h, x, o, op, disk)
         /\ op.kind = "rollback" => Batched(h, x, o, op, disk)
         /\ op.kind \in {"apply", "rollback"} =>
              Between(x, o, op.before[h[1]], op.want[h[1]])
<1>1. Types /\ Control /\ Sync /\ op.at \in Steps
  BY DEF InstInv, Steps, Writing
<1>2. /\ h \in Key /\ h \in Members(op) /\ op.idx \in 1 .. Len(op.order) /\ Len(op.order) \in Nat
  BY <1>1, HereParts
<1>3. h \notin Passed(op)
  <2>1. Passed(op) = {op.order[n] : n \in 1 .. (op.idx - 1)}
    BY DEF Passed, Writing
  <2> SUFFICES ASSUME NEW n \in 1 .. (op.idx - 1), op.order[n] = h
               PROVE  FALSE
    BY <2>1
  <2>2. n \in 1 .. Len(op.order) /\ n # op.idx
    BY <1>2
  <2> QED BY <1>1, <1>2, <2>2 DEF Types, Operation
<1>4. Instance(h, x, o, op, disk, mem, Ready)
  BY <1>2 DEF InstInv, AllInstances
<1>5. AtHand(h, x, o, op, disk)
  BY ONLY <1>4, op.at \in Writing, h = op.order[op.idx] DEF Instance
<1>6. op.kind = "apply" => Written(h, x, o, op, disk, mem) /\ Batched(h, x, o, op, disk)
  BY ONLY <1>2, <1>4, op.at \in Writing DEF Instance, Written
<1>7. op.kind = "rollback" => Batched(h, x, o, op, disk)
  BY ONLY <1>1, <1>2, <1>4 DEF Instance, Rolled, Sync
<1> QED BY ONLY <1>2, <1>3, <1>4, <1>5, <1>6, <1>7 DEF Batched

\* Nothing is to be written to the instance at hand, or it is not there.
LEMMA PassStep ==
  ASSUME InstInv, op.at = "open", op' = Following(op),
         UNCHANGED <<scene, worldVars, disk, mem, mode, recovery>>,
         Nothing \/ ~Current
  PROVE  InstInv'
<1>0. Types /\ Control /\ Sync /\ Mid /\ op.at \in Steps /\ op.at \in Writing
  BY MidStill DEF InstInv, Steps, Writing
<1>1. PICK h : h = op.order[op.idx]
  OBVIOUS
<1>2. SameBut(h, mem, mem') /\ Fit(mem')
  BY <1>0 DEF SameBut, Types, Process
<1>3. DOMAIN op = OpFields /\ op.failed \in BOOLEAN
  BY <1>0 DEF Types, Operation
<1>4. h[1] = Place /\ h = Here
  BY <1>1 DEF Place, Here
<1>5. ASSUME Sits(h)'
      PROVE  /\ op.kind = "apply" =>
                  /\ Within(field'[h[1]], others'[h[1]], op.want[h[1]])
                  /\ h \in DOMAIN mem => mem'[h].applied = op.want[h[1]]
             /\ op.kind = "rollback" /\ ~op.failed =>
                  Within(field'[h[1]], others'[h[1]], op.before[h[1]])
             /\ op.kind \in {"restore", "recover"} => Clean(field'[h[1]], others'[h[1]])
  <2>1. Sits(h) /\ field'[h[1]] = field[h[1]] /\ others'[h[1]] = others[h[1]]
    BY <1>5 DEF Sits, worldVars
  <2>2. Nothing
    BY <1>4, <2>1 DEF Sits, Current
  <2>3. PICK x : x = field[h[1]]
    OBVIOUS
  <2>4. PICK o : o = others[h[1]]
    OBVIOUS
  <2>5. /\ h \in Members(op) /\ AtHand(h, x, o, op, disk)
        /\ op.kind = "apply" => Written(h, x, o, op, disk, mem)
        /\ op.kind \in {"apply", "rollback"} =>
             Between(x, o, op.before[h[1]], op.want[h[1]])
    BY <1>0, <1>1, <2>1, <2>3, <2>4, HandParts
  <2>6. CASE op.kind = "apply"
    <3>1. op.want[h[1]] = op.before[h[1]]
      BY <1>4, <2>2, <2>6 DEF Nothing, Wanted
    <3>2. Within(x, o, op.want[h[1]])
      BY <2>5, <2>6, <3>1 DEF Between, Within
    <3>3. h \in DOMAIN mem => mem[h].applied = op.want[h[1]]
      BY <2>5, <2>6, <3>1 DEF Written
    <3> QED BY <2>1, <2>3, <2>4, <2>6, <3>2, <3>3
  <2>7. CASE op.kind # "apply"
    <3>1. op.tgt = op.cur
      BY <2>2, <2>7 DEF Nothing, Wanted
    <3>2. /\ Within(x, o, op.tgt)
          /\ op.kind = "rollback" => Within(op.tgt, o, op.before[h[1]])
          /\ op.kind \in {"restore", "recover"} => Clean(op.tgt, o)
      BY <2>5, <2>7, <3>1 DEF AtHand
    <3>3. op.kind = "rollback" => Within(x, o, op.before[h[1]])
      BY <3>2 DEF Within
    <3>4. op.kind \in {"restore", "recover"} => Clean(x, o)
      BY <3>2 DEF Within, Clean
    <3> QED BY <2>1, <2>3, <2>4, <2>7, <3>3, <3>4
  <2> QED BY <2>6, <2>7
<1>6. \A g \in OpFields \ {"failed"} : op[g] = op[g]
  OBVIOUS
<1> QED BY <1>0, <1>1, <1>2, <1>3, <1>5, <1>6, FollowStep

\* The write begins.
LEMMA AttemptStep ==
  ASSUME InstInv, op.at = "open",
         op' = [op EXCEPT !.at = "original",
                  !.attempted = IF op.kind = "apply" THEN @ \cup {Here} ELSE @],
         UNCHANGED <<scene, worldVars, disk, mem, mode, recovery>>
  PROVE  InstInv'
<1>0. Types /\ Control /\ Sync /\ Mid /\ op.at \in Writing /\ op.at \in Writing \cup {"read"}
  BY MidStill DEF InstInv, Writing
<1>1. PICK h : h = op.order[op.idx]
  OBVIOUS
<1> DEFINE a == IF op.kind = "apply" THEN op.attempted \cup {h} ELSE op.attempted
<1>2. op' = [op EXCEPT !.at = "original", !.attempted = a]
  BY <1>1 DEF Here
<1>3. /\ op.kind = "apply" => a = op.attempted \cup {h}
      /\ op.kind # "apply" => a = op.attempted
  OBVIOUS
<1> HIDE DEF a
<1>4. /\ DOMAIN op' = OpFields /\ op'.at = "original" /\ op'.attempted = a
      /\ \A g \in OpFields \ {"at", "attempted"} : op'[g] = op[g]
  BY ONLY <1>0, <1>2 DEF Types, Operation, OpFields
<1>5. /\ op'.kind = op.kind /\ op'.cur = op.cur /\ op'.tgt = op.tgt /\ op'.base = op.base
      /\ op'.todo = op.todo /\ op'.done = op.done /\ op'.before = op.before /\ op'.want = op.want
  BY ONLY <1>4 DEF OpFields
<1>6. /\ op'.cur \in State /\ op'.tgt \in State /\ op'.base \in State
      /\ op'.todo \subseteq Field /\ op'.done \subseteq Field /\ op'.todo \cap op'.done = {}
      /\ op'.done = {}
  BY ONLY <1>0, <1>5, op.at = "open" DEF Types, Operation, Control
<1>7. ASSUME Sits(h)'
      PROVE  AtHand(h, field'[h[1]], others'[h[1]], op', disk)
  <2>1. Sits(h) /\ field'[h[1]] = field[h[1]] /\ others'[h[1]] = others[h[1]]
    BY <1>7 DEF Sits, worldVars
  <2>2. PICK x : x = field[h[1]]
    OBVIOUS
  <2>3. PICK o : o = others[h[1]]
    OBVIOUS
  <2>4. AtHand(h, x, o, op, disk)
    BY <1>0, <1>1, <2>1, <2>2, <2>3, HandParts
  <2>5. AtHand(h, x, o, op', disk)
    BY ONLY <1>3, <1>4, <1>5, <2>4 DEF AtHand
  <2> QED BY <2>1, <2>2, <2>3, <2>5
<1>8. /\ op'.at \in Writing /\ UNCHANGED <<disk, mem, mode, recovery>>
      /\ (op.kind = "apply" => op.at \in Writing)
      /\ \A g \in OpFields \ {"at", "cur", "tgt", "base", "todo", "done", "attempted"} :
           op'[g] = op[g]
      /\ \/ op'.attempted = op.attempted
         \/ op.kind = "apply" /\ op'.attempted = op.attempted \cup {h}
  BY <1>0, <1>3, <1>4 DEF Writing
<1> QED BY ONLY <1>0, <1>1, <1>4, <1>6, <1>7, <1>8, OnwardStep

\* Every way the last check before a write ends.
LEMMA OpenStep ==
  ASSUME InstInv, Open
  PROVE  InstInv'
<1>0. op.at = "open" /\ op.at \in Steps /\ UNCHANGED <<scene, worldVars, disk, mem, recovery>>
      /\ Types /\ Control /\ Sync /\ Mid
  BY MidStill DEF Open, Steps, InstInv
<1>1. CASE Nothing /\ op' = Following(op) /\ UNCHANGED mode
  BY <1>0, <1>1, PassStep
<1>2. CASE /\ op' = [op EXCEPT !.at = "original",
                       !.attempted = IF op.kind = "apply" THEN @ \cup {Here} ELSE @]
           /\ UNCHANGED mode
  BY <1>0, <1>2, AttemptStep
<1>3. CASE StepFails
  BY <1>0, <1>3, FailureStep
<1>4. CASE Degrade
  <2>1. Fit(disk')
    BY <1>0 DEF Types, Process
  <2> QED BY <1>0, <1>4, <2>1, DegradeStep DEF Degrade, Return
<1>5. CASE ~Current /\ op' = Following(op) /\ UNCHANGED mode
  BY <1>0, <1>5, PassStep
<1> QED BY <1>1, <1>2, <1>3, <1>4, <1>5 DEF Open

\* The backend reads the fields it is about to write.
LEMMA ReadOriginalStep ==
  ASSUME InstInv, ReadOriginal
  PROVE  InstInv'
<1>0. /\ op.at = "original" /\ UNCHANGED <<scene, worldVars, disk, mem, mode, recovery>>
      /\ Types /\ Control /\ Sync /\ Mid /\ op.at \in Writing /\ op.at \in Writing \cup {"read"}
      /\ op.at \in Steps
  BY MidStill DEF ReadOriginal, InstInv, Writing, Steps
<1>1. PICK h : h = op.order[op.idx]
  OBVIOUS
<1> DEFINE base == field[Place]
           todo == IF family = "unit" THEN Field ELSE Changed(field[Place], Wanted)
<1>2. op' = [op EXCEPT !.at = "fields", !.base = base, !.todo = todo]
  BY DEF ReadOriginal
<1>3. todo \subseteq Field
  BY DEF Changed
<1>4. base \in State /\ base = field[h[1]]
  BY <1>0, <1>1, HereParts DEF Types, World, Place, Here
<1> HIDE DEF base, todo
<1>5. /\ DOMAIN op' = OpFields /\ op'.at = "fields" /\ op'.base = base /\ op'.todo = todo
      /\ \A g \in OpFields \ {"at", "base", "todo"} : op'[g] = op[g]
  BY ONLY <1>0, <1>2 DEF Types, Operation, OpFields
<1>6. /\ op'.kind = op.kind /\ op'.cur = op.cur /\ op'.tgt = op.tgt /\ op'.done = op.done
      /\ op'.before = op.before /\ op'.want = op.want /\ op'.attempted = op.attempted
  BY ONLY <1>5 DEF OpFields
<1>7. /\ op'.cur \in State /\ op'.tgt \in State /\ op'.base \in State
      /\ op'.todo \subseteq Field /\ op'.done \subseteq Field /\ op'.todo \cap op'.done = {}
  BY ONLY <1>0, <1>3, <1>4, <1>5, <1>6 DEF Types, Operation, Control
<1>8. ASSUME Sits(h)'
      PROVE  AtHand(h, field'[h[1]], others'[h[1]], op', disk)
  <2>1. Sits(h) /\ field'[h[1]] = field[h[1]] /\ others'[h[1]] = others[h[1]]
    BY <1>0, <1>8 DEF Sits, worldVars
  <2>2. PICK o : o = others[h[1]]
    OBVIOUS
  <2>3. /\ AtHand(h, base, o, op, disk) /\ Instance(h, base, o, op, disk, mem, Ready)
        /\ op.kind \in {"apply", "rollback"} =>
             Between(base, o, op.before[h[1]], op.want[h[1]])
    BY <1>0, <1>1, <1>4, <2>1, <2>2, HandParts
  <2>4. Known(base, o, disk, h)
    BY ONLY <2>3 DEF Instance
  <2>5. AtHand(h, base, o, op', disk)
    BY ONLY <1>0, <1>5, <1>6, <2>3, <2>4 DEF AtHand
  <2> QED BY <1>4, <2>1, <2>2, <2>5
<1>9. /\ op'.at \in Writing /\ op'.attempted = op.attempted
      /\ (op.kind = "apply" => op.at \in Writing)
      /\ \A g \in OpFields \ {"at", "cur", "tgt", "base", "todo", "done", "attempted"} :
           op'[g] = op[g]
  BY <1>0, <1>5, <1>6 DEF Writing
<1> QED BY ONLY <1>0, <1>1, <1>5, <1>7, <1>8, <1>9, OnwardStep

\* The instance at hand may hold any mixture of what it holds and of w, when
\* the journal file and the batch know w.
LEMMA MixedInstance ==
  ASSUME InstInv, op.at \in {"original", "fields"}, NEW h, h = op.order[op.idx], Sits(h),
         NEW x, x = field[h[1]], NEW o, o = others[h[1]],
         NEW w, Known(w, o, disk, h),
         op.kind \in {"apply", "rollback"} => Between(w, o, op.before[h[1]], op.want[h[1]]),
         NEW y, \A f \in Field : y[f] = x[f] \/ y[f] = w[f]
  PROVE  Instance(h, y, o, op, disk, mem, Ready)
<1>0. op.at \in Writing /\ op.at \notin {"open", "verify", "read", "persistIntent", "idle"}
  BY DEF Writing
<1>1. /\ h \in Members(op) /\ h \notin Passed(op)
      /\ Instance(h, x, o, op, disk, mem, Ready) /\ AtHand(h, x, o, op, disk)
      /\ op.kind = "apply" => Written(h, x, o, op, disk, mem) /\ Batched(h, x, o, op, disk)
      /\ op.kind = "rollback" => Batched(h, x, o, op, disk)
  BY <1>0, HandParts
<1>2. Known(y, o, disk, h)
  BY ONLY <1>1, Known(w, o, disk, h), \A f \in Field : y[f] = x[f] \/ y[f] = w[f]
     DEF Instance, Known
<1>3. op.kind \in {"apply", "rollback"} => Batched(h, y, o, op, disk)
  <2> SUFFICES ASSUME op.kind \in {"apply", "rollback"}
               PROVE  Batched(h, y, o, op, disk)
    BY Zenon
  <2>1. Batched(h, x, o, op, disk) /\ Between(w, o, op.before[h[1]], op.want[h[1]])
    BY <1>1, Zenon
  <2>2. Between(y, o, op.before[h[1]], op.want[h[1]])
    BY ONLY <2>1, \A f \in Field : y[f] = x[f] \/ y[f] = w[f] DEF Batched, Between
  <2> QED BY ONLY <2>1, <2>2 DEF Batched
<1>4. op.kind = "apply" => Written(h, y, o, op, disk, mem)
  BY ONLY <1>0, <1>1, <1>3 DEF Written, AtHand
<1>5. op.kind = "rollback" => Rolled(h, y, o, op, disk)
  <2>1. op.kind = "rollback" => h \in op.attempted
    BY ONLY <1>1, InstInv DEF InstInv, Sync
  <2> QED BY ONLY <1>1, <1>3, <2>1 DEF Rolled
<1>6. GivenBack(h, y, o, op, mem)
  BY ONLY <1>1 DEF GivenBack
<1>7. AtHand(h, y, o, op, disk)
  BY ONLY <1>0, <1>1 DEF AtHand
<1>8. ~Ready
  BY <1>0 DEF Ready
<1> QED BY ONLY <1>0, <1>1, <1>2, <1>4, <1>5, <1>6, <1>7, <1>8 DEF Instance

\* Fields are written at the place at hand: nothing else changes, and another
\* occupant becomes a stranger.
LEMMA MidWrite ==
  ASSUME InstInv, op.at \in {"original", "fields"}, NEW w \in State, NEW F,
         field' = [field EXCEPT ![Place] = Copy(F, field[Place], w)],
         stranger' = IF Current \/ F = {} THEN stranger ELSE stranger \cup {Place},
         UNCHANGED <<scene, inst, born, others, writes>>,
         NEW h, h = op.order[op.idx],
         F # {} /\ Sits(h) =>
           /\ Known(w, others[h[1]], disk, h)
           /\ op.kind \in {"apply", "rollback"} =>
                Between(w, others[h[1]], op.before[h[1]], op.want[h[1]])
  PROVE  Mid
<1>0. Types /\ Control /\ op.at \in Steps
  BY DEF InstInv, Steps
<1>1. /\ Here \in Key /\ Here = h /\ Place = h[1] /\ Place \in Slot
  BY <1>0, HereParts DEF Place, Here
<1>2. field[Place] \in State /\ field \in [Slot -> State]
  BY <1>0, <1>1 DEF Types, World
<1>3. CASE F = {}
  <2>1. Copy(F, field[Place], w) = field[Place]
    BY <1>2, <1>3, CopyNothing
  <2>2. field' = field /\ stranger' = stranger
    BY <1>1, <1>2, <1>3, <2>1
  <2> QED BY <2>2, MidStill DEF worldVars
<1>4. CASE F # {}
  <2> DEFINE y == Copy(F, field[Place], w)
  <2>1. y \in State /\ \A f \in Field : y[f] = field[Place][f] \/ y[f] = w[f]
    BY <1>2, CopyParts
  <2> HIDE DEF y
  <2>2. field' = [field EXCEPT ![Place] = y]
    BY DEF y
  <2>3. World'
    <3>1. field' \in [Slot -> State]
      BY <1>2, <2>1, <2>2
    <3>2. stranger' \subseteq Slot
      BY <1>0, <1>1 DEF Types, World
    <3> QED BY <1>0, <3>1, <3>2 DEF Types, World
  <2>4. ASSUME NEW k \in Key, Sits(k)'
        PROVE  Instance(k, field'[k[1]], others'[k[1]], op, disk, mem, Ready)
    <3>1. k[1] \in Slot /\ k[2] \in Nat /\ k = <<k[1], k[2]>>
      BY <1>0, KeyParts DEF Types
    <3>2. Sits(k)
      BY <2>4 DEF Sits
    <3>3. CASE k[1] # Place
      <4>1. field'[k[1]] = field[k[1]]
        BY <1>2, <2>2, <3>1, <3>3
      <4> QED BY <3>2, <4>1 DEF InstInv, AllInstances
    <3>4. CASE k[1] = Place
      <4>1. Current
        BY <1>4, <2>4, <3>4 DEF Sits
      <4>2. k = h
        <5>1. k[2] = Here[2]
          BY <3>2, <3>4, <4>1 DEF Sits, Current
        <5>2. Here = <<Place, Here[2]>>
          BY <1>0, HereParts
        <5> QED BY <1>1, <3>1, <3>4, <5>1, <5>2
      <4>3. field'[k[1]] = y
        BY <1>1, <1>2, <2>2, <3>4
      <4>4. PICK x : x = field[h[1]]
        OBVIOUS
      <4>5. PICK o : o = others[h[1]]
        OBVIOUS
      <4>6. /\ Known(w, o, disk, h)
            /\ op.kind \in {"apply", "rollback"} =>
                 Between(w, o, op.before[h[1]], op.want[h[1]])
        BY <1>4, <3>2, <4>2, <4>5
      <4>7. \A f \in Field : y[f] = x[f] \/ y[f] = w[f]
        BY <1>1, <2>1, <4>4
      <4>8. Sits(h)
        BY <3>2, <4>2
      <4>9. Instance(h, y, o, op, disk, mem, Ready)
        BY ONLY InstInv, op.at \in {"original", "fields"}, h = op.order[op.idx],
                <4>4, <4>5, <4>6, <4>7, <4>8, MixedInstance
      <4> QED BY <4>2, <4>3, <4>5, <4>9
    <3> QED BY <3>3, <3>4
  <2> QED BY <2>3, <2>4 DEF Mid
<1> QED BY <1>3, <1>4

\* What is to be written is known to the file and to the batch.
LEMMA WantedKnown ==
  ASSUME InstInv, op.at \in Writing, NEW h, h = op.order[op.idx]
  PROVE  /\ Wanted \in State
         /\ Wanted = IF op.kind = "apply" THEN op.want[h[1]] ELSE op.tgt
         /\ Sits(h) =>
              /\ Known(Wanted, others[h[1]], disk, h)
              /\ op.kind \in {"apply", "rollback"} =>
                   Between(Wanted, others[h[1]], op.before[h[1]], op.want[h[1]])
              /\ op.kind = "rollback" => Within(Wanted, others[h[1]], op.before[h[1]])
              /\ op.kind \in {"restore", "recover"} => Clean(Wanted, others[h[1]])
<1>0. Types /\ Control /\ op.at \in Steps
  BY DEF InstInv, Steps, Writing
<1>1. Place \in Slot /\ Place = h[1]
  BY <1>0, HereParts DEF Place, Here
<1>2. Wanted = IF op.kind = "apply" THEN op.want[h[1]] ELSE op.tgt
  BY <1>1 DEF Wanted
<1>3. Wanted \in State
  BY <1>0, <1>1, <1>2 DEF Types, Operation
<1>4. ASSUME Sits(h)
      PROVE  /\ Known(Wanted, others[h[1]], disk, h)
             /\ op.kind \in {"apply", "rollback"} =>
                  Between(Wanted, others[h[1]], op.before[h[1]], op.want[h[1]])
             /\ op.kind = "rollback" => Within(Wanted, others[h[1]], op.before[h[1]])
             /\ op.kind \in {"restore", "recover"} => Clean(Wanted, others[h[1]])
  <2>1. PICK x : x = field[h[1]]
    OBVIOUS
  <2>2. PICK o : o = others[h[1]]
    OBVIOUS
  <2>3. AtHand(h, x, o, op, disk)
    BY <1>4, <2>1, <2>2, HandParts
  <2>4. /\ Known(Wanted, o, disk, h)
        /\ op.kind = "rollback" => Within(Wanted, o, op.before[h[1]])
        /\ op.kind \in {"restore", "recover"} => Clean(Wanted, o)
    BY ONLY <1>2, <2>3 DEF AtHand
  <2>5. op.kind \in {"apply", "rollback"} => Between(Wanted, o, op.before[h[1]], op.want[h[1]])
    BY ONLY <1>2, <2>4 DEF Between, Within
  <2> QED BY <2>2, <2>4, <2>5
<1> QED BY <1>2, <1>3, <1>4

\* Fields are written.
LEMMA WriteFieldsStep ==
  ASSUME InstInv, WriteFields
  PROVE  InstInv'
<1>0. /\ op.at = "fields" /\ op.at \in Writing /\ op.at \in Steps
      /\ Types /\ Control /\ Sync /\ op.at \in Writing \cup {"read"}
      /\ UNCHANGED <<scene, inst, born, others, writes, disk, mem, mode, recovery>>
  BY DEF WriteFields, Writing, Steps, InstInv
<1>1. PICK F \in IF family = "unit" THEN {op.todo} \ {{}} ELSE {{f} : f \in op.todo} :
        /\ field' = [field EXCEPT ![Place] = Copy(F, @, Wanted)]
        /\ op' = [op EXCEPT !.todo = @ \ F, !.done = @ \cup F]
  BY DEF WriteFields
<1>2. F # {} /\ F \subseteq op.todo
  BY <1>1
<1>3. PICK h : h = op.order[op.idx]
  OBVIOUS
<1>4. /\ Wanted \in State
      /\ Sits(h) =>
           /\ Known(Wanted, others[h[1]], disk, h)
           /\ op.kind \in {"apply", "rollback"} =>
                Between(Wanted, others[h[1]], op.before[h[1]], op.want[h[1]])
  BY <1>0, <1>3, WantedKnown
<1>5. /\ field' = [field EXCEPT ![Place] = Copy(F, field[Place], Wanted)]
      /\ stranger' = IF Current \/ F = {} THEN stranger ELSE stranger \cup {Place}
  BY <1>1, <1>2 DEF WriteFields
<1>6. Mid
  <2>1. PICK w \in State : w = Wanted
    BY <1>4
  <2>2. op.at \in {"original", "fields"}
    BY <1>0
  <2> QED BY ONLY InstInv, <1>0, <1>3, <1>4, <1>5, <2>1, <2>2, MidWrite
<1>7. /\ DOMAIN op' = OpFields /\ op'.todo = op.todo \ F /\ op'.done = op.done \cup F
      /\ \A g \in OpFields \ {"todo", "done"} : op'[g] = op[g]
  <2>1. op' = [op EXCEPT !.todo = op.todo \ F, !.done = op.done \cup F]
    BY <1>1
  <2> QED BY ONLY <1>0, <2>1 DEF Types, Operation, OpFields
<1>8. /\ op'.at = op.at /\ op'.kind = op.kind /\ op'.cur = op.cur /\ op'.tgt = op.tgt
      /\ op'.base = op.base /\ op'.before = op.before /\ op'.want = op.want
      /\ op'.attempted = op.attempted
  BY ONLY <1>7 DEF OpFields
<1>9. /\ op'.cur \in State /\ op'.tgt \in State /\ op'.base \in State
      /\ op'.todo \subseteq Field /\ op'.done \subseteq Field /\ op'.todo \cap op'.done = {}
  BY ONLY <1>0, <1>2, <1>7, <1>8 DEF Types, Operation
<1>10. ASSUME Sits(h)'
       PROVE  AtHand(h, field'[h[1]], others'[h[1]], op', disk)
  <2>1. h \in Key
    BY <1>0, <1>3, HereParts
  <2>2. Instance(h, field'[h[1]], others'[h[1]], op, disk, mem, Ready)
    BY ONLY <1>6, <1>10, <2>1, Zenon DEF Mid
  <2>3. op.at \in Writing
    BY <1>0
  <2>4. AtHand(h, field'[h[1]], others'[h[1]], op, disk)
    BY ONLY <1>3, <2>2, <2>3, Zenon DEF Instance
  <2> QED BY ONLY <1>8, <2>4 DEF AtHand
<1>11. /\ op'.at \in Writing /\ op'.at = "fields"
       /\ (op.kind = "apply" => op.at \in Writing)
       /\ \A g \in OpFields \ {"at", "cur", "tgt", "base", "todo", "done", "attempted"} :
            op'[g] = op[g]
  BY ONLY <1>0, <1>7, <1>8
<1> QED BY ONLY <1>0, <1>3, <1>6, <1>7, <1>8, <1>9, <1>10, <1>11, OnwardStep

\* A write fails and the backend takes back what it can.
LEMMA WriteFailsStep ==
  ASSUME InstInv, WriteFails
  PROVE  InstInv'
<1>0. /\ op.at \in {"original", "fields"} /\ op.at \in Writing /\ op.at \in Steps
      /\ Types /\ Control /\ Sync /\ StepFails
      /\ UNCHANGED <<scene, inst, born, others, writes, disk, mem, recovery>>
  BY DEF WriteFails, Writing, Steps, InstInv
<1>1. PICK F \in TakenBack :
        /\ field' = [field EXCEPT ![Place] = Copy(F, @, op.base)]
        /\ stranger' = IF Current \/ F = {} THEN stranger ELSE stranger \cup {Place}
  BY DEF WriteFails
<1>2. F \subseteq op.done
  BY DEF TakenBack
<1>3. F # {} => op.at = "fields"
  BY <1>0, <1>2 DEF Control
<1>4. PICK h : h = op.order[op.idx]
  OBVIOUS
<1>5. PICK w \in State : w = op.base
  BY <1>0 DEF Types, Operation
<1>6. F # {} /\ Sits(h) =>
        /\ Known(w, others[h[1]], disk, h)
        /\ op.kind \in {"apply", "rollback"} =>
             Between(w, others[h[1]], op.before[h[1]], op.want[h[1]])
  <2> SUFFICES ASSUME F # {}, Sits(h)
               PROVE  /\ Known(w, others[h[1]], disk, h)
                      /\ op.kind \in {"apply", "rollback"} =>
                           Between(w, others[h[1]], op.before[h[1]], op.want[h[1]])
    OBVIOUS
  <2>1. PICK x : x = field[h[1]]
    OBVIOUS
  <2>2. PICK o : o = others[h[1]]
    OBVIOUS
  <2>3. AtHand(h, x, o, op, disk)
    BY <1>0, <1>4, <2>1, <2>2, HandParts
  <2> QED BY <1>3, <1>5, <2>2, <2>3 DEF AtHand
<1>7. Mid
  BY ONLY InstInv, <1>0, <1>1, <1>4, <1>5, <1>6, MidWrite
<1> QED BY ONLY <1>0, <1>7, FailureStep

\* The fields read back are the ones wanted.
LEMMA ReadBackStep ==
  ASSUME InstInv, ReadBack
  PROVE  InstInv'
<1>0. /\ op.at = "fields" /\ op.at \in Writing /\ op.at \in Steps /\ op' = Following(op)
      /\ UNCHANGED <<scene, worldVars, disk, mode, recovery>>
      /\ Types /\ Control /\ Sync /\ Mid
  BY MidStill DEF ReadBack, Writing, Steps, InstInv
<1>1. PICK h : h = op.order[op.idx]
  OBVIOUS
<1>2. h \in Key /\ h = Here /\ h[1] = Place /\ h[1] \in Slot
  BY <1>0, <1>1, HereParts DEF Place, Here
<1>3. /\ Wanted \in State
      /\ Wanted = IF op.kind = "apply" THEN op.want[h[1]] ELSE op.tgt
      /\ Sits(h) =>
           /\ op.kind = "rollback" => Within(Wanted, others[h[1]], op.before[h[1]])
           /\ op.kind \in {"restore", "recover"} => Clean(Wanted, others[h[1]])
  BY <1>0, <1>1, WantedKnown
<1>4. field[h[1]] = Wanted
  BY <1>2 DEF ReadBack
<1>5. PICK w \in State : w = Wanted
  BY <1>3
<1>6. mem' = IF op.kind = "apply" /\ h \in DOMAIN mem
             THEN [mem EXCEPT ![h] = [mem[h] EXCEPT !.applied = w, !.desired = w]] ELSE mem
  <2>1. h \in DOMAIN mem => [mem EXCEPT ![h].applied = w, ![h].desired = w]
                            = [mem EXCEPT ![h] = [mem[h] EXCEPT !.applied = w, !.desired = w]]
    OBVIOUS
  <2> QED BY <1>2, <1>5, <2>1 DEF ReadBack
<1>7. Fit(mem)
  BY <1>0 DEF Types, Process
<1>8. /\ SameBut(h, mem, mem') /\ Fit(mem') /\ (op.kind # "apply" => mem' = mem)
      /\ op.kind = "apply" /\ h \in DOMAIN mem => mem'[h].applied = w
  <2>1. CASE ~(op.kind = "apply" /\ h \in DOMAIN mem)
    <3>1. mem' = mem
      BY <1>6, <2>1
    <3> QED BY <1>7, <2>1, <3>1 DEF SameBut
  <2>2. CASE op.kind = "apply" /\ h \in DOMAIN mem
    <3>1. mem[h] \in Entry
      BY <1>7, <2>2 DEF Fit, Journal
    <3> DEFINE e == [mem[h] EXCEPT !.applied = w, !.desired = w]
    <3>2. /\ e \in Entry /\ e.owned = mem[h].owned /\ e.original = mem[h].original
          /\ e.relinquished = mem[h].relinquished /\ e.applied = w
      BY <3>1 DEF Entry
    <3> HIDE DEF e
    <3>3. mem' = [mem EXCEPT ![h] = e]
      BY <1>6, <2>2 DEF e
    <3>4. DOMAIN mem' = DOMAIN mem /\ mem'[h] = e /\ \A k \in DOMAIN mem : k # h => mem'[k] = mem[k]
      BY <2>2, <3>3
    <3>5. SameBut(h, mem, mem')
      BY ONLY <3>2, <3>4 DEF SameBut
    <3>6. Journal(mem')
      BY ONLY <1>7, <3>2, <3>4 DEF Fit, Journal
    <3>7. Decodes(mem')
      BY ONLY <1>7, <3>2, <3>4 DEF Fit, Decodes
    <3>8. Fit(mem')
      BY ONLY <1>7, <3>4, <3>6, <3>7 DEF Fit
    <3> QED BY <2>2, <3>2, <3>4, <3>5, <3>8
  <2> QED BY <2>1, <2>2
<1>9. ASSUME Sits(h)'
      PROVE  /\ op.kind = "apply" =>
                  /\ Within(field'[h[1]], others'[h[1]], op.want[h[1]])
                  /\ h \in DOMAIN mem => mem'[h].applied = op.want[h[1]]
             /\ op.kind = "rollback" /\ ~op.failed =>
                  Within(field'[h[1]], others'[h[1]], op.before[h[1]])
             /\ op.kind \in {"restore", "recover"} => Clean(field'[h[1]], others'[h[1]])
  <2>1. Sits(h) /\ field'[h[1]] = field[h[1]] /\ others'[h[1]] = others[h[1]]
    BY <1>0, <1>9 DEF Sits, worldVars
  <2>2. PICK o : o = others[h[1]]
    OBVIOUS
  <2>3. op.kind = "apply" => w = op.want[h[1]]
    BY <1>3, <1>5
  <2>4. Within(w, o, w)
    BY DEF Within
  <2>5. /\ op.kind = "rollback" => Within(w, o, op.before[h[1]])
        /\ op.kind \in {"restore", "recover"} => Clean(w, o)
    BY <1>3, <1>5, <2>1, <2>2
  <2>6. field'[h[1]] = w /\ others'[h[1]] = o
    BY <1>4, <1>5, <2>1, <2>2
  <2> QED BY ONLY <1>8, <2>3, <2>4, <2>5, <2>6
<1>10. DOMAIN op = OpFields /\ op.failed \in BOOLEAN /\ \A g \in OpFields \ {"failed"} : op[g] = op[g]
  BY <1>0 DEF Types, Operation
<1>11. op.kind = "apply" => op.at \in Writing
  BY <1>0
<1>12. UNCHANGED <<disk, mode, recovery>> /\ (op.failed => op.failed)
  BY <1>0
<1> QED BY ONLY <1>0, <1>1, <1>8, <1>9, <1>10, <1>11, <1>12, FollowStep

-----------------------------------------------------------------------------
(* The daemon: the end of a batch, a rollback, a restore, a recovery.      *)

\* A value that is settled is known.
LEMMA SettledKnown ==
  ASSUME NEW x, NEW o, NEW j, NEW k, Settled(x, o, j, k)
  PROVE  Known(x, o, j, k)
BY DEF Settled, Known

\* At its end an operation has been through its whole order.
LEMMA AllPassed ==
  ASSUME NEW p, p.at \in {"persistApplied", "finish"}
  PROVE  Passed(p) = Members(p)
BY DEF Passed, Members

\* A batch is in force, or is taken back because the file does not say so.
LEMMA PersistAppliedStep ==
  ASSUME InstInv, PersistApplied
  PROVE  InstInv'
<1>0. /\ op.at = "persistApplied" /\ op.kind = "apply" /\ mode = "ReadWrite"
      /\ UNCHANGED <<scene, worldVars, mem, recovery>> /\ Types /\ Control /\ Sync /\ Mid
  BY MidStill DEF PersistApplied, InstInv, Control
<1>1. CASE disk' \in AfterFailure(mem) /\ StartRollback(TRUE)
  <2>1. Fit(disk') /\ (HonestFile => disk' = disk)
    BY <1>0, <1>1, FailureKeeps DEF Types, Process
  <2>2. PICK degrades \in BOOLEAN : StartRollback(degrades)
    BY <1>1
  <2> QED BY <1>0, <2>1, <2>2, RollbackStart
<1>2. CASE disk' = mem /\ Return(mode)
  <2>1. op' = Idle /\ mode' = mode /\ Rest(op')
    BY <1>2, IdleRests DEF Return
  <2>2. Fit(disk') /\ Fit(mem') /\ recovery' \in BOOLEAN /\ mem' = disk'
    BY <1>0, <1>2 DEF Types, Process
  <2>3. ASSUME NEW k \in Key, Sits(k)'
        PROVE  /\ Settled(field'[k[1]], others'[k[1]], mem, k)
               /\ Originals(mem, k, others'[k[1]])
    <3> DEFINE x == field'[k[1]]
               o == others'[k[1]]
    <3>1. Instance(k, x, o, op, disk, mem, Ready)
      BY <1>0, <2>3 DEF Mid
    <3> SUFFICES Settled(x, o, mem, k) /\ Originals(mem, k, o)
      OBVIOUS
    <3> HIDE DEF x, o
    <3>2. Written(k, x, o, op, disk, mem) /\ Originals(mem, k, o)
      BY ONLY <1>0, <3>1 DEF Instance
    <3>3. CASE k \notin Members(op)
      BY ONLY <3>2, <3>3 DEF Written
    <3>4. CASE k \in Members(op)
      <4>1. k \in Passed(op)
        BY <1>0, <3>4, AllPassed
      <4>2. /\ Within(x, o, op.want[k[1]]) /\ (k \in DOMAIN mem => mem[k].applied = op.want[k[1]])
            /\ Known(op.want[k[1]], o, disk, k)
            /\ k \in DOMAIN mem => mem[k].applied \in {op.before[k[1]], op.want[k[1]]}
        BY ONLY <1>0, <3>2, <3>4, <4>1 DEF Written, Batched
      <4>3. SameClaims(disk, mem)
        BY <1>0 DEF Sync
      <4>4. ASSUME NEW f \in Field, x[f] \notin o[f]
            PROVE  k \in DOMAIN mem /\ f \in mem[k].owned /\ x[f] = mem[k].applied[f]
        <5>1. x[f] = op.want[k[1]][f]
          BY ONLY <4>2, <4>4 DEF Within
        <5>2. k \in DOMAIN disk /\ f \in disk[k].owned
          BY ONLY <4>2, <4>4, <5>1 DEF Known
        <5>3. k \in DOMAIN mem /\ f \in mem[k].owned
          BY ONLY <4>3, <5>2 DEF SameClaims
        <5> QED BY ONLY <4>2, <5>1, <5>3
      <4> QED BY ONLY <3>2, <4>4 DEF Settled
    <3> QED BY <3>3, <3>4
  <2>4. \A k \in Key : Sits(k)' =>
          /\ Known(field'[k[1]], others'[k[1]], disk', k)
          /\ Originals(disk', k, others'[k[1]]) /\ Originals(mem', k, others'[k[1]])
          /\ Ready' => Settled(field'[k[1]], others'[k[1]], mem', k)
    BY <1>0, <1>2, <2>3, SettledKnown
  <2>5. World' /\ scene' = scene /\ born' = born /\ mode' \in {"ReadWrite", "ReadOnlyDegraded"}
    BY <1>0, <2>1 DEF Mid
  <2> QED BY ONLY <2>1, <2>2, <2>4, <2>5, RestStep
<1> QED BY <1>1, <1>2 DEF PersistApplied

\* What is left of a journal fits.
LEMMA WithoutFits ==
  ASSUME NEW j, Fit(j), NEW S, NEW r, r = Without(j, S)
  PROVE  /\ Fit(r) /\ DOMAIN r = DOMAIN j \ S /\ \A k \in DOMAIN j \ S : r[k] = j[k]
<1>1. DOMAIN r = DOMAIN j \ S /\ \A k \in DOMAIN j \ S : r[k] = j[k]
  BY DEF Without
<1> QED BY ONLY <1>1, Fit(j) DEF Fit, Journal, Decodes

\* What a rollback, a restore or a recovery leaves in the journal.
LEMMA FinalSound ==
  ASSUME InstInv, op.at = "finish", NEW final,
         final = CASE op.kind = "rollback" -> op.saved
                   [] op.kind = "restore"  -> Without(mem, ToSet(op.order))
                   [] op.kind = "recover"  -> NoEntries
  PROVE  /\ Fit(final)
         /\ \A k \in Key : Sits(k) =>
              /\ Originals(final, k, others[k[1]])
              /\ ~op.failed => Settled(field[k[1]], others[k[1]], final, k)
<1>0. Types /\ Control /\ Sync /\ op.kind \in {"rollback", "restore", "recover"}
  BY DEF InstInv, Control
<1>1. ToSet(op.order) = Members(op)
  BY <1>0 DEF ToSet, Members, Types, Operation
<1>2. Passed(op) = Members(op)
  BY AllPassed
<1>3. ASSUME NEW k \in Key, Sits(k)
      PROVE  Instance(k, field[k[1]], others[k[1]], op, disk, mem, Ready)
  BY <1>3 DEF InstInv, AllInstances
<1>4. CASE op.kind = "rollback"
  <2>1. final = op.saved
    BY <1>4
  <2>2. ASSUME NEW k \in Key, Sits(k)
        PROVE  /\ Originals(final, k, others[k[1]])
               /\ ~op.failed => Settled(field[k[1]], others[k[1]], final, k)
    <3> DEFINE x == field[k[1]]
               o == others[k[1]]
    <3>1. Instance(k, x, o, op, disk, mem, Ready)
      BY <1>3, <2>2
    <3> SUFFICES Originals(final, k, o) /\ (~op.failed => Settled(x, o, final, k))
      OBVIOUS
    <3> HIDE DEF x, o
    <3>2. Originals(op.saved, k, o) /\ Rolled(k, x, o, op, disk)
      BY <1>4, <3>1 DEF Instance
    <3>3. op.attempted = Members(op)
      BY <1>0, <1>4 DEF Sync
    <3>4. CASE k \in Members(op)
      <4>1. /\ ~op.failed => Within(x, o, op.before[k[1]])
            /\ Settled(op.before[k[1]], o, op.saved, k)
        BY <1>2, <3>2, <3>3, <3>4 DEF Rolled, Batched
      <4>2. ~op.failed => Settled(x, o, op.saved, k)
        BY <4>1 DEF Within, Settled
      <4> QED BY <2>1, <3>2, <4>2
    <3>5. CASE k \notin Members(op)
      BY <2>1, <3>2, <3>3, <3>5 DEF Rolled
    <3> QED BY <3>4, <3>5
  <2> QED BY <1>0, <2>1, <2>2 DEF Types, Process
<1>5. CASE op.kind = "restore"
  <2>0. PICK S : S = ToSet(op.order)
    OBVIOUS
  <2>1. final = Without(mem, S) /\ S = Members(op)
    BY <1>1, <1>5, <2>0
  <2>2. Fit(mem)
    BY <1>0 DEF Types, Process
  <2>3. /\ Fit(final) /\ DOMAIN final = DOMAIN mem \ Members(op)
        /\ \A k \in DOMAIN mem \ Members(op) : final[k] = mem[k]
    <3>1. /\ Fit(final) /\ DOMAIN final = DOMAIN mem \ S
          /\ \A k \in DOMAIN mem \ S : final[k] = mem[k]
      BY ONLY <2>1, <2>2, WithoutFits
    <3> QED BY ONLY <2>1, <3>1
  <2>4. ASSUME NEW k \in Key, Sits(k)
        PROVE  /\ Originals(final, k, others[k[1]])
               /\ ~op.failed => Settled(field[k[1]], others[k[1]], final, k)
    <3> DEFINE x == field[k[1]]
               o == others[k[1]]
    <3>1. Instance(k, x, o, op, disk, mem, Ready)
      BY <1>3, <2>4
    <3> SUFFICES Originals(final, k, o) /\ Settled(x, o, final, k)
      OBVIOUS
    <3> HIDE DEF x, o
    <3>2. Originals(mem, k, o) /\ GivenBack(k, x, o, op, mem)
      BY <1>5, <3>1 DEF Instance
    <3>3. Originals(final, k, o)
      BY <2>3, <3>2 DEF Originals
    <3>4. CASE k \in Members(op)
      <4>1. Clean(x, o)
        BY <1>2, <3>2, <3>4 DEF GivenBack
      <4> QED BY <3>3, <4>1 DEF Clean, Settled
    <3>5. CASE k \notin Members(op)
      <4>1. Settled(x, o, mem, k)
        BY <1>5, <3>2, <3>5 DEF GivenBack
      <4>2. Settled(x, o, final, k)
        BY <2>3, <3>5, <4>1 DEF Settled
      <4> QED BY <3>3, <4>2
    <3> QED BY <3>4, <3>5
  <2> QED BY <2>3, <2>4
<1>6. CASE op.kind = "recover"
  <2>1. final = NoEntries
    BY <1>6
  <2>2. ASSUME NEW k \in Key, Sits(k)
        PROVE  Settled(field[k[1]], others[k[1]], final, k)
    <3> DEFINE x == field[k[1]]
               o == others[k[1]]
    <3>1. Instance(k, x, o, op, disk, mem, Ready)
      BY <1>3, <2>2
    <3> SUFFICES Settled(x, o, final, k)
      OBVIOUS
    <3> HIDE DEF x, o
    <3>2. Known(x, o, disk, k) /\ GivenBack(k, x, o, op, mem)
      BY <1>6, <3>1 DEF Instance
    <3>3. mem = disk /\ Members(op) = DOMAIN mem
      BY <1>0, <1>6 DEF Sync
    <3>4. Clean(x, o)
      <4>1. CASE k \in Members(op)
        BY <1>2, <3>2, <4>1 DEF GivenBack
      <4>2. CASE k \notin Members(op)
        BY <3>2, <3>3, <4>2 DEF Known, Clean
      <4> QED BY <4>1, <4>2
    <3> QED BY <3>4 DEF Clean, Settled
  <2> QED BY <2>1, <2>2, NoEntriesFit, NoOriginals
<1> QED BY <1>0, <1>4, <1>5, <1>6

\* Every way an operation ends.
LEMMA FinishStep ==
  ASSUME InstInv, Finish
  PROVE  InstInv'
<1>0. /\ op.at = "finish" /\ op.kind \in {"rollback", "restore", "recover"} /\ mode = "ReadWrite"
      /\ UNCHANGED <<scene, worldVars>> /\ Types /\ Mid
  BY MidStill DEF Finish, InstInv, Control
<1>1. PICK final :
        final = CASE op.kind = "rollback" -> op.saved
                  [] op.kind = "restore"  -> Without(mem, ToSet(op.order))
                  [] op.kind = "recover"  -> NoEntries
  OBVIOUS
<1>2. /\ Fit(final)
      /\ \A k \in Key : Sits(k) =>
           /\ Originals(final, k, others[k[1]])
           /\ ~op.failed => Settled(field[k[1]], others[k[1]], final, k)
  BY <1>0, <1>1, FinalSound
<1>3. \A k \in Key : Sits(k)' => /\ Sits(k) /\ field'[k[1]] = field[k[1]]
                                 /\ others'[k[1]] = others[k[1]]
  BY <1>0 DEF Sits, worldVars
<1>4. World' /\ scene' = scene /\ born' = born
  BY <1>0 DEF Mid
<1>5. Fit(disk) /\ Fit(mem) /\ recovery \in BOOLEAN
  BY <1>0 DEF Types, Process
<1>6. CASE /\ ~op.failed /\ disk' = final /\ mem' = final /\ recovery' = FALSE /\ Return(mode)
  <2>1. Rest(op') /\ mode' = mode
    BY <1>6, IdleRests DEF Return
  <2>2. \A k \in Key : Sits(k)' =>
          /\ Known(field'[k[1]], others'[k[1]], disk', k)
          /\ Originals(disk', k, others'[k[1]]) /\ Originals(mem', k, others'[k[1]])
          /\ Ready' => Settled(field'[k[1]], others'[k[1]], mem', k)
    BY <1>2, <1>3, <1>6, SettledKnown
  <2>3. Fit(disk') /\ Fit(mem') /\ mem' = disk' /\ mode' \in {"ReadWrite", "ReadOnlyDegraded"}
        /\ recovery' \in BOOLEAN
    BY <1>0, <1>2, <1>6, <2>1
  <2> QED BY ONLY <1>4, <2>1, <2>2, <2>3, RestStep
<1>7. CASE /\ disk' \in AfterFailure(final)
           /\ mem' = IF op.kind = "recover" THEN mem ELSE final
           /\ Degrade /\ UNCHANGED recovery
  <2>1. Fit(disk') /\ (HonestFile => disk' = disk)
    BY <1>2, <1>5, <1>7, FailureKeeps
  <2>2. Rest(op') /\ mode' = "ReadOnlyDegraded"
    BY <1>7, IdleRests DEF Degrade, Return
  <2>3. ~Ready'
    BY <2>2 DEF Ready
  <2>4. \A k \in Key : Sits(k) =>
          /\ Known(field[k[1]], others[k[1]], disk, k) /\ Originals(disk, k, others[k[1]])
          /\ Originals(mem, k, others[k[1]])
    BY DEF InstInv, AllInstances, Instance
  <2>5. mem' = mem \/ mem' = final
    BY <1>7
  <2>6. \A k \in Key : Sits(k)' =>
          /\ Known(field'[k[1]], others'[k[1]], disk', k)
          /\ Originals(disk', k, others'[k[1]]) /\ Originals(mem', k, others'[k[1]])
    BY <1>2, <1>3, <2>1, <2>4, <2>5 DEF Sits, HonestFile
  <2>7. Fit(disk') /\ Fit(mem') /\ recovery' \in BOOLEAN
    BY <1>2, <1>5, <1>7, <2>1, <2>5
  <2> QED BY ONLY <1>4, <2>2, <2>3, <2>6, <2>7, RestStep
<1>8. CASE Degrade /\ UNCHANGED <<disk, mem, recovery>>
  BY <1>0, <1>5, <1>8, DegradeStep DEF Degrade, Return
<1> QED BY <1>1, <1>6, <1>7, <1>8 DEF Finish

-----------------------------------------------------------------------------
(* The theorem.                                                            *)

\* Every step keeps the invariant.
LEMMA InstStep ==
  ASSUME InstInv, Next
  PROVE  InstInv'
<1>1. ASSUME NEW s \in Slot, Exit(s) \/ Spawn(s) \/ \E f \in Field : Foreign(s, f)
      PROVE  InstInv'
  BY <1>1, ExitStep, SpawnStep, ForeignStep
<1> QED BY <1>1, ApplyStep, RestoreStep, RecoverStep, VerifyStep, ReadStep, PersistIntentStep,
           OpenStep, ReadOriginalStep, WriteFieldsStep, ReadBackStep, WriteFailsStep,
           PersistAppliedStep, FinishStep, CrashStep, NewStep DEF Next

\* The invariant says of any store that the journal decodes, ...
LEMMA InstDecodes ==
  ASSUME InstInv
  PROVE  TypeOK /\ JournalDecodes
<1> USE DEF InstInv, Types
<1>1. TypeOK
  <2>1. \A s \in Slot : born[s] \in 0 .. scene.lives[s] /\ inst[s] \in {0, born[s]}
    BY InstanceConstants DEF World
  <2> QED BY <2>1 DEF World, Process, Operation, Fit, TypeOK
<1>2. JournalDecodes
  BY DEF Process, Fit, JournalDecodes
<1> QED BY <1>1, <1>2

\* ... and of an honest one what FieldsSound asks.
LEMMA InstImplies ==
  ASSUME HonestFile, InstInv
  PROVE  FieldsSound
<1> USE DEF InstInv, Types
<1>1. TypeOK
  BY InstDecodes
<1>2. JournalDecodes
  BY InstDecodes
<1>3. ASSUME NEW s \in Slot, inst[s] # 0, s \notin stranger,
             NEW k, k = <<s, inst[s]>>
      PROVE  /\ k \in Key /\ Sits(k)
             /\ Instance(k, field[s], others[s], op, disk, mem, Ready)
  <2>1. k \in Key /\ k[1] = s /\ k[2] = inst[s]
    BY <1>3, OccupantKey
  <2>2. Sits(k)
    BY <1>3, <2>1 DEF Sits
  <2> QED BY <2>1, <2>2 DEF AllInstances
<1>4. DurableFieldClaim
  <2> SUFFICES ASSUME NEW s \in Slot, NEW f \in Dirty(s)
               PROVE  f \in OwnedBy(disk, s)
    BY DEF DurableFieldClaim
  <2>1. inst[s] # 0 /\ s \notin stranger /\ f \in Field /\ field[s][f] \notin others[s][f]
    BY DEF Dirty
  <2>2. PICK k : k = <<s, inst[s]>>
    OBVIOUS
  <2>3. Known(field[s], others[s], disk, k)
    BY <1>3, <2>1, <2>2 DEF Instance
  <2> QED BY <2>1, <2>2, <2>3 DEF Known, OwnedBy
<1>5. OriginalNotOurs
  <2> SUFFICES ASSUME NEW s \in Slot \ stranger, NEW f \in OwnedBy(disk, s)
               PROVE  disk[<<s, inst[s]>>].original[f] \in others[s][f]
    BY DEF OriginalNotOurs
  <2>1. PICK k : k = <<s, inst[s]>>
    OBVIOUS
  <2>2. k \in DOMAIN disk /\ f \in disk[k].owned
    BY <2>1 DEF OwnedBy
  <2>3. k \in Key /\ disk[k] \in Entry
    BY <2>2 DEF Process, Fit, Journal
  <2>4. f \in Field
    BY <2>2, <2>3 DEF Entry
  <2>5. inst[s] # 0
    BY <2>1, <2>3, KeyParts
  <2>6. Originals(disk, k, others[s])
    BY <1>3, <2>1, <2>5 DEF Instance
  <2> QED BY <2>1, <2>2, <2>4, <2>6 DEF Originals
<1>6. NothingLeftBehind
  <2> SUFFICES ASSUME Ready, NEW s \in Slot, NEW f \in Dirty(s)
               PROVE  f \in OwnedBy(mem, s)
    BY DEF NothingLeftBehind
  <2>1. inst[s] # 0 /\ s \notin stranger /\ f \in Field /\ field[s][f] \notin others[s][f]
    BY DEF Dirty
  <2>2. PICK k : k = <<s, inst[s]>>
    OBVIOUS
  <2>3. Settled(field[s], others[s], mem, k)
    BY <1>3, <2>1, <2>2 DEF Instance
  <2> QED BY <2>1, <2>2, <2>3 DEF Settled, OwnedBy
<1> QED BY <1>1, <1>2, <1>4, <1>5, <1>6 DEF FieldsSound

\* Stuttering.
LEMMA InstStutters ==
  ASSUME InstInv, UNCHANGED vars
  PROVE  InstInv'
<1> USE DEF vars, worldVars
<1>1. World' /\ Process' /\ Operation'
  <2>1. World'
    BY DEF InstInv, Types, World
  <2>2. Process'
    <3>1. Types /\ Fit(disk') /\ Fit(mem') /\ Fit(op'.saved) /\ op'.start = op.start
      BY DEF InstInv, Types, Process
    <3> QED BY <3>1, ProcessStep
  <2>3. Operation'
    <3>1. Key' = Key
      BY DEF Key
    <3> QED BY <3>1 DEF InstInv, Types, Operation
  <2> QED BY <2>1, <2>2, <2>3
<1>2. Control' /\ Sync'
  <2>1. Members(op)' = Members(op) /\ SameClaims(disk, mem)' = SameClaims(disk, mem)
    BY DEF Members, SameClaims
  <2> QED BY <2>1 DEF InstInv, Control, Sync
<1>3. AllInstances'
  <2>1. Mid
    BY MidStill DEF vars
  <2>2. Ready' = Ready /\ Key' = Key
    BY DEF Ready, Key
  <2> QED BY <2>1, <2>2 DEF Mid, AllInstances
<1> QED BY <1>1, <1>2, <1>3 DEF InstInv, Types

\* If a store that reports failure has not replaced the file, the journal of
\* processes and units decodes and owns every value only the daemon chose.
THEOREM SoundFields ==
  ASSUME HonestFile
  PROVE  Spec => []FieldsSound
<1>1. Init => InstInv
  BY InstInitially
<1>2. InstInv /\ [Next]_vars => InstInv'
  BY InstStep, InstStutters
<1>3. InstInv => FieldsSound
  BY InstImplies
<1> QED BY <1>1, <1>2, <1>3, PTL DEF Spec

\* Whatever the store does, the actuator can read the journal it wrote: a crash
\* at any step leaves a file its own decoder accepts.
THEOREM JournalAlwaysReadable == Spec => [](TypeOK /\ JournalDecodes)
<1>1. Init => InstInv
  BY InstInitially
<1>2. InstInv /\ [Next]_vars => InstInv'
  BY InstStep, InstStutters
<1>3. InstInv => TypeOK /\ JournalDecodes
  BY InstDecodes
<1> QED BY <1>1, <1>2, <1>3, PTL DEF Spec

-----------------------------------------------------------------------------
(* What others changed and what was given up.                              *)

\* No entry of the slot is of a newer instance than l.
Newest(start, l) == \A k \in DOMAIN start : k[1] = l[1] => k[2] <= l[2]
\* x is in every field b or w.
OneOf(x, b, w) == \A f \in Field : x[f] = b[f] \/ x[f] = w[f]
\* Going from b to w leaves alone what the entry gave up, and what is not as it
\* was applied.
Spares(e, b, w) ==
  \A f \in Field : /\ f \in e.relinquished => w[f] = b[f]
                   /\ f \in e.owned => b[f] = e.applied[f] \/ w[f] = b[f]
\* Going from cur to tgt changes only what the entry owns and knows.
Returns(e, cur, tgt) ==
  \A f \in Field : \/ tgt[f] = cur[f]
                   \/ f \in e.owned /\ (cur[f] = e.applied[f] \/ cur[f] = e.desired[f])

\* Of an operation p on slots that show x, their occupants being i, with the
\* journal m in memory: while a batch is read, ...
ReadAsFound(p, x, i, m) ==
  p.kind = "apply" /\ p.at \in {"verify", "read"} =>
    /\ p.start = m
    /\ ~p.raced => \A l \in Passed(p) : i[l[1]] = l[2] => x[l[1]] = p.before[l[1]]
\* ... of the members of one that is written or taken back, ...
InBatch(p) == p.kind = "rollback" \/ (p.kind = "apply" /\ p.at \notin {"verify", "read"})
MembersSpared(p, x, i) ==
  InBatch(p) =>
    /\ \A l, m \in Members(p) : l[1] = m[1] => l = m
    /\ \A l \in Members(p) :
         /\ Newest(p.start, l)
         /\ l \in DOMAIN p.start => Spares(p.start[l], p.before[l[1]], p.want[l[1]])
         /\ ~p.raced /\ i[l[1]] = l[2] => OneOf(x[l[1]], p.before[l[1]], p.want[l[1]])
\* ... of the one that is being written, ...
HandSpared(p, i) ==
  InBatch(p) /\ p.at \in Writing /\ ~p.raced =>
    LET h == p.order[p.idx]
    IN  i[h[1]] = h[2] =>
          /\ p.kind = "rollback" => p.tgt = p.before[h[1]]
          /\ p.at = "fields" => OneOf(p.base, p.before[h[1]], p.want[h[1]])
\* ... and while entries are given back.
Returned(p, x, i, m) ==
  p.kind \in {"restore", "recover"} =>
    LET h == p.order[p.idx]
    IN  /\ p.start = m
        /\ p.at \in Writing \cup {"read"} => Newest(p.start, h)
        /\ p.at \in Writing => Returns(p.start[h], p.cur, p.tgt)
        /\ p.at \in Writing /\ ~p.raced /\ i[h[1]] = h[2] =>
             /\ OneOf(x[h[1]], p.cur, p.tgt)
             /\ p.at = "fields" => OneOf(p.base, p.cur, p.tgt)

AdminInv ==
  /\ ReadAsFound(op, field, inst, mem) /\ MembersSpared(op, field, inst)
  /\ HandSpared(op, inst) /\ Returned(op, field, inst, mem)

\* Nothing is said between operations.
LEMMA AdminRests ==
  ASSUME op'.kind = "none"
  PROVE  AdminInv'
BY DEF AdminInv, ReadAsFound, MembersSpared, HandSpared, Returned, InBatch

\* What an operation has been through is of its order.
LEMMA PassedMembers ==
  ASSUME Types
  PROVE  Passed(op) \subseteq Members(op)
<1>1. op.idx \in 0 .. Len(op.order) + 1 /\ Len(op.order) \in Nat
  BY DEF Types, Operation
<1>2. \A n \in 1 .. op.idx - 1 : n \in 1 .. Len(op.order)
  BY <1>1
<1> QED BY <1>2 DEF Passed, Members

\* Occupants come and go: a member that is there was there before.
LEMMA AdminMoves ==
  ASSUME InstInv, AdminInv, op' = op, mem' = mem,
         \A l \in Members(op) : inst'[l[1]] = l[2] =>
           inst[l[1]] = l[2] /\ field'[l[1]] = field[l[1]]
  PROVE  AdminInv'
<1>0. Types /\ Control
  BY DEF InstInv
<1>1. Passed(op) \subseteq Members(op)
  BY <1>0, PassedMembers
<1>2. op.at \in Writing => op.order[op.idx] \in Members(op)
  <2>1. op.at \in Writing => op.at \in Steps
    BY DEF Writing, Steps
  <2> QED BY <1>0, <2>1, HereParts
<1>3. ReadAsFound(op, field', inst', mem)
  BY <1>1 DEF AdminInv, ReadAsFound
<1>4. MembersSpared(op, field', inst')
  BY DEF AdminInv, MembersSpared
<1>5. HandSpared(op, inst')
  BY <1>2 DEF AdminInv, HandSpared
<1>6. Returned(op, field', inst', mem)
  BY <1>2 DEF AdminInv, Returned
<1> QED BY <1>3, <1>4, <1>5, <1>6 DEF AdminInv

\* An occupant leaves.
LEMMA AdminExit ==
  ASSUME InstInv, AdminInv, NEW s \in Slot, Exit(s)
  PROVE  AdminInv'
<1>0. World /\ Operation
  BY DEF InstInv, Types
<1>1. op' = op /\ mem' = mem /\ inst' = [inst EXCEPT ![s] = 0]
      /\ field' = [field EXCEPT ![s] = Blank]
  BY DEF Exit
<1>2. ASSUME NEW l \in Members(op), inst'[l[1]] = l[2]
      PROVE  inst[l[1]] = l[2] /\ field'[l[1]] = field[l[1]]
  <2>1. l \in Key
    BY <1>0 DEF Members, Operation
  <2>2. l[1] \in Slot /\ l[2] # 0
    BY <1>0, <2>1, KeyParts
  <2>3. l[1] # s
    BY <1>0, <1>1, <1>2, <2>2 DEF World
  <2> QED BY <1>0, <1>1, <1>2, <2>2, <2>3 DEF World
<1> QED BY <1>1, <1>2, AdminMoves

\* A slot is taken again.
LEMMA AdminSpawn ==
  ASSUME InstInv, AdminInv, NEW s \in Slot, Spawn(s)
  PROVE  AdminInv'
<1>0. World /\ Operation
  BY DEF InstInv, Types
<1>1. PICK x : field' = [field EXCEPT ![s] = x]
  BY DEF Spawn
<1>2. op' = op /\ mem' = mem /\ inst' = [inst EXCEPT ![s] = born[s] + 1]
  BY DEF Spawn
<1>3. ASSUME NEW l \in Members(op), inst'[l[1]] = l[2]
      PROVE  inst[l[1]] = l[2] /\ field'[l[1]] = field[l[1]]
  <2>1. l \in Key /\ l[2] <= born[l[1]]
    BY <1>0 DEF Members, Operation
  <2>2. l[1] \in Slot /\ l[2] \in Nat /\ born[l[1]] \in Nat
    BY <1>0, <2>1, KeyParts DEF World
  <2>3. l[1] # s
    <3>1. ASSUME l[1] = s PROVE FALSE
      <4>1. inst'[s] = born[s] + 1
        BY <1>0, <1>2 DEF World
      <4> QED BY <1>3, <2>1, <2>2, <3>1, <4>1
    <3> QED BY <3>1
  <2> QED BY <1>0, <1>1, <1>2, <1>3, <2>2, <2>3 DEF World
<1> QED BY <1>2, <1>3, AdminMoves

\* A write of others is between operations, or makes the operation a race.
LEMMA AdminForeign ==
  ASSUME InstInv, AdminInv, NEW s \in Slot, NEW f \in Field, Foreign(s, f)
  PROVE  AdminInv'
<1>0. DOMAIN op = OpFields /\ Control
  BY DEF InstInv, Types, Operation
<1>1. op' = [op EXCEPT !.raced = op.at \notin {"idle", "down"}] /\ mem' = mem
  BY DEF Foreign
<1> DEFINE raced == op.at \notin {"idle", "down"}
<1> HIDE DEF raced
<1>2. /\ op'.raced = raced /\ op'.at = op.at /\ op'.kind = op.kind /\ op'.order = op.order
      /\ op'.idx = op.idx /\ op'.start = op.start /\ op'.before = op.before
      /\ op'.want = op.want /\ op'.cur = op.cur /\ op'.tgt = op.tgt /\ op'.base = op.base
  BY <1>0, <1>1 DEF OpFields, raced
<1>3. CASE ~raced
  <2>1. op'.kind = "none"
    BY <1>0, <1>2, <1>3 DEF Control, raced
  <2> QED BY <2>1, AdminRests
<1>4. CASE raced
  <2>1. op'.raced
    BY <1>2, <1>4
  <2>2. Members(op') = Members(op)
    BY <1>2 DEF Members
  <2>3. ReadAsFound(op', field', inst', mem')
    BY <1>1, <1>2, <2>1 DEF AdminInv, ReadAsFound
  <2>4. MembersSpared(op', field', inst')
    BY <1>2, <2>1, <2>2 DEF AdminInv, MembersSpared, InBatch
  <2>5. HandSpared(op', inst')
    BY <2>1 DEF HandSpared
  <2>6. Returned(op', field', inst', mem')
    BY <1>1, <1>2, <2>1 DEF AdminInv, Returned
  <2> QED BY <2>3, <2>4, <2>5, <2>6 DEF AdminInv
<1> QED BY <1>3, <1>4

\* The instance at hand is dealt with.
LEMMA AdminFollows ==
  ASSUME InstInv, AdminInv, op.at \in Steps, op.kind = "apply" => op.at \in Writing,
         NEW p, DOMAIN p = OpFields, \A g \in OpFields \ {"failed"} : p[g] = op[g],
         op' = Following(p), inst' = inst, op.kind # "apply" => mem' = mem,
         MembersSpared(op, field', inst)
  PROVE  AdminInv'
<1>0. Types /\ Control
  BY DEF InstInv
<1>1. /\ p.at = op.at /\ p.kind = op.kind /\ p.order = op.order /\ p.idx = op.idx
      /\ p.start = op.start /\ p.before = op.before /\ p.want = op.want /\ p.raced = op.raced
  BY DEF OpFields
<1>2. /\ p.order \in Seq(Key) /\ p.idx \in 1 .. Len(p.order) /\ Len(p.order) \in Nat
      /\ p.at \notin {"persistApplied", "finish"}
  BY <1>0, <1>1 DEF Types, Operation, Control, Steps
<1>3. /\ op'.kind = p.kind /\ op'.before = p.before /\ op'.want = p.want
      /\ op'.start = p.start /\ op'.raced = p.raced /\ Members(op') = Members(p)
      /\ p.idx < Len(p.order) => op'.at = IF p.kind = "apply" THEN "open" ELSE "verify"
      /\ p.idx = Len(p.order) =>
           op'.at = IF p.kind = "apply" THEN "persistApplied" ELSE "finish"
  BY ONLY <1>2, FollowingParts, DOMAIN p = OpFields, op' = Following(p)
<1>4. op'.at \in IF op.kind = "apply" THEN {"open", "persistApplied"} ELSE {"verify", "finish"}
  BY <1>1, <1>2, <1>3
<1>5. Members(op') = Members(op)
  BY <1>1, <1>3 DEF Members
<1>6. InBatch(op') => InBatch(op)
  BY <1>1, <1>3 DEF InBatch, Writing
<1>7. ReadAsFound(op', field', inst', mem')
  BY <1>1, <1>3, <1>4 DEF ReadAsFound
<1>8. MembersSpared(op', field', inst')
  BY <1>1, <1>3, <1>5, <1>6 DEF MembersSpared
<1>9. HandSpared(op', inst')
  BY <1>1, <1>3, <1>4 DEF HandSpared, Writing
<1>10. Returned(op', field', inst', mem')
  BY <1>1, <1>3, <1>4 DEF AdminInv, Returned, Writing
<1> QED BY <1>7, <1>8, <1>9, <1>10 DEF AdminInv

\* A batch begins to be taken back: of its members, those attempted.
LEMMA AdminTakesBack ==
  ASSUME InstInv, AdminInv, op.kind = "apply", op.at \in Writing \cup {"persistApplied"},
         NEW degrades, StartRollback(degrades), inst' = inst, MembersSpared(op, field', inst)
  PROVE  AdminInv'
<1>0. DOMAIN op = OpFields /\ op.attempted \subseteq Members(op) /\ op.attempted \subseteq Key
      /\ World
  BY DEF InstInv, Types, Operation, Sync
<1>1. PICK s \in Orders(op.attempted) :
        op' = [Clear(op) EXCEPT !.kind = "rollback", !.order = s, !.idx = 1,
                 !.at = IF s = <<>> THEN "finish" ELSE "verify", !.degrades = degrades]
  BY DEF StartRollback
<1> DEFINE c == Clear(op)
           at == IF s = <<>> THEN "finish" ELSE "verify"
<1>2. /\ DOMAIN c = OpFields
      /\ \A g \in OpFields \ {"cur", "tgt", "base", "todo", "done"} : c[g] = op[g]
  BY <1>0, ClearParts
<1>3. op' = [c EXCEPT !.kind = "rollback", !.order = s, !.idx = 1, !.at = at,
                      !.degrades = degrades]
  BY <1>1
<1>4. at \in {"finish", "verify"}
  OBVIOUS
<1> HIDE DEF c, at
<1>5. /\ op'.kind = "rollback" /\ op'.order = s /\ op'.at = at
      /\ \A g \in OpFields \ {"kind", "order", "idx", "at", "degrades"} : op'[g] = c[g]
  BY <1>2, <1>3 DEF OpFields
<1>6. /\ op'.before = op.before /\ op'.want = op.want /\ op'.start = op.start
      /\ op'.raced = op.raced
  BY <1>2, <1>5 DEF OpFields
<1>7. IsFiniteSet(op.attempted)
  BY <1>0, KeyFinite, FS_Subset
<1>8. {s[n] : n \in 1 .. Len(s)} = op.attempted
  BY <1>7, OrdersParts
<1>9. Members(op') \subseteq Members(op)
  BY <1>0, <1>5, <1>8 DEF Members
<1>10. InBatch(op)
  BY DEF InBatch, Writing
<1>11. MembersSpared(op', field', inst')
  BY <1>6, <1>9, <1>10 DEF MembersSpared
<1>12. /\ ReadAsFound(op', field', inst', mem') /\ HandSpared(op', inst')
       /\ Returned(op', field', inst', mem')
  BY <1>4, <1>5 DEF ReadAsFound, HandSpared, Returned, Writing
<1> QED BY <1>11, <1>12 DEF AdminInv

\* A step of an operation fails.
LEMMA AdminFails ==
  ASSUME InstInv, AdminInv, op.at \in Steps, StepFails, inst' = inst, mem' = mem,
         MembersSpared(op, field', inst)
  PROVE  AdminInv'
<1>0. /\ op.kind \in {"apply", "rollback", "restore", "recover"} /\ DOMAIN op = OpFields
  BY DEF InstInv, Types, Operation, Control, Steps
<1>1. CASE (op.kind = "apply" /\ op.at \in {"verify", "read"}) \/ op.kind \in {"restore", "recover"}
  <2>1. op' = Idle
    BY <1>1 DEF StepFails, Return, Degrade
  <2> QED BY <2>1, IdleParts, AdminRests
<1>2. CASE op.kind = "apply" /\ op.at \in Writing
  <2>1. StartRollback(FALSE)
    BY <1>2 DEF StepFails, Writing
  <2> QED BY <1>2, <2>1, AdminTakesBack
<1>3. CASE op.kind = "rollback"
  <2>1. PICK counts \in BOOLEAN : op' = Following([op EXCEPT !.failed = op.failed \/ counts])
    BY <1>3 DEF StepFails
  <2> DEFINE fail == op.failed \/ counts
             p == [op EXCEPT !.failed = fail]
  <2> HIDE DEF fail
  <2>2. DOMAIN p = OpFields /\ \A g \in OpFields \ {"failed"} : p[g] = op[g]
    BY <1>0 DEF OpFields
  <2>3. op' = Following(p)
    BY <2>1 DEF fail
  <2> HIDE DEF p
  <2> QED BY <1>3, <2>2, <2>3, AdminFollows
<1> QED BY <1>0, <1>1, <1>2, <1>3 DEF Steps, Writing

\* The members of a batch, when no field changes.
LEMMA SparedStill ==
  ASSUME AdminInv, field' = field
  PROVE  MembersSpared(op, field', inst)
BY DEF AdminInv

\* An operation begins.
LEMMA AdminBegins ==
  ASSUME NEW kind \in {"apply", "restore", "recover"}, op'.kind = kind, op'.at = "verify",
         op'.idx = 1, op'.start = mem, mem' = mem
  PROVE  AdminInv'
<1>1. Passed(op') = {}
  BY DEF Passed
<1> QED BY <1>1 DEF AdminInv, ReadAsFound, MembersSpared, HandSpared, Returned, InBatch, Writing

\* A batch begins.
LEMMA AdminApply ==
  ASSUME Apply
  PROVE  AdminInv'
<1>1. \E order, r : op' = [Idle EXCEPT !.at = "verify", !.kind = "apply", !.idx = 1,
                                       !.start = mem, !.order = order, !.request = r]
  BY DEF Apply
<1>2. PICK order, r : op' = [Idle EXCEPT !.at = "verify", !.kind = "apply", !.idx = 1,
                                         !.start = mem, !.order = order, !.request = r]
  BY <1>1
<1>3. op'.kind = "apply" /\ op'.at = "verify" /\ op'.idx = 1 /\ op'.start = mem
  BY <1>2, IdleParts DEF OpFields
<1>4. mem' = mem
  BY DEF Apply
<1> QED BY <1>3, <1>4, AdminBegins

\* A restore or a recovery begins.
LEMMA AdminGives ==
  ASSUME NEW kind \in {"restore", "recover"}, NEW S, GiveBack(kind, S)
  PROVE  AdminInv'
<1>1. PICK s \in Orders(S) :
        op' = [Idle EXCEPT !.at = "verify", !.kind = kind, !.idx = 1, !.start = mem, !.order = s]
  BY DEF GiveBack
<1>2. op'.kind = kind /\ op'.at = "verify" /\ op'.idx = 1 /\ op'.start = mem
  BY <1>1, IdleParts DEF OpFields
<1>3. mem' = mem
  BY DEF GiveBack
<1> QED BY <1>2, <1>3, AdminBegins

\* The identity holds, or a batch of units takes the one it finds.
LEMMA AdminVerified ==
  ASSUME InstInv, AdminInv, op.at = "verify", inst[Place] # 0, Current \/ Observes,
         op' = [op EXCEPT !.at = "read", !.order[op.idx] = <<Place, inst[Place]>>],
         UNCHANGED <<worldVars, mem>>
  PROVE  AdminInv'
<1>0. Types /\ Control /\ DOMAIN op = OpFields /\ op.at \in Steps
  BY DEF InstInv, Types, Operation, Steps
<1>1. /\ Here = op.order[op.idx] /\ Place \in Slot /\ Here = <<Place, Here[2]>>
      /\ op.idx \in 1 .. Len(op.order) /\ Len(op.order) \in Nat /\ op.order \in Seq(Key)
  BY <1>0, HereParts DEF Types, Operation
<1>2. inst' = inst /\ field' = field /\ mem' = mem
  BY DEF worldVars
<1> DEFINE q == [op.order EXCEPT ![op.idx] = <<Place, inst[Place]>>]
<1>3. op' = [op EXCEPT !.at = "read", !.order = q]
  BY <1>0 DEF OpFields
<1>4. \A n \in 1 .. Len(op.order) : n # op.idx => q[n] = op.order[n]
  BY <1>1
<1>5. Current => q = op.order
  <2> SUFFICES ASSUME Current PROVE q = op.order
    OBVIOUS
  <2>1. <<Place, inst[Place]>> = op.order[op.idx]
    BY <1>1 DEF Current
  <2> QED BY <1>1, <2>1
<1> HIDE DEF q
<1>6. /\ op'.at = "read" /\ op'.order = q /\ op'.kind = op.kind /\ op'.idx = op.idx
      /\ op'.start = op.start /\ op'.before = op.before /\ op'.want = op.want
      /\ op'.raced = op.raced
  BY <1>0, <1>3 DEF OpFields
<1>7. CASE op.kind = "apply"
  <2>1. Passed(op') = Passed(op)
    <3>1. \A n \in 1 .. op.idx - 1 : q[n] = op.order[n]
      BY <1>1, <1>4
    <3> QED BY <1>6, <3>1 DEF Passed
  <2>2. ReadAsFound(op', field', inst', mem')
    BY <1>2, <1>6, <1>7, <2>1 DEF AdminInv, ReadAsFound
  <2> QED BY <1>6, <1>7, <2>2 DEF AdminInv, MembersSpared, HandSpared, Returned, InBatch
<1>8. CASE op.kind # "apply"
  <2>1. Current
    BY <1>8 DEF Observes
  <2>2. op'.order = op.order /\ Members(op') = Members(op)
    BY <1>5, <1>6, <2>1 DEF Members
  <2>3. MembersSpared(op', field', inst')
    BY <1>2, <1>6, <1>8, <2>2 DEF AdminInv, MembersSpared, InBatch
  <2>4. op.kind \in {"restore", "recover"} => op.start = mem /\ Newest(op.start, Here)
    <3> SUFFICES ASSUME op.kind \in {"restore", "recover"}
                 PROVE  op.start = mem /\ Newest(op.start, Here)
      OBVIOUS
    <3>1. op.start = mem
      BY DEF AdminInv, Returned
    <3>2. Here[1] = Place /\ Here[2] = born[Place]
      <4>1. inst[Place] = born[Place]
        BY <1>0, <1>1, OccupantKey DEF Types
      <4> QED BY <2>1, <4>1 DEF Current, Place
    <3>3. \A k \in DOMAIN mem : k[2] <= born[k[1]]
      BY <1>0 DEF Types, Process, Fit
    <3> QED BY <3>1, <3>2, <3>3 DEF Newest
  <2>5. Returned(op', field', inst', mem')
    BY <1>1, <1>2, <1>6, <2>2, <2>4 DEF Returned, Writing
  <2>6. ReadAsFound(op', field', inst', mem') /\ HandSpared(op', inst')
    BY <1>6, <1>8 DEF ReadAsFound, HandSpared, Writing
  <2> QED BY <2>3, <2>5, <2>6 DEF AdminInv
<1> QED BY <1>7, <1>8

\* Every way the check of the identity ends.
LEMMA AdminVerify ==
  ASSUME InstInv, AdminInv, Verify
  PROVE  AdminInv'
<1>0. /\ op.at = "verify" /\ op.at \in Steps /\ UNCHANGED <<worldVars, mem>>
      /\ DOMAIN op = OpFields
  BY DEF Verify, Steps, InstInv, Types, Operation
<1>1. inst' = inst /\ field' = field /\ mem' = mem
  BY <1>0 DEF worldVars
<1>2. MembersSpared(op, field', inst)
  BY <1>1, SparedStill
<1>3. CASE /\ inst[Place] # 0 /\ (Current \/ Observes)
           /\ op' = [op EXCEPT !.at = "read", !.order[op.idx] = <<Place, inst[Place]>>]
  BY <1>0, <1>3, AdminVerified
<1>4. CASE op.kind # "apply" /\ op' = Following(op)
  BY <1>0, <1>1, <1>2, <1>4, AdminFollows
<1>5. CASE StepFails
  BY <1>0, <1>1, <1>2, <1>5, AdminFails
<1> QED BY <1>3, <1>4, <1>5 DEF Verify

\* An instance of a batch is read.
LEMMA AdminReadNext ==
  ASSUME InstInv, AdminInv, op.at = "read", op.kind = "apply", op.idx < Len(op.order),
         NEW p, p = [op EXCEPT !.before[Place] = field[Place]],
         op' = [p EXCEPT !.at = "verify", !.idx = @ + 1], UNCHANGED <<worldVars, mem>>
  PROVE  AdminInv'
<1>0. Types /\ Control /\ Sync /\ DOMAIN op = OpFields /\ op.at \in Steps
  BY DEF InstInv, Types, Operation, Steps
<1>1. /\ Here = op.order[op.idx] /\ Place \in Slot /\ Here[1] = Place
      /\ op.idx \in 1 .. Len(op.order) /\ Len(op.order) \in Nat
  BY <1>0, HereParts DEF Place
<1>2. inst' = inst /\ field' = field /\ mem' = mem
  BY DEF worldVars
<1> DEFINE b == [op.before EXCEPT ![Place] = field[Place]]
<1>3. b[Place] = field[Place] /\ \A s \in Slot : s # Place => b[s] = op.before[s]
  BY <1>0, <1>1 DEF Types, Operation
<1>4. p = [op EXCEPT !.before = b]
  BY <1>0 DEF OpFields
<1> HIDE DEF b
<1>5. /\ op'.at = "verify" /\ op'.idx = op.idx + 1 /\ op'.kind = op.kind /\ op'.order = op.order
      /\ op'.start = op.start /\ op'.raced = op.raced /\ op'.before = b
  <2>1. DOMAIN p = OpFields /\ p.before = b /\ \A g \in OpFields \ {"before"} : p[g] = op[g]
    BY <1>0, <1>4 DEF OpFields
  <2> QED BY <2>1 DEF OpFields
<1>6. Passed(op') = Passed(op) \cup {Here}
  <2>1. Passed(op) = {op.order[n] : n \in 1 .. op.idx - 1}
    BY DEF Passed
  <2>2. Passed(op') = {op.order[n] : n \in 1 .. op.idx}
    BY <1>1, <1>5 DEF Passed
  <2>3. 1 .. op.idx = (1 .. op.idx - 1) \cup {op.idx}
    BY <1>1
  <2> QED BY <1>1, <2>1, <2>2, <2>3
<1>7. ASSUME NEW l \in Passed(op)
      PROVE  l[1] # Place /\ l[1] \in Slot
  <2>1. PICK n \in 1 .. op.idx - 1 : l = op.order[n]
    BY <1>7 DEF Passed
  <2>2. n \in 1 .. Len(op.order) /\ n # op.idx
    BY <1>1
  <2>3. l[1] # Place
    BY <1>0, <1>1, <2>1, <2>2 DEF Sync
  <2>4. l \in Key
    BY <1>0, <2>1, <2>2 DEF Types, Operation
  <2> QED BY <1>0, <2>3, <2>4, KeyParts DEF Types
<1>8. ReadAsFound(op', field', inst', mem')
  <2>1. op.start = mem
    BY DEF AdminInv, ReadAsFound
  <2>2. ASSUME ~op.raced, NEW l \in Passed(op'), inst[l[1]] = l[2]
        PROVE  field[l[1]] = b[l[1]]
    <3>1. CASE l = Here
      BY <1>1, <1>3, <3>1
    <3>2. CASE l \in Passed(op)
      BY <1>3, <1>7, <2>2, <3>2 DEF AdminInv, ReadAsFound
    <3> QED BY <1>6, <3>1, <3>2
  <2> QED BY <1>2, <1>5, <2>1, <2>2 DEF ReadAsFound
<1> QED BY <1>5, <1>8 DEF AdminInv, MembersSpared, HandSpared, Returned, InBatch

\* What a batch journals spares what it must.
LEMMA NextSpares ==
  ASSUME NEW e \in Entry, Disjoint(e), NEW b \in State, NEW r \in State,
         NEW w, w = Claim(Still(e, b), b, r).desired
  PROVE  Spares(e, b, w)
<1>1. PICK held : held = Still(e, b)
  OBVIOUS
<1>2. /\ held \in Entry
      /\ \A f \in Field : f \in held.owned <=> f \in e.owned /\ b[f] = e.applied[f]
      /\ Disjoint(held) /\ held.relinquished = e.relinquished \cup (e.owned \ held.owned)
  BY <1>1, StillParts
<1>3. PICK next : next = Claim(held, b, r)
  OBVIOUS
<1>4. /\ next.relinquished = held.relinquished /\ Disjoint(next)
      /\ \A f \in Field : next.desired[f] = IF f \in next.owned THEN r[f] ELSE b[f]
  <2>1. held \in Entry
    BY <1>2
  <2>2. Disjoint(held)
    BY <1>2
  <2> QED BY ONLY <1>3, <2>1, <2>2, ClaimParts, b \in State, r \in State, SMTT(30)
<1>5. w = next.desired
  BY <1>1, <1>3
<1>6. \A f \in Field : f \in held.relinquished => w[f] = b[f]
  BY <1>4, <1>5 DEF Disjoint
<1> QED BY <1>2, <1>6 DEF Spares

\* The last instance of a batch is read.
LEMMA AdminReadLast ==
  ASSUME InstInv, AdminInv, op.at = "read", op.kind = "apply", op.idx = Len(op.order),
         NEW p, p = [op EXCEPT !.before[Place] = field[Place]],
         NEW w, w = Prepared(p),
         op' = [p EXCEPT !.at = "persistIntent", !.saved = w.saved, !.want = w.want,
                         !.request = Idle.request],
         UNCHANGED worldVars
  PROVE  AdminInv'
<1>0. Types /\ Control /\ Sync /\ DOMAIN op = OpFields /\ op.at \in Steps
  BY DEF InstInv, Types, Operation, Steps
<1>1. /\ Here = op.order[op.idx] /\ Place \in Slot /\ Here[1] = Place
      /\ op.idx \in 1 .. Len(op.order) /\ Len(op.order) \in Nat
  BY <1>0, HereParts DEF Place
<1>2. inst' = inst /\ field' = field /\ inst \in [Slot -> Nat] /\ field \in [Slot -> State]
  BY <1>0 DEF worldVars, Types, World
<1> DEFINE b == [op.before EXCEPT ![Place] = field[Place]]
           keys == {op.order[n] : n \in 1 .. Len(op.order)}
<1>3. /\ b \in [Slot -> State] /\ b[Place] = field[Place]
      /\ \A s \in Slot : s # Place => b[s] = op.before[s]
  BY <1>0, <1>1 DEF Types, Operation, World
<1>4. p = [op EXCEPT !.before = b]
  BY <1>0 DEF OpFields
<1> HIDE DEF b
<1>5. DOMAIN p = OpFields /\ p.before = b /\ \A g \in OpFields \ {"before"} : p[g] = op[g]
  BY <1>0, <1>4 DEF OpFields
<1>6. p.order = op.order /\ p.request = op.request
  BY <1>5 DEF OpFields
<1>7. /\ op'.at = "persistIntent" /\ op'.want = w.want
      /\ \A g \in OpFields \ {"at", "saved", "want", "request"} : op'[g] = p[g]
  <2> DEFINE v == Idle.request
  <2> HIDE DEF v
  <2>1. op' = [p EXCEPT !.at = "persistIntent", !.saved = w.saved, !.want = w.want, !.request = v]
    BY DEF v
  <2> QED BY ONLY <1>5, <2>1 DEF OpFields
<1>8. /\ op'.before = b /\ op'.kind = "apply" /\ op'.order = op.order /\ op'.start = op.start
      /\ op'.raced = op.raced
  BY ONLY <1>5, <1>7, op.kind = "apply" DEF OpFields
<1>9. /\ \A m, n \in 1 .. Len(op.order) : op.order[m][1] = op.order[n][1] => m = n
      /\ \A n \in 1 .. Len(op.order) :
           \A k \in DOMAIN mem : k[1] = op.order[n][1] => k[2] <= op.order[n][2]
  <2>1. \A n \in 1 .. Len(op.order) : n < op.idx \/ n = op.idx
    BY <1>1
  <2> QED BY <1>0, <2>1 DEF Sync
<1>10. op.start = mem /\ (~op.raced => \A l \in Passed(op) :
         inst[l[1]] = l[2] => field[l[1]] = op.before[l[1]])
  BY DEF AdminInv, ReadAsFound
<1>11. op.order \in Seq(Key) /\ op.request \in [Slot -> State]
       /\ \A n \in 1 .. Len(op.order) : op.order[n][2] <= born[op.order[n][1]]
  BY <1>0 DEF Types, Operation
<1>12. keys = {p.order[n] : n \in 1 .. Len(p.order)}
  BY <1>6
<1>13. Members(op') = keys /\ keys \subseteq Key /\ \A k \in keys : k[1] \in Slot
  <2>1. Members(op') = keys /\ keys \subseteq Key
    BY <1>8, <1>11 DEF Members
  <2> QED BY <1>0, <2>1, KeyParts DEF Types
<1>14. \A l \in keys : l = Here \/ (l \in Passed(op) /\ l[1] # Place)
  <2> SUFFICES ASSUME NEW n \in 1 .. Len(op.order), op.order[n] # Here
               PROVE  op.order[n] \in Passed(op) /\ op.order[n][1] # Place
    OBVIOUS
  <2>1. n # op.idx
    BY <1>1
  <2>2. n \in 1 .. op.idx - 1
    BY <1>1, <2>1
  <2>3. op.order[n] \in Passed(op)
    BY <2>2 DEF Passed
  <2>4. op.order[n][1] # Place
    BY <1>1, <1>9, <2>1
  <2> QED BY <2>3, <2>4
<1>15. \A l, m \in keys : l[1] = m[1] => l = m
  BY <1>9
<1>16. \A l \in keys : Newest(mem, l)
  BY <1>9 DEF Newest
<1> HIDE DEF keys
<1>17. Prepares(w, keys, b, op.request)
  <2>1. /\ p.order \in Seq(Key) /\ p.before \in [Slot -> State] /\ p.request \in [Slot -> State]
        /\ \A m, n \in 1 .. Len(p.order) : p.order[m][1] = p.order[n][1] => m = n
        /\ \A n \in 1 .. Len(p.order) : p.order[n][2] <= born[p.order[n][1]]
    BY ONLY <1>3, <1>5, <1>6, <1>9, <1>11
  <2>2. Prepares(w, keys, p.before, p.request)
    BY ONLY <1>0, <1>12, <2>1, w = Prepared(p), PreparedParts
  <2> QED BY ONLY <1>5, <1>6, <2>2
<1>18. ASSUME NEW l \in keys, l \in DOMAIN mem
       PROVE  Spares(mem[l], b[l[1]], w.want[l[1]])
  <2>1. mem[l] \in Entry /\ Disjoint(mem[l])
    BY <1>0, <1>18 DEF Types, Process, Fit, Journal, Decodes, Disjoint
  <2>2. b[l[1]] \in State /\ op.request[l[1]] \in State
    BY <1>3, <1>11, <1>13
  <2>3. w.want[l[1]] = NextEntry(mem, l, b[l[1]], op.request[l[1]]).desired
    BY ONLY <1>17, l \in keys DEF Prepares
  <2>4. w.want[l[1]] = Claim(Still(mem[l], b[l[1]]), b[l[1]], op.request[l[1]]).desired
    BY <1>18, <2>3 DEF NextEntry, HeldEntry
  <2> QED BY ONLY <2>1, <2>2, <2>4, NextSpares
<1>19. ASSUME NEW l \in keys, ~op.raced, inst[l[1]] = l[2]
       PROVE  OneOf(field[l[1]], b[l[1]], w.want[l[1]])
  <2>1. field[l[1]] = b[l[1]]
    <3>1. CASE l = Here
      BY <1>1, <1>3, <3>1
    <3>2. CASE l \in Passed(op) /\ l[1] # Place
      BY <1>3, <1>10, <1>13, <1>19, <3>2
    <3> QED BY <1>14, <3>1, <3>2
  <2> QED BY <2>1 DEF OneOf
<1>20. MembersSpared(op', field', inst')
  <2>1. ASSUME NEW l \in keys
        PROVE  /\ Newest(op'.start, l)
               /\ l \in DOMAIN op'.start =>
                    Spares(op'.start[l], op'.before[l[1]], op'.want[l[1]])
               /\ ~op'.raced /\ inst'[l[1]] = l[2] =>
                    OneOf(field'[l[1]], op'.before[l[1]], op'.want[l[1]])
    BY ONLY <1>2, <1>7, <1>8, <1>10, <1>16, <1>18, <1>19, <2>1
  <2> QED BY ONLY <1>13, <1>15, <2>1 DEF MembersSpared
<1> QED BY <1>7, <1>8, <1>20 DEF AdminInv, ReadAsFound, HandSpared, Returned, Writing

\* An instance that is given back is read.
LEMMA AdminReadGoal ==
  ASSUME InstInv, AdminInv, op.at = "read", op.kind # "apply",
         op' = [op EXCEPT !.at = "open", !.cur = field[Place], !.tgt = Goal(field[Place])],
         UNCHANGED <<worldVars, mem>>
  PROVE  AdminInv'
<1>0. Types /\ Control /\ Sync /\ op.at \in Steps /\ DOMAIN op = OpFields
  BY DEF InstInv, Types, Operation, Steps
<1>1. /\ Here \in Members(op) /\ Place \in Slot /\ Here = op.order[op.idx] /\ Here[1] = Place
      /\ op.kind \in {"rollback", "restore", "recover"}
  BY <1>0, HereParts DEF Control, Steps, Place
<1>2. inst' = inst /\ field' = field /\ mem' = mem
  BY DEF worldVars
<1> DEFINE cur == field[Place]
           g == Goal(cur)
<1>3. cur \in State /\ g = Goal(cur)
  BY <1>0, <1>1 DEF Types, World
<1>4. /\ g \in State
      /\ op.kind = "rollback" => \A f \in Field :
           g[f] = IF /\ op.before[Place][f] # op.want[Place][f]
                     /\ cur[f] \in {op.want[Place][f], op.before[Place][f]}
                  THEN op.before[Place][f] ELSE cur[f]
      /\ op.kind # "rollback" => Here \in DOMAIN mem /\ \A f \in Field :
           g[f] = IF /\ f \in mem[Here].owned
                     /\ cur[f] \in {mem[Here].applied[f], mem[Here].desired[f]}
                  THEN mem[Here].original[f] ELSE cur[f]
  <2> HIDE DEF g, cur
  <2> QED BY ONLY <1>0, <1>3, GoalParts, op.kind # "apply"
<1> HIDE DEF g
<1>5. op' = [op EXCEPT !.at = "open", !.cur = cur, !.tgt = g]
  BY DEF g
<1>6. cur = field'[Place]
  BY <1>2
<1> HIDE DEF cur
<1>7. /\ op'.at = "open" /\ op'.cur = cur /\ op'.tgt = g /\ op'.kind = op.kind
      /\ op'.order = op.order /\ op'.idx = op.idx /\ op'.start = op.start
      /\ op'.before = op.before /\ op'.want = op.want /\ op'.raced = op.raced
  BY ONLY <1>0, <1>5 DEF OpFields
<1>8. Members(op') = Members(op)
  BY <1>7 DEF Members
<1>9. MembersSpared(op', field', inst')
  BY <1>2, <1>7, <1>8, op.kind # "apply" DEF AdminInv, MembersSpared, InBatch
<1>10. HandSpared(op', inst')
  <2> SUFFICES ASSUME op.kind = "rollback", ~op.raced, inst[Place] = Here[2]
               PROVE  g = op.before[Place]
    BY <1>1, <1>2, <1>7 DEF HandSpared, InBatch
  <2>1. OneOf(cur, op.before[Place], op.want[Place])
    BY <1>1, <1>2, <1>6 DEF AdminInv, MembersSpared, InBatch
  <2>2. \A f \in Field : g[f] = op.before[Place][f]
    BY <1>4, <2>1 DEF OneOf
  <2>3. op.before[Place] \in State
    BY <1>0, <1>1 DEF Types, Operation
  <2> QED BY <1>4, <2>2, <2>3 DEF State
<1>11. Returned(op', field', inst', mem')
  <2> SUFFICES ASSUME op.kind \in {"restore", "recover"}
               PROVE  /\ op.start = mem /\ Newest(op.start, Here)
                      /\ Returns(mem[Here], cur, g) /\ OneOf(cur, cur, g)
    BY <1>1, <1>2, <1>6, <1>7 DEF Returned
  <2>1. op.start = mem /\ Newest(op.start, Here)
    BY <1>1 DEF AdminInv, Returned
  <2>2. Returns(mem[Here], cur, g)
    BY <1>4 DEF Returns
  <2>3. OneOf(cur, cur, g)
    BY DEF OneOf
  <2> QED BY <2>1, <2>2, <2>3
<1>12. ReadAsFound(op', field', inst', mem')
  BY <1>7 DEF ReadAsFound
<1> QED BY <1>9, <1>10, <1>11, <1>12 DEF AdminInv

\* Every way a read ends.
LEMMA AdminRead ==
  ASSUME InstInv, AdminInv, Read
  PROVE  AdminInv'
<1>0. op.at = "read" /\ op.at \in Steps /\ UNCHANGED worldVars
  BY DEF Read, Steps
<1>1. PICK p : p = [op EXCEPT !.before[Place] = field[Place]]
  OBVIOUS
<1>2. PICK w : w = Prepared(p)
  OBVIOUS
<1>3. CASE /\ op.kind = "apply" /\ op.idx < Len(op.order)
           /\ op' = [p EXCEPT !.at = "verify", !.idx = @ + 1] /\ UNCHANGED mem
  BY <1>0, <1>1, <1>3, AdminReadNext
<1>4. CASE /\ op.kind = "apply" /\ op.idx = Len(op.order) /\ mem' = w.mem
           /\ op' = [p EXCEPT !.at = "persistIntent", !.saved = w.saved, !.want = w.want,
                              !.request = Idle.request]
  BY <1>0, <1>1, <1>2, <1>4, AdminReadLast
<1>5. CASE /\ op.kind # "apply"
           /\ op' = [op EXCEPT !.at = "open", !.cur = field[Place], !.tgt = Goal(field[Place])]
           /\ UNCHANGED mem
  BY <1>0, <1>5, AdminReadGoal
<1>6. CASE StepFails /\ UNCHANGED mem
  <2>1. inst' = inst /\ field' = field /\ mem' = mem
    BY <1>0, <1>6 DEF worldVars
  <2>2. MembersSpared(op, field', inst)
    BY <2>1, SparedStill
  <2> QED BY <1>0, <1>6, <2>1, <2>2, AdminFails
<1> QED BY <1>1, <1>2, <1>3, <1>4, <1>5, <1>6 DEF Read

\* What the instance at hand is written between.
From == IF op.kind \in {"apply", "rollback"} THEN op.before[Place] ELSE op.cur
To == IF op.kind \in {"apply", "rollback"} THEN op.want[Place] ELSE op.tgt

\* It is one or the other in every field, and so is what is written to it.
LEMMA HandOneOf ==
  ASSUME InstInv, AdminInv, op.at \in Writing, ~op.raced, Current
  PROVE  /\ OneOf(field[Place], From, To) /\ OneOf(Wanted, From, To)
         /\ op.at = "fields" => OneOf(op.base, From, To)
<1>0. Types /\ Control /\ op.at \in Steps
  BY DEF InstInv, Writing, Steps
<1>1. /\ Here \in Members(op) /\ Here = op.order[op.idx] /\ Here[1] = Place
      /\ op.kind \in {"apply", "rollback", "restore", "recover"}
  BY <1>0, HereParts DEF Control, Steps, Place
<1>2. CASE op.kind \in {"apply", "rollback"}
  <2>1. From = op.before[Place] /\ To = op.want[Place] /\ InBatch(op)
    BY <1>2 DEF From, To, InBatch, Writing
  <2>2. OneOf(field[Place], op.before[Place], op.want[Place])
    BY <1>1, <2>1 DEF AdminInv, MembersSpared, Current
  <2>3. /\ op.kind = "rollback" => op.tgt = op.before[Place]
        /\ op.at = "fields" => OneOf(op.base, op.before[Place], op.want[Place])
    BY <1>1, <2>1 DEF AdminInv, HandSpared, Current
  <2>4. OneOf(Wanted, op.before[Place], op.want[Place])
    BY <1>2, <2>3 DEF Wanted, OneOf
  <2> QED BY <2>1, <2>2, <2>3, <2>4
<1>3. CASE op.kind \in {"restore", "recover"}
  <2>1. From = op.cur /\ To = op.tgt /\ Wanted = op.tgt
    BY <1>3 DEF From, To, Wanted
  <2>2. OneOf(field[Place], op.cur, op.tgt) /\ (op.at = "fields" => OneOf(op.base, op.cur, op.tgt))
    BY <1>1, <1>3 DEF AdminInv, Returned, Current
  <2>3. OneOf(op.tgt, op.cur, op.tgt)
    BY DEF OneOf
  <2> QED BY <2>1, <2>2, <2>3
<1> QED BY <1>1, <1>2, <1>3

\* The members of a batch, when only the instance at hand changes.
LEMMA SparedMixed ==
  ASSUME InstInv, AdminInv, op.at \in Writing,
         \A s \in Slot : s # Place => field'[s] = field[s],
         ~op.raced /\ Current => OneOf(field'[Place], From, To)
  PROVE  MembersSpared(op, field', inst)
<1>0. Types /\ Control /\ op.at \in Steps
  BY DEF InstInv, Writing, Steps
<1>1. Here \in Members(op) /\ Here[1] = Place
  BY <1>0, HereParts DEF Place
<1>2. ASSUME InBatch(op), NEW l \in Members(op), ~op.raced, inst[l[1]] = l[2]
      PROVE  OneOf(field'[l[1]], op.before[l[1]], op.want[l[1]])
  <2>1. CASE l[1] = Place
    <3>1. l = Here
      BY <1>1, <1>2, <2>1 DEF AdminInv, MembersSpared
    <3>2. Current
      BY <1>2, <3>1 DEF Current, Place
    <3>3. From = op.before[Place] /\ To = op.want[Place]
      BY <1>2 DEF InBatch, From, To
    <3> QED BY <1>2, <2>1, <3>2, <3>3
  <2>2. CASE l[1] # Place
    <3>1. l \in Key
      BY <1>0 DEF Members, Types, Operation
    <3>2. field'[l[1]] = field[l[1]]
      BY <1>0, <2>2, <3>1, KeyParts DEF Types
    <3> QED BY <1>2, <3>2 DEF AdminInv, MembersSpared
  <2> QED BY <2>1, <2>2
<1> QED BY <1>2 DEF AdminInv, MembersSpared

\* The instance at hand is being written.
LEMMA AdminOnward ==
  ASSUME InstInv, AdminInv, op.at \in Writing, op'.at \in Writing,
         \A g \in OpFields \ {"at", "base", "todo", "done", "attempted"} : op'[g] = op[g],
         inst' = inst, mem' = mem,
         \A s \in Slot : s # Place => field'[s] = field[s],
         ~op.raced /\ Current =>
           /\ OneOf(field'[Place], From, To)
           /\ op'.at = "fields" => OneOf(op'.base, From, To)
  PROVE  AdminInv'
<1>0. Types /\ Control /\ op.at \in Steps
  BY DEF InstInv, Writing, Steps
<1>1. /\ Here = op.order[op.idx] /\ Here[1] = Place
      /\ op.kind \in {"apply", "rollback", "restore", "recover"}
  BY <1>0, HereParts DEF Control, Steps, Place
<1>2. MembersSpared(op, field', inst)
  BY SparedMixed
<1>3. /\ op'.kind = op.kind /\ op'.order = op.order /\ op'.idx = op.idx
      /\ op'.start = op.start /\ op'.before = op.before /\ op'.want = op.want
      /\ op'.cur = op.cur /\ op'.tgt = op.tgt /\ op'.raced = op.raced
  BY DEF OpFields
<1>4. Members(op') = Members(op) /\ (InBatch(op') <=> InBatch(op))
      /\ (InBatch(op) <=> op.kind \in {"apply", "rollback"})
  BY <1>1, <1>3 DEF Members, InBatch, Writing
<1>5. MembersSpared(op', field', inst')
  BY <1>2, <1>3, <1>4 DEF MembersSpared
<1>6. HandSpared(op', inst')
  <2> SUFFICES ASSUME op.kind \in {"apply", "rollback"}, ~op.raced, Current
               PROVE  /\ op.kind = "rollback" => op.tgt = op.before[Place]
                      /\ op'.at = "fields" => OneOf(op'.base, op.before[Place], op.want[Place])
    BY <1>1, <1>3, <1>4 DEF HandSpared, Current
  <2>1. op.kind = "rollback" => op.tgt = op.before[Place]
    BY <1>1, <1>4 DEF AdminInv, HandSpared, Current
  <2> QED BY <2>1 DEF From, To
<1>7. Returned(op', field', inst', mem')
  <2> SUFFICES ASSUME op.kind \in {"restore", "recover"}
               PROVE  /\ op.start = mem /\ Newest(op.start, Here)
                      /\ Returns(op.start[Here], op.cur, op.tgt)
                      /\ ~op.raced /\ Current =>
                           /\ OneOf(field'[Place], op.cur, op.tgt)
                           /\ op'.at = "fields" => OneOf(op'.base, op.cur, op.tgt)
    BY <1>1, <1>3 DEF Returned, Current
  <2>1. /\ op.start = mem /\ Newest(op.start, Here) /\ Returns(op.start[Here], op.cur, op.tgt)
    BY <1>1 DEF AdminInv, Returned
  <2>2. From = op.cur /\ To = op.tgt
    BY DEF From, To
  <2> QED BY <2>1, <2>2
<1>8. ReadAsFound(op', field', inst', mem')
  BY DEF ReadAsFound, Writing
<1> QED BY <1>5, <1>6, <1>7, <1>8 DEF AdminInv

\* The intents are stored, or the actuator gives up.
LEMMA AdminPersistIntent ==
  ASSUME InstInv, AdminInv, PersistIntent
  PROVE  AdminInv'
<1>0. /\ op.at = "persistIntent" /\ op.kind = "apply" /\ DOMAIN op = OpFields
      /\ inst' = inst /\ field' = field /\ mem' = mem
  BY DEF PersistIntent, InstInv, Types, Operation, Control, worldVars
<1>1. CASE op' = [op EXCEPT !.at = "open", !.idx = 1]
  <2>1. /\ op'.at = "open" /\ op'.kind = "apply" /\ op'.order = op.order /\ op'.start = op.start
        /\ op'.before = op.before /\ op'.want = op.want /\ op'.raced = op.raced
    BY <1>0, <1>1 DEF OpFields
  <2>2. Members(op') = Members(op) /\ InBatch(op)
    BY <1>0, <2>1 DEF Members, InBatch
  <2>3. MembersSpared(op', field', inst')
    BY <1>0, <2>1, <2>2 DEF AdminInv, MembersSpared
  <2> QED BY <2>1, <2>3 DEF AdminInv, ReadAsFound, HandSpared, Returned
<1>2. CASE Degrade
  BY <1>2, IdleParts, AdminRests DEF Degrade, Return
<1> QED BY <1>1, <1>2 DEF PersistIntent

\* Every way the last check before a write ends.
LEMMA AdminOpen ==
  ASSUME InstInv, AdminInv, Open
  PROVE  AdminInv'
<1>0. /\ op.at = "open" /\ op.at \in Writing /\ op.at \in Steps /\ DOMAIN op = OpFields
      /\ inst' = inst /\ field' = field /\ mem' = mem
  BY DEF Open, Writing, Steps, InstInv, Types, Operation, worldVars
<1>1. MembersSpared(op, field', inst)
  BY <1>0, SparedStill
<1>2. CASE op' = Following(op)
  BY <1>0, <1>1, <1>2, AdminFollows
<1>3. CASE op' = [op EXCEPT !.at = "original",
                    !.attempted = IF op.kind = "apply" THEN @ \cup {Here} ELSE @]
  <2> DEFINE a == IF op.kind = "apply" THEN op.attempted \cup {Here} ELSE op.attempted
  <2>1. op' = [op EXCEPT !.at = "original", !.attempted = a]
    BY <1>3
  <2> HIDE DEF a
  <2>2. /\ op'.at = "original"
        /\ \A g \in OpFields \ {"at", "base", "todo", "done", "attempted"} : op'[g] = op[g]
    BY ONLY <1>0, <2>1 DEF OpFields
  <2>3. op'.at \in Writing /\ op'.at # "fields"
    BY <2>2 DEF Writing
  <2> QED BY <1>0, <2>2, <2>3, HandOneOf, AdminOnward
<1>4. CASE StepFails
  BY <1>0, <1>1, <1>4, AdminFails
<1>5. CASE Degrade
  BY <1>5, IdleParts, AdminRests DEF Degrade, Return
<1> QED BY <1>2, <1>3, <1>4, <1>5 DEF Open

\* The backend reads the fields it is about to write.
LEMMA AdminReadOriginal ==
  ASSUME InstInv, AdminInv, ReadOriginal
  PROVE  AdminInv'
<1>0. /\ op.at = "original" /\ op.at \in Writing /\ DOMAIN op = OpFields
      /\ inst' = inst /\ field' = field /\ mem' = mem
  BY DEF ReadOriginal, Writing, InstInv, Types, Operation, worldVars
<1> DEFINE base == field[Place]
           todo == IF family = "unit" THEN Field ELSE Changed(field[Place], Wanted)
<1>1. op' = [op EXCEPT !.at = "fields", !.base = base, !.todo = todo]
  BY DEF ReadOriginal
<1> HIDE DEF base, todo
<1>2. /\ op'.at = "fields" /\ op'.base = base
      /\ \A g \in OpFields \ {"at", "base", "todo", "done", "attempted"} : op'[g] = op[g]
  BY ONLY <1>0, <1>1 DEF OpFields
<1>3. op'.at \in Writing
  BY <1>2 DEF Writing
<1> QED BY <1>0, <1>2, <1>3, HandOneOf, AdminOnward DEF base

\* A mixture of what the instance at hand shows and of w.
LEMMA HandMixes ==
  ASSUME InstInv, NEW F, NEW w \in State, op.at \in Writing,
         field' = [field EXCEPT ![Place] = Copy(F, field[Place], w)],
         ~op.raced /\ Current =>
           OneOf(field[Place], From, To) /\ (F # {} => OneOf(w, From, To))
  PROVE  /\ \A s \in Slot : s # Place => field'[s] = field[s]
         /\ ~op.raced /\ Current => OneOf(field'[Place], From, To)
<1>0. Types /\ Control /\ op.at \in Steps
  BY DEF InstInv, Writing, Steps
<1>1. Place \in Slot
  BY <1>0, HereParts
<1>2. field \in [Slot -> State] /\ field[Place] \in State
  BY <1>0, <1>1 DEF Types, World
<1> DEFINE y == Copy(F, field[Place], w)
<1>3. \A f \in Field : y[f] = IF f \in F THEN w[f] ELSE field[Place][f]
  BY <1>2, CopyParts
<1>4. field' = [field EXCEPT ![Place] = y]
  OBVIOUS
<1> HIDE DEF y
<1>5. field'[Place] = y /\ \A s \in Slot : s # Place => field'[s] = field[s]
  BY <1>1, <1>2, <1>4
<1>6. ~op.raced /\ Current => OneOf(y, From, To)
  BY <1>3 DEF OneOf
<1> QED BY <1>5, <1>6

\* Fields are written.
LEMMA AdminWriteFields ==
  ASSUME InstInv, AdminInv, WriteFields
  PROVE  AdminInv'
<1>0. /\ op.at = "fields" /\ op.at \in Writing /\ DOMAIN op = OpFields
      /\ inst' = inst /\ mem' = mem
  BY DEF WriteFields, Writing, InstInv, Types, Operation
<1>1. PICK F : /\ field' = [field EXCEPT ![Place] = Copy(F, field[Place], Wanted)]
               /\ op' = [op EXCEPT !.todo = @ \ F, !.done = @ \cup F]
  BY DEF WriteFields
<1>2. PICK w \in State : w = Wanted
  BY <1>0, WantedKnown
<1>3. /\ ~op.raced /\ Current => OneOf(field[Place], From, To) /\ OneOf(w, From, To)
      /\ ~op.raced /\ Current => OneOf(op.base, From, To)
  BY <1>0, <1>2, HandOneOf
<1>4. /\ \A s \in Slot : s # Place => field'[s] = field[s]
      /\ ~op.raced /\ Current => OneOf(field'[Place], From, To)
  BY <1>0, <1>1, <1>2, <1>3, HandMixes
<1>5. \A g \in OpFields \ {"todo", "done"} : op'[g] = op[g]
  BY ONLY <1>0, <1>1 DEF OpFields
<1>6. op'.at \in Writing /\ op'.base = op.base
  BY <1>0, <1>5 DEF OpFields
<1> QED BY <1>0, <1>3, <1>4, <1>5, <1>6, AdminOnward

\* The fields read back are the ones wanted.
LEMMA AdminReadBack ==
  ASSUME InstInv, AdminInv, ReadBack
  PROVE  AdminInv'
<1>0. /\ op.at = "fields" /\ op.at \in Writing /\ op.at \in Steps /\ DOMAIN op = OpFields
      /\ inst' = inst /\ field' = field /\ op' = Following(op)
  BY DEF ReadBack, Writing, Steps, InstInv, Types, Operation, worldVars
<1>1. op.kind # "apply" => mem' = mem
  BY DEF ReadBack
<1>2. MembersSpared(op, field', inst)
  BY <1>0, SparedStill
<1> QED BY <1>0, <1>1, <1>2, AdminFollows

\* A write fails and the backend takes back what it can.
LEMMA AdminWriteFails ==
  ASSUME InstInv, AdminInv, WriteFails
  PROVE  AdminInv'
<1>0. /\ op.at \in Writing /\ op.at \in Steps /\ inst' = inst /\ mem' = mem /\ StepFails
      /\ (op.done # {} => op.at = "fields")
  BY DEF WriteFails, Writing, Steps, InstInv, Control
<1>1. PICK F \in TakenBack : field' = [field EXCEPT ![Place] = Copy(F, field[Place], op.base)]
  BY DEF WriteFails
<1>2. F # {} => op.at = "fields"
  BY <1>0, <1>1 DEF TakenBack
<1>3. PICK w \in State : w = op.base
  BY DEF InstInv, Types, Operation
<1>4. ~op.raced /\ Current => OneOf(field[Place], From, To) /\ (F # {} => OneOf(w, From, To))
  BY <1>0, <1>2, <1>3, HandOneOf
<1>5. /\ \A s \in Slot : s # Place => field'[s] = field[s]
      /\ ~op.raced /\ Current => OneOf(field'[Place], From, To)
  BY <1>0, <1>1, <1>3, <1>4, HandMixes
<1>6. MembersSpared(op, field', inst)
  BY <1>0, <1>5, SparedMixed
<1> QED BY <1>0, <1>6, AdminFails

\* The batch is stored, or taken back.
LEMMA AdminPersistApplied ==
  ASSUME InstInv, AdminInv, PersistApplied
  PROVE  AdminInv'
<1>0. /\ op.at = "persistApplied" /\ op.kind = "apply" /\ inst' = inst /\ field' = field
  BY DEF PersistApplied, InstInv, Control, worldVars
<1>1. CASE Return(mode)
  BY <1>1, IdleParts, AdminRests DEF Return
<1>2. CASE StartRollback(TRUE)
  <2>1. MembersSpared(op, field', inst) /\ op.at \in Writing \cup {"persistApplied"}
    BY <1>0, SparedStill
  <2> QED BY <1>0, <1>2, <2>1, AdminTakesBack
<1> QED BY <1>1, <1>2 DEF PersistApplied

\* An operation ends, the daemon stops or starts.
LEMMA AdminEnds ==
  ASSUME Finish \/ Crash \/ New
  PROVE  AdminInv'
<1>1. op' = Idle \/ op' = [Idle EXCEPT !.at = "down"]
  BY DEF Finish, Crash, New, Degrade, Return
<1>2. op'.kind = "none"
  BY <1>1, IdleParts DEF OpFields
<1> QED BY <1>2, AdminRests

\* Every step keeps the invariant.
LEMMA AdminStep ==
  ASSUME InstInv, AdminInv, Next
  PROVE  AdminInv'
<1>1. ASSUME NEW s \in Slot, Exit(s) \/ Spawn(s) \/ \E f \in Field : Foreign(s, f)
      PROVE  AdminInv'
  BY <1>1, AdminExit, AdminSpawn, AdminForeign
<1>2. CASE Restore \/ Recover
  BY <1>2, AdminGives DEF Restore, Recover
<1> QED BY <1>1, <1>2, AdminApply, AdminVerify, AdminRead, AdminPersistIntent, AdminOpen,
           AdminReadOriginal, AdminWriteFields, AdminReadBack, AdminWriteFails,
           AdminPersistApplied, AdminEnds DEF Next

\* Writes of others are counted.
LEMMA WritesCounted ==
  ASSUME writes \in Nat, [Next]_vars
  PROVE  writes' \in Nat
<1>1. ASSUME NEW s \in Slot, Exit(s) \/ Spawn(s) \/ \E f \in Field : Foreign(s, f)
      PROVE  writes' \in Nat
  BY <1>1 DEF Exit, Spawn, Foreign
<1>2. CASE Apply \/ Restore \/ Recover \/ Verify \/ Read \/ PersistIntent \/ Open
  BY <1>2 DEF Apply, Restore, Recover, GiveBack, Verify, Read, PersistIntent, Open, worldVars
<1>3. CASE ReadOriginal \/ WriteFields \/ ReadBack \/ WriteFails \/ PersistApplied
  BY <1>3 DEF ReadOriginal, WriteFields, ReadBack, WriteFails, PersistApplied, worldVars
<1>4. CASE Finish \/ Crash \/ New
  BY <1>4 DEF Finish, Crash, New, worldVars
<1>5. CASE UNCHANGED vars
  BY <1>5 DEF vars, worldVars
<1> QED BY <1>1, <1>2, <1>3, <1>4, <1>5 DEF Next

\* The fields of an occupant change when they are written, and in no other way.
LEMMA OnlyWrites ==
  ASSUME InstInv, writes \in Nat, [Next]_vars, field' # field, inst' = inst, writes' = writes
  PROVE  WriteFields \/ WriteFails
<1>1. ASSUME NEW s \in Slot, Exit(s) \/ Spawn(s) \/ \E f \in Field : Foreign(s, f)
      PROVE  FALSE
  <2>0. inst \in [Slot -> Nat] /\ born[s] \in Nat
    BY DEF InstInv, Types, World
  <2>1. CASE Exit(s)
    BY <2>0, <2>1 DEF Exit
  <2>2. CASE Spawn(s)
    <3>1. inst'[s] = born[s] + 1 /\ inst[s] = 0
      BY <2>0, <2>2 DEF Spawn
    <3> QED BY <2>0, <3>1
  <2>3. CASE \E f \in Field : Foreign(s, f)
    <3>1. writes' = writes + 1
      BY <2>3 DEF Foreign
    <3> QED BY <3>1
  <2> QED BY <1>1, <2>1, <2>2, <2>3
<1>2. CASE Apply \/ Restore \/ Recover \/ Verify \/ Read \/ PersistIntent \/ Open
  BY <1>2 DEF Apply, Restore, Recover, GiveBack, Verify, Read, PersistIntent, Open, worldVars
<1>3. CASE ReadOriginal \/ ReadBack \/ PersistApplied
  BY <1>3 DEF ReadOriginal, ReadBack, PersistApplied, worldVars
<1>4. CASE Finish \/ Crash \/ New
  BY <1>4 DEF Finish, Crash, New, worldVars
<1>5. CASE UNCHANGED vars
  BY <1>5 DEF vars, worldVars
<1> QED BY <1>1, <1>2, <1>3, <1>4, <1>5 DEF Next

\* What is written to the instance at hand is a mixture of what it shows and of
\* something that is in every field what it was or what it is to be.
LEMMA WritesMix ==
  ASSUME InstInv, AdminInv, WriteFields \/ WriteFails
  PROVE  /\ op.at \in Writing /\ \A s \in Slot : s # Place => field'[s] = field[s]
         /\ ~op.raced /\ Current =>
              OneOf(field[Place], From, To) /\ OneOf(field'[Place], From, To)
<1>1. CASE WriteFields
  <2>0. op.at = "fields" /\ op.at \in Writing
    BY <1>1 DEF WriteFields, Writing
  <2>1. PICK F : field' = [field EXCEPT ![Place] = Copy(F, field[Place], Wanted)]
    BY <1>1 DEF WriteFields
  <2>2. PICK w \in State : w = Wanted
    BY <2>0, WantedKnown
  <2>3. ~op.raced /\ Current => OneOf(field[Place], From, To) /\ OneOf(w, From, To)
    BY <2>0, <2>2, HandOneOf
  <2> QED BY <2>0, <2>1, <2>2, <2>3, HandMixes
<1>2. CASE WriteFails
  <2>0. op.at \in Writing /\ (op.done # {} => op.at = "fields")
    BY <1>2 DEF WriteFails, Writing, InstInv, Control
  <2>1. PICK F \in TakenBack : field' = [field EXCEPT ![Place] = Copy(F, field[Place], op.base)]
    BY <1>2 DEF WriteFails
  <2>2. F # {} => op.at = "fields"
    BY <2>0, <2>1 DEF TakenBack
  <2>3. PICK w \in State : w = op.base
    BY DEF InstInv, Types, Operation
  <2>4. ~op.raced /\ Current => OneOf(field[Place], From, To) /\ (F # {} => OneOf(w, From, To))
    BY <2>0, <2>2, <2>3, HandOneOf
  <2> QED BY <2>0, <2>1, <2>3, <2>4, HandMixes
<1> QED BY <1>1, <1>2

\* An occupant that had an entry when the operation began, and that is written,
\* is the instance the operation means.
LEMMA WrittenIsMeant ==
  ASSUME InstInv, AdminInv, op.at \in Writing, NEW k, k = <<Place, inst[Place]>>,
         k \in DOMAIN op.start
  PROVE  Current /\ k = Here
<1>0. Types /\ Control /\ op.at \in Steps
  BY DEF InstInv, Writing, Steps
<1>1. /\ Here \in Key /\ Here \in Members(op) /\ Here = op.order[op.idx] /\ Place \in Slot
      /\ Here[1] = Place /\ Here = <<Place, Here[2]>>
      /\ op.kind \in {"apply", "rollback", "restore", "recover"}
  BY <1>0, HereParts DEF Control, Steps, Place
<1>2. Newest(op.start, Here)
  <2>1. CASE op.kind \in {"apply", "rollback"}
    <3>1. InBatch(op)
      BY <2>1 DEF InBatch, Writing
    <3> QED BY <1>1, <3>1 DEF AdminInv, MembersSpared
  <2>2. CASE op.kind \in {"restore", "recover"}
    BY <1>1, <2>2 DEF AdminInv, Returned
  <2> QED BY <1>1, <2>1, <2>2
<1>3. k \in Key
  BY <1>0 DEF Types, Process, Journal
<1>4. inst[Place] # 0 /\ inst[Place] \in Nat
  BY <1>0, <1>3, KeyParts DEF Types
<1>5. inst[Place] = born[Place]
  BY <1>0, <1>1, <1>4, OccupantKey DEF Types
<1>6. Here[2] <= born[Place] /\ Here[2] \in Nat
  BY <1>0, <1>1, KeyParts DEF Types, Operation, Members
<1>7. inst[Place] <= Here[2]
  BY <1>1, <1>2 DEF Newest
<1>8. inst[Place] = Here[2]
  BY <1>4, <1>5, <1>6, <1>7
<1> QED BY <1>1, <1>8 DEF Current

\* A field that is written was not given up, and is what the journal knew, or
\* what the operation itself has written.
LEMMA AdminWins ==
  ASSUME InstInv, AdminInv, writes \in Nat, [Next]_vars, NEW s \in Slot, NEW f \in Field,
         field'[s][f] # field[s][f], inst' = inst, writes' = writes, ~op.raced,
         NEW k, k = <<s, inst[s]>>, k \in DOMAIN op.start
  PROVE  /\ f \notin op.start[k].relinquished
         /\ f \in op.start[k].owned =>
              field[s][f] \in {op.start[k].applied[f], op.start[k].desired[f],
                               op.want[s][f], op.tgt[f]}
<1>1. WriteFields \/ WriteFails
  BY OnlyWrites
<1>2. /\ op.at \in Writing /\ \A t \in Slot : t # Place => field'[t] = field[t]
      /\ ~op.raced /\ Current =>
           OneOf(field[Place], From, To) /\ OneOf(field'[Place], From, To)
  BY <1>1, WritesMix
<1>3. s = Place
  BY <1>2
<1>4. Current /\ k = Here
  BY <1>2, <1>3, WrittenIsMeant
<1>5. /\ field[Place][f] = From[f] \/ field[Place][f] = To[f]
      /\ From[f] # To[f]
  BY <1>2, <1>3, <1>4 DEF OneOf
<1>6. Types /\ Control /\ Sync /\ op.at \in Steps
  BY <1>2 DEF InstInv, Writing, Steps
<1>7. /\ Here \in Members(op) /\ Here = op.order[op.idx] /\ Here[1] = Place
      /\ op.kind \in {"apply", "rollback", "restore", "recover"}
  BY <1>6, HereParts DEF Control, Steps, Place
<1>8. CASE op.kind \in {"apply", "rollback"}
  <2>1. From = op.before[Place] /\ To = op.want[Place] /\ InBatch(op)
    BY <1>2, <1>8 DEF From, To, InBatch, Writing
  <2>2. Spares(op.start[k], op.before[Place], op.want[Place])
    BY <1>4, <1>7, <2>1 DEF AdminInv, MembersSpared
  <2> QED BY <1>3, <1>5, <2>1, <2>2 DEF Spares
<1>9. CASE op.kind \in {"restore", "recover"}
  <2>1. From = op.cur /\ To = op.tgt
    BY <1>9 DEF From, To
  <2>2. op.start = mem /\ Returns(op.start[k], op.cur, op.tgt)
    BY <1>2, <1>4, <1>7, <1>9 DEF AdminInv, Returned
  <2>3. op.start[k].owned \cap op.start[k].relinquished = {}
    BY <1>6, <2>2 DEF Types, Process, Fit, Decodes
  <2> QED BY <1>3, <1>5, <2>1, <2>2, <2>3 DEF Returns
<1> QED BY <1>7, <1>8, <1>9

\* Whatever the store does, an operation that nobody interferes with touches no
\* field that was given up, and none whose value is not the one the journal knew
\* when the operation began.
THEOREM AdministratorHasLastWord == Spec => AdministratorWins
<1> DEFINE Inv == InstInv /\ AdminInv /\ writes \in Nat
<1>1. Init => Inv
  <2> SUFFICES ASSUME Init PROVE Inv
    OBVIOUS
  <2>1. op.kind = "none"
    BY IdleParts DEF Init, OpFields
  <2>2. AdminInv
    BY <2>1 DEF AdminInv, ReadAsFound, MembersSpared, HandSpared, Returned, InBatch
  <2> QED BY <2>2, InstInitially DEF Init
<1>2. Inv /\ [Next]_vars => Inv'
  <2> SUFFICES ASSUME Inv, [Next]_vars PROVE Inv'
    OBVIOUS
  <2>1. InstInv' /\ writes' \in Nat
    BY InstStep, InstStutters, WritesCounted
  <2>2. AdminInv'
    <3>1. CASE UNCHANGED vars
      BY <3>1 DEF vars, worldVars, AdminInv, ReadAsFound, MembersSpared, HandSpared, Returned
    <3> QED BY <3>1, AdminStep
  <2> QED BY <2>1, <2>2
<1>3. Inv /\ [Next]_vars =>
        [\A s \in Slot : \A f \in Field :
           field'[s][f] # field[s][f] /\ inst' = inst /\ writes' = writes /\ ~op.raced =>
             LET k == <<s, inst[s]>>
             IN  k \in DOMAIN op.start =>
                   /\ f \notin op.start[k].relinquished
                   /\ f \in op.start[k].owned =>
                        field[s][f] \in {op.start[k].applied[f], op.start[k].desired[f],
                                         op.want[s][f], op.tgt[f]}]_vars
  BY AdminWins
<1> HIDE DEF Inv
<1> QED BY <1>1, <1>2, <1>3, PTL DEF Spec, AdministratorWins

-----------------------------------------------------------------------------
(* Plans and what validation makes of them.                                *)

PlanFields == {"affinity", "class", "prio", "umin", "umax"}

\* A plan whose fields are options.
Shaped(p) ==
  /\ DOMAIN p = PlanFields /\ \A f \in PlanFields : AtMostOne(p[f])
  /\ p.umin \subseteq Nat /\ p.umax \subseteq Nat

\* What validation and materialization make of a plan in effect.
Clamped(p) == \A lo \in p.umin, hi \in p.umax : lo <= hi
Placed(p, rt) ==
  p.class = {"fifo"} =>
    /\ rt.enabled /\ p.prio # {} /\ \A n \in p.prio : n <= rt.max
    /\ p.affinity # {} /\ \A a \in p.affinity : a \cap rt.housekeeping = {}
Effective(p, rt) ==
  /\ Shaped(p) /\ Clamped(p) /\ Placed(p, rt)
  /\ p.class # {"fifo"} => p.prio = {}

\* A thread's state that keeps its clamps and its class in order.
Ordered(k) ==
  /\ k.umin \in Nat /\ k.umax \in Nat /\ k.umin <= k.umax
  /\ k.class = "fifo" <=> k.prio # {}

CfgSafe(c) ==
  Effective(c.base, c.rt) /\ Effective(Merge(c.base, c.boost), c.rt)

\* What was decided concerns the workload's own threads, and leaves each of
\* them a CPU.
DecisionSafe(d, rt) ==
  /\ DOMAIN d = {"tasks", "unit", "due"}
  /\ \A t \in DOMAIN d.tasks :
       /\ t \in Thread \ ForeignWorker
       /\ Effective(d.tasks[t], rt) /\ {} \notin d.tasks[t].affinity
  /\ {} \notin d.unit

\* The inductive invariant.
SchedInv ==
  /\ CfgSafe(cfg)
  /\ DecisionSafe(decision, cfg.rt)
  /\ DOMAIN kernel = Thread /\ \A t \in Thread : Ordered(kernel[t])
  /\ NothingForgotten

-----------------------------------------------------------------------------
(* Validation and materialization.                                         *)

\* A patch of options over options leaves options.
LEMMA MergeShaped ==
  ASSUME NEW b, NEW p, Shaped(b), Shaped(p)
  PROVE  Shaped(Merge(b, p))
<1> DEFINE m == Merge(b, p)
<1>1. /\ DOMAIN m = PlanFields
      /\ \A f \in PlanFields : m[f] = IF p[f] # {} THEN p[f] ELSE b[f]
  BY DEF Merge, Shaped
<1>2. \A f \in PlanFields : m[f] = p[f] \/ m[f] = b[f]
  BY <1>1
<1> HIDE DEF m
<1>3. \A f \in PlanFields : AtMostOne(m[f])
  BY <1>2 DEF Shaped
<1>4. m.umin \subseteq Nat /\ m.umax \subseteq Nat
  BY <1>2 DEF Shaped, PlanFields
<1>5. Shaped(m)
  BY <1>1, <1>3, <1>4 DEF Shaped
<1> QED BY <1>5 DEF m

\* The affinity a CPU group gives the base plan.
LEMMA MaterializedPlan ==
  ASSUME NEW c, NEW p, NEW q, NEW aff,
         EffectiveValid(p, c.group # {}, c.rt), Shaped(p), FifoGroupValid(p, c),
         DOMAIN q = PlanFields, \A f \in PlanFields \ {"affinity"} : q[f] = p[f],
         q.affinity = IF p.affinity # {} \/ c.group = {} THEN p.affinity ELSE {GroupCpus(c)}
  PROVE  Effective(q, c.rt)
<1>1. q.class = p.class /\ q.prio = p.prio /\ q.umin = p.umin /\ q.umax = p.umax
  BY DEF PlanFields
<1>2. AtMostOne(q.affinity)
  BY DEF Shaped, AtMostOne, PlanFields
<1>3. Shaped(q)
  <2>1. \A f \in PlanFields : AtMostOne(q[f])
    BY <1>2 DEF Shaped
  <2> QED BY <2>1, <1>1 DEF Shaped
<1>4. Clamped(q)
  BY <1>1 DEF Clamped, EffectiveValid, PlanValid
<1>5. Placed(q, c.rt)
  BY <1>1 DEF Placed, EffectiveValid, FifoGroupValid
<1> QED BY <1>1, <1>3, <1>4, <1>5 DEF Effective, EffectiveValid

\* Whatever validation accepts is safe to evaluate.
LEMMA AcceptedIsSafe ==
  ASSUME NEW b \in Plans, NEW p \in Plans, NEW c \in Configs,
         ConfigValid(Document(b, p, c))
  PROVE  CfgSafe(Materialize(Document(b, p, c)))
<1> DEFINE d == Document(b, p, c)
           m == Materialize(d)
<1>1. /\ d.base = b /\ d.boost = p /\ d.group = c.group /\ d.rt = c.rt /\ d.class = c.class
      /\ DOMAIN d = {"base", "boost", "group", "rt", "enabled", "class", "rules", "focus",
                     "focusOn"}
  BY DEF Document
<1>2. Shaped(b) /\ Shaped(p)
  BY SchedulingConstants DEF Shaped, PlanFields
<1>3. /\ EffectiveValid(b, d.group # {}, d.rt) /\ (d.group # {} => b.affinity = {})
      /\ EffectiveValid(Merge(b, p), d.group # {}, d.rt)
      /\ FifoGroupValid(b, d) /\ FifoGroupValid(Merge(b, p), d)
  BY <1>1 DEF ConfigValid, ProfileValid, ReferencesValid
<1>4. /\ m.rt = d.rt /\ m.boost = p
      /\ m.base = [b EXCEPT !.affinity = IF d.group = {} THEN @ ELSE {GroupCpus(d)}]
  BY <1>1, SchedulingConstants DEF Materialize
<1> HIDE DEF d, m
<1>5. /\ DOMAIN m.base = PlanFields
      /\ \A f \in PlanFields \ {"affinity"} : m.base[f] = b[f]
      /\ m.base.affinity = IF d.group = {} THEN b.affinity ELSE {GroupCpus(d)}
  BY <1>2, <1>4 DEF Shaped, PlanFields
<1>6. Effective(m.base, d.rt)
  <2>1. m.base.affinity = IF b.affinity # {} \/ d.group = {} THEN b.affinity ELSE {GroupCpus(d)}
    BY <1>3, <1>5
  <2> QED BY <2>1, <1>2, <1>3, <1>5, MaterializedPlan
<1>7. Effective(Merge(m.base, p), d.rt)
  <2> DEFINE x == Merge(b, p)
             y == Merge(m.base, p)
  <2>1. /\ DOMAIN x = PlanFields /\ DOMAIN y = PlanFields
        /\ \A f \in PlanFields : /\ x[f] = IF p[f] # {} THEN p[f] ELSE b[f]
                                 /\ y[f] = IF p[f] # {} THEN p[f] ELSE m.base[f]
    BY <1>2, <1>5 DEF Merge, Shaped
  <2>2. Shaped(x)
    BY <1>2, MergeShaped
  <2>3. EffectiveValid(x, d.group # {}, d.rt) /\ FifoGroupValid(x, d)
    BY <1>3
  <2> HIDE DEF x, y
  <2>4. \A f \in PlanFields \ {"affinity"} : y[f] = x[f]
    BY <2>1, <1>5
  <2>5. y.affinity = IF x.affinity # {} \/ d.group = {} THEN x.affinity ELSE {GroupCpus(d)}
    <3>1. "affinity" \in PlanFields
      BY DEF PlanFields
    <3>2. /\ x.affinity = IF p.affinity # {} THEN p.affinity ELSE b.affinity
          /\ y.affinity = IF p.affinity # {} THEN p.affinity ELSE m.base.affinity
      BY <3>1, <2>1
    <3> QED BY <3>2, <1>3, <1>5
  <2>6. Effective(y, d.rt)
    BY <2>1, <2>2, <2>3, <2>4, <2>5, MaterializedPlan
  <2> QED BY <2>6 DEF y
<1>8. CfgSafe(m)
  BY <1>4, <1>6, <1>7 DEF CfgSafe
<1> QED BY <1>8 DEF m, d

-----------------------------------------------------------------------------
(* Evaluation and reconciliation.                                          *)

\* Only the workload's own threads are planned for.
LEMMA PlannedAreOwn ==
  ASSUME NEW w
  PROVE  Planned(w) \subseteq Thread \ ForeignWorker
<1>1. "leader" \in Thread \ ForeignWorker
  BY SchedulingConstants DEF Thread
<1> QED BY <1>1 DEF Planned

\* Taking offline CPUs out of a plan keeps it effective.
LEMMA OnlineIsEffective ==
  ASSUME NEW p, NEW rt, NEW cpus, Effective(p, rt)
  PROVE  Effective(Online(p, cpus), rt)
<1> DEFINE q == Online(p, cpus)
<1>0. DOMAIN p = PlanFields
  BY DEF Effective, Shaped
<1>1. /\ DOMAIN q = PlanFields /\ q.affinity = {a \cap cpus : a \in p.affinity}
      /\ \A f \in PlanFields \ {"affinity"} : q[f] = p[f]
  BY <1>0 DEF Online, PlanFields
<1> HIDE DEF q
<1>2. q.class = p.class /\ q.prio = p.prio /\ q.umin = p.umin /\ q.umax = p.umax
  BY <1>1 DEF PlanFields
<1>3. \A f \in PlanFields : AtMostOne(q[f])
  <2>1. AtMostOne(p.affinity)
    BY DEF Effective, Shaped, PlanFields
  <2>2. AtMostOne(q.affinity)
    BY <1>1, <2>1 DEF AtMostOne
  <2> QED BY <1>1, <2>2 DEF Effective, Shaped
<1>4. Shaped(q)
  BY <1>1, <1>2, <1>3 DEF Effective, Shaped
<1>5. Clamped(q)
  BY <1>2 DEF Effective, Clamped
<1>6. Placed(q, rt)
  <2> SUFFICES ASSUME p.class = {"fifo"}
               PROVE  /\ rt.enabled /\ q.prio # {} /\ \A n \in q.prio : n <= rt.max
                      /\ q.affinity # {} /\ \A a \in q.affinity : a \cap rt.housekeeping = {}
    BY <1>2 DEF Placed
  <2>1. /\ rt.enabled /\ p.prio # {} /\ \A n \in p.prio : n <= rt.max
        /\ p.affinity # {} /\ \A a \in p.affinity : a \cap rt.housekeeping = {}
    BY DEF Effective, Placed
  <2>2. q.affinity # {}
    <3>1. PICK a : a \in p.affinity
      BY <2>1
    <3>2. a \cap cpus \in q.affinity
      BY <1>1, <3>1
    <3> QED BY <3>2
  <2>3. ASSUME NEW a \in q.affinity
        PROVE  a \cap rt.housekeeping = {}
    <3>1. PICK whole \in p.affinity : a = whole \cap cpus
      BY <1>1
    <3>2. whole \cap rt.housekeeping = {}
      BY <2>1
    <3> QED BY <3>1, <3>2
  <2> QED BY <1>2, <2>1, <2>2, <2>3
<1>7. Effective(q, rt)
  BY <1>2, <1>4, <1>5, <1>6 DEF Effective
<1> QED BY <1>7 DEF q

\* The value of an option that is there.
LEMMA OnlyIsMember ==
  ASSUME NEW set, NEW default, set # {}
  PROVE  Only(set, default) \in set
BY DEF Only

\* A plan over an orderly thread leaves it orderly.
LEMMA ApplyKeepsOrder ==
  ASSUME NEW k, NEW p, NEW rt, Ordered(k), Effective(p, rt)
  PROVE  Ordered(ApplyPlan(k, p))
<1> DEFINE r == ApplyPlan(k, p)
<1>1. /\ r.class = Only(p.class, k.class)
      /\ r.prio = IF p.prio # {} THEN p.prio
                  ELSE IF p.class \in {{}, {"fifo"}} THEN k.prio ELSE {}
      /\ r.umin = IF p.umin = {} THEN k.umin
                  ELSE IF p.umax = {} THEN LowerOf(Only(p.umin, 0), k.umax) ELSE Only(p.umin, 0)
      /\ r.umax = IF p.umax = {} THEN k.umax
                  ELSE IF p.umin = {} THEN HigherOf(Only(p.umax, 0), k.umin) ELSE Only(p.umax, 0)
  BY DEF ApplyPlan
<1> HIDE DEF r
<1>2. r.umin \in Nat /\ r.umax \in Nat /\ r.umin <= r.umax
  <2> DEFINE lo == Only(p.umin, 0)
             hi == Only(p.umax, 0)
  <2>1. p.umin # {} => lo \in p.umin
    BY OnlyIsMember
  <2>2. p.umax # {} => hi \in p.umax
    BY OnlyIsMember
  <2> HIDE DEF lo, hi
  <2>3. /\ p.umin # {} => lo \in Nat
        /\ p.umax # {} => hi \in Nat
        /\ p.umin # {} /\ p.umax # {} => lo <= hi
    BY <2>1, <2>2 DEF Effective, Shaped, Clamped
  <2>4. k.umin \in Nat /\ k.umax \in Nat /\ k.umin <= k.umax
    BY DEF Ordered
  <2>5. /\ r.umin = IF p.umin = {} THEN k.umin
                    ELSE IF p.umax = {} THEN LowerOf(lo, k.umax) ELSE lo
        /\ r.umax = IF p.umax = {} THEN k.umax
                    ELSE IF p.umin = {} THEN HigherOf(hi, k.umin) ELSE hi
    BY <1>1 DEF lo, hi
  <2>6. CASE p.umin = {}
    BY <2>3, <2>4, <2>5, <2>6 DEF HigherOf
  <2>7. CASE p.umin # {}
    BY <2>3, <2>4, <2>5, <2>7 DEF LowerOf
  <2> QED BY <2>6, <2>7
<1>3. r.class = "fifo" <=> r.prio # {}
  <2>1. AtMostOne(p.class)
    BY DEF Effective, Shaped, PlanFields
  <2>2. CASE p.class = {}
    <3>1. r.class = k.class /\ r.prio = k.prio
      BY <1>1, <2>2 DEF Only, Effective
    <3> QED BY <3>1 DEF Ordered
  <2>3. CASE p.class = {"fifo"}
    <3>1. r.class = "fifo"
      BY <1>1, <2>3, OnlyIsMember
    <3> QED BY <1>1, <2>3, <3>1 DEF Effective, Placed
  <2>4. CASE p.class \notin {{}, {"fifo"}}
    <3>1. r.class \in p.class
      BY <1>1, <2>4, OnlyIsMember
    <3>2. "fifo" \notin p.class
      BY <2>1, <2>4 DEF AtMostOne
    <3> QED BY <1>1, <2>4, <3>1, <3>2 DEF Effective
  <2> QED BY <2>2, <2>3, <2>4
<1>4. Ordered(r)
  BY <1>2, <1>3 DEF Ordered
<1> QED BY <1>4 DEF r

-----------------------------------------------------------------------------
(* The invariant.                                                          *)

\* A daemon that starts with an accepted document satisfies the invariant.
LEMMA SchedInitially ==
  ASSUME SchedInit
  PROVE  SchedInv
<1>1. PICK b \in Plans, p \in Plans, c \in Configs : StartsWith(Document(b, p, c))
  BY DEF SchedInit
<1>2. CfgSafe(cfg)
  BY <1>1, AcceptedIsSafe DEF StartsWith
<1>3. /\ kernel = [t \in Thread |-> Original] /\ unitCpus = Cpus /\ schedOwned = {}
      /\ decision = [tasks |-> [t \in {} |-> {}], unit |-> {}, due |-> FALSE]
  BY <1>1 DEF StartsWith
<1>4. DecisionSafe(decision, cfg.rt)
  BY <1>3 DEF DecisionSafe
<1>5. Ordered(Original)
  BY SchedulingConstants DEF Ordered
<1>6. DOMAIN kernel = Thread /\ \A t \in Thread : Ordered(kernel[t])
  BY <1>3, <1>5
<1>7. NothingForgotten
  BY <1>3, SchedulingConstants DEF NothingForgotten, Thread
<1> QED BY <1>2, <1>4, <1>6, <1>7 DEF SchedInv

\* A resolution decides only safe plans.
LEMMA ResolveKeeps ==
  ASSUME SchedInv, Resolve
  PROVE  DecisionSafe(decision', cfg.rt)
<1> DEFINE plan == Online(PlanIn(activeScene), workload.online)
           S == IF {} \in plan.affinity THEN {} ELSE Planned(workload)
           d == decision'
<1>1. Effective(PlanIn(activeScene), cfg.rt)
  BY DEF SchedInv, CfgSafe, PlanIn
<1>2. Effective(plan, cfg.rt)
  BY <1>1, OnlineIsEffective
<1>3. S \subseteq Thread \ ForeignWorker /\ (S # {} => {} \notin plan.affinity)
  BY PlannedAreOwn
<1>4. {} \notin UnitPlan(workload)
  BY DEF UnitPlan
<1>5. d = [due |-> TRUE, unit |-> UnitPlan(workload), tasks |-> [t \in S |-> plan]]
  BY DEF Resolve
<1> HIDE DEF plan, S, d
<1>6. /\ DOMAIN d = {"tasks", "unit", "due"} /\ d.unit = UnitPlan(workload)
      /\ d.tasks = [t \in S |-> plan]
  BY <1>5
<1>7. DecisionSafe(d, cfg.rt)
  BY <1>2, <1>3, <1>4, <1>6 DEF DecisionSafe
<1> QED BY <1>7 DEF d

\* A reconciliation keeps threads orderly and journals what it changes.
LEMMA ReconcileKeeps ==
  ASSUME SchedInv, Reconcile
  PROVE  /\ DecisionSafe(decision', cfg.rt)
         /\ DOMAIN kernel' = Thread /\ \A t \in Thread : Ordered(kernel'[t])
         /\ NothingForgotten'
<1> DEFINE tasks == decision.tasks
           mine == workload.alone /\ decision.unit # {}
<1>1. /\ decision' = [decision EXCEPT !.due = FALSE]
      /\ kernel' = [t \in Thread |->
               IF t \in DOMAIN tasks THEN ApplyPlan(kernel[t], tasks[t])
               ELSE IF t \in schedOwned THEN Original ELSE kernel[t]]
      /\ unitCpus' = IF mine THEN Only(decision.unit, {})
                     ELSE IF "unit" \in schedOwned THEN Cpus ELSE unitCpus
      /\ schedOwned' = {t \in DOMAIN tasks : kernel'[t] # Original \/ t \in schedOwned}
                       \cup (IF mine THEN {"unit"} ELSE {})
  BY DEF Reconcile, ReconcileThreads, ReconcileUnit
<1>2. /\ DOMAIN decision = {"tasks", "unit", "due"} /\ {} \notin decision.unit
      /\ \A t \in DOMAIN tasks : t \in Thread \ ForeignWorker /\ Effective(tasks[t], cfg.rt)
  BY DEF SchedInv, DecisionSafe
<1>3. DecisionSafe(decision', cfg.rt)
  <2>1. /\ DOMAIN decision' = {"tasks", "unit", "due"} /\ decision'.unit = decision.unit
        /\ decision'.tasks = decision.tasks
    BY <1>1, <1>2
  <2> QED BY <2>1 DEF SchedInv, DecisionSafe
<1>4. ASSUME NEW t \in Thread
      PROVE  Ordered(kernel'[t])
  <2>1. Ordered(Original)
    BY SchedulingConstants DEF Ordered
  <2>2. Ordered(kernel[t])
    BY DEF SchedInv
  <2>3. t \in DOMAIN tasks => Ordered(ApplyPlan(kernel[t], tasks[t]))
    BY <1>2, <2>2, ApplyKeepsOrder
  <2> QED BY <1>1, <2>1, <2>2, <2>3
<1>5. NothingForgotten'
  <2> HIDE DEF tasks, mine
  <2>1. ASSUME NEW t \in Thread, t \notin schedOwned'
        PROVE  kernel'[t] = Original
    BY <1>1, <2>1 DEF SchedInv, NothingForgotten
  <2>2. ASSUME NEW t \in ForeignWorker
        PROVE  kernel'[t] = Original
    <3>1. t \in Thread /\ t \notin DOMAIN tasks
      BY <1>2, SchedulingConstants DEF Thread
    <3> QED BY <1>1, <3>1 DEF SchedInv, NothingForgotten
  <2>3. "unit" \notin schedOwned' => unitCpus' = Cpus
    BY <1>1 DEF SchedInv, NothingForgotten
  <2>4. unitCpus' # {}
    <3>1. mine => Only(decision.unit, {}) # {}
      BY <1>2, OnlyIsMember DEF mine
    <3> QED BY <1>1, <3>1, SchedulingConstants DEF SchedInv, NothingForgotten
  <2> QED BY <2>1, <2>2, <2>3, <2>4 DEF NothingForgotten
<1> QED BY <1>1, <1>3, <1>4, <1>5

\* Every step keeps the invariant.
LEMMA SchedStep ==
  ASSUME SchedInv, [SchedNext]_schedVars
  PROVE  SchedInv'
<1>1. CASE Resolve
  <2>1. UNCHANGED <<cfg, kernel, unitCpus, schedOwned>>
    BY <1>1 DEF Resolve
  <2>2. DecisionSafe(decision', cfg.rt)
    BY <1>1, ResolveKeeps
  <2> QED BY <2>1, <2>2 DEF SchedInv, NothingForgotten
<1>2. CASE Reconcile
  <2>1. cfg' = cfg
    BY <1>2 DEF Reconcile
  <2> QED BY <1>2, <2>1, ReconcileKeeps DEF SchedInv
<1>3. CASE UNCHANGED <<cfg, kernel, unitCpus, decision, schedOwned>>
  BY <1>3 DEF SchedInv, NothingForgotten
<1>4. SchedNext => Resolve \/ Reconcile \/ UNCHANGED <<cfg, kernel, unitCpus, decision, schedOwned>>
  BY DEF SchedNext, SceneChanges, WorkloadChanges, CpusChange, ThreadRenames, UnitShared,
         WorldChanges
<1> QED BY <1>1, <1>2, <1>3, <1>4 DEF schedVars

\* The invariant implies the property.
LEMMA SchedImplies ==
  ASSUME SchedInv
  PROVE  ValidConfigIsSafe
<1>1. PlansSound
  BY DEF SchedInv, DecisionSafe, Effective, Placed, PlansSound
<1>2. ThreadsConsistent
  BY DEF SchedInv, Ordered, ThreadsConsistent
<1> QED BY <1>1, <1>2 DEF SchedInv, ValidConfigIsSafe

\* For every set of CPUs, groups, plans, rules and workloads: a configuration
\* that validation accepts never plans a FIFO thread without a permitted
\* priority or on a housekeeping CPU, never crosses a thread's clamps, and
\* whatever the reconciliation changed is journaled (config.rs, policy.rs,
\* reconcile.rs).
THEOREM AcceptedConfigIsSafe == SchedSpec => []ValidConfigIsSafe
<1>1. SchedInit => SchedInv
  BY SchedInitially
<1>2. SchedInv /\ [SchedNext]_schedVars => SchedInv'
  BY SchedStep
<1>3. SchedInv => ValidConfigIsSafe
  BY SchedImplies
<1> QED BY <1>1, <1>2, <1>3, PTL DEF SchedSpec
=============================================================================
