---------------------- MODULE FrequencyActuatorProofs ----------------------
(***************************************************************************)
(* Proofs about FrequencyActuator, for any set of targets, hardware ranges,*)
(* operating points and constraints of other clients.                      *)
(***************************************************************************)
EXTENDS FrequencyActuator, TLAPS, WellFoundedInduction, SequenceTheorems

-----------------------------------------------------------------------------
(* Windows and operating points.                                           *)

\* The relation that NatLessThanWellFounded is about.
LEMMA LessThanRelation ==
  ASSUME NEW x \in Nat, NEW y \in Nat, x < y
  PROVE  <<x, y>> \in OpToRel(<, Nat)
<1>. DEFINE p == <<x, y>>
<1>1. p \in Nat \X Nat /\ p[1] = x /\ p[2] = y
  OBVIOUS
<1>2. p[1] < p[2]
  BY <1>1
<1>. HIDE DEF p
<1>3. p \in OpToRel(<, Nat)
  BY <1>1, <1>2, Zenon DEF OpToRel
<1>. QED BY <1>3 DEF p

\* A nonempty set of naturals has the least element that Least chooses.
LEMMA LeastIsLeast ==
  ASSUME NEW S, S \subseteq Nat, S # {}
  PROVE  Least(S) \in S /\ \A y \in S : Least(S) <= y
<1>1. PICK x \in S : \A y \in S : ~(<<y, x>> \in OpToRel(<, Nat))
  BY WFMin, NatLessThanWellFounded
<1>2. \A y \in S : x <= y
  <2>. TAKE y \in S
  <2>1. x \in Nat /\ y \in Nat
    OBVIOUS
  <2>2. ~(y < x)
    BY <2>1, <1>1, LessThanRelation
  <2>. QED BY <2>1, <2>2
<1>. QED BY <1>2 DEF Least

\* A nonempty bounded set of naturals has the greatest element that
\* Greatest chooses.
LEMMA GreatestIsGreatest ==
  ASSUME NEW n \in Nat, NEW S, S \subseteq 0 .. n, S # {}
  PROVE  Greatest(S) \in S /\ \A y \in S : Greatest(S) >= y
<1>. DEFINE D == {n - y : y \in S}
<1>1. D \subseteq Nat /\ D # {}
  <2>1. \A y \in S : n - y \in Nat
    OBVIOUS
  <2>. QED BY <2>1
<1>2. PICK d \in D : \A e \in D : ~(<<e, d>> \in OpToRel(<, Nat))
  BY <1>1, WFMin, NatLessThanWellFounded
<1>3. PICK x \in S : d = n - x
  OBVIOUS
<1>4. \A y \in S : x >= y
  <2>. TAKE y \in S
  <2>1. n - y \in D /\ n - y \in Nat
    OBVIOUS
  <2>2. ~(n - y < n - x)
    BY <2>1, <1>1, <1>2, <1>3, LessThanRelation
  <2>. QED BY <2>2
<1>. QED BY <1>4 DEF Greatest

\* snap_limits answers a window inside the hardware range that is not
\* reversed, and its maximum is never above the requested one.
LEMMA SnapLimitsValid ==
  ASSUME NEW t \in Target, NEW w \in Window(t)
  PROVE  /\ SnapLimits(t, w) \in Limits
         /\ ValidLimits(t, SnapLimits(t, w))
<1>. DEFINE above == {o \in Opps[t] : o >= w.min}
            below == {o \in Opps[t] : o <= w.max}
            minimum == IF above = {} THEN Hw[t].max ELSE Least(above)
            maximum == IF below = {} THEN Hw[t].min ELSE Greatest(below)
<1>1. /\ Hw[t] \in Limits /\ Hw[t].min \in Nat /\ Hw[t].max \in Nat
      /\ Hw[t].min <= Hw[t].max
      /\ Opps[t] \subseteq Hw[t].min .. Hw[t].max
  BY HwAssumption, OppsAssumption DEF Limits, Freq
<1>2. w \in Limits /\ w.min \in Nat /\ w.max \in Nat /\ ValidLimits(t, w)
  BY <1>1 DEF Window, Limits, Freq, ValidLimits
<1>3. minimum \in Nat /\ Hw[t].min <= minimum /\ minimum <= Hw[t].max
  <2>1. CASE above = {}
    BY <2>1, <1>1
  <2>2. CASE above # {}
    <3>1. above \subseteq Nat
      BY <1>1
    <3>2. Least(above) \in above
      BY <3>1, <2>2, LeastIsLeast
    <3>. QED BY <3>2, <2>2, <1>1
  <2>. QED BY <2>1, <2>2
<1>4. maximum \in Nat /\ Hw[t].min <= maximum /\ maximum <= Hw[t].max
  <2>1. CASE below = {}
    BY <2>1, <1>1
  <2>2. CASE below # {}
    <3>1. below \subseteq 0 .. Hw[t].max
      BY <1>1
    <3>2. Greatest(below) \in below
      BY <3>1, <2>2, <1>1, GreatestIsGreatest
    <3>. QED BY <3>2, <2>2, <1>1
  <2>. QED BY <2>1, <2>2
<1>5. CASE Opps[t] = {}
  BY <1>5, <1>2 DEF SnapLimits
<1>6. CASE Opps[t] # {}
  <2>. HIDE DEF minimum, maximum
  <2>1. SnapLimits(t, w) = [min |-> Lower(minimum, maximum), max |-> maximum]
    BY <1>6 DEF SnapLimits, minimum, maximum
  <2>. QED BY <2>1, <1>1, <1>3, <1>4 DEF Lower, Limits, Freq, ValidLimits
<1>. QED BY <1>5, <1>6

-----------------------------------------------------------------------------
(* The inductive invariant.                                                *)

Span(t) == Hw[t].min .. Hw[t].max
WritesOf(t) == [node : {"min", "max"}, value : Span(t)]

\* What a journal of the daemon looks like: every entry decodes and a target
\* without a claim has the default entry.
JournalOK(j) ==
  \A t \in Target : /\ EntryDecodes(t, j.entry[t])
                    /\ t \notin j.claims => j.entry[t] = Settled(Hw[t])

Busy == pc \notin {"down", "idle"}
OnTarget == pc \in {"write", "reset", "rollback", "persistApplied"}

RangeInv ==
  /\ \A t \in Target : /\ nodes[t].min \in Span(t) /\ nodes[t].max \in Span(t)
                       /\ cap[t] \in Span(t)
                       /\ ValidLimits(t, want[t]) /\ ValidLimits(t, from[t])
  /\ OnTarget => /\ idx # 0
                 /\ plan \in Seq(WritesOf(order[idx]))

JournalInv ==
  /\ JournalOK(mem) /\ JournalOK(saved) /\ JournalOK(disk.journal)
  /\ disk.present <=> disk.journal.claims # {}
  /\ disk.boot <= boot

\* Which operation can be at which point.
ControlInv ==
  /\ pc = "down" => ~recovery
  /\ Busy => /\ mode = "ReadWrite"
             /\ kind # "none"
             /\ recovery <=> kind = "recover"
  /\ pc = "persistIntent" => order # <<>> /\ kind # "fast"
  /\ pc \in {"write", "persistApplied", "rollback"} => kind \in {"batch", "fast"}
  /\ pc = "persistApplied" => idx = Len(order) /\ kind = "batch"
  /\ pc = "reset" => kind \in {"restore", "recover"}
  /\ pc = "finish" => kind # "fast"
  /\ Busy /\ kind \in {"restore", "recover"} => want = Hw /\ verdict = "none"

\* No journal of another boot is in the way of an operation.
Fresh == disk.present => disk.boot = boot

\* How the journal file, the journal in memory and the targets of the
\* operation relate at each point of it.
SyncInv ==
  /\ NeedsRecovery => disk.present /\ mem = disk.journal
  /\ Ready => Fresh /\ mem.claims = DiskClaims
  /\ Busy => Fresh
  /\ pc = "persistIntent" =>
       /\ DiskClaims \subseteq mem.claims /\ ToSet(order) \subseteq mem.claims
       /\ kind = "batch" => saved.claims = DiskClaims
       /\ kind # "batch" => DiskClaims = mem.claims
  /\ OnTarget => DiskClaims = mem.claims /\ ToSet(order) \subseteq mem.claims
  /\ pc \in {"write", "persistApplied", "rollback"} =>
       /\ saved.claims \subseteq mem.claims
       /\ kind = "fast" => saved.claims = mem.claims
  /\ Busy /\ pc # "finish" /\ kind = "recover" => mem.claims = ToSet(order)
  /\ pc = "finish" => FinalJournal.claims \subseteq DiskClaims

\* A target that was not owned when the batch began is dirty only if its
\* write was attempted and its rollback is still to come; a target that is
\* being reset is dirty only if its turn has not passed.
DirtyInv ==
  /\ pc \in {"write", "persistApplied"} \/ (pc = "rollback" /\ ~failed) =>
       \A t \in Dirty : t \in saved.claims \/ \E j \in 1 .. idx : order[j] = t
  /\ pc = "reset" =>
       \A t \in Dirty : t \in ToSet(order) => \E j \in idx .. Len(order) : order[j] = t
  /\ pc = "finish" => Dirty \subseteq FinalJournal.claims

IInv == /\ TypeOK /\ RangeInv /\ JournalInv /\ ControlInv
        /\ SyncInv /\ DirtyInv /\ DurableClaim

-----------------------------------------------------------------------------
(* The operators the actions are made of.                                  *)

\* The hardware range is a window of every target.
LEMMA HwFacts ==
  ASSUME NEW t \in Target
  PROVE  /\ Hw[t] \in Limits /\ Hw[t].min \in Nat /\ Hw[t].max \in Nat
         /\ Hw[t].min <= Hw[t].max /\ ValidLimits(t, Hw[t])
         /\ Hw[t].min \in Span(t) /\ Hw[t].max \in Span(t)
         /\ Span(t) \subseteq Nat
BY HwAssumption DEF Limits, Freq, ValidLimits, Span

\* A window inside the hardware range, seen from its two values.
LEMMA ValidInSpan ==
  ASSUME NEW t \in Target, NEW w \in Limits, ValidLimits(t, w)
  PROVE  w.min \in Span(t) /\ w.max \in Span(t)
BY HwFacts DEF Limits, Freq, ValidLimits, Span

\* One conditional attribute write.
LEMMA WriteIfTyped ==
  ASSUME NEW t \in Target, NEW v \in Span(t), NEW n \in {"min", "max"}, NEW b \in BOOLEAN
  PROVE  (IF b THEN <<[node |-> n, value |-> v]>> ELSE <<>>) \in Seq(WritesOf(t))
<1>1. [node |-> n, value |-> v] \in WritesOf(t)
  BY DEF WritesOf
<1>2. <<[node |-> n, value |-> v]>> \in Seq(WritesOf(t)) /\ <<>> \in Seq(WritesOf(t))
  BY <1>1
<1>. QED BY <1>2, Zenon

\* write_ordered stays inside the hardware range.
LEMMA OrderedWritesTyped ==
  ASSUME NEW t \in Target, NEW c \in Limits, NEW d \in Limits, ValidLimits(t, d)
  PROVE  OrderedWrites(c, d) \in Seq(WritesOf(t))
<1>1. d.min \in Span(t) /\ d.max \in Span(t)
  BY ValidInSpan
<1>. DEFINE wmin == IF d.min # c.min THEN <<[node |-> "min", value |-> d.min]>> ELSE <<>>
            wmax == IF d.max # c.max THEN <<[node |-> "max", value |-> d.max]>> ELSE <<>>
<1>2. wmin \in Seq(WritesOf(t)) /\ wmax \in Seq(WritesOf(t))
  BY <1>1, WriteIfTyped
<1>. HIDE DEF wmin, wmax
<1>3. wmin \o wmax \in Seq(WritesOf(t)) /\ wmax \o wmin \in Seq(WritesOf(t))
  BY <1>2
<1>4. OrderedWrites(c, d) \in {wmin \o wmax, wmax \o wmin}
  BY DEF OrderedWrites, wmin, wmax
<1>. QED BY <1>3, <1>4

\* reset_frequency_request stays inside the hardware range.
LEMMA ResetWritesTyped ==
  ASSUME NEW t \in Target, NEW d \in Limits, ValidLimits(t, d)
  PROVE  ResetWrites(t, d) \in Seq(WritesOf(t))
<1>1. d.min \in Span(t) /\ d.max \in Span(t)
  BY ValidInSpan
<1>2. Hw[t].min \in Span(t) /\ Hw[t].max \in Span(t)
  BY HwFacts
<1>. DEFINE open == <<[node |-> "min", value |-> Hw[t].min], [node |-> "max", value |-> Hw[t].max]>>
            wmax == IF d.max # Hw[t].max THEN <<[node |-> "max", value |-> d.max]>> ELSE <<>>
            wmin == IF d.min # Hw[t].min THEN <<[node |-> "min", value |-> d.min]>> ELSE <<>>
<1>3. open \in Seq(WritesOf(t))
  BY <1>2 DEF WritesOf
<1>4. wmin \in Seq(WritesOf(t)) /\ wmax \in Seq(WritesOf(t))
  BY <1>1, WriteIfTyped
<1>5. ResetWrites(t, d) = open \o wmax \o wmin
  BY DEF ResetWrites
<1>. HIDE DEF open, wmin, wmax
<1>. QED BY <1>3, <1>4, <1>5

\* Writes of one target are attribute writes.
LEMMA WritesAreTyped ==
  ASSUME NEW t \in Target, NEW s \in Seq(WritesOf(t))
  PROVE  s \in Seq([node : {"min", "max"}, value : Freq])
<1>1. WritesOf(t) \subseteq [node : {"min", "max"}, value : Freq]
  BY HwFacts DEF WritesOf, Freq
<1>. QED BY <1>1, SeqMonotonic

\* What a sysfs client can read is a window of the hardware range.
LEMMA EffectiveValid ==
  ASSUME NEW t \in Target, TypeOK, RangeInv
  PROVE  Effective(t) \in Limits /\ ValidLimits(t, Effective(t))
<1>1. /\ nodes[t].min \in Span(t) /\ nodes[t].max \in Span(t) /\ cap[t] \in Span(t)
  BY DEF RangeInv
<1>. QED BY <1>1, HwFacts DEF Effective, Lower, Limits, Freq, ValidLimits, Span

\* A target that reads back the hardware range carries that request, no
\* matter which constraints other clients have.
LEMMA EffectiveHardware ==
  ASSUME NEW t \in Target, TypeOK, RangeInv, Effective(t) = Hw[t]
  PROVE  nodes[t] = Hw[t]
<1>1. /\ nodes[t].min \in Span(t) /\ nodes[t].max \in Span(t) /\ cap[t] \in Span(t)
  BY DEF RangeInv
<1>2. nodes[t] \in Limits
  BY DEF TypeOK, KernelType
<1>3. Effective(t).min = Hw[t].min /\ Effective(t).max = Hw[t].max
  OBVIOUS
<1>4. nodes[t].min = Hw[t].min /\ nodes[t].max = Hw[t].max
  BY <1>1, <1>3, HwFacts DEF Effective, Lower, Span
<1>. QED BY <1>2, <1>4, HwFacts DEF Limits

\* The pairs a transition passes through are windows of the target.
LEMMA LegalPairsValid ==
  ASSUME NEW t \in Target, NEW c \in Limits, NEW d \in Limits,
         ValidLimits(t, c), ValidLimits(t, d)
  PROVE  /\ LegalPairs(c, d) \subseteq Limits
         /\ \A p \in LegalPairs(c, d) : ValidLimits(t, p)
BY HwFacts DEF LegalPairs, OrderedStates, Limits, Freq, ValidLimits

\* A settled entry is one the decoder accepts.
LEMMA SettledDecodes ==
  ASSUME NEW t \in Target, NEW w \in Limits, ValidLimits(t, w)
  PROVE  Settled(w) \in Entry /\ EntryDecodes(t, Settled(w))
BY DEF Settled, Entry, EntryDecodes

\* An intent between two windows is one the decoder accepts.
LEMMA IntentDecodes ==
  ASSUME NEW t \in Target, NEW c \in Limits, NEW d \in Limits,
         ValidLimits(t, c), ValidLimits(t, d)
  PROVE  Intent(c, d) \in Entry /\ EntryDecodes(t, Intent(c, d))
<1>1. /\ LegalPairs(c, d) \subseteq Limits
      /\ \A p \in LegalPairs(c, d) : ValidLimits(t, p)
  BY LegalPairsValid
<1>2. c = d => LegalPairs(c, d) = {c}
  BY DEF LegalPairs, OrderedStates, Limits
<1>. QED BY <1>1, <1>2 DEF Intent, Entry, EntryDecodes

\* A batch is a sequence of targets.
LEMMA OrdersTyped ==
  ASSUME NEW s \in Orders
  PROVE  s \in Seq(Target) /\ ToSet(s) \subseteq Target
<1>1. PICK n \in 0 .. MaxBatch : s \in [1 .. n -> Target]
  BY DEF Orders
<1>2. n \in Nat
  BY BoundsAssumption
<1>3. s \in Seq(Target)
  BY <1>1, <1>2, SeqDef
<1>. QED BY <1>3 DEF ToSet

\* The targets of a sequence of targets are targets.
LEMMA ToSetTyped ==
  ASSUME NEW s \in Seq(Target)
  PROVE  ToSet(s) \subseteq Target /\ \A k \in 1 .. Len(s) : s[k] \in ToSet(s) /\ s[k] \in Target
BY DEF ToSet

\* The empty journal.
LEMMA EmptyJournalOK ==
  /\ EmptyJournal \in Journal /\ JournalOK(EmptyJournal) /\ EmptyJournal.claims = {}
  /\ [t \in Target |-> Hw[t]] \in [Target -> Limits]
<1>1. \A t \in Target : Settled(Hw[t]) \in Entry /\ EntryDecodes(t, Settled(Hw[t])) /\ Hw[t] \in Limits
  BY HwFacts, SettledDecodes
<1>. QED BY <1>1 DEF EmptyJournal, Journal, JournalOK

\* Re-entering targets of a good journal as intents gives a good journal.
LEMMA WithIntentsOK ==
  ASSUME NEW j \in Journal, JournalOK(j), NEW s \in Seq(Target),
         NEW f \in [Target -> Limits], NEW w \in [Target -> Limits],
         \A t \in Target : ValidLimits(t, f[t]) /\ ValidLimits(t, w[t])
  PROVE  /\ WithIntents(j, s, f, w) \in Journal /\ JournalOK(WithIntents(j, s, f, w))
         /\ WithIntents(j, s, f, w).claims = j.claims \cup ToSet(s)
<1>1. \A t \in Target : Intent(f[t], w[t]) \in Entry /\ EntryDecodes(t, Intent(f[t], w[t]))
  BY IntentDecodes
<1>2. ToSet(s) \subseteq Target
  BY ToSetTyped
<1>. QED BY <1>1, <1>2 DEF WithIntents, Journal, JournalOK

\* Dropping targets of a good journal gives a good journal.
LEMMA WithoutOK ==
  ASSUME NEW j \in Journal, JournalOK(j), NEW s \in Seq(Target)
  PROVE  /\ Without(j, s) \in Journal /\ JournalOK(Without(j, s))
         /\ Without(j, s).claims = j.claims \ ToSet(s)
<1>1. \A t \in Target : Settled(Hw[t]) \in Entry /\ EntryDecodes(t, Settled(Hw[t]))
  BY HwFacts, SettledDecodes
<1>. QED BY <1>1 DEF Without, Journal, JournalOK

\* Settling one target of a good journal gives a good journal.
LEMMA SettleOK ==
  ASSUME NEW j \in Journal, JournalOK(j), NEW t \in j.claims,
         NEW w \in Limits, ValidLimits(t, w)
  PROVE  /\ [j EXCEPT !.entry[t] = Settled(w)] \in Journal
         /\ JournalOK([j EXCEPT !.entry[t] = Settled(w)])
         /\ [j EXCEPT !.entry[t] = Settled(w)].claims = j.claims
<1>1. Settled(w) \in Entry /\ EntryDecodes(t, Settled(w)) /\ t \in Target
  BY SettledDecodes DEF Journal
<1>. QED BY <1>1 DEF Journal, JournalOK

\* The requests of a good journal are windows.
LEMMA RequestedOK ==
  ASSUME NEW j \in Journal, JournalOK(j)
  PROVE  /\ Requested(j) \in [Target -> Limits]
         /\ \A t \in Target : /\ ValidLimits(t, Requested(j)[t]) /\ j.entry[t].desired \in Limits
                              /\ ValidLimits(t, j.entry[t].desired)
                              /\ t \notin j.claims => j.entry[t].desired = Hw[t]
<1>1. \A t \in Target : j.entry[t] \in Entry /\ j.entry[t].desired \in Limits
  BY DEF Journal, Entry
<1>2. \A t \in Target : ValidLimits(t, j.entry[t].desired)
  BY DEF JournalOK, EntryDecodes
<1>3. \A t \in Target : t \notin j.claims => j.entry[t].desired = Hw[t]
  <2>1. \A t \in Target : t \notin j.claims => j.entry[t] = Settled(Hw[t])
    BY DEF JournalOK
  <2>2. \A t \in Target : Settled(Hw[t]).desired = Hw[t]
    BY DEF Settled
  <2>. QED BY <2>1, <2>2
<1>. QED BY <1>1, <1>2, <1>3 DEF Requested

\* Storing a good journal gives a good file.
LEMMA StoredOK ==
  ASSUME NEW j \in Journal, JournalOK(j), TypeOK
  PROVE  /\ Stored(j) \in [present : BOOLEAN, boot : 0 .. MaxBoot, journal : Journal]
         /\ StoredOrRemoved(j) \in [present : BOOLEAN, boot : 0 .. MaxBoot, journal : Journal]
         /\ NoFile \in [present : BOOLEAN, boot : 0 .. MaxBoot, journal : Journal]
         /\ JournalOK(Stored(j).journal) /\ JournalOK(StoredOrRemoved(j).journal) /\ JournalOK(NoFile.journal)
         /\ Stored(j).journal = j /\ Stored(j).present /\ Stored(j).boot = boot
         /\ ~NoFile.present /\ NoFile.journal.claims = {}
         /\ StoredOrRemoved(j).journal.claims = j.claims
         /\ StoredOrRemoved(j).present <=> j.claims # {}
         /\ StoredOrRemoved(j).present => StoredOrRemoved(j).boot = boot
         /\ Stored(j).boot <= boot /\ StoredOrRemoved(j).boot <= boot /\ NoFile.boot <= boot
<1>1. boot \in 0 .. MaxBoot /\ 0 \in 0 .. MaxBoot
  BY BoundsAssumption DEF TypeOK, KernelType
<1>2. /\ NoFile \in [present : BOOLEAN, boot : 0 .. MaxBoot, journal : Journal]
      /\ JournalOK(NoFile.journal) /\ ~NoFile.present /\ NoFile.journal.claims = {}
      /\ NoFile.boot <= boot
  BY <1>1, BoundsAssumption, EmptyJournalOK DEF NoFile
<1>3. /\ Stored(j) \in [present : BOOLEAN, boot : 0 .. MaxBoot, journal : Journal]
      /\ Stored(j).journal = j /\ Stored(j).present /\ Stored(j).boot = boot
      /\ Stored(j).boot <= boot
  BY <1>1, BoundsAssumption DEF Stored
<1>. QED BY <1>2, <1>3 DEF StoredOrRemoved

-----------------------------------------------------------------------------
(* The invariant holds initially and every step keeps it.                  *)

\* The state before the first daemon starts.
LEMMA InitIInv == Init => IInv
<1>. SUFFICES ASSUME Init PROVE IInv
  OBVIOUS
<1>. USE EmptyJournalOK, BoundsAssumption DEF Init
<1>1. TypeOK
  <2>1. KernelType
    BY HwFacts DEF KernelType, Freq
  <2>2. JournalType
    BY DEF JournalType, NoFile
  <2>3. ModeType
    BY DEF ModeType
  <2>4. OperationType
    BY DEF OperationType
  <2>. QED BY <2>1, <2>2, <2>3, <2>4 DEF TypeOK
<1>2. RangeInv
  BY HwFacts DEF RangeInv, OnTarget
<1>3. JournalInv
  BY DEF JournalInv, NoFile
<1>4. ControlInv
  BY DEF ControlInv, Busy
<1>5. SyncInv
  BY DEF SyncInv, Busy, Ready, NeedsRecovery, OnTarget
<1>6. DirtyInv
  BY DEF DirtyInv
<1>7. DurableClaim
  BY DEF DurableClaim
<1>. QED BY <1>1, <1>2, <1>3, <1>4, <1>5, <1>6, <1>7 DEF IInv

\* What Return leaves of the operation that ends.
LEMMA ReturnFacts ==
  ASSUME NEW m \in {"ReadWrite", "ReadOnlyDegraded"}, Return(m)
  PROVE  /\ pc' = "idle" /\ mode' = m /\ kind' = "none" /\ verdict' = "none" /\ failed' = FALSE
         /\ OperationType' /\ saved' \in Journal /\ JournalOK(saved')
         /\ \A t \in Target : ValidLimits(t, want'[t]) /\ ValidLimits(t, from'[t])
         /\ ~Busy' /\ ~OnTarget' /\ ControlInv' /\ DirtyInv'
<1>. USE DEF Return
<1>1. /\ pc' = "idle" /\ mode' = m /\ kind' = "none" /\ verdict' = "none" /\ failed' = FALSE
  OBVIOUS
<1>2. OperationType'
  BY EmptyJournalOK DEF OperationType
<1>3. saved' \in Journal /\ JournalOK(saved')
  BY EmptyJournalOK
<1>4. \A t \in Target : ValidLimits(t, want'[t]) /\ ValidLimits(t, from'[t])
  BY HwFacts
<1>5. ~Busy' /\ ~OnTarget' /\ ControlInv' /\ DirtyInv'
  BY <1>1 DEF Busy, OnTarget, ControlInv, DirtyInv
<1>. QED BY <1>1, <1>2, <1>3, <1>4, <1>5

\* Another client's constraint is outside of everything the actuator keeps.
LEMMA ConstraintChangeKeeps ==
  ASSUME IInv, NEW t \in Target, ConstraintChange(t)
  PROVE  IInv'
<1>. USE DEF ConstraintChange, opVars
<1>1. PICK c \in Caps[t] : cap' = [cap EXCEPT ![t] = c]
  OBVIOUS
<1>2. c \in Span(t) /\ c \in Freq
  BY CapsAssumption, HwFacts DEF Span, Freq
<1>3. TypeOK'
  <2>1. KernelType'
    BY <1>1, <1>2 DEF IInv, TypeOK, KernelType
  <2>2. JournalType' /\ ModeType' /\ OperationType'
    BY DEF IInv, TypeOK, JournalType, ModeType, OperationType
  <2>. QED BY <2>1, <2>2 DEF TypeOK
<1>4. RangeInv'
  BY <1>1, <1>2 DEF IInv, TypeOK, KernelType, RangeInv, OnTarget
<1>5. JournalInv' /\ ControlInv'
  BY DEF IInv, JournalInv, ControlInv, Busy
<1>6. SyncInv'
  BY DEF IInv, SyncInv, Busy, OnTarget, Fresh, Ready, NeedsRecovery, DiskClaims, FinalJournal
<1>7. DirtyInv' /\ DurableClaim'
  BY DEF IInv, DirtyInv, DurableClaim, Dirty, FinalJournal
<1>. QED BY <1>3, <1>4, <1>5, <1>6, <1>7 DEF IInv

\* A write to an attribute dirties only the target whose turn it is, and that
\* target is claimed.
LEMMA WriteNodeKeeps ==
  ASSUME IInv, WriteNode
  PROVE  IInv'
<1>. DEFINE t == order[idx]
            w == Head(plan)
<1>1. /\ pc \in {"write", "reset", "rollback"} /\ plan # <<>> /\ plan' = Tail(plan)
      /\ nodes' = [nodes EXCEPT ![t] = Written(nodes[t], w)]
  BY DEF WriteNode
<1>2. UNCHANGED <<cap, boot, disk, mode, recovery, registry, mem, saved, pc, kind,
                  order, idx, want, from, verdict, failed, crashes>>
  BY DEF WriteNode
<1>3. OnTarget /\ OnTarget' /\ idx \in 1 .. Len(order) /\ t \in Target /\ t \in ToSet(order)
  BY <1>1, <1>2 DEF OnTarget, IInv, RangeInv, TypeOK, OperationType, ToSet
<1>4. plan \in Seq(WritesOf(t)) /\ w \in WritesOf(t) /\ plan' \in Seq(WritesOf(t))
  BY <1>1, <1>3 DEF IInv, RangeInv
<1>. HIDE DEF t, w
<1>5. /\ Written(nodes[t], w) \in Limits
      /\ Written(nodes[t], w).min \in Span(t) /\ Written(nodes[t], w).max \in Span(t)
  <2>1. nodes[t] \in Limits /\ nodes[t].min \in Span(t) /\ nodes[t].max \in Span(t)
    BY <1>3 DEF IInv, RangeInv, TypeOK, KernelType
  <2>2. w.value \in Span(t) /\ w.value \in Nat
    BY <1>3, <1>4, HwFacts DEF WritesOf
  <2>. QED BY <2>1, <2>2 DEF Written, Limits, Freq
<1>6. TypeOK'
  <2>1. KernelType'
    BY <1>1, <1>2, <1>3, <1>5 DEF IInv, TypeOK, KernelType
  <2>2. plan' \in Seq([node : {"min", "max"}, value : Freq])
    BY <1>3, <1>4, WritesAreTyped
  <2>3. JournalType' /\ ModeType' /\ OperationType'
    BY <1>2, <2>2 DEF IInv, TypeOK, JournalType, ModeType, OperationType
  <2>. QED BY <2>1, <2>3 DEF TypeOK
<1>7. RangeInv'
  BY <1>1, <1>2, <1>3, <1>4, <1>5 DEF IInv, RangeInv, TypeOK, KernelType, t
<1>8. JournalInv' /\ ControlInv'
  BY <1>2 DEF IInv, JournalInv, ControlInv, Busy
<1>9. SyncInv'
  BY <1>2 DEF IInv, SyncInv, Busy, OnTarget, Fresh, Ready, NeedsRecovery, DiskClaims, FinalJournal
<1>10. Dirty' \subseteq Dirty \cup {t}
  BY <1>1, <1>3 DEF Dirty, IInv, TypeOK, KernelType
<1>11. DirtyInv'
  BY <1>1, <1>2, <1>3, <1>10 DEF IInv, DirtyInv, t
<1>12. DurableClaim'
  <2>1. t \in DiskClaims
    BY <1>3 DEF IInv, SyncInv
  <2>. QED BY <2>1, <1>2, <1>10 DEF IInv, DurableClaim, Dirty, DiskClaims
<1>. QED BY <1>6, <1>7, <1>8, <1>9, <1>11, <1>12 DEF IInv

\* Starting a rollback: every target attempted so far is still ahead of it.
LEMMA StartRollbackKeeps ==
  ASSUME IInv, NEW k \in 1 .. Len(order), NEW v \in {"abort", "degrade"},
         pc \in {"write", "persistApplied"}, idx = k, StartRollback(k, v),
         UNCHANGED <<nodes, cap, boot, recovery, registry, mem, crashes>>,
         disk' = disk \/ disk' = Stored(mem)
  PROVE  IInv'
<1>. DEFINE t == order[k]
            d == saved.entry[t].desired
<1>1. /\ pc' = "rollback" /\ idx' = k /\ verdict' = v /\ failed' = FALSE
      /\ plan' = ResetWrites(t, d)
      /\ UNCHANGED <<mode, kind, order, want, from, saved>>
  BY DEF StartRollback
<1>2. mem \in Journal /\ saved \in Journal /\ JournalOK(mem) /\ JournalOK(saved) /\ t \in Target
  BY DEF IInv, TypeOK, JournalType, JournalInv, OperationType
<1>3. d \in Limits /\ ValidLimits(t, d)
  BY <1>2, RequestedOK
<1>4. plan' \in Seq(WritesOf(t)) /\ plan' \in Seq([node : {"min", "max"}, value : Freq])
  BY <1>1, <1>2, <1>3, ResetWritesTyped, WritesAreTyped
<1>5. OnTarget /\ Busy /\ Fresh /\ DiskClaims = mem.claims /\ kind \in {"batch", "fast"}
  BY DEF IInv, SyncInv, ControlInv, OnTarget, Busy
<1>. HIDE DEF d
<1>6. /\ disk' \in [present : BOOLEAN, boot : 0 .. MaxBoot, journal : Journal]
      /\ JournalOK(disk'.journal) /\ Fresh'
      /\ disk'.present <=> disk'.journal.claims # {}
      /\ disk'.boot <= boot'
      /\ DiskClaims' = mem.claims
  <2>1. CASE disk' = disk
    BY <2>1, <1>5 DEF IInv, TypeOK, JournalType, JournalInv, Fresh, DiskClaims
  <2>2. CASE disk' = Stored(mem)
    <3>1. mem.claims # {}
      <4>1. order \in Seq(Target) /\ ToSet(order) \subseteq mem.claims
        BY <1>5 DEF IInv, SyncInv, TypeOK, OperationType
      <4>. QED BY <4>1, ToSetTyped
    <3>2. /\ disk' \in [present : BOOLEAN, boot : 0 .. MaxBoot, journal : Journal]
          /\ disk'.journal = mem /\ disk'.present /\ disk'.boot = boot /\ disk'.boot <= boot
      BY <2>2, <1>2, StoredOK DEF IInv
    <3>. QED BY <3>1, <3>2, <1>2 DEF Fresh, DiskClaims
  <2>. QED BY <2>1, <2>2
<1>7. TypeOK'
  <2>1. KernelType' /\ JournalType'
    BY <1>1, <1>6 DEF IInv, TypeOK, KernelType, JournalType
  <2>2. ModeType'
    BY <1>1 DEF IInv, TypeOK, ModeType
  <2>3. OperationType'
    BY <1>1, <1>4 DEF IInv, TypeOK, OperationType
  <2>. QED BY <2>1, <2>2, <2>3 DEF TypeOK
<1>8. RangeInv'
  BY <1>1, <1>4 DEF IInv, RangeInv, t
<1>9. JournalInv'
  BY <1>1, <1>6 DEF IInv, JournalInv
<1>10. ControlInv'
  BY <1>1, <1>5 DEF IInv, ControlInv, Busy
<1>11. SyncInv'
  BY <1>1, <1>5, <1>6 DEF IInv, SyncInv, Busy, OnTarget, Ready, NeedsRecovery
<1>12. DirtyInv'
  BY <1>1 DEF IInv, DirtyInv, Dirty
<1>13. DurableClaim'
  BY <1>5, <1>6 DEF IInv, DurableClaim, DiskClaims
<1>. QED BY <1>7, <1>8, <1>9, <1>10, <1>11, <1>12, <1>13 DEF IInv

\* A failed write or readback starts the rollback at the target that failed.
LEMMA WriteFailsKeeps ==
  ASSUME IInv, WriteFails
  PROVE  IInv'
<1>1. idx \in 1 .. Len(order)
  BY DEF WriteFails, IInv, RangeInv, OnTarget, TypeOK, OperationType
<1>. QED BY <1>1, StartRollbackKeeps DEF WriteFails, kernelVars

\* Returning with a file that claims exactly what memory owns.
LEMMA ReturnKeeps ==
  ASSUME IInv, mode = "ReadWrite", Return(mode), recovery' = FALSE,
         UNCHANGED <<nodes, cap, boot, registry, crashes>>,
         mem' \in Journal, JournalOK(mem'), Dirty \subseteq mem'.claims,
         disk' \in [present : BOOLEAN, boot : 0 .. MaxBoot, journal : Journal],
         JournalOK(disk'.journal), disk'.journal.claims = mem'.claims,
         disk'.present <=> mem'.claims # {},
         disk'.present => disk'.boot = boot', disk'.boot <= boot'
  PROVE  IInv'
<1>1. /\ pc' = "idle" /\ mode' = mode /\ kind' = "none" /\ verdict' = "none" /\ failed' = FALSE
      /\ OperationType' /\ saved' \in Journal /\ JournalOK(saved')
      /\ \A t \in Target : ValidLimits(t, want'[t]) /\ ValidLimits(t, from'[t])
      /\ ~Busy' /\ ~OnTarget' /\ ControlInv' /\ DirtyInv'
  BY ReturnFacts
<1>2. TypeOK'
  <2>1. KernelType' /\ JournalType'
    BY <1>1 DEF IInv, TypeOK, KernelType, JournalType
  <2>2. ModeType'
    BY <1>1 DEF IInv, TypeOK, ModeType
  <2>. QED BY <1>1, <2>1, <2>2 DEF TypeOK
<1>3. RangeInv'
  BY <1>1 DEF IInv, RangeInv
<1>4. JournalInv'
  BY <1>1 DEF JournalInv
<1>5. SyncInv'
  BY <1>1 DEF SyncInv, OnTarget, Busy, NeedsRecovery, Fresh, DiskClaims
<1>6. DurableClaim'
  BY DEF DurableClaim, Dirty
<1>. QED BY <1>1, <1>2, <1>3, <1>4, <1>5, <1>6 DEF IInv

\* Degrading with a file that still claims what is dirty.
LEMMA DegradeKeeps ==
  ASSUME IInv, Degrade, UNCHANGED <<nodes, cap, boot, registry, crashes>>,
         recovery' = recovery, mem' \in Journal, JournalOK(mem'),
         disk' \in [present : BOOLEAN, boot : 0 .. MaxBoot, journal : Journal],
         JournalOK(disk'.journal), disk'.present <=> disk'.journal.claims # {},
         disk'.boot <= boot', Dirty \subseteq DiskClaims'
  PROVE  IInv'
<1>1. Return("ReadOnlyDegraded")
  BY DEF Degrade
<1>2. /\ pc' = "idle" /\ mode' = "ReadOnlyDegraded" /\ kind' = "none" /\ verdict' = "none" /\ failed' = FALSE
      /\ OperationType' /\ saved' \in Journal /\ JournalOK(saved')
      /\ \A t \in Target : ValidLimits(t, want'[t]) /\ ValidLimits(t, from'[t])
      /\ ~Busy' /\ ~OnTarget' /\ ControlInv' /\ DirtyInv'
  BY <1>1, ReturnFacts
<1>3. TypeOK'
  <2>1. KernelType' /\ JournalType'
    BY <1>2 DEF IInv, TypeOK, KernelType, JournalType
  <2>2. ModeType'
    BY <1>2 DEF IInv, TypeOK, ModeType
  <2>. QED BY <1>2, <2>1, <2>2 DEF TypeOK
<1>4. RangeInv'
  BY <1>2 DEF IInv, RangeInv
<1>5. JournalInv'
  BY <1>2 DEF JournalInv
<1>6. SyncInv'
  BY <1>2 DEF SyncInv, OnTarget, Busy, NeedsRecovery, Ready
<1>7. DurableClaim'
  BY DEF DurableClaim, Dirty, DiskClaims
<1>. QED BY <1>2, <1>3, <1>4, <1>5, <1>6, <1>7 DEF IInv

\* The file holds the intents before the first attribute is written; when it
\* could not be written, the old claims are still there.
LEMMA PersistIntentKeeps ==
  ASSUME IInv, PersistIntent
  PROVE  IInv'
<1>1. /\ pc = "persistIntent" /\ Busy /\ Fresh
      /\ mem \in Journal /\ JournalOK(mem) /\ saved \in Journal /\ JournalOK(saved)
      /\ UNCHANGED <<nodes, cap, boot, recovery, registry, crashes>>
  BY DEF PersistIntent, kernelVars, IInv, SyncInv, Busy, TypeOK, JournalType, JournalInv
<1>2. order \in Seq(Target) /\ 1 \in 1 .. Len(order) /\ order[1] \in Target /\ order[1] \in ToSet(order)
  <2>1. order \in Seq(Target) /\ order # <<>>
    BY <1>1 DEF IInv, TypeOK, OperationType, ControlInv
  <2>. QED BY <2>1, ToSetTyped
<1>3. /\ DiskClaims \subseteq mem.claims /\ ToSet(order) \subseteq mem.claims
      /\ Dirty \subseteq DiskClaims
      /\ kind = "batch" => saved.claims = DiskClaims
      /\ kind \in {"batch", "restore", "recover"}
  BY <1>1 DEF IInv, SyncInv, DurableClaim, Dirty, DiskClaims, TypeOK, ModeType, ControlInv
<1>4. /\ Stored(mem) \in [present : BOOLEAN, boot : 0 .. MaxBoot, journal : Journal]
      /\ Stored(mem).journal = mem /\ Stored(mem).present /\ Stored(mem).boot = boot
      /\ Stored(mem).boot <= boot
  BY <1>1, StoredOK DEF IInv
<1>5. mem.claims # {}
  BY <1>2, <1>3
<1>6. CASE /\ disk' = Stored(mem)
           /\ pc' = IF kind = "batch" THEN "write" ELSE "reset"
           /\ idx' = 1
           /\ plan' = IF kind = "batch"
                      THEN OrderedWrites(from[order[1]], want[order[1]])
                      ELSE ResetWrites(order[1], want[order[1]])
           /\ UNCHANGED <<mem, mode, kind, order, want, from, verdict, failed, saved>>
  <2>1. /\ from[order[1]] \in Limits /\ want[order[1]] \in Limits
        /\ ValidLimits(order[1], want[order[1]])
    BY <1>2 DEF IInv, RangeInv, TypeOK, OperationType
  <2>2. /\ plan' \in Seq(WritesOf(order[1]))
        /\ plan' \in Seq([node : {"min", "max"}, value : Freq])
    BY <1>6, <1>2, <2>1, OrderedWritesTyped, ResetWritesTyped, WritesAreTyped
  <2>3. Fresh' /\ DiskClaims' = mem.claims
    BY <1>1, <1>4, <1>6 DEF Fresh, DiskClaims
  <2>4. TypeOK'
    <3>1. KernelType' /\ JournalType'
      BY <1>1, <1>4, <1>6 DEF IInv, TypeOK, KernelType, JournalType
    <3>2. ModeType'
      BY <1>1, <1>6 DEF IInv, TypeOK, ModeType
    <3>3. OperationType'
      BY <1>2, <1>6, <2>2 DEF IInv, TypeOK, OperationType
    <3>. QED BY <3>1, <3>2, <3>3 DEF TypeOK
  <2>5. RangeInv'
    BY <1>1, <1>6, <2>2 DEF IInv, RangeInv
  <2>6. JournalInv'
    BY <1>1, <1>4, <1>5, <1>6 DEF JournalInv
  <2>7. ControlInv'
    BY <1>1, <1>3, <1>6 DEF IInv, ControlInv, Busy
  <2>8. SyncInv'
    BY <1>1, <1>3, <1>6, <2>3 DEF IInv, SyncInv, Busy, OnTarget, Ready, NeedsRecovery
  <2>9. DirtyInv'
    BY <1>1, <1>2, <1>3, <1>6 DEF DirtyInv, Dirty, ToSet
  <2>10. DurableClaim'
    BY <1>1, <1>3, <2>3 DEF DurableClaim, Dirty, DiskClaims
  <2>. QED BY <2>4, <2>5, <2>6, <2>7, <2>8, <2>9, <2>10 DEF IInv
<1>7. CASE /\ disk' \in {disk, Stored(mem)}
           /\ mem' = IF kind = "batch" THEN saved ELSE mem
           /\ Degrade
  <2>1. /\ disk' \in [present : BOOLEAN, boot : 0 .. MaxBoot, journal : Journal]
        /\ JournalOK(disk'.journal)
        /\ disk'.present <=> disk'.journal.claims # {}
        /\ disk'.boot <= boot'
        /\ Dirty \subseteq DiskClaims'
    <3>1. CASE disk' = disk
      BY <3>1, <1>1, <1>3 DEF IInv, TypeOK, JournalType, JournalInv, DiskClaims
    <3>2. CASE disk' = Stored(mem)
      BY <3>2, <1>1, <1>3, <1>4, <1>5 DEF DiskClaims
    <3>. QED BY <3>1, <3>2, <1>7
  <2>2. mem' \in Journal /\ JournalOK(mem')
    BY <1>1, <1>7
  <2>. QED BY <1>1, <1>7, <2>1, <2>2, DegradeKeeps
<1>. QED BY <1>6, <1>7 DEF PersistIntent

\* A settled target; the last one of a fast batch ends the operation.
LEMMA WriteSettlesKeeps ==
  ASSUME IInv, WriteSettles
  PROVE  IInv'
<1>. DEFINE t == order[idx]
<1>1. /\ pc = "write" /\ Busy /\ OnTarget /\ Fresh /\ mode = "ReadWrite" /\ recovery = FALSE
      /\ UNCHANGED <<nodes, cap, boot, disk, recovery, registry, crashes>>
      /\ mem' = [mem EXCEPT !.entry[t] = Settled(want[t])]
  BY DEF WriteSettles, kernelVars, IInv, SyncInv, Busy, OnTarget, ControlInv, TypeOK, ModeType
<1>2. /\ idx \in 1 .. Len(order) /\ order \in Seq(Target) /\ t \in Target /\ t \in ToSet(order)
      /\ want[t] \in Limits /\ ValidLimits(t, want[t])
  BY <1>1, ToSetTyped DEF IInv, RangeInv, TypeOK, OperationType
<1>3. /\ DiskClaims = mem.claims /\ ToSet(order) \subseteq mem.claims /\ Dirty \subseteq DiskClaims
      /\ mem \in Journal /\ JournalOK(mem)
  BY <1>1 DEF IInv, SyncInv, DurableClaim, Dirty, DiskClaims, TypeOK, JournalType, JournalInv
<1>4. mem' \in Journal /\ JournalOK(mem') /\ mem'.claims = mem.claims
  BY <1>1, <1>2, <1>3, SettleOK
<1>. HIDE DEF t
<1>5. CASE /\ idx = Len(order) /\ kind = "fast" /\ Return(mode)
  <2>1. /\ disk' \in [present : BOOLEAN, boot : 0 .. MaxBoot, journal : Journal]
        /\ JournalOK(disk'.journal) /\ disk'.journal.claims = mem'.claims
        /\ disk'.present <=> mem'.claims # {}
        /\ disk'.present => disk'.boot = boot'
        /\ disk'.boot <= boot'
    BY <1>1, <1>3, <1>4 DEF IInv, TypeOK, JournalType, JournalInv, Fresh, DiskClaims
  <2>. QED BY <1>1, <1>3, <1>4, <1>5, <2>1, ReturnKeeps
<1>6. ASSUME pc' = "write" \/ (pc' = "persistApplied" /\ kind = "batch" /\ idx' = Len(order)),
             idx' \in {idx, idx + 1}, idx' \in 1 .. Len(order),
             plan' \in Seq(WritesOf(order[idx'])),
             UNCHANGED <<mode, kind, order, want, from, verdict, failed, saved>>
      PROVE  IInv'
  <2>1. TypeOK'
    <3>1. KernelType' /\ JournalType'
      BY <1>1, <1>4, <1>6 DEF IInv, TypeOK, KernelType, JournalType
    <3>2. ModeType'
      BY <1>1, <1>6 DEF IInv, TypeOK, ModeType
    <3>3. plan' \in Seq([node : {"min", "max"}, value : Freq])
      <4>1. order[idx'] \in Target
        BY <1>2, <1>6
      <4>. QED BY <4>1, <1>6, WritesAreTyped
    <3>4. OperationType'
      BY <1>2, <1>6, <3>3 DEF IInv, TypeOK, OperationType
    <3>. QED BY <3>1, <3>2, <3>4 DEF TypeOK
  <2>2. RangeInv'
    BY <1>1, <1>6 DEF IInv, RangeInv
  <2>3. JournalInv'
    BY <1>1, <1>4, <1>6 DEF IInv, JournalInv
  <2>4. ControlInv'
    BY <1>1, <1>6 DEF IInv, ControlInv, Busy
  <2>5. SyncInv'
    BY <1>1, <1>3, <1>4, <1>6 DEF IInv, SyncInv, Busy, OnTarget, Ready, NeedsRecovery, Fresh, DiskClaims
  <2>6. DirtyInv'
    BY <1>1, <1>2, <1>6 DEF IInv, DirtyInv, Dirty
  <2>7. DurableClaim'
    BY <1>1 DEF IInv, DurableClaim
  <2>. QED BY <2>1, <2>2, <2>3, <2>4, <2>5, <2>6, <2>7 DEF IInv
<1>7. CASE /\ idx < Len(order)
           /\ StartTarget(order, from, want, idx + 1)
           /\ UNCHANGED <<pc, mode, kind, order, want, from, verdict, failed, saved>>
  <2>. DEFINE u == order[idx + 1]
  <2>1. idx' = idx + 1 /\ plan' = OrderedWrites(from[u], want[u]) /\ idx' \in 1 .. Len(order)
    BY <1>2, <1>7 DEF StartTarget
  <2>2. u \in Target /\ from[u] \in Limits /\ want[u] \in Limits /\ ValidLimits(u, want[u])
    BY <1>2, <1>7 DEF IInv, RangeInv, TypeOK, OperationType
  <2>3. plan' \in Seq(WritesOf(order[idx']))
    BY <2>1, <2>2, OrderedWritesTyped
  <2>. QED BY <1>1, <1>6, <1>7, <2>1, <2>3
<1>8. CASE /\ idx = Len(order) /\ kind = "batch"
           /\ pc' = "persistApplied"
           /\ UNCHANGED <<mode, kind, order, idx, want, from, plan, verdict, failed, saved>>
  <2>1. plan' \in Seq(WritesOf(order[idx']))
    BY <1>1, <1>8 DEF IInv, RangeInv
  <2>. QED BY <1>2, <1>6, <1>8, <2>1
<1>. QED BY <1>5, <1>7, <1>8 DEF WriteSettles

\* The post-mutation journal write of a batch.
LEMMA PersistAppliedKeeps ==
  ASSUME IInv, PersistApplied
  PROVE  IInv'
<1>1. /\ pc = "persistApplied" /\ Busy /\ OnTarget /\ mode = "ReadWrite" /\ recovery = FALSE
      /\ UNCHANGED <<nodes, cap, boot, recovery, registry, mem, crashes>>
      /\ idx = Len(order) /\ idx \in 1 .. Len(order) /\ order \in Seq(Target)
  BY DEF PersistApplied, kernelVars, IInv, Busy, OnTarget, ControlInv, RangeInv, TypeOK,
         ModeType, OperationType
<1>2. /\ mem \in Journal /\ JournalOK(mem) /\ Dirty \subseteq mem.claims
      /\ ToSet(order) \subseteq mem.claims
  BY <1>1 DEF IInv, SyncInv, DurableClaim, Dirty, DiskClaims, TypeOK, JournalType, JournalInv
<1>3. mem.claims # {}
  BY <1>1, <1>2, ToSetTyped
<1>4. CASE disk' = Stored(mem) /\ Return(mode)
  <2>1. /\ disk' \in [present : BOOLEAN, boot : 0 .. MaxBoot, journal : Journal]
        /\ disk'.journal = mem /\ disk'.present /\ disk'.boot = boot /\ disk'.boot <= boot
    BY <1>2, <1>4, StoredOK DEF IInv
  <2>. QED BY <1>1, <1>2, <1>3, <1>4, <2>1, ReturnKeeps
<1>5. CASE disk' \in {disk, Stored(mem)} /\ StartRollback(Len(order), "degrade")
  BY <1>1, <1>5, StartRollbackKeeps
<1>. QED BY <1>4, <1>5 DEF PersistApplied

\* A rollback moves to the target attempted before, or ends; it ends well
\* only if no unowned target is left dirty.
LEMMA NextRollbackKeeps ==
  ASSUME IInv, pc = "rollback", NEW bad \in BOOLEAN, NextRollback(bad),
         UNCHANGED <<nodes, cap, boot, disk, recovery, registry, crashes>>,
         ~bad => \A t \in Dirty : t \in saved.claims \/ \E j \in 1 .. idx - 1 : order[j] = t
  PROVE  IInv'
<1>1. /\ Busy /\ OnTarget /\ Fresh /\ mode = "ReadWrite" /\ recovery = FALSE
      /\ kind \in {"batch", "fast"}
      /\ idx \in 1 .. Len(order) /\ order \in Seq(Target)
  BY DEF IInv, SyncInv, Busy, OnTarget, ControlInv, RangeInv, TypeOK, ModeType, OperationType
<1>2. /\ DiskClaims = mem.claims /\ Dirty \subseteq DiskClaims
      /\ saved.claims \subseteq mem.claims /\ (kind = "fast" => saved.claims = mem.claims)
  BY <1>1 DEF IInv, SyncInv, DurableClaim, Dirty, DiskClaims
<1>3. /\ mem \in Journal /\ JournalOK(mem) /\ saved \in Journal /\ JournalOK(saved)
      /\ disk \in [present : BOOLEAN, boot : 0 .. MaxBoot, journal : Journal]
      /\ JournalOK(disk.journal) /\ (disk.present <=> disk.journal.claims # {})
      /\ disk.boot <= boot
  BY DEF IInv, TypeOK, JournalType, JournalInv
<1>4. CASE /\ idx > 1
           /\ idx' = idx - 1 /\ failed' = bad
           /\ plan' = ResetWrites(order[idx - 1], saved.entry[order[idx - 1]].desired)
           /\ UNCHANGED <<pc, mode, mem, kind, order, want, from, verdict, saved>>
  <2>. DEFINE u == order[idx - 1]
  <2>1. u \in Target /\ idx' \in 1 .. Len(order) /\ order[idx'] = u
    BY <1>1, <1>4
  <2>2. plan' \in Seq(WritesOf(u)) /\ plan' \in Seq([node : {"min", "max"}, value : Freq])
    BY <1>3, <1>4, <2>1, RequestedOK, ResetWritesTyped, WritesAreTyped
  <2>. HIDE DEF u
  <2>3. TypeOK'
    <3>1. KernelType' /\ JournalType'
      BY <1>4 DEF IInv, TypeOK, KernelType, JournalType
    <3>2. ModeType'
      BY <1>4 DEF IInv, TypeOK, ModeType
    <3>3. OperationType'
      BY <1>4, <2>1, <2>2 DEF IInv, TypeOK, OperationType
    <3>. QED BY <3>1, <3>2, <3>3 DEF TypeOK
  <2>4. RangeInv'
    BY <1>4, <2>1, <2>2 DEF IInv, RangeInv
  <2>5. JournalInv' /\ ControlInv'
    BY <1>4 DEF IInv, JournalInv, ControlInv, Busy
  <2>6. SyncInv'
    BY <1>4 DEF IInv, SyncInv, Busy, OnTarget, Ready, NeedsRecovery, Fresh, DiskClaims
  <2>7. DirtyInv'
    BY <1>4 DEF DirtyInv, Dirty
  <2>8. DurableClaim'
    BY DEF IInv, DurableClaim
  <2>. QED BY <2>3, <2>4, <2>5, <2>6, <2>7, <2>8 DEF IInv
<1>5. CASE idx = 1 /\ bad /\ Degrade /\ UNCHANGED mem
  <2>1. Dirty \subseteq DiskClaims'
    BY <1>2 DEF DiskClaims
  <2>. QED BY <1>1, <1>3, <1>5, <2>1, DegradeKeeps
<1>6. CASE idx = 1 /\ ~bad /\ kind = "fast" /\ mem' = saved /\ Return(mode)
  <2>1. /\ disk'.journal.claims = mem'.claims
        /\ disk'.present <=> mem'.claims # {}
        /\ disk'.present => disk'.boot = boot'
        /\ disk'.boot <= boot'
    BY <1>1, <1>2, <1>3, <1>6 DEF IInv, JournalInv, Fresh, DiskClaims
  <2>. QED BY <1>1, <1>2, <1>3, <1>6, <2>1, ReturnKeeps
<1>7. CASE /\ idx = 1 /\ ~bad /\ kind = "batch"
           /\ mem' = saved
           /\ pc' = "finish"
           /\ UNCHANGED <<mode, kind, order, idx, want, from, plan, verdict, failed, saved>>
  <2>1. Dirty \subseteq saved.claims
    BY <1>7
  <2>2. FinalJournal' = saved
    BY <1>7 DEF FinalJournal
  <2>3. TypeOK'
    <3>1. KernelType' /\ JournalType'
      BY <1>7 DEF IInv, TypeOK, KernelType, JournalType
    <3>2. ModeType' /\ OperationType'
      BY <1>7 DEF IInv, TypeOK, ModeType, OperationType
    <3>. QED BY <3>1, <3>2 DEF TypeOK
  <2>4. RangeInv'
    BY <1>7 DEF IInv, RangeInv, OnTarget
  <2>5. JournalInv' /\ ControlInv'
    BY <1>1, <1>7 DEF IInv, JournalInv, ControlInv, Busy
  <2>6. SyncInv'
    BY <1>1, <1>2, <1>7, <2>2 DEF SyncInv, Busy, OnTarget, Ready, NeedsRecovery, Fresh, DiskClaims
  <2>7. DirtyInv' /\ DurableClaim'
    BY <1>7, <2>1, <2>2 DEF IInv, DirtyInv, Dirty, DurableClaim
  <2>. QED BY <2>3, <2>4, <2>5, <2>6, <2>7 DEF IInv
<1>. QED BY <1>4, <1>5, <1>6, <1>7 DEF NextRollback

\* A rolled back target that was not owned reads the hardware range, so it is
\* clean.
LEMMA RollbackSettlesKeeps ==
  ASSUME IInv, RollbackSettles
  PROVE  IInv'
<1>. DEFINE t == order[idx]
<1>1. /\ pc = "rollback" /\ OnTarget /\ idx \in 1 .. Len(order) /\ t \in Target
      /\ failed \in BOOLEAN /\ saved \in Journal /\ JournalOK(saved)
      /\ Effective(t) = saved.entry[t].desired
  BY DEF RollbackSettles, IInv, OnTarget, RangeInv, TypeOK, OperationType, ModeType,
         JournalType, JournalInv
<1>2. t \notin saved.claims => nodes[t] = Hw[t]
  BY <1>1, RequestedOK, EffectiveHardware DEF IInv
<1>3. ~failed => \A u \in Dirty : u \in saved.claims \/ \E j \in 1 .. idx - 1 : order[j] = u
  <2>. SUFFICES ASSUME ~failed, NEW u \in Dirty, u \notin saved.claims
                PROVE  \E j \in 1 .. idx - 1 : order[j] = u
    OBVIOUS
  <2>1. PICK j \in 1 .. idx : order[j] = u
    BY <1>1 DEF IInv, DirtyInv
  <2>2. j # idx
    BY <1>2, <2>1 DEF Dirty
  <2>. QED BY <1>1, <2>1, <2>2
<1>. QED BY <1>1, <1>3, NextRollbackKeeps DEF RollbackSettles, kernelVars

\* A failed rollback promises nothing but the claims.
LEMMA RollbackFailsKeeps ==
  ASSUME IInv, RollbackFails
  PROVE  IInv'
BY NextRollbackKeeps DEF RollbackFails, kernelVars

\* What every operation finds when it may begin.
LEMMA ReadyFacts ==
  ASSUME IInv, Ready \/ (NeedsRecovery /\ disk.boot = boot)
  PROVE  /\ pc = "idle" /\ mode = "ReadWrite" /\ Fresh
         /\ mem.claims = DiskClaims /\ Dirty \subseteq DiskClaims
         /\ mem \in Journal /\ JournalOK(mem)
         /\ Requested(mem) \in [Target -> Limits]
         /\ \A t \in Target : ValidLimits(t, Requested(mem)[t])
<1>1. mem \in Journal /\ JournalOK(mem)
  BY DEF IInv, TypeOK, JournalType, JournalInv
<1>2. Dirty \subseteq DiskClaims
  BY DEF IInv, DurableClaim, Dirty, DiskClaims
<1>3. pc = "idle" /\ mode = "ReadWrite" /\ Fresh /\ mem.claims = DiskClaims
  BY DEF IInv, SyncInv, Ready, NeedsRecovery, Fresh, DiskClaims
<1>. QED BY <1>1, <1>2, <1>3, RequestedOK

\* Beginning an operation that journals first.
LEMMA BeginIntentKeeps ==
  ASSUME IInv, Ready \/ (NeedsRecovery /\ disk.boot = boot),
         NEW k \in {"batch", "restore", "recover"}, k = "recover" <=> recovery,
         NEW s \in Orders, s # <<>>,
         NEW w \in [Target -> Limits], \A t \in Target : ValidLimits(t, w[t]),
         k # "batch" => ToSet(s) \subseteq mem.claims,
         k = "recover" => ToSet(s) = mem.claims,
         k # "batch" => w = Hw,
         mem' = WithIntents(mem, s, Requested(mem), w),
         Begin(k, s, w, Requested(mem), "persistIntent"),
         idx' = 0, plan' = <<>>,
         UNCHANGED <<nodes, cap, boot, disk, recovery, registry, crashes>>
  PROVE  IInv'
<1>. DEFINE f == Requested(mem)
<1>1. /\ pc = "idle" /\ mode = "ReadWrite" /\ Fresh
      /\ mem.claims = DiskClaims /\ Dirty \subseteq DiskClaims
      /\ mem \in Journal /\ JournalOK(mem)
      /\ f \in [Target -> Limits]
      /\ \A t \in Target : ValidLimits(t, f[t])
  BY ReadyFacts
<1>2. s \in Seq(Target) /\ ToSet(s) \subseteq Target
  BY OrdersTyped
<1>. HIDE DEF f
<1>3. mem' \in Journal /\ JournalOK(mem') /\ mem'.claims = mem.claims \cup ToSet(s)
  BY <1>1, <1>2, WithIntentsOK DEF f
<1>4. /\ kind' = k /\ order' = s /\ want' = w /\ from' = f /\ pc' = "persistIntent"
      /\ saved' = mem /\ verdict' = "none" /\ failed' = FALSE /\ mode' = mode
  BY DEF Begin, f
<1>5. TypeOK'
  <2>1. KernelType' /\ JournalType'
    BY <1>1, <1>3, <1>4 DEF IInv, TypeOK, KernelType, JournalType
  <2>2. ModeType'
    BY <1>4 DEF IInv, TypeOK, ModeType
  <2>3. OperationType'
    BY <1>1, <1>2, <1>4 DEF IInv, TypeOK, OperationType
  <2>. QED BY <2>1, <2>2, <2>3 DEF TypeOK
<1>6. RangeInv'
  BY <1>1, <1>4 DEF IInv, RangeInv, OnTarget
<1>7. JournalInv'
  BY <1>1, <1>3, <1>4 DEF IInv, JournalInv
<1>8. ControlInv'
  BY <1>1, <1>4 DEF ControlInv, Busy
<1>9. SyncInv'
  BY <1>1, <1>3, <1>4 DEF SyncInv, Busy, OnTarget, Ready, NeedsRecovery, Fresh, DiskClaims
<1>10. DirtyInv' /\ DurableClaim'
  BY <1>4 DEF IInv, DirtyInv, DurableClaim
<1>. QED BY <1>5, <1>6, <1>7, <1>8, <1>9, <1>10 DEF IInv

\* The requests of a batch, snapped, are windows.
LEMMA SnappedOK ==
  ASSUME NEW s \in Orders, NEW r \in [ToSet(s) -> UNION {Window(t) : t \in ToSet(s)}],
         \A t \in ToSet(s) : r[t] \in Window(t)
  PROVE  LET w == [t \in Target |-> IF t \in ToSet(s) THEN SnapLimits(t, r[t]) ELSE Hw[t]]
         IN  w \in [Target -> Limits] /\ \A t \in Target : ValidLimits(t, w[t])
<1>1. \A t \in ToSet(s) : SnapLimits(t, r[t]) \in Limits /\ ValidLimits(t, SnapLimits(t, r[t]))
  BY OrdersTyped, SnapLimitsValid
<1>2. \A t \in Target : Hw[t] \in Limits /\ ValidLimits(t, Hw[t])
  BY HwFacts
<1>. QED BY <1>1, <1>2

\* apply_batch begins.
LEMMA ApplyBatchKeeps ==
  ASSUME IInv, ApplyBatch
  PROVE  IInv'
<1>1. PICK s \in Orders : \E r \in [ToSet(s) -> UNION {Window(t) : t \in ToSet(s)}] :
       LET w == [t \in Target |-> IF t \in ToSet(s) THEN SnapLimits(t, r[t]) ELSE Hw[t]]
       IN  /\ s # <<>> /\ ToSet(s) \subseteq registry
           /\ \A t \in ToSet(s) : r[t] \in Window(t) /\ BatchWrites(t, w[t])
           /\ mem' = WithIntents(mem, s, Requested(mem), w)
           /\ Begin("batch", s, w, Requested(mem), "persistIntent")
  BY DEF ApplyBatch
<1>2. PICK r \in [ToSet(s) -> UNION {Window(t) : t \in ToSet(s)}] :
       LET w == [t \in Target |-> IF t \in ToSet(s) THEN SnapLimits(t, r[t]) ELSE Hw[t]]
       IN  /\ s # <<>> /\ ToSet(s) \subseteq registry
           /\ \A t \in ToSet(s) : r[t] \in Window(t) /\ BatchWrites(t, w[t])
           /\ mem' = WithIntents(mem, s, Requested(mem), w)
           /\ Begin("batch", s, w, Requested(mem), "persistIntent")
  BY <1>1
<1>. DEFINE w == [t \in Target |-> IF t \in ToSet(s) THEN SnapLimits(t, r[t]) ELSE Hw[t]]
<1>3. w \in [Target -> Limits] /\ \A t \in Target : ValidLimits(t, w[t])
  BY <1>2, SnappedOK
<1>4. Ready /\ ~recovery /\ recovery \in BOOLEAN
  BY DEF ApplyBatch, Ready, IInv, TypeOK, ModeType
<1>5. /\ s # <<>> /\ mem' = WithIntents(mem, s, Requested(mem), w)
      /\ Begin("batch", s, w, Requested(mem), "persistIntent")
  BY <1>2
<1>6. idx' = 0 /\ plan' = <<>> /\ UNCHANGED <<nodes, cap, boot, disk, recovery, registry, crashes>>
  BY DEF ApplyBatch, kernelVars
<1>. HIDE DEF w
<1>. QED BY <1>3, <1>4, <1>5, <1>6, BeginIntentKeeps

\* recover_pending begins with a journal of this boot.
LEMMA RecoverKeeps ==
  ASSUME IInv, Recover
  PROVE  IInv'
<1>1. PICK s \in Orders :
       /\ ToSet(s) = mem.claims
       /\ mem' = WithIntents(mem, s, Requested(mem), Hw)
       /\ Begin("recover", s, Hw, Requested(mem), "persistIntent")
  BY DEF Recover
<1>2. NeedsRecovery /\ disk.boot = boot /\ recovery
  BY DEF Recover, NeedsRecovery
<1>3. s # <<>>
  <2>1. mem.claims # {}
    BY <1>2 DEF IInv, SyncInv, JournalInv
  <2>. QED BY <1>1, <2>1 DEF ToSet
<1>4. Hw \in [Target -> Limits] /\ \A t \in Target : ValidLimits(t, Hw[t])
  BY HwAssumption, HwFacts
<1>5. idx' = 0 /\ plan' = <<>> /\ UNCHANGED <<nodes, cap, boot, disk, recovery, registry, crashes>>
  BY DEF Recover, kernelVars
<1>. QED BY <1>1, <1>2, <1>3, <1>4, <1>5, BeginIntentKeeps

\* restore_targets begins; with nothing to restore it goes to the last journal
\* write directly.
LEMMA RestoreKeeps ==
  ASSUME IInv, Restore
  PROVE  IInv'
<1>1. PICK s \in Orders :
       /\ ToSet(s) \subseteq mem.claims
       /\ mem' = WithIntents(mem, s, Requested(mem), Hw)
       /\ Begin("restore", s, Hw, Requested(mem),
                IF s = <<>> THEN "finish" ELSE "persistIntent")
  BY DEF Restore
<1>2. Ready /\ recovery = FALSE
  BY DEF Restore, Ready, IInv, TypeOK, ModeType
<1>3. Hw \in [Target -> Limits] /\ \A t \in Target : ValidLimits(t, Hw[t])
  BY HwAssumption, HwFacts
<1>4. idx' = 0 /\ plan' = <<>> /\ UNCHANGED <<nodes, cap, boot, disk, recovery, registry, crashes>>
  BY DEF Restore, kernelVars
<1>5. CASE s # <<>>
  BY <1>1, <1>2, <1>3, <1>4, <1>5, BeginIntentKeeps
<1>6. CASE s = <<>>
  <2>1. /\ pc = "idle" /\ mode = "ReadWrite" /\ Fresh
        /\ mem.claims = DiskClaims /\ Dirty \subseteq DiskClaims
        /\ mem \in Journal /\ JournalOK(mem)
        /\ Requested(mem) \in [Target -> Limits]
        /\ \A t \in Target : ValidLimits(t, Requested(mem)[t])
    BY <1>2, ReadyFacts
  <2>2. s \in Seq(Target) /\ ToSet(s) = {}
    BY <1>6 DEF ToSet
  <2>3. mem' \in Journal /\ JournalOK(mem') /\ mem'.claims = mem.claims
    BY <1>1, <1>3, <2>1, <2>2, WithIntentsOK
  <2>4. /\ kind' = "restore" /\ order' = s /\ want' = Hw /\ from' = Requested(mem) /\ pc' = "finish"
        /\ saved' = mem /\ verdict' = "none" /\ failed' = FALSE /\ mode' = mode
    BY <1>1, <1>6 DEF Begin
  <2>5. FinalJournal' = mem'
    BY <2>4 DEF FinalJournal
  <2>6. TypeOK'
    <3>1. KernelType' /\ JournalType'
      BY <1>4, <2>1, <2>3, <2>4 DEF IInv, TypeOK, KernelType, JournalType
    <3>2. ModeType'
      BY <1>4, <2>4 DEF IInv, TypeOK, ModeType
    <3>3. OperationType'
      BY <1>3, <1>4, <2>1, <2>2, <2>4 DEF OperationType
    <3>. QED BY <3>1, <3>2, <3>3 DEF TypeOK
  <2>7. RangeInv'
    BY <1>3, <1>4, <2>1, <2>4 DEF IInv, RangeInv, OnTarget
  <2>8. JournalInv'
    BY <1>4, <2>1, <2>3, <2>4 DEF IInv, JournalInv
  <2>9. ControlInv'
    BY <1>2, <1>4, <2>1, <2>4 DEF ControlInv, Busy
  <2>10. SyncInv'
    BY <1>4, <2>1, <2>3, <2>4, <2>5 DEF SyncInv, Busy, OnTarget, Ready, NeedsRecovery, Fresh, DiskClaims
  <2>11. DirtyInv' /\ DurableClaim'
    BY <1>4, <2>1, <2>3, <2>4, <2>5 DEF IInv, DirtyInv, Dirty, DurableClaim
  <2>. QED BY <2>6, <2>7, <2>8, <2>9, <2>10, <2>11 DEF IInv
<1>. QED BY <1>5, <1>6

\* apply_owned_batch_fast begins: its targets are claimed in the file already.
LEMMA ApplyFastKeeps ==
  ASSUME IInv, ApplyFast
  PROVE  IInv'
<1>1. PICK s \in Orders : \E r \in [ToSet(s) -> UNION {Window(t) : t \in ToSet(s)}] :
       LET w == [t \in Target |-> IF t \in ToSet(s) THEN SnapLimits(t, r[t]) ELSE Hw[t]]
           f == [t \in Target |-> IF t \in ToSet(s) THEN Effective(t) ELSE Hw[t]]
       IN  /\ s # <<>> /\ ToSet(s) \subseteq mem.claims \cap registry
           /\ \A t \in ToSet(s) : r[t] \in Window(t) /\ FastWrites(t, w[t])
           /\ mem' = WithIntents(mem, s, f, w)
           /\ Begin("fast", s, w, f, "write")
           /\ StartTarget(s, f, w, 1)
  BY DEF ApplyFast
<1>2. PICK r \in [ToSet(s) -> UNION {Window(t) : t \in ToSet(s)}] :
       LET w == [t \in Target |-> IF t \in ToSet(s) THEN SnapLimits(t, r[t]) ELSE Hw[t]]
           f == [t \in Target |-> IF t \in ToSet(s) THEN Effective(t) ELSE Hw[t]]
       IN  /\ s # <<>> /\ ToSet(s) \subseteq mem.claims \cap registry
           /\ \A t \in ToSet(s) : r[t] \in Window(t) /\ FastWrites(t, w[t])
           /\ mem' = WithIntents(mem, s, f, w)
           /\ Begin("fast", s, w, f, "write")
           /\ StartTarget(s, f, w, 1)
  BY <1>1
<1>. DEFINE w == [t \in Target |-> IF t \in ToSet(s) THEN SnapLimits(t, r[t]) ELSE Hw[t]]
            f == [t \in Target |-> IF t \in ToSet(s) THEN Effective(t) ELSE Hw[t]]
<1>3. w \in [Target -> Limits] /\ \A t \in Target : ValidLimits(t, w[t])
  BY <1>2, SnappedOK
<1>4. f \in [Target -> Limits] /\ \A t \in Target : ValidLimits(t, f[t])
  <2>1. \A t \in Target : Effective(t) \in Limits /\ ValidLimits(t, Effective(t))
    BY EffectiveValid DEF IInv
  <2>. QED BY <2>1, HwFacts
<1>5. /\ s # <<>> /\ ToSet(s) \subseteq mem.claims
      /\ mem' = WithIntents(mem, s, f, w)
      /\ Begin("fast", s, w, f, "write") /\ StartTarget(s, f, w, 1)
  BY <1>2
<1>. HIDE DEF w, f
<1>6. /\ pc = "idle" /\ mode = "ReadWrite" /\ Fresh /\ recovery = FALSE
      /\ mem.claims = DiskClaims /\ Dirty \subseteq DiskClaims
      /\ mem \in Journal /\ JournalOK(mem)
  BY ReadyFacts DEF ApplyFast, Ready, IInv, TypeOK, ModeType
<1>7. s \in Seq(Target) /\ 1 \in 1 .. Len(s) /\ s[1] \in Target
  BY <1>5, OrdersTyped
<1>8. mem' \in Journal /\ JournalOK(mem') /\ mem'.claims = mem.claims
  BY <1>3, <1>4, <1>5, <1>6, <1>7, WithIntentsOK
<1>9. /\ kind' = "fast" /\ order' = s /\ want' = w /\ from' = f /\ pc' = "write"
      /\ saved' = mem /\ verdict' = "none" /\ failed' = FALSE /\ mode' = mode
      /\ idx' = 1 /\ plan' = OrderedWrites(f[s[1]], w[s[1]])
      /\ UNCHANGED <<nodes, cap, boot, disk, recovery, registry, crashes>>
  BY <1>5 DEF Begin, StartTarget, ApplyFast, kernelVars
<1>10. /\ plan' \in Seq(WritesOf(s[1])) /\ plan' \in Seq([node : {"min", "max"}, value : Freq])
  <2>1. f[s[1]] \in Limits /\ w[s[1]] \in Limits /\ ValidLimits(s[1], w[s[1]])
    BY <1>3, <1>4, <1>7
  <2>. QED BY <1>7, <1>9, <2>1, OrderedWritesTyped, WritesAreTyped
<1>11. TypeOK'
  <2>1. KernelType' /\ JournalType'
    BY <1>6, <1>8, <1>9 DEF IInv, TypeOK, KernelType, JournalType
  <2>2. ModeType'
    BY <1>9 DEF IInv, TypeOK, ModeType
  <2>3. OperationType'
    BY <1>3, <1>4, <1>7, <1>9, <1>10 DEF OperationType
  <2>. QED BY <2>1, <2>2, <2>3 DEF TypeOK
<1>12. RangeInv'
  BY <1>3, <1>4, <1>9, <1>10 DEF IInv, RangeInv
<1>13. JournalInv'
  BY <1>6, <1>8, <1>9 DEF IInv, JournalInv
<1>14. ControlInv'
  BY <1>6, <1>9 DEF ControlInv, Busy
<1>15. SyncInv'
  BY <1>5, <1>6, <1>8, <1>9 DEF SyncInv, Busy, OnTarget, Ready, NeedsRecovery, Fresh, DiskClaims
<1>16. DirtyInv' /\ DurableClaim'
  BY <1>6, <1>9 DEF IInv, DirtyInv, Dirty, DurableClaim
<1>. QED BY <1>11, <1>12, <1>13, <1>14, <1>15, <1>16 DEF IInv

\* A reset target is clean, so what is left to reset is behind it.
LEMMA ResetSettlesKeeps ==
  ASSUME IInv, ResetSettles
  PROVE  IInv'
<1>. DEFINE t == order[idx]
<1>1. /\ pc = "reset" /\ OnTarget /\ Busy /\ Fresh /\ mode = "ReadWrite"
      /\ idx \in 1 .. Len(order) /\ order \in Seq(Target) /\ t \in Target
      /\ kind \in {"restore", "recover"} /\ (recovery <=> kind = "recover")
  BY DEF ResetSettles, IInv, SyncInv, OnTarget, Busy, ControlInv, RangeInv, TypeOK, OperationType
<1>2. /\ DiskClaims = mem.claims /\ ToSet(order) \subseteq mem.claims /\ Dirty \subseteq DiskClaims
      /\ mem \in Journal /\ JournalOK(mem)
      /\ kind = "recover" => mem.claims = ToSet(order)
  BY <1>1 DEF IInv, SyncInv, DurableClaim, Dirty, DiskClaims, TypeOK, JournalType, JournalInv
<1>3. UNCHANGED <<nodes, cap, boot, disk, mode, recovery, registry, saved, kind, order,
                  want, from, verdict, failed, crashes>>
  BY DEF ResetSettles, kernelVars
<1>4. nodes[t] = Hw[t]
  <2>1. want[t] = Hw[t]
    BY <1>1 DEF IInv, ControlInv
  <2>. QED BY <1>1, <2>1, EffectiveHardware DEF ResetSettles, IInv
<1>5. \A u \in Dirty : u \in ToSet(order) => \E j \in (idx + 1) .. Len(order) : order[j] = u
  <2>. SUFFICES ASSUME NEW u \in Dirty, u \in ToSet(order)
                PROVE  \E j \in (idx + 1) .. Len(order) : order[j] = u
    OBVIOUS
  <2>1. PICK j \in idx .. Len(order) : order[j] = u
    BY <1>1 DEF IInv, DirtyInv
  <2>2. j # idx
    BY <1>4, <2>1 DEF Dirty
  <2>. QED BY <1>1, <2>1, <2>2
<1>. HIDE DEF t
<1>6. CASE /\ idx < Len(order)
           /\ idx' = idx + 1
           /\ plan' = ResetWrites(order[idx + 1], want[order[idx + 1]])
           /\ UNCHANGED <<mem, pc>>
  <2>. DEFINE u == order[idx + 1]
  <2>1. /\ u \in Target /\ idx' \in 1 .. Len(order) /\ order[idx'] = u
        /\ want[u] \in Limits /\ ValidLimits(u, want[u])
    BY <1>1, <1>6 DEF IInv, RangeInv, TypeOK, OperationType
  <2>2. plan' \in Seq(WritesOf(u)) /\ plan' \in Seq([node : {"min", "max"}, value : Freq])
    BY <1>6, <2>1, ResetWritesTyped, WritesAreTyped
  <2>. HIDE DEF u
  <2>3. TypeOK'
    <3>1. KernelType' /\ JournalType'
      BY <1>3, <1>6 DEF IInv, TypeOK, KernelType, JournalType
    <3>2. ModeType'
      BY <1>3, <1>6 DEF IInv, TypeOK, ModeType
    <3>3. OperationType'
      BY <1>3, <1>6, <2>1, <2>2 DEF IInv, TypeOK, OperationType
    <3>. QED BY <3>1, <3>2, <3>3 DEF TypeOK
  <2>4. RangeInv'
    BY <1>3, <1>6, <2>1, <2>2 DEF IInv, RangeInv
  <2>5. JournalInv' /\ ControlInv'
    BY <1>3, <1>6 DEF IInv, JournalInv, ControlInv, Busy
  <2>6. SyncInv'
    BY <1>1, <1>3, <1>6 DEF IInv, SyncInv, Busy, OnTarget, Ready, NeedsRecovery, Fresh, DiskClaims
  <2>7. DirtyInv'
    BY <1>1, <1>3, <1>5, <1>6 DEF DirtyInv, Dirty
  <2>8. DurableClaim'
    BY <1>3 DEF IInv, DurableClaim
  <2>. QED BY <2>3, <2>4, <2>5, <2>6, <2>7, <2>8 DEF IInv
<1>7. CASE /\ idx = Len(order)
           /\ mem' = IF kind = "restore" THEN Without(mem, order) ELSE mem
           /\ pc' = "finish"
           /\ UNCHANGED <<idx, plan>>
  <2>1. mem' \in Journal /\ JournalOK(mem')
    BY <1>1, <1>2, <1>7, WithoutOK
  <2>2. FinalJournal'.claims = mem.claims \ ToSet(order)
    BY <1>1, <1>2, <1>3, <1>7, WithoutOK, EmptyJournalOK DEF FinalJournal
  <2>3. Dirty \subseteq mem.claims \ ToSet(order)
    BY <1>1, <1>2, <1>5, <1>7
  <2>4. TypeOK'
    <3>1. KernelType' /\ JournalType'
      BY <1>3, <2>1 DEF IInv, TypeOK, KernelType, JournalType
    <3>2. ModeType' /\ OperationType'
      BY <1>3, <1>7 DEF IInv, TypeOK, ModeType, OperationType
    <3>. QED BY <3>1, <3>2 DEF TypeOK
  <2>5. RangeInv'
    BY <1>3, <1>7 DEF IInv, RangeInv, OnTarget
  <2>6. JournalInv' /\ ControlInv'
    BY <1>1, <1>3, <1>7, <2>1 DEF IInv, JournalInv, ControlInv, Busy
  <2>7. SyncInv'
    <3>1. Fresh' /\ FinalJournal'.claims \subseteq DiskClaims'
      BY <1>1, <1>2, <1>3, <2>2 DEF Fresh, DiskClaims
    <3>. QED BY <3>1, <1>7 DEF SyncInv, Busy, OnTarget, Ready, NeedsRecovery
  <2>8. DirtyInv' /\ DurableClaim'
    BY <1>3, <1>7, <2>2, <2>3 DEF IInv, DirtyInv, Dirty, DurableClaim
  <2>. QED BY <2>4, <2>5, <2>6, <2>7, <2>8 DEF IInv
<1>. QED BY <1>6, <1>7 DEF ResetSettles

\* The last journal write of an operation.
LEMMA FinishKeeps ==
  ASSUME IInv, Finish
  PROVE  IInv'
<1>. DEFINE j == FinalJournal
<1>1. /\ pc = "finish" /\ Busy /\ Fresh /\ mode = "ReadWrite"
      /\ (recovery <=> kind = "recover") /\ recovery \in BOOLEAN
      /\ UNCHANGED <<nodes, cap, boot, registry, crashes>>
  BY DEF Finish, kernelVars, IInv, SyncInv, Busy, ControlInv, TypeOK, ModeType
<1>2. /\ mem \in Journal /\ JournalOK(mem) /\ j \in Journal /\ JournalOK(j)
      /\ disk \in [present : BOOLEAN, boot : 0 .. MaxBoot, journal : Journal]
      /\ JournalOK(disk.journal) /\ (disk.present <=> disk.journal.claims # {})
      /\ disk.boot <= boot
  BY EmptyJournalOK DEF FinalJournal, IInv, TypeOK, JournalType, JournalInv
<1>3. Dirty \subseteq j.claims /\ Dirty \subseteq DiskClaims
  BY <1>1 DEF IInv, DirtyInv, DurableClaim, Dirty, DiskClaims
<1>4. /\ StoredOrRemoved(j) \in [present : BOOLEAN, boot : 0 .. MaxBoot, journal : Journal]
      /\ JournalOK(StoredOrRemoved(j).journal)
      /\ StoredOrRemoved(j).journal.claims = j.claims
      /\ StoredOrRemoved(j).present <=> j.claims # {}
      /\ StoredOrRemoved(j).present => StoredOrRemoved(j).boot = boot
      /\ StoredOrRemoved(j).boot <= boot
  BY <1>2, StoredOK DEF IInv
<1>. HIDE DEF j
<1>5. CASE /\ disk' = StoredOrRemoved(j)
           /\ mem' = j
           /\ recovery' = IF kind = "recover" THEN FALSE ELSE recovery
           /\ Return(IF verdict = "degrade" THEN "ReadOnlyDegraded" ELSE mode)
  <2>1. recovery' = FALSE
    BY <1>1, <1>5
  <2>2. CASE verdict # "degrade"
    <3>1. Return(mode)
      BY <1>5, <2>2
    <3>. QED BY <1>1, <1>2, <1>3, <1>4, <1>5, <2>1, <3>1, ReturnKeeps
  <2>3. CASE verdict = "degrade"
    <3>1. Degrade
      BY <1>5, <2>3 DEF Degrade
    <3>2. recovery' = recovery
      BY <1>1, <2>1, <2>3 DEF IInv, ControlInv
    <3>3. Dirty \subseteq DiskClaims'
      BY <1>1, <1>3, <1>4, <1>5 DEF DiskClaims
    <3>. QED BY <1>1, <1>2, <1>3, <1>4, <1>5, <3>1, <3>2, <3>3, DegradeKeeps
  <2>. QED BY <2>2, <2>3
<1>6. CASE /\ disk' \in {disk, StoredOrRemoved(j)}
           /\ UNCHANGED <<mem, recovery>>
           /\ Degrade
  <2>1. /\ disk' \in [present : BOOLEAN, boot : 0 .. MaxBoot, journal : Journal]
        /\ JournalOK(disk'.journal)
        /\ disk'.present <=> disk'.journal.claims # {}
        /\ disk'.boot <= boot'
        /\ Dirty \subseteq DiskClaims'
    <3>1. CASE disk' = disk
      BY <3>1, <1>1, <1>2, <1>3 DEF DiskClaims
    <3>2. CASE disk' = StoredOrRemoved(j)
      BY <3>2, <1>1, <1>3, <1>4 DEF DiskClaims
    <3>. QED BY <3>1, <3>2, <1>6
  <2>. QED BY <1>1, <1>2, <1>6, <2>1, DegradeKeeps
<1>. QED BY <1>5, <1>6 DEF Finish, j

\* Giving up inside a reset, or refusing a recovery, touches nothing.
LEMMA GiveUpKeeps ==
  ASSUME IInv, Degrade,
         UNCHANGED <<nodes, cap, boot, disk, recovery, registry, mem, crashes>>
  PROVE  IInv'
<1>1. /\ mem \in Journal /\ JournalOK(mem)
      /\ disk \in [present : BOOLEAN, boot : 0 .. MaxBoot, journal : Journal]
      /\ JournalOK(disk.journal) /\ (disk.present <=> disk.journal.claims # {})
      /\ disk.boot <= boot
  BY DEF IInv, TypeOK, JournalType, JournalInv
<1>2. Dirty \subseteq DiskClaims'
  BY DEF IInv, DurableClaim, Dirty, DiskClaims
<1>. QED BY <1>1, <1>2, DegradeKeeps

\* A journal of another boot claims nothing, so nothing is dirty.
LEMMA DiscardStaleKeeps ==
  ASSUME IInv, DiscardStale
  PROVE  IInv'
<1>1. /\ mode = "ReadWrite" /\ disk.boot # boot
      /\ UNCHANGED <<nodes, cap, boot, registry, crashes>>
  BY DEF DiscardStale, NeedsRecovery, kernelVars
<1>2. Dirty = {}
  BY <1>1 DEF IInv, DurableClaim, Dirty
<1>3. /\ mem \in Journal /\ JournalOK(mem)
      /\ disk \in [present : BOOLEAN, boot : 0 .. MaxBoot, journal : Journal]
      /\ JournalOK(disk.journal) /\ (disk.present <=> disk.journal.claims # {})
      /\ disk.boot <= boot
  BY DEF IInv, TypeOK, JournalType, JournalInv
<1>4. /\ NoFile \in [present : BOOLEAN, boot : 0 .. MaxBoot, journal : Journal]
      /\ JournalOK(NoFile.journal) /\ ~NoFile.present /\ NoFile.journal.claims = {}
      /\ NoFile.boot <= boot
  BY <1>3, StoredOK DEF IInv
<1>5. CASE disk' = NoFile /\ mem' = EmptyJournal /\ recovery' = FALSE /\ Return(mode)
  BY <1>1, <1>2, <1>4, <1>5, EmptyJournalOK, ReturnKeeps
<1>6. CASE disk' \in {disk, NoFile} /\ Degrade /\ UNCHANGED <<mem, recovery>>
  BY <1>1, <1>2, <1>3, <1>4, <1>6, DegradeKeeps
<1>. QED BY <1>5, <1>6 DEF DiscardStale

\* A process that is gone leaves the machine and the file.
LEMMA DownKeeps ==
  ASSUME IInv, Down,
         crashes' \in 0 .. MaxCrash, boot' \in 0 .. MaxBoot, boot <= boot',
         \/ UNCHANGED <<nodes, cap, boot, disk>>
         \/ /\ nodes' = [t \in Target |-> Hw[t]] /\ cap' = [t \in Target |-> Hw[t].max]
            /\ disk' \in {disk, NoFile}
  PROVE  IInv'
<1>. USE DEF Down
<1>1. /\ pc' = "down" /\ mode' = "ReadWrite" /\ mem' = EmptyJournal /\ saved' = EmptyJournal
  OBVIOUS
<1>2. /\ EmptyJournal \in Journal /\ JournalOK(EmptyJournal)
      /\ NoFile \in [present : BOOLEAN, boot : 0 .. MaxBoot, journal : Journal]
      /\ JournalOK(NoFile.journal) /\ ~NoFile.present /\ NoFile.journal.claims = {}
      /\ NoFile.boot <= boot
  BY EmptyJournalOK, StoredOK DEF IInv
<1>3. /\ disk \in [present : BOOLEAN, boot : 0 .. MaxBoot, journal : Journal]
      /\ JournalOK(disk.journal) /\ (disk.present <=> disk.journal.claims # {})
      /\ disk.boot <= boot
  BY DEF IInv, TypeOK, JournalType, JournalInv
<1>4. TypeOK'
  <2>1. nodes' \in [Target -> Limits] /\ cap' \in [Target -> Freq]
    BY HwFacts DEF IInv, TypeOK, KernelType, Freq
  <2>2. KernelType' /\ JournalType'
    BY <1>2, <1>3, <2>1 DEF KernelType, JournalType
  <2>3. ModeType'
    BY DEF IInv, TypeOK, ModeType
  <2>4. OperationType'
    BY EmptyJournalOK DEF OperationType
  <2>. QED BY <2>2, <2>3, <2>4 DEF TypeOK
<1>5. RangeInv'
  BY HwFacts DEF IInv, RangeInv, OnTarget
<1>6. JournalInv'
  <2>1. boot \in Nat /\ boot' \in Nat /\ disk.boot \in Nat /\ NoFile.boot \in Nat
    BY <1>2, BoundsAssumption DEF IInv, TypeOK, KernelType, JournalType
  <2>2. disk' \in {disk, NoFile}
    OBVIOUS
  <2>. QED BY <1>2, <1>3, <2>1, <2>2 DEF JournalInv
<1>7. ControlInv' /\ SyncInv' /\ DirtyInv'
  BY <1>1 DEF ControlInv, SyncInv, DirtyInv, Busy, OnTarget, Ready, NeedsRecovery
<1>8. DurableClaim'
  BY DEF IInv, DurableClaim
<1>. QED BY <1>4, <1>5, <1>6, <1>7, <1>8 DEF IInv

\* The daemon dies at any point.
LEMMA CrashKeeps ==
  ASSUME IInv, Crash
  PROVE  IInv'
<1>1. crashes' \in 0 .. MaxCrash /\ boot' \in 0 .. MaxBoot /\ boot <= boot'
  BY BoundsAssumption DEF Crash, kernelVars, IInv, TypeOK, KernelType
<1>. QED BY <1>1, DownKeeps DEF Crash, kernelVars

\* The host reboots at any point.
LEMMA RebootKeeps ==
  ASSUME IInv, Reboot
  PROVE  IInv'
<1>1. crashes' \in 0 .. MaxCrash /\ boot' \in 0 .. MaxBoot /\ boot <= boot'
  BY BoundsAssumption DEF Reboot, IInv, TypeOK, KernelType
<1>. QED BY <1>1, DownKeeps DEF Reboot

\* A new process takes the journal from the file, or refuses to write.
LEMMA NewKeeps ==
  ASSUME IInv, New
  PROVE  IInv'
<1>1. /\ pc = "down" /\ pc' = "idle" /\ registry' \in SUBSET Target
      /\ UNCHANGED <<nodes, cap, boot, disk, crashes, kind, order, idx, want, from, plan,
                     verdict, failed, saved>>
  BY DEF New, kernelVars, opVars
<1>2. /\ EmptyJournal \in Journal /\ JournalOK(EmptyJournal) /\ EmptyJournal.claims = {}
      /\ disk \in [present : BOOLEAN, boot : 0 .. MaxBoot, journal : Journal]
      /\ JournalOK(disk.journal) /\ (disk.present <=> disk.journal.claims # {})
      /\ disk.boot <= boot
      /\ disk.present \in BOOLEAN /\ disk.journal \in Journal
  BY EmptyJournalOK DEF IInv, TypeOK, JournalType, JournalInv
<1>3. /\ mem' \in {disk.journal, EmptyJournal} /\ mode' \in {"ReadWrite", "ReadOnlyDegraded"}
      /\ recovery' \in BOOLEAN
      /\ mode' = "ReadWrite" /\ recovery' => disk.present /\ mem' = disk.journal
      /\ mode' = "ReadWrite" /\ ~recovery' => ~disk.present /\ mem' = EmptyJournal
  BY <1>2 DEF New
<1>4. TypeOK'
  <2>1. KernelType' /\ JournalType'
    BY <1>1, <1>2, <1>3 DEF IInv, TypeOK, KernelType, JournalType
  <2>2. ModeType'
    BY <1>1, <1>3 DEF IInv, TypeOK, ModeType
  <2>3. OperationType'
    BY <1>1 DEF IInv, TypeOK, OperationType
  <2>. QED BY <2>1, <2>2, <2>3 DEF TypeOK
<1>5. RangeInv'
  BY <1>1 DEF IInv, RangeInv, OnTarget
<1>6. JournalInv'
  BY <1>1, <1>2, <1>3 DEF IInv, JournalInv
<1>7. ControlInv' /\ DirtyInv'
  BY <1>1 DEF ControlInv, DirtyInv, Busy
<1>8. SyncInv'
  BY <1>1, <1>2, <1>3 DEF SyncInv, Busy, OnTarget, Ready, NeedsRecovery, Fresh, DiskClaims
<1>9. DurableClaim'
  BY <1>1 DEF IInv, DurableClaim
<1>. QED BY <1>4, <1>5, <1>6, <1>7, <1>8, <1>9 DEF IInv

-----------------------------------------------------------------------------
(* The theorems.                                                           *)

\* Every step keeps the invariant.
LEMMA NextIInv == IInv /\ [Next]_vars => IInv'
<1>. SUFFICES ASSUME IInv, [Next]_vars PROVE IInv'
  OBVIOUS
<1>1. CASE ApplyBatch BY <1>1, ApplyBatchKeeps
<1>2. CASE ApplyFast BY <1>2, ApplyFastKeeps
<1>3. CASE Restore BY <1>3, RestoreKeeps
<1>4. CASE DiscardStale BY <1>4, DiscardStaleKeeps
<1>5. CASE RefuseRecovery BY <1>5, GiveUpKeeps DEF RefuseRecovery, kernelVars
<1>6. CASE Recover BY <1>6, RecoverKeeps
<1>7. CASE PersistIntent BY <1>7, PersistIntentKeeps
<1>8. CASE WriteNode BY <1>8, WriteNodeKeeps
<1>9. CASE WriteFails BY <1>9, WriteFailsKeeps
<1>10. CASE WriteSettles BY <1>10, WriteSettlesKeeps
<1>11. CASE PersistApplied BY <1>11, PersistAppliedKeeps
<1>12. CASE RollbackSettles BY <1>12, RollbackSettlesKeeps
<1>13. CASE RollbackFails BY <1>13, RollbackFailsKeeps
<1>14. CASE ResetSettles BY <1>14, ResetSettlesKeeps
<1>15. CASE ResetFails BY <1>15, GiveUpKeeps DEF ResetFails, kernelVars
<1>16. CASE Finish BY <1>16, FinishKeeps
<1>17. CASE Crash BY <1>17, CrashKeeps
<1>18. CASE Reboot BY <1>18, RebootKeeps
<1>19. CASE New BY <1>19, NewKeeps
<1>20. CASE \E t \in Target : ConstraintChange(t) BY <1>20, ConstraintChangeKeeps
<1>21. CASE UNCHANGED vars
  <2>1. TypeOK'
    BY <1>21 DEF IInv, vars, TypeOK, KernelType, JournalType, ModeType, OperationType
  <2>2. RangeInv' /\ JournalInv' /\ ControlInv'
    BY <1>21 DEF IInv, vars, RangeInv, JournalInv, ControlInv, OnTarget, Busy
  <2>3. SyncInv' /\ DirtyInv' /\ DurableClaim'
    BY <1>21 DEF IInv, vars, SyncInv, DirtyInv, DurableClaim, OnTarget, Busy, Fresh, Ready,
                 NeedsRecovery, DiskClaims, FinalJournal, Dirty
  <2>. QED BY <2>1, <2>2, <2>3 DEF IInv
<1>. QED BY <1>1, <1>2, <1>3, <1>4, <1>5, <1>6, <1>7, <1>8, <1>9, <1>10, <1>11, <1>12,
            <1>13, <1>14, <1>15, <1>16, <1>17, <1>18, <1>19, <1>20, <1>21
         DEF Next, Step

\* The invariant holds in every reachable state.
THEOREM InductiveInvariant == Spec => []IInv
BY InitIInv, NextIInv, PTL DEF Spec

\* The state keeps its shape, and the position of an operation stays inside
\* its batch.
THEOREM TypeCorrect == Spec => []TypeOK
<1>1. IInv => TypeOK
  BY DEF IInv
<1>. QED BY <1>1, InductiveInvariant, PTL

\* "No durable journal means no mutation", whatever fails and whenever the
\* daemon dies.
THEOREM NoMutationWithoutJournal == Spec => []DurableClaim
<1>1. IInv => DurableClaim
  BY DEF IInv
<1>. QED BY <1>1, InductiveInvariant, PTL

\* The daemon never leaves a journal behind that its own decoder refuses.
THEOREM JournalAlwaysDecodes == Spec => []JournalDecodes
<1>1. IInv => JournalDecodes
  BY DEF IInv, JournalInv, JournalOK, JournalDecodes, Decodes, TypeOK, JournalType, Journal
<1>. QED BY <1>1, InductiveInvariant, PTL

\* Between operations the file claims exactly what memory owns, although the
\* fast path does not write it.
THEOREM FileMatchesMemory == Spec => []ClaimsOnDisk
<1>1. IInv => ClaimsOnDisk
  BY DEF IInv, SyncInv, JournalInv, ClaimsOnDisk, Fresh, DiskClaims
<1>. QED BY <1>1, InductiveInvariant, PTL

\* A recovery that ends has released every target.
THEOREM RecoveryReleasesEverything == Spec => RecoveryReleases
<1>1. IInv /\ [Next]_vars =>
        [recovery /\ ~recovery' /\ pc' = "idle" => \A t \in Target : nodes'[t] = Hw[t]]_vars
  <2>. SUFFICES ASSUME IInv, Next, recovery, ~recovery', pc' = "idle"
                PROVE  \A t \in Target : nodes'[t] = Hw[t]
    OBVIOUS
  <2>1. CASE DiscardStale
    BY <2>1 DEF DiscardStale, kernelVars, IInv, DurableClaim
  <2>2. CASE Finish
    <3>1. kind = "recover" /\ Dirty \subseteq FinalJournal.claims /\ nodes' = nodes
      BY <2>2 DEF Finish, kernelVars, IInv, DirtyInv, ControlInv, Busy
    <3>. QED BY <3>1, EmptyJournalOK DEF FinalJournal, Dirty
  <2>3. CASE New
    <3>1. pc = "down" /\ ~recovery
      BY <2>3 DEF New, IInv, ControlInv
    <3>. QED BY <3>1
  <2>4. ASSUME recovery' = recovery PROVE FALSE
    BY <2>4
  <2>5. CASE Crash \/ Reboot
    BY <2>5 DEF Crash, Reboot, Down
  <2>6. CASE \/ ApplyBatch \/ ApplyFast \/ Restore \/ RefuseRecovery \/ Recover
             \/ PersistIntent \/ WriteNode \/ WriteFails \/ WriteSettles \/ PersistApplied
             \/ RollbackSettles \/ RollbackFails \/ ResetSettles \/ ResetFails
             \/ \E t \in Target : ConstraintChange(t)
    BY <2>4, <2>6 DEF ApplyBatch, ApplyFast, Restore, RefuseRecovery, Recover, PersistIntent,
         WriteNode, WriteFails, WriteSettles, PersistApplied, RollbackSettles, RollbackFails,
         ResetSettles, ResetFails, ConstraintChange
  <2>. QED BY <2>1, <2>2, <2>3, <2>5, <2>6 DEF Next, Step
<1>. QED BY <1>1, InductiveInvariant, PTL DEF Spec, RecoveryReleases

\* A step that leaves the attributes alone and moves the claims of the file
\* in one direction is a step of the ownership protocol.
LEMMA JournalStepAbstract ==
  ASSUME IInv, IInv', nodes' = nodes,
         DiskClaims \subseteq DiskClaims' \/ DiskClaims' \subseteq DiskClaims
  PROVE  [Abstract!Next]_(Abstract!vars)
<1>1. Dirty' = Dirty /\ Dirty \subseteq DiskClaims'
  BY DEF Dirty, IInv, DurableClaim, DiskClaims
<1>2. DiskClaims \subseteq Target /\ DiskClaims' \subseteq Target
  BY DEF IInv, TypeOK, JournalType, Journal, DiskClaims
<1>3. CASE DiskClaims \subseteq DiskClaims'
  <2>1. DiskClaims' \in SUBSET Target /\ DiskClaims' = DiskClaims \cup DiskClaims'
    BY <1>2, <1>3
  <2>. QED BY <1>1, <2>1 DEF Abstract!Next, Abstract!Claim
<1>4. CASE DiskClaims' \subseteq DiskClaims
  <2>. DEFINE R == DiskClaims \ DiskClaims'
  <2>1. R \in SUBSET (DiskClaims \ Dirty) /\ DiskClaims' = DiskClaims \ R
    BY <1>1, <1>4
  <2>. QED BY <1>1, <2>1 DEF Abstract!Next, Abstract!Release
<1>. QED BY <1>3, <1>4

\* Every step keeps the promise.
LEMMA StepAbstract ==
  ASSUME IInv, IInv', [Next]_vars
  PROVE  [Abstract!Next]_(Abstract!vars)
<1>1. CASE Reboot
  <2>1. Dirty' = {}
    BY <1>1 DEF Reboot, Dirty
  <2>2. DiskClaims' = {}
    <3>1. boot \in Nat /\ disk.boot \in Nat /\ disk.boot <= boot /\ boot' = boot + 1
      BY <1>1, BoundsAssumption DEF Reboot, IInv, TypeOK, KernelType, JournalType, JournalInv
    <3>2. disk' \in {disk, NoFile} /\ ~NoFile.present
      BY <1>1 DEF Reboot, NoFile
    <3>. QED BY <3>1, <3>2 DEF DiskClaims
  <2>. QED BY <2>1, <2>2 DEF Abstract!Next, Abstract!Reboot
<1>2. CASE WriteNode
  <2>. DEFINE t == order[idx]
  <2>1. OnTarget /\ UNCHANGED <<disk, boot>> /\ t \in Target
    BY <1>2 DEF WriteNode, OnTarget, IInv, RangeInv, TypeOK, OperationType
  <2>2. t \in DiskClaims /\ DiskClaims' = DiskClaims
    BY <2>1, ToSetTyped DEF IInv, SyncInv, RangeInv, TypeOK, OperationType, DiskClaims
  <2>3. \A u \in Target : u # t => nodes'[u] = nodes[u]
    BY <1>2 DEF WriteNode, IInv, TypeOK, KernelType
  <2>. HIDE DEF t
  <2>4. Dirty' \in {Dirty \cup {t}, Dirty \ {t}}
    BY <2>1, <2>3 DEF Dirty
  <2>. QED BY <2>2, <2>4 DEF Abstract!Next, Abstract!Mutate
<1>3. CASE PersistIntent
  <2>1. nodes' = nodes /\ boot' = boot /\ disk' \in {disk, Stored(mem)}
    BY <1>3 DEF PersistIntent, kernelVars
  <2>2. DiskClaims \subseteq mem.claims
    BY <1>3 DEF PersistIntent, IInv, SyncInv
  <2>3. DiskClaims \subseteq DiskClaims'
    BY <2>1, <2>2 DEF DiskClaims, Stored
  <2>. QED BY <2>1, <2>3, JournalStepAbstract
<1>4. CASE PersistApplied
  <2>1. nodes' = nodes /\ boot' = boot /\ disk' \in {disk, Stored(mem)}
    BY <1>4 DEF PersistApplied, kernelVars
  <2>2. DiskClaims = mem.claims
    BY <1>4 DEF PersistApplied, IInv, SyncInv, OnTarget
  <2>3. DiskClaims \subseteq DiskClaims'
    BY <2>1, <2>2 DEF DiskClaims, Stored
  <2>. QED BY <2>1, <2>3, JournalStepAbstract
<1>5. CASE Finish
  <2>1. nodes' = nodes /\ boot' = boot /\ disk' \in {disk, StoredOrRemoved(FinalJournal)}
    BY <1>5 DEF Finish, kernelVars
  <2>2. FinalJournal.claims \subseteq DiskClaims
    BY <1>5 DEF Finish, IInv, SyncInv
  <2>3. DiskClaims' \subseteq DiskClaims
    BY <2>1, <2>2 DEF DiskClaims, StoredOrRemoved, Stored, NoFile
  <2>. QED BY <2>1, <2>3, JournalStepAbstract
<1>6. CASE DiscardStale
  <2>1. nodes' = nodes /\ boot' = boot /\ disk' \in {disk, NoFile}
    BY <1>6 DEF DiscardStale, kernelVars
  <2>2. DiskClaims' \subseteq DiskClaims
    BY <2>1 DEF DiskClaims, NoFile
  <2>. QED BY <2>1, <2>2, JournalStepAbstract
<1>7. ASSUME UNCHANGED <<nodes, boot, disk>>
      PROVE  [Abstract!Next]_(Abstract!vars)
  BY <1>7 DEF Abstract!vars, DiskClaims, Dirty
<1>8. CASE \/ ApplyBatch \/ ApplyFast \/ Restore \/ RefuseRecovery \/ Recover
           \/ WriteFails \/ WriteSettles \/ RollbackSettles \/ RollbackFails
           \/ ResetSettles \/ ResetFails \/ Crash \/ New
           \/ \E t \in Target : ConstraintChange(t)
  BY <1>7, <1>8 DEF ApplyBatch, ApplyFast, Restore, RefuseRecovery, Recover, WriteFails,
       WriteSettles, RollbackSettles, RollbackFails, ResetSettles, ResetFails, Crash, New,
       ConstraintChange, kernelVars
<1>9. CASE UNCHANGED vars
  BY <1>7, <1>9 DEF vars
<1>. QED BY <1>1, <1>2, <1>3, <1>4, <1>5, <1>6, <1>8, <1>9 DEF Next, Step

\* The actuator implements the ownership protocol: claim before mutation,
\* release only when clean, for every interleaving of failures, crashes,
\* reboots and other clients.
THEOREM ActuatorImplementsOwnership == Spec => ImplementsOwnership
<1>1. Init => Abstract!Init
  BY DEF Init, NoFile, Abstract!Init, DiskClaims, Dirty
<1>2. IInv /\ IInv' /\ [Next]_vars => [Abstract!Next]_(Abstract!vars)
  BY StepAbstract
<1>. QED BY <1>1, <1>2, InductiveInvariant, PTL DEF Spec, ImplementsOwnership, Abstract!Spec

\* The journal a process leaves behind can be trusted by the next one: it always
\* decodes, and between operations it claims exactly what this process owns.
THEOREM JournalAlwaysSound == Spec => []JournalSound
BY JournalAlwaysDecodes, FileMatchesMemory, PTL DEF JournalSound

\* A degraded actuator writes neither the machine nor the journal.
THEOREM DegradedIsReadOnly == Spec => DegradedWritesNothing
<1>1. IInv /\ [Next]_vars =>
        [mode = "ReadOnlyDegraded" /\ mode' = "ReadOnlyDegraded"
           => nodes' = nodes /\ disk' = disk]_vars
  <2>. SUFFICES ASSUME IInv, Next, mode = "ReadOnlyDegraded", mode' = "ReadOnlyDegraded"
                PROVE  nodes' = nodes /\ disk' = disk
    OBVIOUS
  <2>1. pc \in {"down", "idle"}
    BY DEF IInv, ControlInv, Busy
  <2>2. ~Step
    BY <2>1 DEF Step, PersistIntent, WriteNode, WriteFails, WriteSettles, PersistApplied,
                RollbackSettles, RollbackFails, ResetSettles, ResetFails, Finish
  <2>3. ~(ApplyBatch \/ ApplyFast \/ Restore \/ DiscardStale \/ RefuseRecovery \/ Recover)
    BY DEF ApplyBatch, ApplyFast, Restore, DiscardStale, RefuseRecovery, Recover, Ready, NeedsRecovery
  <2>4. CASE Crash \/ Reboot
    BY <2>4 DEF Crash, Reboot, Down
  <2>5. CASE New \/ \E t \in Target : ConstraintChange(t)
    BY <2>5 DEF New, ConstraintChange, kernelVars
  <2>. QED BY <2>2, <2>3, <2>4, <2>5 DEF Next
<1>. QED BY <1>1, InductiveInvariant, PTL DEF Spec, DegradedWritesNothing

\* What a failure leaves is contained.
THEOREM FailuresStayContained == Spec => FailuresContained
BY RecoveryReleasesEverything, DegradedIsReadOnly DEF FailuresContained

-----------------------------------------------------------------------------
(* Exactness of the targets that nobody else constrains.  The invariant is *)
(* about one such target at a time and rests on IInv.                      *)

Straight(pair) == pair.min <= pair.max

\* The writes p take the attributes from n to g without a reversed request:
\* h is the pair after each of them.
Leads(n, p, g) ==
  \E h \in [0 .. Len(p) -> Limits] :
    /\ h[0] = n /\ h[Len(p)] = g
    /\ \A k \in 0 .. Len(p) : Straight(h[k])
    /\ \A k \in 1 .. Len(p) : h[k] = Written(h[k - 1], p[k])

\* The target t is one of the a-th to b-th of the operation.
Among(t, a, b) == \E k \in a .. b : order[k] = t

Asked(j, t) == j.entry[t].desired

\* Before the first write of an operation nothing has moved since it began.
Untouched(t) ==
  pc = "persistIntent" =>
    /\ kind = "batch" => nodes[t] = Asked(saved, t)
    /\ kind = "batch" /\ t \in ToSet(order) => from[t] = nodes[t]
    /\ kind \in {"batch", "restore"} /\ t \notin ToSet(order) => nodes[t] = Asked(mem, t)

\* A batch: targets whose turn has come carry the new request, targets whose
\* turn is still to come the old one.
Applying(t) ==
  pc \in {"write", "persistApplied"} =>
    /\ ~Among(t, 1, idx) => nodes[t] = Asked(saved, t)
    /\ Among(t, idx + 1, Len(order)) => from[t] = Asked(saved, t)
    /\ pc = "write" /\ ~Among(t, idx, Len(order)) => nodes[t] = Asked(mem, t)
    /\ pc = "write" /\ t = order[idx] => Leads(nodes[t], plan, want[t])
    /\ pc = "persistApplied" => nodes[t] = Asked(mem, t)

\* A rollback without a failure so far.
Undoing(t) ==
  pc = "rollback" =>
    /\ ~failed /\ ~Among(t, 1, idx) => nodes[t] = Asked(saved, t)
    /\ t = order[idx] => Leads(nodes[t], plan, Asked(saved, t))

\* A restore leaves alone what is not in its list.
Releasing(t) ==
  /\ pc = "reset" =>
       /\ t = order[idx] => Leads(nodes[t], plan, Hw[t])
       /\ kind = "restore" /\ t \notin ToSet(order) => nodes[t] = Asked(mem, t)
  /\ pc = "finish" /\ kind # "recover" => nodes[t] = Asked(mem, t)

Exact(t) ==
  /\ cap[t] = Hw[t].max /\ Straight(nodes[t])
  /\ Ready => nodes[t] = Asked(mem, t)
  /\ Untouched(t) /\ Applying(t) /\ Undoing(t) /\ Releasing(t)

\* No target is twice in an operation.
Distinct == \A j, k \in 1 .. Len(order) : order[j] = order[k] => j = k

ExactInv == Distinct /\ \A t \in Target : Exclusive(t) => Exact(t)

\* What the lemmas about one target assume.
Alone(t) == IInv /\ Distinct /\ t \in Target /\ Exclusive(t) /\ Exact(t)

\* Nothing to write.
LEMMA LeadsNowhere ==
  ASSUME NEW n \in Limits, NEW g \in Limits
  PROVE  Leads(n, <<>>, g) <=> n = g /\ Straight(n)
<1>1. ASSUME n = g, Straight(n) PROVE Leads(n, <<>>, g)
  <2>. DEFINE h == [k \in 0 .. 0 |-> n]
  <2>1. h \in [0 .. 0 -> Limits] /\ h[0] = n /\ \A k \in 0 .. 0 : Straight(h[k])
    BY <1>1
  <2>2. \A k \in 1 .. 0 : h[k] = Written(h[k - 1], <<>>[k])
    OBVIOUS
  <2>. HIDE DEF h
  <2>. QED BY <2>1, <2>2, <1>1 DEF Leads
<1>2. ASSUME Leads(n, <<>>, g) PROVE n = g /\ Straight(n)
  BY <1>2 DEF Leads
<1>. QED BY <1>1, <1>2

\* One write that is left out when it would change nothing.
LEMMA LeadsOnce ==
  ASSUME NEW n \in Limits, NEW w, NEW b \in BOOLEAN, Written(n, w) \in Limits,
         Straight(n), Straight(Written(n, w)), ~b => Written(n, w) = n
  PROVE  Leads(n, IF b THEN <<w>> ELSE <<>>, Written(n, w))
<1>. DEFINE g == Written(n, w)
<1>1. CASE b
  <2>. DEFINE h == [k \in 0 .. 1 |-> IF k = 0 THEN n ELSE g]
  <2>1. h \in [0 .. 1 -> Limits] /\ h[0] = n /\ h[1] = g /\ \A k \in 0 .. 1 : Straight(h[k])
    OBVIOUS
  <2>. PICK p : p = <<w>>
    OBVIOUS
  <2>2. Len(p) = 1 /\ p[1] = w
    OBVIOUS
  <2>. HIDE DEF h
  <2>3. \A k \in 1 .. 1 : h[k] = Written(h[k - 1], p[k])
    BY <2>1, <2>2 DEF g
  <2>4. Leads(n, p, g)
    BY <2>1, <2>2, <2>3 DEF Leads
  <2>. QED BY <2>4, <1>1
<1>2. CASE ~b
  BY <1>2, LeadsNowhere
<1>. QED BY <1>1, <1>2

\* One way after another.
LEMMA LeadsOn ==
  ASSUME NEW W, NEW p \in Seq(W), NEW q \in Seq(W), NEW n, NEW m, NEW g,
         Leads(n, p, m), Leads(m, q, g)
  PROVE  Leads(n, p \o q, g)
<1>1. PICK a \in [0 .. Len(p) -> Limits] :
        /\ a[0] = n /\ a[Len(p)] = m
        /\ \A k \in 0 .. Len(p) : Straight(a[k])
        /\ \A k \in 1 .. Len(p) : a[k] = Written(a[k - 1], p[k])
  BY DEF Leads
<1>2. PICK b \in [0 .. Len(q) -> Limits] :
        /\ b[0] = m /\ b[Len(q)] = g
        /\ \A k \in 0 .. Len(q) : Straight(b[k])
        /\ \A k \in 1 .. Len(q) : b[k] = Written(b[k - 1], q[k])
  BY DEF Leads
<1>3. PICK x \in Nat : x = Len(p)
  OBVIOUS
<1>4. PICK y \in Nat : y = Len(q)
  OBVIOUS
<1>. DEFINE r == p \o q
            h == [k \in 0 .. x + y |-> IF k <= x THEN a[k] ELSE b[k - x]]
<1>5. Len(r) = x + y /\ (\A k \in 1 .. x : r[k] = p[k]) /\ (\A k \in x + 1 .. x + y : r[k] = q[k - x])
  BY <1>3, <1>4
<1>. HIDE DEF r
<1>6. /\ h \in [0 .. x + y -> Limits]
      /\ \A k \in 0 .. x : h[k] = a[k]
      /\ \A k \in x + 1 .. x + y : h[k] = b[k - x]
  <2>1. \A k \in 0 .. x + y : IF k <= x THEN k \in 0 .. x ELSE k - x \in 0 .. y
    BY <1>3, <1>4
  <2>. QED BY <2>1, <1>1, <1>2, <1>3, <1>4
<1>. HIDE DEF h
<1>7. h[0] = n /\ h[x + y] = g /\ h[x] = b[0]
  <2>1. CASE y = 0
    BY <2>1, <1>6, <1>1, <1>2, <1>3, <1>4
  <2>2. CASE y # 0
    <3>1. x + y \in x + 1 .. x + y /\ x + y - x = y
      BY <2>2, <1>3, <1>4
    <3>2. h[x + y] = b[x + y - x]
      BY <3>1, <1>6
    <3>3. h[0] = a[0] /\ h[x] = a[x]
      BY <1>3, <1>6
    <3>. QED BY <3>1, <3>2, <3>3, <1>1, <1>2, <1>3, <1>4
  <2>. QED BY <2>1, <2>2
<1>8. \A k \in 0 .. x + y : Straight(h[k])
  <2>. TAKE k \in 0 .. x + y
  <2>1. CASE k <= x
    BY <2>1, <1>6, <1>1, <1>3, <1>4
  <2>2. CASE ~(k <= x)
    <3>1. k \in x + 1 .. x + y /\ k - x \in 0 .. y
      BY <2>2, <1>3, <1>4
    <3>. QED BY <3>1, <1>6, <1>2, <1>4
  <2>. QED BY <2>1, <2>2
<1>9. \A k \in 1 .. x + y : h[k] = Written(h[k - 1], r[k])
  <2>. TAKE k \in 1 .. x + y
  <2>1. CASE k <= x
    <3>1. k \in 1 .. x /\ k - 1 \in 0 .. x /\ k \in 0 .. x
      BY <2>1, <1>3, <1>4
    <3>. QED BY <3>1, <1>5, <1>6, <1>1, <1>3
  <2>2. CASE k = x + 1
    <3>1. k \in x + 1 .. x + y /\ k - x = 1 /\ 1 \in 1 .. y /\ k - 1 = x
      BY <2>2, <1>3, <1>4
    <3>2. b[1] = Written(b[0], q[1])
      BY <3>1, <1>2, <1>4
    <3>. QED BY <3>1, <3>2, <1>5, <1>6, <1>7
  <2>3. CASE k > x + 1
    <3>1. /\ k \in x + 1 .. x + y /\ k - 1 \in x + 1 .. x + y /\ k - x \in 1 .. y
          /\ (k - 1) - x = (k - x) - 1
      BY <2>3, <1>3, <1>4
    <3>2. b[k - x] = Written(b[(k - x) - 1], q[k - x])
      BY <3>1, <1>2, <1>4
    <3>3. h[k] = b[k - x] /\ h[k - 1] = b[(k - 1) - x] /\ r[k] = q[k - x]
      BY <3>1, <1>5, <1>6
    <3>4. h[k - 1] = b[(k - x) - 1]
      BY ONLY <3>1, <3>3
    <3>. QED BY ONLY <3>2, <3>3, <3>4, Zenon
  <2>4. k <= x \/ k = x + 1 \/ k > x + 1
    OBVIOUS
  <2>. QED BY <2>1, <2>2, <2>3, <2>4, Zenon
<1>10. Leads(n, r, g)
  BY <1>5, <1>6, <1>7, <1>8, <1>9 DEF Leads
<1>. QED BY <1>10 DEF r

\* The first write is one step on the way.
LEMMA LeadsStep ==
  ASSUME NEW W, NEW p \in Seq(W), p # <<>>, NEW n, NEW g, Leads(n, p, g)
  PROVE  Leads(Written(n, Head(p)), Tail(p), g) /\ Straight(Written(n, Head(p)))
<1>1. PICK a \in [0 .. Len(p) -> Limits] :
        /\ a[0] = n /\ a[Len(p)] = g
        /\ \A k \in 0 .. Len(p) : Straight(a[k])
        /\ \A k \in 1 .. Len(p) : a[k] = Written(a[k - 1], p[k])
  BY DEF Leads
<1>2. PICK x \in Nat : x = Len(p) - 1
  OBVIOUS
<1>. DEFINE q == Tail(p)
            h == [k \in 0 .. x |-> a[k + 1]]
<1>3. Len(q) = x /\ Len(p) = x + 1 /\ Head(p) = p[1] /\ \A k \in 1 .. x : q[k] = p[k + 1]
  BY <1>2
<1>. HIDE DEF q
<1>4. h \in [0 .. x -> Limits] /\ \A k \in 0 .. x : h[k] = a[k + 1]
  BY <1>1, <1>3
<1>. HIDE DEF h
<1>5. a[1] = Written(n, p[1]) /\ 0 \in 0 .. x /\ x \in 0 .. x
  BY <1>1, <1>2, <1>3
<1>6. h[0] = Written(n, Head(p)) /\ h[x] = g /\ \A k \in 0 .. x : Straight(h[k])
  BY <1>1, <1>2, <1>3, <1>4, <1>5
<1>7. \A k \in 1 .. x : h[k] = Written(h[k - 1], q[k])
  <2>. TAKE k \in 1 .. x
  <2>1. k \in 0 .. x /\ k - 1 \in 0 .. x /\ (k - 1) + 1 = k /\ k + 1 \in 1 .. Len(p) /\ (k + 1) - 1 = k
    BY <1>2, <1>3
  <2>2. a[k + 1] = Written(a[k], p[k + 1])
    BY <2>1, <1>1
  <2>. QED BY <2>1, <2>2, <1>3, <1>4
<1>8. Leads(Written(n, Head(p)), q, g)
  BY <1>3, <1>4, <1>6, <1>7 DEF Leads
<1>. QED BY <1>8, <1>5, <1>6 DEF q

\* write_ordered, from the pair it is given.
LEMMA OrderedLeads ==
  ASSUME NEW t \in Target, NEW c \in Limits, NEW d \in Limits, Straight(c), Straight(d)
  PROVE  Leads(c, OrderedWrites(c, d), d)
<1>. DEFINE lo == [node |-> "min", value |-> d.min]
            hi == [node |-> "max", value |-> d.max]
            wmin == IF d.min # c.min THEN <<lo>> ELSE <<>>
            wmax == IF d.max # c.max THEN <<hi>> ELSE <<>>
            W == {lo, hi}
<1>1. c.min \in Nat /\ c.max \in Nat /\ d.min \in Nat /\ d.max \in Nat
  BY DEF Limits, Freq
<1>2. wmin \in Seq(W) /\ wmax \in Seq(W)
  <2>1. <<lo>> \in Seq(W) /\ <<hi>> \in Seq(W) /\ <<>> \in Seq(W)
    OBVIOUS
  <2>. QED BY <2>1, Zenon
<1>. DEFINE low == Written(c, lo)
            high == Written(c, hi)
<1>3. /\ low \in Limits /\ low.min = d.min /\ low.max = c.max
      /\ high \in Limits /\ high.min = c.min /\ high.max = d.max
  BY <1>1 DEF Written, Limits, Freq
<1>4. Written(low, hi) = d /\ Written(high, lo) = d
  BY <1>1, <1>3 DEF Written, Limits, Freq
<1>5. /\ d.min = c.min => low = c /\ Written(high, lo) = high
      /\ d.max = c.max => high = c /\ Written(low, hi) = low
  BY <1>1, <1>3, <1>4 DEF Limits, Freq
<1>6. CASE d.max < c.min
  <2>1. Straight(low)
    BY <1>6, <1>1, <1>3 DEF Straight
  <2>2. Leads(c, wmin, low)
    <3>. HIDE DEF low, lo
    <3>1. Leads(c, IF d.min # c.min THEN <<lo>> ELSE <<>>, Written(c, lo))
      BY <2>1, <1>3, <1>5, LeadsOnce DEF low
    <3>. QED BY <3>1 DEF low
  <2>3. Leads(low, wmax, d)
    <3>. HIDE DEF low, hi
    <3>1. Leads(low, IF d.max # c.max THEN <<hi>> ELSE <<>>, Written(low, hi))
      BY <2>1, <1>3, <1>4, <1>5, LeadsOnce
    <3>. QED BY <3>1, <1>4
  <2>4. OrderedWrites(c, d) = wmin \o wmax
    BY <1>6 DEF OrderedWrites
  <2>. HIDE DEF wmin, wmax, low, W
  <2>. QED BY <2>2, <2>3, <2>4, <1>2, LeadsOn
<1>7. CASE ~(d.max < c.min)
  <2>1. Straight(high)
    BY <1>7, <1>1, <1>3 DEF Straight
  <2>2. Leads(c, wmax, high)
    <3>. HIDE DEF high, hi
    <3>1. Leads(c, IF d.max # c.max THEN <<hi>> ELSE <<>>, Written(c, hi))
      BY <2>1, <1>3, <1>5, LeadsOnce DEF high
    <3>. QED BY <3>1 DEF high
  <2>3. Leads(high, wmin, d)
    <3>. HIDE DEF high, lo
    <3>1. Leads(high, IF d.min # c.min THEN <<lo>> ELSE <<>>, Written(high, lo))
      BY <2>1, <1>3, <1>4, <1>5, LeadsOnce
    <3>. QED BY <3>1, <1>4
  <2>4. OrderedWrites(c, d) = wmax \o wmin
    BY <1>7 DEF OrderedWrites
  <2>. HIDE DEF wmin, wmax, high, W
  <2>. QED BY <2>2, <2>3, <2>4, <1>2, LeadsOn
<1>. QED BY <1>6, <1>7

\* reset_frequency_request, from any pair inside the hardware range.
LEMMA ResetLeads ==
  ASSUME NEW t \in Target, NEW c \in Limits, c.min \in Span(t), c.max \in Span(t), Straight(c),
         NEW d \in Limits, ValidLimits(t, d)
  PROVE  Leads(c, ResetWrites(t, d), d)
<1>. DEFINE bottom == [node |-> "min", value |-> Hw[t].min]
            top == [node |-> "max", value |-> Hw[t].max]
            hi == [node |-> "max", value |-> d.max]
            lo == [node |-> "min", value |-> d.min]
            open == <<bottom, top>>
            wmax == IF d.max # Hw[t].max THEN <<hi>> ELSE <<>>
            wmin == IF d.min # Hw[t].min THEN <<lo>> ELSE <<>>
            W == {bottom, top, hi, lo}
            down == Written(c, bottom)
            high == Written(Hw[t], hi)
<1>1. /\ Hw[t] \in Limits /\ Hw[t].min \in Nat /\ Hw[t].max \in Nat /\ Hw[t].min <= Hw[t].max
      /\ c.min \in Nat /\ c.max \in Nat /\ d.min \in Nat /\ d.max \in Nat
      /\ Hw[t].min <= c.max /\ Hw[t].min <= d.max /\ d.min <= d.max
  BY HwFacts DEF Limits, Freq, ValidLimits, Span
<1>2. wmin \in Seq(W) /\ wmax \in Seq(W) /\ open \in Seq(W)
  <2>1. <<lo>> \in Seq(W) /\ <<hi>> \in Seq(W) /\ <<>> \in Seq(W) /\ open \in Seq(W)
    OBVIOUS
  <2>. QED BY <2>1, Zenon
<1>3. /\ down \in Limits /\ down.min = Hw[t].min /\ down.max = c.max
      /\ high \in Limits /\ high.min = Hw[t].min /\ high.max = d.max
  BY <1>1 DEF Written, Limits, Freq
<1>4. Written(down, top) = Hw[t] /\ Written(high, lo) = d
  BY <1>1, <1>3 DEF Written, Limits, Freq
<1>5. /\ d.max = Hw[t].max => high = Hw[t]
      /\ d.min = Hw[t].min => Written(high, lo) = high
  BY <1>1, <1>3, <1>4 DEF Limits, Freq
<1>6. Straight(down) /\ Straight(Hw[t]) /\ Straight(high) /\ Straight(d)
  BY <1>1, <1>3 DEF Straight
<1>7. Leads(c, open, Hw[t])
  <2>. DEFINE h == [k \in 0 .. 2 |-> IF k = 0 THEN c ELSE IF k = 1 THEN down ELSE Hw[t]]
  <2>1. Len(open) = 2 /\ open[1] = bottom /\ open[2] = top
    OBVIOUS
  <2>. HIDE DEF open
  <2>2. h \in [0 .. 2 -> Limits] /\ h[0] = c /\ h[1] = down /\ h[2] = Hw[t]
    BY <1>1, <1>3
  <2>. HIDE DEF h
  <2>3. \A k \in 0 .. 2 : Straight(h[k])
    BY <2>2, <1>6
  <2>4. \A k \in 1 .. 2 : h[k] = Written(h[k - 1], open[k])
    BY <2>1, <2>2, <1>4
  <2>. HIDE DEF down
  <2>. QED BY <2>1, <2>2, <2>3, <2>4 DEF Leads
<1>8. Leads(Hw[t], wmax, high)
  <2>. HIDE DEF high, hi
  <2>1. Leads(Hw[t], IF d.max # Hw[t].max THEN <<hi>> ELSE <<>>, Written(Hw[t], hi))
    BY <1>1, <1>3, <1>5, <1>6, LeadsOnce DEF high
  <2>. QED BY <2>1 DEF high
<1>9. Leads(high, wmin, d)
  <2>. HIDE DEF high, lo
  <2>1. Leads(high, IF d.min # Hw[t].min THEN <<lo>> ELSE <<>>, Written(high, lo))
    BY <1>3, <1>4, <1>5, <1>6, LeadsOnce
  <2>. QED BY <2>1, <1>4
<1>10. ResetWrites(t, d) = (open \o wmax) \o wmin
  BY DEF ResetWrites
<1>. HIDE DEF wmin, wmax, open, high, W
<1>11. Leads(c, open \o wmax, high) /\ open \o wmax \in Seq(W)
  BY <1>2, <1>7, <1>8, LeadsOn
<1>. QED BY <1>2, <1>9, <1>10, <1>11, LeadsOn

\* What the attributes of such a target are.
LEMMA AloneFacts ==
  ASSUME NEW t, Alone(t)
  PROVE  /\ t \in Target /\ nodes[t] \in Limits /\ Straight(nodes[t])
         /\ nodes[t].min \in Span(t) /\ nodes[t].max \in Span(t)
         /\ cap[t] = Hw[t].max /\ Effective(t) = nodes[t]
         /\ want[t] \in Limits /\ ValidLimits(t, want[t]) /\ Straight(want[t])
         /\ Asked(saved, t) \in Limits /\ ValidLimits(t, Asked(saved, t))
         /\ Asked(mem, t) \in Limits /\ ValidLimits(t, Asked(mem, t))
<1>1. /\ t \in Target /\ TypeOK /\ RangeInv /\ JournalInv /\ cap[t] = Hw[t].max /\ Straight(nodes[t])
  BY DEF Alone, IInv, Exact
<1>2. /\ nodes[t] \in Limits /\ want[t] \in Limits /\ mem \in Journal /\ saved \in Journal
  BY <1>1 DEF TypeOK, KernelType, OperationType, JournalType
<1>3. /\ nodes[t].min \in Span(t) /\ nodes[t].max \in Span(t) /\ ValidLimits(t, want[t])
      /\ JournalOK(mem) /\ JournalOK(saved)
  BY <1>1 DEF RangeInv, JournalInv
<1>4. Effective(t) = nodes[t]
  BY <1>1, <1>2, <1>3, HwFacts DEF Effective, Lower, Straight, Limits, Freq, Span
<1>5. /\ Asked(saved, t) \in Limits /\ ValidLimits(t, Asked(saved, t))
      /\ Asked(mem, t) \in Limits /\ ValidLimits(t, Asked(mem, t))
  BY <1>1, <1>2, <1>3, RequestedOK DEF Asked
<1>. QED BY <1>1, <1>2, <1>3, <1>4, <1>5 DEF ValidLimits, Straight

\* Between operations only the request matters.
LEMMA ExactRests ==
  ASSUME NEW t, Alone(t), cap' = cap, nodes' = nodes, pc' \in {"idle", "down"},
         Ready' => nodes[t] = Asked(mem', t)
  PROVE  Exact(t)'
BY DEF Alone, Exact, Untouched, Applying, Undoing, Releasing, Straight, Asked

\* A degraded actuator promises nothing but straight requests.
LEMMA ExactDegrades ==
  ASSUME NEW t, Alone(t), cap' = cap, nodes' = nodes, Degrade
  PROVE  Exact(t)'
<1>1. pc' = "idle" /\ ~Ready'
  BY DEF Degrade, Return, Ready
<1>. QED BY <1>1, ExactRests

\* Another client's constraint does not reach the target.
LEMMA ExactConstraint ==
  ASSUME NEW t, Alone(t), NEW u \in Target, ConstraintChange(u)
  PROVE  Exact(t)'
<1>1. cap \in [Target -> Freq] /\ t \in Target /\ Caps[t] = {Hw[t].max} /\ cap[t] = Hw[t].max
  BY DEF Alone, IInv, TypeOK, KernelType, Exclusive, Exact
<1>2. u # t
  BY <1>1 DEF ConstraintChange
<1>3. cap'[t] = cap[t]
  BY <1>1, <1>2 DEF ConstraintChange
<1>4. UNCHANGED <<nodes, mode, recovery, mem, pc, kind, order, idx, want, from, plan, failed, saved>>
  BY DEF ConstraintChange, opVars
<1>. QED BY <1>3, <1>4 DEF Alone, Exact, Ready, Untouched, Applying, Undoing, Releasing, Straight,
                           Asked, Among

\* One attribute write.
LEMMA ExactWrite ==
  ASSUME NEW t, Alone(t), WriteNode
  PROVE  Exact(t)'
<1>. DEFINE u == order[idx]
<1>1. /\ TypeOK /\ RangeInv /\ t \in Target /\ Exact(t) /\ pc \in {"write", "reset", "rollback"}
  BY DEF Alone, IInv, WriteNode
<1>2. /\ idx \in 1 .. Len(order) /\ order \in Seq(Target) /\ nodes \in [Target -> Limits]
      /\ plan \in Seq(WritesOf(u)) /\ plan # <<>>
  BY <1>1 DEF TypeOK, KernelType, OperationType, RangeInv, OnTarget, WriteNode
<1>3. u \in Target /\ u \in ToSet(order)
  BY <1>2 DEF ToSet
<1>4. /\ nodes' = [nodes EXCEPT ![u] = Written(nodes[u], Head(plan))] /\ plan' = Tail(plan)
      /\ UNCHANGED <<cap, mode, recovery, mem, pc, kind, order, idx, want, from, failed, saved>>
  BY DEF WriteNode
<1>5. CASE t = u
  <2>1. nodes'[t] = Written(nodes[t], Head(plan))
    BY <1>2, <1>3, <1>4, <1>5
  <2>2. Among(t, 1, idx) /\ Among(t, idx, Len(order)) /\ t \in ToSet(order)
    BY <1>2, <1>3, <1>5 DEF Among
  <2>3. ASSUME NEW g, Leads(nodes[t], plan, g)
        PROVE  Leads(nodes'[t], plan', g) /\ Straight(nodes'[t])
    BY <2>1, <2>3, <1>2, <1>4, LeadsStep
  <2>4. /\ pc = "write" => Leads(nodes[t], plan, want[t])
        /\ pc = "rollback" => Leads(nodes[t], plan, Asked(saved, t))
        /\ pc = "reset" => Leads(nodes[t], plan, Hw[t])
    BY <1>1, <1>5 DEF Exact, Applying, Undoing, Releasing
  <2>5. /\ pc = "write" => Leads(nodes'[t], plan', want[t])
        /\ pc = "rollback" => Leads(nodes'[t], plan', Asked(saved, t))
        /\ pc = "reset" => Leads(nodes'[t], plan', Hw[t])
        /\ Straight(nodes'[t])
    BY <2>3, <2>4, <1>1
  <2>6. Among(t, 1, idx)' /\ Among(t, idx, Len(order))' /\ Asked(saved, t)' = Asked(saved, t)
    BY <2>2, <1>4 DEF Among, Asked
  <2>7. Applying(t)'
    <3>1. pc = "write" /\ Among(t, idx + 1, Len(order))' => from'[t] = Asked(saved, t)'
      BY <1>1, <1>4, <2>6 DEF Exact, Applying, Among
    <3>. QED BY <3>1, <2>5, <2>6, <1>1, <1>4 DEF Applying
  <2>8. Undoing(t)' /\ Releasing(t)' /\ Untouched(t)'
    BY <2>2, <2>5, <2>6, <1>1, <1>4 DEF Undoing, Releasing, Untouched
  <2>. QED BY <2>5, <2>7, <2>8, <1>1, <1>4 DEF Exact, Ready, Straight
<1>6. CASE t # u
  <2>1. nodes'[t] = nodes[t] /\ t # order'[idx']
    BY <1>2, <1>4, <1>6
  <2>. QED BY <2>1, <1>1, <1>4 DEF Exact, Ready, Untouched, Applying, Undoing, Releasing, Straight,
                                   Asked, Among
<1>. QED BY <1>5, <1>6

\* A rollback begins with the target that failed.
LEMMA ExactTurnsBack ==
  ASSUME NEW t, Alone(t), NEW v, pc \in {"write", "persistApplied"}, StartRollback(idx, v),
         UNCHANGED kernelVars
  PROVE  Exact(t)'
<1>1. /\ pc' = "rollback" /\ idx' = idx /\ order' = order /\ saved' = saved /\ nodes' = nodes
      /\ cap' = cap /\ plan' = ResetWrites(order[idx], Asked(saved, order[idx]))
  BY DEF StartRollback, kernelVars, Asked
<1>2. ~Among(t, 1, idx) => nodes[t] = Asked(saved, t)
  BY DEF Alone, Exact, Applying
<1>3. t = order[idx] => Leads(nodes[t], plan', Asked(saved, t))
  BY <1>1, AloneFacts, ResetLeads
<1>4. Undoing(t)'
  BY <1>1, <1>2, <1>3 DEF Undoing, Among, Asked
<1>. QED BY <1>1, <1>4 DEF Alone, Exact, Ready, Untouched, Applying, Releasing, Straight

\* A target settles, and the next one begins or the batch is written.
LEMMA ExactSettles ==
  ASSUME NEW t, Alone(t), WriteSettles
  PROVE  Exact(t)'
<1>. DEFINE u == order[idx]
<1>1. /\ TypeOK /\ RangeInv /\ t \in Target /\ Exact(t) /\ pc = "write" /\ plan = <<>>
      /\ Applying(t) /\ Distinct
  BY DEF Alone, IInv, WriteSettles, Exact
<1>2. /\ idx \in 1 .. Len(order) /\ order \in Seq(Target) /\ u \in Target /\ Len(order) \in Nat
      /\ mem \in Journal /\ from \in [Target -> Limits]
  BY <1>1 DEF TypeOK, JournalType, OperationType, RangeInv, OnTarget
<1>3. /\ UNCHANGED <<nodes, cap>>
      /\ mem' = [mem EXCEPT !.entry[u] = Settled(want[u])]
  BY DEF WriteSettles, kernelVars
<1>4. /\ t = u => Asked(mem', t) = want[t]
      /\ t # u => Asked(mem', t) = Asked(mem, t)
  BY <1>1, <1>2, <1>3 DEF Asked, Settled, Journal
<1>5. t = u => nodes[t] = want[t]
  BY <1>1, AloneFacts, LeadsNowhere DEF Applying
<1>6. ~Among(t, idx + 1, Len(order)) => nodes[t] = Asked(mem', t)
  <2>1. CASE t = u
    BY <2>1, <1>4, <1>5
  <2>2. CASE t # u
    <3>1. ASSUME ~Among(t, idx + 1, Len(order)) PROVE ~Among(t, idx, Len(order))
      <4>1. ASSUME NEW k \in idx .. Len(order), order[k] = t PROVE FALSE
        <5>1. k # idx
          BY <4>1, <2>2
        <5>2. k \in idx + 1 .. Len(order)
          BY <5>1, <1>2
        <5>. QED BY <5>2, <4>1, <3>1 DEF Among
      <4>. QED BY <4>1 DEF Among
    <3>. QED BY <3>1, <2>2, <1>1, <1>4 DEF Applying
  <2>. QED BY <2>1, <2>2
<1>7. CASE idx < Len(order) /\ StartTarget(order, from, want, idx + 1)
           /\ UNCHANGED <<pc, mode, kind, order, want, from, verdict, failed, saved>>
  <2>1. /\ pc' = "write" /\ idx' = idx + 1 /\ order' = order /\ want' = want /\ from' = from /\ saved' = saved
        /\ plan' = OrderedWrites(from[order[idx + 1]], want[order[idx + 1]])
    BY <1>1, <1>7 DEF StartTarget
  <2>2. ~Among(t, 1, idx + 1) => nodes[t] = Asked(saved, t)
    <3>1. Among(t, 1, idx) => Among(t, 1, idx + 1)
      <4>1. \A k \in 1 .. idx : k \in 1 .. idx + 1
        BY <1>2
      <4>. QED BY <4>1 DEF Among
    <3>. QED BY <3>1, <1>1 DEF Applying
  <2>3. Among(t, idx + 2, Len(order)) => from[t] = Asked(saved, t)
    <3>1. \A k \in idx + 2 .. Len(order) : k \in idx + 1 .. Len(order)
      BY <1>2
    <3>. QED BY <3>1, <1>1 DEF Applying, Among
  <2>4. t = order[idx + 1] => Leads(nodes[t], plan', want[t])
    <3>. SUFFICES ASSUME t = order[idx + 1] PROVE Leads(nodes[t], plan', want[t])
      OBVIOUS
    <3>1. idx + 1 \in idx + 1 .. Len(order) /\ idx + 1 \in 1 .. Len(order)
      BY <1>2, <1>7
    <3>2. from[t] = Asked(saved, t)
      BY <3>1, <1>1 DEF Applying, Among
    <3>3. ~Among(t, 1, idx)
      <4>1. ASSUME NEW k \in 1 .. idx, order[k] = t PROVE FALSE
        <5>1. k \in 1 .. Len(order) /\ k # idx + 1
          BY <1>2
        <5>. QED BY <5>1, <4>1, <3>1, <1>1 DEF Distinct
      <4>. QED BY <4>1 DEF Among
    <3>4. nodes[t] = from[t]
      BY <3>2, <3>3, <1>1 DEF Applying
    <3>. QED BY <3>4, <2>1, AloneFacts, OrderedLeads
  <2>5. (idx + 1) + 1 = idx + 2
    BY <1>2
  <2>6. Applying(t)'
    <3>1. /\ Among(t, 1, idx)' <=> Among(t, 1, idx + 1)
          /\ Among(t, idx + 1, Len(order))' <=> Among(t, idx + 2, Len(order))
          /\ Among(t, idx, Len(order))' <=> Among(t, idx + 1, Len(order))
          /\ Asked(saved, t)' = Asked(saved, t) /\ Asked(mem, t)' = Asked(mem', t)
      BY <2>1, <2>5 DEF Among, Asked
    <3>. QED BY <3>1, <2>1, <2>2, <2>3, <2>4, <1>3, <1>6 DEF Applying
  <2>. QED BY <2>1, <2>6, <1>1, <1>3 DEF Exact, Ready, Untouched, Undoing, Releasing, Straight
<1>8. ASSUME idx = Len(order) PROVE nodes[t] = Asked(mem', t)
  <2>1. ~Among(t, idx + 1, Len(order))
    BY <1>8, <1>2 DEF Among
  <2>. QED BY <2>1, <1>6
<1>9. CASE /\ idx = Len(order) /\ kind = "batch" /\ pc' = "persistApplied"
           /\ UNCHANGED <<mode, kind, order, idx, want, from, plan, verdict, failed, saved>>
  <2>1. Applying(t)'
    <3>1. ~Among(t, idx + 1, Len(order))
      BY <1>9, <1>2 DEF Among
    <3>2. /\ Among(t, 1, idx)' <=> Among(t, 1, idx)
          /\ ~Among(t, idx + 1, Len(order))'
          /\ Asked(saved, t)' = Asked(saved, t) /\ Asked(mem, t)' = Asked(mem', t)
      BY <1>9, <3>1 DEF Among, Asked
    <3>. QED BY <3>2, <1>1, <1>3, <1>8, <1>9 DEF Applying
  <2>. QED BY <2>1, <1>1, <1>3, <1>9 DEF Exact, Ready, Untouched, Undoing, Releasing, Straight
<1>10. CASE idx = Len(order) /\ kind = "fast" /\ Return(mode)
  <2>1. pc' = "idle"
    BY <1>10 DEF Return
  <2>. QED BY <2>1, <1>3, <1>8, <1>10, ExactRests
<1>. QED BY <1>7, <1>9, <1>10 DEF WriteSettles

\* The post-mutation journal write.
LEMMA ExactApplied ==
  ASSUME NEW t, Alone(t), PersistApplied
  PROVE  Exact(t)'
<1>1. pc = "persistApplied" /\ idx = Len(order) /\ nodes[t] = Asked(mem, t)
  BY DEF PersistApplied, Alone, IInv, ControlInv, Exact, Applying
<1>2. CASE Return(mode) /\ UNCHANGED <<kernelVars, mem>>
  <2>1. pc' = "idle" /\ nodes' = nodes /\ cap' = cap /\ Asked(mem', t) = Asked(mem, t)
    BY <1>2 DEF Return, kernelVars
  <2>. QED BY <2>1, <1>1, ExactRests
<1>3. CASE StartRollback(Len(order), "degrade") /\ UNCHANGED kernelVars
  BY <1>1, <1>3, ExactTurnsBack
<1>. QED BY <1>2, <1>3 DEF PersistApplied

\* The rollback of one target is over.
LEMMA ExactUndone ==
  ASSUME NEW t, Alone(t), NEW bad \in BOOLEAN, pc = "rollback", NextRollback(bad), UNCHANGED kernelVars,
         ~bad => ~failed /\ (t = order[idx] => nodes[t] = Asked(saved, t))
  PROVE  Exact(t)'
<1>1. /\ nodes' = nodes /\ cap' = cap /\ Undoing(t) /\ Straight(nodes[t]) /\ cap[t] = Hw[t].max
      /\ idx \in 1 .. Len(order) /\ Len(order) \in Nat
  BY DEF Alone, Exact, IInv, TypeOK, OperationType, RangeInv, OnTarget, kernelVars
<1>2. ASSUME ~bad, ~Among(t, 1, idx - 1) PROVE nodes[t] = Asked(saved, t)
  <2>1. CASE t = order[idx]
    BY <2>1, <1>2
  <2>2. CASE t # order[idx]
    <3>1. ASSUME NEW k \in 1 .. idx, order[k] = t PROVE FALSE
      <4>1. k \in 1 .. idx - 1
        BY <3>1, <2>2, <1>1
      <4>. QED BY <4>1, <3>1, <1>2 DEF Among
    <3>2. ~Among(t, 1, idx)
      BY <3>1 DEF Among
    <3>. QED BY <3>2, <1>1, <1>2, pc = "rollback" DEF Undoing
  <2>. QED BY <2>1, <2>2
<1>3. CASE /\ idx > 1 /\ idx' = idx - 1 /\ failed' = bad
           /\ plan' = ResetWrites(order[idx - 1], saved.entry[order[idx - 1]].desired)
           /\ UNCHANGED <<pc, mode, mem, kind, order, want, from, verdict, saved>>
  <2>1. t = order[idx - 1] => Leads(nodes[t], plan', Asked(saved, t))
    <3>. SUFFICES ASSUME t = order[idx - 1] PROVE Leads(nodes[t], plan', Asked(saved, t))
      OBVIOUS
    <3>1. plan' = ResetWrites(t, Asked(saved, t))
      BY <1>3 DEF Asked
    <3>. QED BY <3>1, AloneFacts, ResetLeads
  <2>2. /\ Among(t, 1, idx)' <=> Among(t, 1, idx - 1)
        /\ Asked(saved, t)' = Asked(saved, t)
    BY <1>3 DEF Among, Asked
  <2>3. Undoing(t)'
    BY <2>1, <2>2, <1>1, <1>2, <1>3 DEF Undoing
  <2>. QED BY <2>3, <1>1, <1>3 DEF Exact, Ready, Untouched, Applying, Releasing, Straight
<1>4. CASE bad /\ Degrade
  BY <1>1, <1>4, ExactDegrades
<1>5. ASSUME idx = 1, ~bad PROVE nodes[t] = Asked(saved, t)
  <2>1. ~Among(t, 1, idx - 1)
    BY <1>5, <1>1 DEF Among
  <2>. QED BY <2>1, <1>2, <1>5
<1>6. CASE idx = 1 /\ ~bad /\ kind = "fast" /\ mem' = saved /\ Return(mode)
  <2>1. pc' = "idle" /\ nodes[t] = Asked(mem', t)
    BY <1>5, <1>6 DEF Return
  <2>. QED BY <2>1, <1>1, ExactRests
<1>7. CASE /\ idx = 1 /\ ~bad /\ kind = "batch" /\ mem' = saved /\ pc' = "finish"
           /\ UNCHANGED <<mode, kind, order, idx, want, from, plan, verdict, failed, saved>>
  <2>1. nodes[t] = Asked(mem', t) /\ Asked(mem, t)' = Asked(mem', t)
    BY <1>5, <1>7 DEF Asked
  <2>. QED BY <2>1, <1>1, <1>7 DEF Exact, Ready, Untouched, Applying, Undoing, Releasing, Straight
<1>. QED BY <1>3, <1>4, <1>6, <1>7, Zenon DEF NextRollback

LEMMA ExactRollbackSettles ==
  ASSUME NEW t, Alone(t), RollbackSettles
  PROVE  Exact(t)'
<1>1. failed \in BOOLEAN /\ pc = "rollback" /\ plan = <<>> /\ NextRollback(failed) /\ UNCHANGED kernelVars
  BY DEF RollbackSettles, Alone, IInv, TypeOK, ModeType
<1>2. t = order[idx] => nodes[t] = Asked(saved, t)
  BY <1>1, AloneFacts, LeadsNowhere DEF Alone, Exact, Undoing
<1>. QED BY <1>1, <1>2, ExactUndone

LEMMA ExactRollbackFails ==
  ASSUME NEW t, Alone(t), RollbackFails
  PROVE  Exact(t)'
<1>1. pc = "rollback" /\ NextRollback(TRUE) /\ UNCHANGED kernelVars
  BY DEF RollbackFails
<1>. QED BY <1>1, ExactUndone

\* A journal with intents asks of the other targets what it asked before.
LEMMA IntentsAsk ==
  ASSUME NEW t \in Target, NEW j, NEW s, NEW f, NEW w, t \notin ToSet(s)
  PROVE  Asked(WithIntents(j, s, f, w), t) = Asked(j, t)
BY DEF WithIntents, Asked

\* What the operation begins with.
LEMMA ReadyAsked ==
  ASSUME NEW t, Alone(t), Ready
  PROVE  /\ nodes[t] = Asked(mem, t) /\ t \in Target
         /\ Requested(mem)[t] = nodes[t] /\ Straight(nodes[t]) /\ cap[t] = Hw[t].max
BY DEF Alone, Exact, Requested, Asked

\* A journaled batch begins.
LEMMA ExactApplyBatch ==
  ASSUME NEW t, Alone(t), ApplyBatch
  PROVE  Exact(t)'
<1>1. /\ Ready /\ UNCHANGED <<nodes, cap>> /\ pc' = "persistIntent" /\ kind' = "batch"
      /\ saved' = mem /\ from' = Requested(mem)
      /\ \E w : mem' = WithIntents(mem, order', Requested(mem), w)
  BY DEF ApplyBatch, Begin, kernelVars
<1>2. t \notin ToSet(order') => Asked(mem', t) = Asked(mem, t)
  BY <1>1, ReadyAsked, IntentsAsk
<1>3. Untouched(t)'
  BY <1>1, <1>2, ReadyAsked DEF Untouched, Asked, ToSet
<1>. QED BY <1>1, <1>3, ReadyAsked DEF Exact, Ready, Applying, Undoing, Releasing, Straight

\* A restore begins.
LEMMA ExactRestore ==
  ASSUME NEW t, Alone(t), Restore
  PROVE  Exact(t)'
<1>1. /\ Ready /\ UNCHANGED <<nodes, cap>> /\ kind' = "restore"
      /\ pc' = IF order' = <<>> THEN "finish" ELSE "persistIntent"
      /\ mem' = WithIntents(mem, order', Requested(mem), Hw)
  BY DEF Restore, Begin, kernelVars
<1>2. t \notin ToSet(order') => Asked(mem', t) = Asked(mem, t)
  BY <1>1, ReadyAsked, IntentsAsk
<1>3. order' = <<>> => t \notin ToSet(order')
  BY DEF ToSet
<1>4. Untouched(t)' /\ Releasing(t)'
  BY <1>1, <1>2, <1>3, ReadyAsked DEF Untouched, Releasing, Asked, ToSet
<1>. QED BY <1>1, <1>4, ReadyAsked DEF Exact, Ready, Applying, Undoing, Straight

\* A recovery begins.
LEMMA ExactRecover ==
  ASSUME NEW t, Alone(t), Recover
  PROVE  Exact(t)'
<1>1. /\ UNCHANGED <<nodes, cap>> /\ pc' = "persistIntent" /\ kind' = "recover"
  BY DEF Recover, Begin, kernelVars
<1>. QED BY <1>1 DEF Alone, Exact, Ready, Untouched, Applying, Undoing, Releasing, Straight

\* The intents are stored, or the operation is given up.
LEMMA ExactPersistIntent ==
  ASSUME NEW t, Alone(t), PersistIntent
  PROVE  Exact(t)'
<1>1. /\ UNCHANGED <<nodes, cap>> /\ pc = "persistIntent" /\ Untouched(t) /\ t \in Target
      /\ order # <<>> /\ kind \in {"batch", "restore", "recover"} /\ order \in Seq(Target)
      /\ kind # "batch" => want = Hw
  BY DEF PersistIntent, kernelVars, Alone, IInv, TypeOK, ModeType, OperationType, ControlInv, Busy, Exact
<1>2. Len(order) \in Nat /\ Len(order) >= 1
  BY <1>1
<1>3. CASE Degrade
  BY <1>1, <1>3, ExactDegrades
<1>4. CASE /\ pc' = IF kind = "batch" THEN "write" ELSE "reset"
           /\ idx' = 1
           /\ plan' = IF kind = "batch"
                      THEN OrderedWrites(from[order[1]], want[order[1]])
                      ELSE ResetWrites(order[1], want[order[1]])
           /\ UNCHANGED <<mem, mode, kind, order, want, from, verdict, failed, saved>>
  <2>1. /\ Among(t, 1, idx)' <=> Among(t, 1, 1)
        /\ Among(t, idx + 1, Len(order))' <=> Among(t, 2, Len(order))
        /\ Among(t, idx, Len(order))' <=> Among(t, 1, Len(order))
        /\ Asked(saved, t)' = Asked(saved, t) /\ Asked(mem, t)' = Asked(mem, t)
        /\ Among(t, 1, Len(order)) <=> t \in ToSet(order)
    BY <1>4 DEF Among, Asked, ToSet
  <2>2. Among(t, 2, Len(order)) => t \in ToSet(order)
    BY <1>2 DEF Among, ToSet
  <2>3. t = order[1] => t \in ToSet(order)
    BY <1>2 DEF ToSet
  <2>4. CASE kind = "batch"
    <3>1. t = order[1] => Leads(nodes[t], plan', want[t])
      <4>. SUFFICES ASSUME t = order[1] PROVE Leads(nodes[t], plan', want[t])
        OBVIOUS
      <4>1. plan' = OrderedWrites(nodes[t], want[t])
        BY <2>3, <2>4, <1>1, <1>4 DEF Untouched
      <4>. QED BY <4>1, AloneFacts, OrderedLeads
    <3>2. Applying(t)'
      BY <3>1, <2>1, <2>2, <2>4, <1>1, <1>4 DEF Applying, Untouched
    <3>. QED BY <3>2, <2>4, <1>1, <1>4 DEF Alone, Exact, Ready, Untouched, Undoing, Releasing, Straight
  <2>5. CASE kind # "batch"
    <3>1. t = order[1] => Leads(nodes[t], plan', Hw[t])
      <4>. SUFFICES ASSUME t = order[1] PROVE Leads(nodes[t], plan', Hw[t])
        OBVIOUS
      <4>1. plan' = ResetWrites(t, Hw[t])
        BY <2>5, <1>1, <1>4
      <4>. QED BY <4>1, AloneFacts, HwFacts, ResetLeads
    <3>2. Releasing(t)'
      BY <3>1, <2>1, <2>5, <1>1, <1>4 DEF Releasing, Untouched, ToSet
    <3>. QED BY <3>2, <2>5, <1>1, <1>4 DEF Alone, Exact, Ready, Untouched, Applying, Undoing, Straight
  <2>. QED BY <2>4, <2>5
<1>. QED BY <1>3, <1>4 DEF PersistIntent

\* The fast path begins.
LEMMA ExactApplyFast ==
  ASSUME NEW t, Alone(t), ApplyFast
  PROVE  Exact(t)'
<1>1. /\ Ready /\ UNCHANGED <<nodes, cap>> /\ pc' = "write" /\ kind' = "fast" /\ saved' = mem
  BY DEF ApplyFast, Begin, kernelVars
<1>2. PICK s \in Orders :
        \E r \in [ToSet(s) -> UNION {Window(u) : u \in ToSet(s)}] :
          LET w == [u \in Target |-> IF u \in ToSet(s) THEN SnapLimits(u, r[u]) ELSE Hw[u]]
              f == [u \in Target |-> IF u \in ToSet(s) THEN Effective(u) ELSE Hw[u]]
          IN  /\ s # <<>> /\ mem' = WithIntents(mem, s, f, w)
              /\ \A u \in ToSet(s) : r[u] \in Window(u)
              /\ order' = s /\ want' = w /\ from' = f
              /\ StartTarget(s, f, w, 1)
  BY DEF ApplyFast, Begin
<1>3. PICK r \in [ToSet(s) -> UNION {Window(u) : u \in ToSet(s)}] :
         LET w == [u \in Target |-> IF u \in ToSet(s) THEN SnapLimits(u, r[u]) ELSE Hw[u]]
             f == [u \in Target |-> IF u \in ToSet(s) THEN Effective(u) ELSE Hw[u]]
         IN  /\ s # <<>> /\ mem' = WithIntents(mem, s, f, w)
             /\ \A u \in ToSet(s) : r[u] \in Window(u)
             /\ order' = s /\ want' = w /\ from' = f
             /\ StartTarget(s, f, w, 1)
  BY <1>2
<1>. DEFINE w == [u \in Target |-> IF u \in ToSet(s) THEN SnapLimits(u, r[u]) ELSE Hw[u]]
            f == [u \in Target |-> IF u \in ToSet(s) THEN Effective(u) ELSE Hw[u]]
<1>4. /\ s # <<>> /\ mem' = WithIntents(mem, s, f, w) /\ order' = s /\ want' = w /\ from' = f
      /\ idx' = 1 /\ plan' = OrderedWrites(f[s[1]], w[s[1]])
      /\ \A u \in ToSet(s) : r[u] \in Window(u)
  BY <1>3 DEF StartTarget
<1>5. s \in Seq(Target) /\ Len(s) \in Nat /\ Len(s) >= 1
  BY <1>4, OrdersTyped
<1>6. /\ nodes[t] = Asked(mem, t) /\ t \in Target /\ Straight(nodes[t]) /\ cap[t] = Hw[t].max
      /\ nodes[t] \in Limits /\ Effective(t) = nodes[t]
  BY <1>1, ReadyAsked, AloneFacts
<1>7. t \in ToSet(s) => /\ f[t] = nodes[t] /\ w[t] \in Limits /\ Straight(w[t])
  <2>1. t \in ToSet(s) => f[t] = Effective(t) /\ w[t] = SnapLimits(t, r[t]) /\ r[t] \in Window(t)
    BY <1>4, <1>6
  <2>. HIDE DEF f, w
  <2>. QED BY <2>1, <1>6, SnapLimitsValid DEF ValidLimits, Straight
<1>. HIDE DEF f, w
<1>8. t \notin ToSet(s) => Asked(mem', t) = Asked(mem, t)
  BY <1>4, <1>6, IntentsAsk
<1>9. /\ Among(t, 1, idx)' <=> (\E k \in 1 .. 1 : s[k] = t)
      /\ Among(t, idx + 1, Len(order))' <=> (\E k \in 2 .. Len(s) : s[k] = t)
      /\ Among(t, idx, Len(order))' <=> (\E k \in 1 .. Len(s) : s[k] = t)
      /\ Asked(saved, t)' = Asked(mem, t) /\ Asked(mem, t)' = Asked(mem', t)
  BY <1>1, <1>4 DEF Among, Asked
<1>10. /\ (\E k \in 1 .. Len(s) : s[k] = t) <=> t \in ToSet(s)
       /\ (\E k \in 2 .. Len(s) : s[k] = t) => t \in ToSet(s)
       /\ s[1] = t => t \in ToSet(s)
  BY <1>5 DEF ToSet
<1>11. t = s[1] => Leads(nodes[t], plan', w[t])
  <2>. SUFFICES ASSUME t = s[1] PROVE Leads(nodes[t], plan', w[t])
    OBVIOUS
  <2>1. plan' = OrderedWrites(nodes[t], w[t]) /\ w[t] \in Limits /\ Straight(w[t])
    BY <1>4, <1>7, <1>10
  <2>. QED BY <2>1, <1>6, OrderedLeads
<1>12. Applying(t)'
  BY <1>1, <1>4, <1>6, <1>7, <1>8, <1>9, <1>10, <1>11 DEF Applying
<1>. QED BY <1>1, <1>6, <1>12 DEF Exact, Ready, Untouched, Undoing, Releasing, Straight

\* A target is reset, and the next one begins or the journal is finished.
LEMMA ExactResetSettles ==
  ASSUME NEW t, Alone(t), IInv', ResetSettles
  PROVE  Exact(t)'
<1>1. /\ pc = "reset" /\ UNCHANGED <<nodes, cap, mode, kind, order, want>> /\ Releasing(t) /\ t \in Target
      /\ cap[t] = Hw[t].max /\ Straight(nodes[t]) /\ want = Hw /\ kind \in {"restore", "recover"}
  BY DEF ResetSettles, kernelVars, Alone, IInv, ControlInv, Busy, Exact
<1>2. CASE /\ idx' = idx + 1 /\ plan' = ResetWrites(order[idx + 1], want[order[idx + 1]])
           /\ UNCHANGED <<mem, pc>>
  <2>1. t = order[idx + 1] => Leads(nodes[t], plan', Hw[t])
    <3>. SUFFICES ASSUME t = order[idx + 1] PROVE Leads(nodes[t], plan', Hw[t])
      OBVIOUS
    <3>1. plan' = ResetWrites(t, Hw[t])
      BY <1>1, <1>2
    <3>. QED BY <3>1, AloneFacts, HwFacts, ResetLeads
  <2>2. Releasing(t)'
    BY <2>1, <1>1, <1>2 DEF Releasing, Asked, ToSet
  <2>. QED BY <2>2, <1>1, <1>2 DEF Exact, Ready, Untouched, Applying, Undoing, Straight
<1>3. CASE /\ mem' = IF kind = "restore" THEN Without(mem, order) ELSE mem
           /\ pc' = "finish"
  <2>1. kind = "restore" => nodes[t] = Asked(mem', t)
    <3>. SUFFICES ASSUME kind = "restore" PROVE nodes[t] = Asked(mem', t)
      OBVIOUS
    <3>1. mem' = Without(mem, order)
      BY <1>3
    <3>2. CASE t \notin ToSet(order)
      BY <3>1, <3>2, <1>1 DEF Without, Asked, Releasing
    <3>3. CASE t \in ToSet(order)
      <4>1. t \notin mem'.claims
        BY <3>1, <3>3 DEF Without
      <4>2. Dirty' \subseteq mem'.claims
        BY <1>1, <1>3 DEF IInv, DirtyInv, FinalJournal
      <4>3. nodes[t] = Hw[t]
        BY <4>1, <4>2, <1>1 DEF Dirty
      <4>. QED BY <3>1, <3>3, <4>3, <1>1 DEF Without, Asked, Settled
    <3>. QED BY <3>2, <3>3
  <2>2. Releasing(t)'
    BY <2>1, <1>1, <1>3 DEF Releasing, Asked
  <2>. QED BY <2>2, <1>1, <1>3 DEF Exact, Ready, Untouched, Applying, Undoing, Straight
<1>. QED BY <1>2, <1>3 DEF ResetSettles

\* The empty journal asks for the hardware range.
LEMMA EmptyAsks ==
  ASSUME NEW t \in Target
  PROVE  Asked(EmptyJournal, t) = Hw[t]
BY DEF Asked, EmptyJournal, Settled

\* The journal is finished.
LEMMA ExactFinish ==
  ASSUME NEW t, Alone(t), Finish
  PROVE  Exact(t)'
<1>1. /\ UNCHANGED <<nodes, cap>> /\ pc = "finish" /\ t \in Target
  BY DEF Finish, kernelVars, Alone
<1>2. nodes[t] = Asked(FinalJournal, t)
  <2>1. CASE kind = "recover"
    <3>1. Dirty \subseteq {}
      BY <2>1, <1>1, EmptyJournalOK DEF Alone, IInv, DirtyInv, FinalJournal
    <3>. QED BY <3>1, <2>1, <1>1, EmptyAsks DEF Dirty, FinalJournal
  <2>2. CASE kind # "recover"
    BY <2>2, <1>1 DEF Alone, Exact, Releasing, FinalJournal
  <2>. QED BY <2>1, <2>2
<1>3. CASE Degrade
  BY <1>1, <1>3, ExactDegrades
<1>4. CASE mem' = FinalJournal /\ Return(IF verdict = "degrade" THEN "ReadOnlyDegraded" ELSE mode)
  <2>1. pc' = "idle" /\ Asked(mem', t) = Asked(FinalJournal, t)
    BY <1>4 DEF Return
  <2>. QED BY <2>1, <1>1, <1>2, ExactRests
<1>. QED BY <1>3, <1>4 DEF Finish

\* A journal of another boot is discarded: nothing of it is left.
LEMMA ExactDiscard ==
  ASSUME NEW t, Alone(t), DiscardStale
  PROVE  Exact(t)'
<1>1. UNCHANGED <<nodes, cap>> /\ disk.boot # boot /\ t \in Target /\ DurableClaim
  BY DEF DiscardStale, kernelVars, Alone, IInv
<1>2. nodes[t] = Asked(EmptyJournal, t)
  BY <1>1, EmptyAsks DEF DurableClaim
<1>3. CASE Degrade
  BY <1>1, <1>3, ExactDegrades
<1>4. CASE mem' = EmptyJournal /\ Return(mode)
  <2>1. pc' = "idle" /\ Asked(mem', t) = Asked(EmptyJournal, t)
    BY <1>4 DEF Return
  <2>. QED BY <2>1, <1>1, <1>2, ExactRests
<1>. QED BY <1>3, <1>4 DEF DiscardStale

\* Crashes, reboots and starts.
LEMMA ExactProcess ==
  ASSUME NEW t, Alone(t), Crash \/ Reboot \/ New
  PROVE  Exact(t)'
<1>1. CASE Crash
  <2>1. pc' = "down" /\ ~Ready' /\ UNCHANGED <<nodes, cap>>
    BY <1>1 DEF Crash, Down, kernelVars, Ready
  <2>. QED BY <2>1, ExactRests
<1>2. CASE Reboot
  <2>1. /\ pc' = "down" /\ ~Ready' /\ t \in Target /\ nodes'[t] = Hw[t] /\ cap'[t] = Hw[t].max
    BY <1>2 DEF Reboot, Down, Ready, Alone
  <2>2. Straight(nodes'[t])
    BY <2>1, HwFacts DEF Straight
  <2>. QED BY <2>1, <2>2 DEF Exact, Untouched, Applying, Undoing, Releasing, Straight
<1>3. CASE New
  <2>1. /\ pc' = "idle" /\ UNCHANGED <<nodes, cap>> /\ t \in Target /\ JournalInv /\ DurableClaim
    BY <1>3 DEF New, kernelVars, Alone, IInv
  <2>2. ASSUME Ready' PROVE nodes[t] = Asked(mem', t)
    <3>1. ~disk.present /\ mem' = EmptyJournal
      BY <1>3, <2>1, <2>2 DEF New, Ready, JournalInv
    <3>2. Asked(mem', t) = Hw[t]
      BY <3>1, <2>1, EmptyAsks
    <3>. QED BY <3>1, <3>2, <2>1 DEF DurableClaim
  <2>. QED BY <2>1, <2>2, ExactRests
<1>. QED BY <1>1, <1>2, <1>3

\* Every step keeps such a target exact.
LEMMA ExactStep ==
  ASSUME NEW t, Alone(t), IInv', [Next]_vars
  PROVE  Exact(t)'
<1>1. CASE UNCHANGED vars
  BY <1>1 DEF vars, Alone, Exact, Ready, Untouched, Applying, Undoing, Releasing, Straight, Asked,
              Among, ToSet
<1>2. CASE ApplyBatch \/ ApplyFast \/ Restore \/ DiscardStale \/ Recover
  BY <1>2, ExactApplyBatch, ExactApplyFast, ExactRestore, ExactDiscard, ExactRecover
<1>3. CASE RefuseRecovery \/ ResetFails
  <2>1. Degrade /\ nodes' = nodes /\ cap' = cap
    BY <1>3 DEF RefuseRecovery, ResetFails, kernelVars
  <2>. QED BY <2>1, ExactDegrades
<1>4. CASE WriteFails
  <2>1. pc \in {"write", "persistApplied"} /\ StartRollback(idx, "abort") /\ UNCHANGED kernelVars
    BY <1>4 DEF WriteFails, kernelVars
  <2>. QED BY <2>1, ExactTurnsBack
<1>5. CASE PersistIntent \/ WriteNode \/ WriteSettles \/ PersistApplied \/ RollbackSettles
           \/ RollbackFails \/ ResetSettles \/ Finish
  BY <1>5, ExactPersistIntent, ExactWrite, ExactSettles, ExactApplied, ExactRollbackSettles,
     ExactRollbackFails, ExactResetSettles, ExactFinish
<1>6. CASE Crash \/ Reboot \/ New
  BY <1>6, ExactProcess
<1>7. CASE \E u \in Target : ConstraintChange(u)
  BY <1>7, ExactConstraint
<1>. QED BY <1>1, <1>2, <1>3, <1>4, <1>5, <1>6, <1>7, Zenon DEF Next, Step

\* An operation keeps its list, ends with an empty one or begins with one that
\* has no target twice.
LEMMA DistinctStep ==
  ASSUME Distinct, [Next]_vars
  PROVE  Distinct'
<1>1. order' = order \/ order' = <<>> \/ order' \in Orders
  <2>1. CASE UNCHANGED vars
    BY <2>1 DEF vars
  <2>2. CASE ApplyBatch \/ ApplyFast \/ Restore \/ Recover
    BY <2>2 DEF ApplyBatch, ApplyFast, Restore, Recover, Begin
  <2>3. CASE DiscardStale \/ RefuseRecovery \/ PersistIntent \/ PersistApplied \/ WriteFails
             \/ WriteSettles \/ ResetFails \/ Finish
    BY <2>3 DEF DiscardStale, RefuseRecovery, PersistIntent, PersistApplied, WriteFails,
                WriteSettles, ResetFails, Finish, Degrade, Return, StartRollback
  <2>4. CASE RollbackSettles \/ RollbackFails
    BY <2>4 DEF RollbackSettles, RollbackFails, NextRollback, Degrade, Return
  <2>5. CASE WriteNode \/ ResetSettles \/ Crash \/ Reboot \/ New \/ \E u \in Target : ConstraintChange(u)
    BY <2>5 DEF WriteNode, ResetSettles, Crash, Reboot, Down, New, ConstraintChange, opVars
  <2>. QED BY <2>1, <2>2, <2>3, <2>4, <2>5, Zenon DEF Next, Step
<1>2. CASE order' = order
  BY <1>2 DEF Distinct
<1>3. CASE order' = <<>>
  BY <1>3 DEF Distinct
<1>4. CASE order' \in Orders
  <2>1. PICK n \in 0 .. MaxBatch : order' \in [1 .. n -> Target]
    BY <1>4 DEF Orders
  <2>2. n \in Nat
    BY <2>1, BoundsAssumption
  <2>3. Len(order') = n /\ DOMAIN order' = 1 .. n
    BY <2>1, <2>2, SeqDef, OrdersTyped, <1>4
  <2>. QED BY <2>3, <1>4 DEF Distinct, Orders
<1>. QED BY <1>1, <1>2, <1>3, <1>4

\* The state before the first daemon starts.
LEMMA InitExact == Init => ExactInv
<1>. SUFFICES ASSUME Init PROVE ExactInv
  OBVIOUS
<1>1. Distinct
  BY DEF Init, Distinct
<1>2. ASSUME NEW t \in Target PROVE Exact(t)
  <2>1. nodes[t] = Hw[t] /\ cap[t] = Hw[t].max /\ pc = "down"
    BY DEF Init
  <2>2. Straight(nodes[t])
    BY <2>1, HwFacts DEF Straight
  <2>. QED BY <2>1, <2>2 DEF Exact, Ready, Untouched, Applying, Undoing, Releasing
<1>. QED BY <1>1, <1>2 DEF ExactInv

LEMMA NextExact == IInv /\ IInv' /\ ExactInv /\ [Next]_vars => ExactInv'
<1>. SUFFICES ASSUME IInv, IInv', ExactInv, [Next]_vars PROVE ExactInv'
  OBVIOUS
<1>1. Distinct'
  BY DistinctStep DEF ExactInv
<1>2. ASSUME NEW t \in Target, Exclusive(t) PROVE Exact(t)'
  <2>1. Alone(t)
    BY <1>2 DEF Alone, ExactInv
  <2>. QED BY <2>1, ExactStep
<1>3. \A t \in Target : Exclusive(t)' <=> Exclusive(t)
  BY DEF Exclusive
<1>. QED BY <1>1, <1>2, <1>3 DEF ExactInv

\* A target that no other client constrains carries, between operations, exactly
\* the request of the journal, and its two attributes are never reversed: not
\* between two writes, not in a rollback that fails, not after a crash
\* (apply_batch, apply_owned_batch_fast, rollback_frequency_requests).
THEOREM BatchesExact == Spec => []BatchExact
<1>1. ExactInv => BatchExact
  BY DEF ExactInv, Exact, BatchExact, Asked, Straight
<1>. QED BY <1>1, InductiveInvariant, InitExact, NextExact, PTL DEF Spec
=============================================================================
