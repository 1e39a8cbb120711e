-------------------------- MODULE SchedulingPolicy --------------------------
(***************************************************************************)
(* What a validated scheduler configuration may do to threads: the          *)
(* validation (crates/uperf-core/src/config.rs), the evaluation of the      *)
(* rules (crates/uperf-core/src/policy.rs) and the reconciliation of the    *)
(* workload's threads and unit (crates/uperf-daemon/src/reconcile.rs).      *)
(*                                                                         *)
(* One task profile with a base plan and a patch for the boost scene and    *)
(* one cgroup class; process rules, their thread rules and the focus        *)
(* default refer to them by name.  An optional value is a set of at most    *)
(* one element, a regular expression the set of names it matches.           *)
(***************************************************************************)
EXTENDS Naturals, FiniteSets, Sequences

CONSTANTS
  Cpus,              \* the CPUs of the device's CPU policies
  Groups,            \* the device's CPU groups: [name -> set of CPUs]
  Plans,             \* the plans a profile is built from
  Configs,           \* everything else a configuration says
  Name,              \* what processes and threads call themselves
  Worker,            \* the threads of the workload besides its leader
  ForeignWorker,     \* those that run as another user
  Original,          \* what a thread is before the daemon touches it
  MaxFifo,           \* MAX_FIFO_PRIORITY
  MaxWeight,         \* the largest weight of a unit
  MaxChanges         \* bound on changes of the workload and its surroundings

AtMostOne(set) == \A x, y \in set : x = y

\* A plan's fields are options; a thread starts with clamps that are in order
\* and with a real-time priority exactly when it is FIFO.
ASSUME SchedulingConstants ==
  /\ Cpus # {} /\ ForeignWorker \subseteq Worker /\ "leader" \notin Worker
  /\ \A p \in Plans :
       /\ DOMAIN p = {"affinity", "class", "prio", "umin", "umax"}
       /\ \A f \in DOMAIN p : AtMostOne(p[f])
       /\ p.umin \cup p.umax \subseteq Nat
  /\ \A c \in Configs : {"cpus", "group"} \subseteq DOMAIN c.class
  /\ Original.umin \in Nat /\ Original.umax \in Nat /\ Original.umin <= Original.umax
  /\ Original.class = "fifo" <=> Original.prio # {}

VARIABLES
  cfg,               \* the accepted configuration
  kernel,            \* [Thread -> scheduling state]
  unitCpus,          \* the CPUs systemd allows the workload's unit
  workload,          \* its source and name, its threads' names, whether it is
                     \* alone in its unit, and the CPUs online
  activeScene,       \* the scheduler scene
  decision,          \* the last evaluation: [tasks: [threads -> plan], unit, due]
  schedOwned,        \* what the actuator journals: threads, and "unit"
  changes            \* changes so far

schedVars == <<cfg, kernel, unitCpus, workload, activeScene, decision, schedOwned, changes>>

Thread == {"leader"} \cup Worker
Profile == "p"
Class == "c"

-----------------------------------------------------------------------------
(* Validation                                                              *)

Merge(base, patch) ==
  [f \in DOMAIN base |-> IF patch[f] # {} THEN patch[f] ELSE base[f]]

PlanValid(p) ==
  /\ {} \notin p.affinity
  /\ p.prio \subseteq 1..MaxFifo
  /\ \A lo \in p.umin, hi \in p.umax : lo <= hi
\* A plan as it will be in effect; `grouped` when the profile names a CPU group.
EffectiveValid(p, grouped, rt) ==
  /\ PlanValid(p)
  /\ p.class = {"fifo"} =>
       /\ rt.enabled
       /\ p.prio # {} /\ \A n \in p.prio : n <= rt.max
       /\ p.affinity # {} \/ grouped
       /\ \A a \in p.affinity : a \cap rt.housekeeping = {}
  /\ p.class # {"fifo"} => p.prio = {}

RealtimeValid(c) ==
  /\ c.rt.enabled => c.enabled /\ c.rt.housekeeping # {}
  /\ c.rt.max \in 1..MaxFifo
ProfileValid(c) ==
  /\ c.group # {} => c.base.affinity = {}
  /\ EffectiveValid(c.base, c.group # {}, c.rt)
  /\ PlanValid(c.boost) /\ EffectiveValid(Merge(c.base, c.boost), c.group # {}, c.rt)
\* A class takes its CPUs from a list or from a group.
ClassValid(c) ==
  /\ c.class.group # {} <=> c.class.cpus = {}
  /\ c.class.weight \in 1..MaxWeight
\* A matcher restricts something, and not the desktop ID.
MatcherValid(m) == m.executable \cup m.comm # {} /\ m.desktop = {}
FocusValid(c) == c.focus \subseteq {Profile} /\ (c.focusOn => c.focus # {})
RuleValid(r) ==
  /\ MatcherValid(r.matcher)
  /\ r.profile \subseteq {Profile} /\ r.class \subseteq {Class}
  /\ \A i \in DOMAIN r.threads : r.threads[i].profile = Profile
RulesValid(c) == \A i \in DOMAIN c.rules : RuleValid(c.rules[i])

CpusOf(group) == UNION {Groups[g] : g \in group \cap DOMAIN Groups}
GroupCpus(c) == CpusOf(c.group)
\* A FIFO plan that takes its CPUs from the group.
FifoGroupValid(p, c) ==
  p.class = {"fifo"} /\ p.affinity = {} /\ c.group # {} => GroupCpus(c) \cap c.rt.housekeeping = {}
\* Mutant: scene overrides are not checked.
ReferencesValidForBase(c) ==
  /\ c.rt.housekeeping \cup c.class.cpus \subseteq Cpus
  /\ c.group \cup c.class.group \subseteq DOMAIN Groups
  /\ \A p \in {c.base, c.boost} : \A a \in p.affinity : a \subseteq Cpus
  /\ FifoGroupValid(c.base, c)
ReferencesValid(c) ==
  /\ c.rt.housekeeping \cup c.class.cpus \subseteq Cpus
  /\ c.group \cup c.class.group \subseteq DOMAIN Groups
  /\ \A p \in {c.base, c.boost} : \A a \in p.affinity : a \subseteq Cpus
  /\ \A p \in {c.base, Merge(c.base, c.boost)} : FifoGroupValid(p, c)

ConfigValid(c) ==
  /\ RealtimeValid(c) /\ ProfileValid(c) /\ ClassValid(c)
  /\ FocusValid(c) /\ RulesValid(c)
  /\ ReferencesValid(c)
\* CPU groups become the affinity of the base plan and the CPUs of the class.
Materialize(c) ==
  [c EXCEPT !.group = {}, !.class.group = {}, !.class.cpus = @ \cup CpusOf(c.class.group),
            !.base.affinity = IF c.group = {} THEN @ ELSE {GroupCpus(c)}]

-----------------------------------------------------------------------------
(* Evaluation                                                              *)

PlanIn(s) == IF s = "boost" THEN Merge(cfg.base, cfg.boost) ELSE cfg.base

Matches(m, w) ==
  /\ m.executable \subseteq w.executable /\ m.desktop \subseteq w.desktop
  /\ \A pattern \in m.comm : w.comm["leader"] \in pattern
\* The first rule that matches the process, the first selector that picks the
\* thread: none or one.
MatchedRule(w) ==
  {i \in DOMAIN cfg.rules :
     /\ Matches(cfg.rules[i].matcher, w)
     /\ \A j \in 1..(i - 1) : ~Matches(cfg.rules[j].matcher, w)}
Selects(selector, t, w) == IF selector.leader THEN t = "leader" ELSE w.comm[t] \in selector.comm
ThreadRule(r, t, w) ==
  {i \in DOMAIN r.threads :
     /\ Selects(r.threads[i], t, w)
     /\ \A j \in 1..(i - 1) : ~Selects(r.threads[j], t, w)}

\* The process rule's plan is the leader's, a thread rule's overrides it; a
\* focused workload that no rule matches gets the focus default throughout.
Planned(w) ==
  LET own == Thread \ ForeignWorker
      ruled == UNION {(IF cfg.rules[i].profile # {} THEN {"leader"} ELSE {})
                      \cup {t \in own : ThreadRule(cfg.rules[i], t, w) # {}}
                      : i \in MatchedRule(w)}
  IN IF w.source = "none" \/ ~cfg.enabled THEN {}
     ELSE IF MatchedRule(w) # {} THEN ruled
     ELSE IF w.source = "focus" /\ cfg.focusOn THEN own ELSE {}
\* A plan is kept on the CPUs that are online, or dropped when there are none.
Online(plan, cpus) == [plan EXCEPT !.affinity = {a \cap cpus : a \in @}]
\* The unit of the workload is the class's to restrict when the workload is
\* alone in it and one of the CPUs is online.
UnitPlan(w) ==
  LET cpus == cfg.class.cpus \cap w.online
  IN IF /\ cfg.enabled /\ w.source # "none" /\ w.alone /\ cpus # {}
        /\ \E i \in MatchedRule(w) : cfg.rules[i].class # {}
     THEN {cpus} ELSE {}

\* The scheduler job resolves plans from what it reads; it applies them later.
Resolve ==
  /\ ~decision.due
  /\ LET plan == Online(PlanIn(activeScene), workload.online)
     IN decision' = [due |-> TRUE, unit |-> UnitPlan(workload),
                     tasks |-> [t \in (IF {} \in plan.affinity THEN {} ELSE Planned(workload))
                                |-> plan]]
  /\ UNCHANGED <<cfg, kernel, unitCpus, workload, activeScene, schedOwned, changes>>

-----------------------------------------------------------------------------
(* Reconciliation                                                          *)

\* A plan over the current state; absent fields keep the current value, and a
\* bound that is set alone gives way to the one that is not.
LowerOf(a, b) == IF a < b THEN a ELSE b
HigherOf(a, b) == IF a < b THEN b ELSE a
Only(set, default) == IF set = {} THEN default ELSE CHOOSE x \in set : TRUE
ApplyPlan(k, p) ==
  [affinity |-> Only(p.affinity, k.affinity),
   class |-> Only(p.class, k.class),
   prio |-> IF p.prio # {} THEN p.prio
            ELSE IF p.class \in {{}, {"fifo"}} THEN k.prio ELSE {},
   umin |-> IF p.umin = {} THEN k.umin
            ELSE IF p.umax = {} THEN LowerOf(Only(p.umin, 0), k.umax) ELSE Only(p.umin, 0),
   umax |-> IF p.umax = {} THEN k.umax
            ELSE IF p.umin = {} THEN HigherOf(Only(p.umax, 0), k.umin) ELSE Only(p.umax, 0)]

\* Threads that lost their plan get their original state back, the others the
\* plan over what they are now.
ReconcileThreads(plans) ==
  kernel' = [t \in Thread |->
               IF t \in DOMAIN plans THEN ApplyPlan(kernel[t], plans[t])
               ELSE IF t \in schedOwned THEN Original ELSE kernel[t]]
\* A unit that others joined meanwhile is left alone or given back.
ReconcileUnit ==
  LET mine == workload.alone /\ decision.unit # {}
  IN unitCpus' = IF mine THEN Only(decision.unit, {})
                 ELSE IF "unit" \in schedOwned THEN Cpus ELSE unitCpus
Reconcile ==
  /\ decision.due /\ decision' = [decision EXCEPT !.due = FALSE]
  /\ ReconcileThreads(decision.tasks) /\ ReconcileUnit
  /\ schedOwned' = {t \in DOMAIN decision.tasks : kernel'[t] # Original \/ t \in schedOwned}
                   \cup (IF workload.alone /\ decision.unit # {} THEN {"unit"} ELSE {})
  /\ UNCHANGED <<cfg, workload, activeScene, changes>>

-----------------------------------------------------------------------------
(* The world: scenes, the selected workload, its threads and the CPUs       *)

SceneChanges(s) ==
  /\ s # activeScene /\ activeScene' = s
  /\ UNCHANGED <<cfg, kernel, unitCpus, workload, decision, schedOwned, changes>>
WorldChanges(w) ==
  /\ w # workload /\ workload' = w
  /\ changes < MaxChanges /\ changes' = changes + 1
  /\ UNCHANGED <<cfg, kernel, unitCpus, activeScene, decision, schedOwned>>
WorkloadChanges(source) == WorldChanges([workload EXCEPT !.source = source])
CpusChange(cpus) == WorldChanges([workload EXCEPT !.online = cpus])
ThreadRenames(t, name) == WorldChanges([workload EXCEPT !.comm[t] = name])
UnitShared(alone) == WorldChanges([workload EXCEPT !.alone = alone])

Document(base, boost, c) ==
  [base |-> base, boost |-> boost, group |-> c.group, rt |-> c.rt, enabled |-> c.enabled,
   class |-> c.class, rules |-> c.rules, focus |-> c.focus, focusOn |-> c.focusOn]
\* A daemon that starts with a document it accepts.
StartsWith(doc) ==
  /\ ConfigValid(doc) /\ cfg = Materialize(doc)
  /\ kernel = [t \in Thread |-> Original] /\ unitCpus = Cpus
  /\ \E name \in Name :
       workload = [source |-> "none", executable |-> {"app"}, desktop |-> {}, alone |-> TRUE,
                   comm |-> [t \in Thread |-> name], online |-> Cpus]
  /\ activeScene = "idle" /\ schedOwned = {} /\ changes = 0
  /\ decision = [tasks |-> [t \in {} |-> {}], unit |-> {}, due |-> FALSE]
SchedInit == \E b \in Plans, p \in Plans, c \in Configs : StartsWith(Document(b, p, c))

SchedNext ==
  \/ Resolve \/ Reconcile
  \/ \E s \in {"idle", "boost"} : SceneChanges(s)
  \/ \E s \in {"none", "focus", "explicit"} : WorkloadChanges(s)
  \/ \E c \in SUBSET Cpus \ {{}} : CpusChange(c)
  \/ \E t \in Worker \ ForeignWorker, n \in Name : ThreadRenames(t, n)
  \/ \E alone \in BOOLEAN : UnitShared(alone)

SchedSpec == SchedInit /\ [][SchedNext]_schedVars

-----------------------------------------------------------------------------
(* Properties                                                              *)

\* Whatever configuration passes validation, no evaluation in any scene, for
\* any workload and any CPUs online, plans a FIFO thread without a permitted
\* priority or on a housekeeping CPU.
PlansSound ==
  \A t \in DOMAIN decision.tasks :
    LET plan == decision.tasks[t]
    IN plan.class = {"fifo"} =>
         /\ cfg.rt.enabled /\ plan.prio # {}
         /\ \A n \in plan.prio : n <= cfg.rt.max
         /\ plan.affinity # {}
         /\ \A a \in plan.affinity : a # {} /\ a \cap cfg.rt.housekeeping = {}
\* However plans follow one another on a thread, its utilization clamps stay
\* ordered and it has a real-time priority exactly when it is FIFO.
ThreadsConsistent ==
  \A t \in Thread :
    /\ kernel[t].umin <= kernel[t].umax
    /\ kernel[t].class = "fifo" <=> kernel[t].prio # {}
\* However rules, names and the unit's members change between a resolution and
\* the next, what differs from its original is journaled, and nothing of
\* another user is ever changed.
NothingForgotten ==
  /\ \A t \in Thread \ schedOwned : kernel[t] = Original
  /\ \A t \in ForeignWorker : kernel[t] = Original
  /\ "unit" \notin schedOwned => unitCpus = Cpus
  /\ unitCpus # {}
ValidConfigIsSafe == PlansSound /\ ThreadsConsistent /\ NothingForgotten
=============================================================================
