--------------------------- MODULE EnergyGovernor ---------------------------
(***************************************************************************)
(* One evaluation of the policy: the package-wide energy governor           *)
(* (crates/uperf-core/src/energy.rs) and the safety caps and overrides      *)
(* around it (crates/uperf-core/src/policy.rs).                             *)
(*                                                                         *)
(* Frequencies, powers and energies are naturals; the reference curve is    *)
(* exact with its cubic coefficient as the unit.  The performance a load    *)
(* demands is any value between the bounds the predictor and the margins    *)
(* keep; the estimated package power is arbitrary.                          *)
(* An optional value is a set of at most one element.                       *)
(***************************************************************************)
EXTENDS Integers, FiniteSets, Sequences

CONSTANTS
  Cluster,        \* the CPU targets, 1..n in the order of their identifiers
  ManualOnly,     \* the targets without an automatic policy (devfreq)
  Opps,           \* [target -> the frequencies the kernel offers]
  Configurations, \* configurations the daemon is given, acceptable or not
  Demands,        \* demanded performance: [Cluster -> performance]
  Loads,          \* the loads of the CPUs: [Cluster -> set of 0..FullLoad]
  FullLoad,
  Estimates,      \* estimated package powers
  Observations,   \* limits others left: [ManualOnly -> limits]
  Thermal,        \* the thermal states that are explored
  Overridable,    \* the targets a client overrides
  MaxRampLatency, MaxResidency,
  RefillDivisor   \* divisor by which an unused budget refills the bucket

Targets == Cluster \cup ManualOnly

\* Optional caps, a floor and the corners of a curve are natural numbers, a CPU
\* target has CPUs, and the kernel offers a target some frequencies.
ASSUME GovernorConstants ==
  /\ Cluster \subseteq Nat /\ IsFiniteSet(Cluster) /\ Overridable \subseteq Targets
  /\ Thermal \subseteq {"normal", "warning", "throttled", "critical", "degraded"}
  /\ \A c \in Targets : Opps[c] \subseteq Nat /\ IsFiniteSet(Opps[c]) /\ Opps[c] # {}
  /\ \A o \in Observations : \A c \in ManualOnly : o[c].max \in Nat /\ o[c].min \in Nat
  /\ \A k \in Configurations :
       /\ \A c \in Targets : k.limit[c].admin \cup k.limit[c].critical \cup k.limit[c].failure
                               \subseteq Nat
       /\ \A c \in Cluster :
            /\ {k.limit[c].floor, k.limit[c].reference, k.limit[c].efficient} \subseteq Nat
            /\ k.model[c].cores \in Nat \ {0}
            /\ IF k.model[c].kind = "measured"
               THEN \A f \in DOMAIN k.model[c].point :
                      k.model[c].point[f].power \in Nat /\ k.model[c].point[f].capacity \in Nat
               ELSE {k.model[c].free, k.model[c].plain, k.model[c].sweet} \subseteq Nat

VARIABLES
  energy,        \* the loaded configuration with its expanded energy models
  gov,           \* GovernorState
  plan,          \* the desired limits, and the thermal state they were made for
  manual         \* manual overrides: [target -> set of at most one pair]

govVars == <<energy, gov, plan, manual>>

-----------------------------------------------------------------------------
(* Operating points                                                        *)

MaxOf(S) == CHOOSE x \in S : \A y \in S : y <= x
MinOf(S) == CHOOSE x \in S : \A y \in S : x <= y
Lower(a, b) == IF a < b THEN a ELSE b
Higher(a, b) == IF a < b THEN b ELSE a
Distance(a, b) == IF a < b THEN b - a ELSE a - b

\* The nearest operating point, the lower one of two.
SnapNearest(S, f) ==
  CHOOSE x \in S : \A y \in S :
    \/ Distance(x, f) < Distance(y, f)
    \/ Distance(x, f) = Distance(y, f) /\ x <= y
SnapDown(S, f) == LET below == {x \in S : x <= f}
                  IN IF below = {} THEN {} ELSE {MaxOf(below)}
SnapUp(S, f) == LET above == {x \in S : x >= f}
                IN IF above = {} THEN {} ELSE {MinOf(above)}

\* Discovery adds the hardware limits to the operating points.
Hardware == [c \in Targets |-> [min |-> MinOf(Opps[c]), max |-> MaxOf(Opps[c])]]

\* `constrain_frequency_limits`: the caps clamped to the hardware, the maximum
\* snapped down and then the minimum up.
Constrain(c, asked, cap) ==
  LET hw == Hardware[c]
      hard == Higher(hw.min, Lower(cap, hw.max))
      max == MaxOf(SnapDown(Opps[c], Higher(hw.min, Lower(asked.max, hard))))
      up == SnapUp(Opps[c], Higher(hw.min, Lower(asked.min, max)))
  IN [min |-> IF up = {} THEN max ELSE Lower(MinOf(up), max), max |-> max]

-----------------------------------------------------------------------------
(* The configuration k: what validation accepts                            *)

Optional(field, default) == IF field = {} THEN default ELSE MinOf(field)
\* The budget of a scene: what the patch says over what the profile says.
ResolveBudget(base, patch) ==
  [slow |-> Optional(patch.slow, base.slow), fast |-> Optional(patch.fast, base.fast),
   capacity |-> Optional(patch.capacity, base.capacity)]
BudgetValid(b) == b.slow > 0 /\ b.fast >= b.slow
PolicyValid(k) ==
  /\ BudgetValid(k.profile.budget)
  /\ \A s \in DOMAIN k.patch : BudgetValid(ResolveBudget(k.profile.budget, k.patch[s].budget))
GovernorValid(k) ==
  k.predict \in 0..FullLoad /\ k.ramp <= MaxRampLatency /\ k.residency <= MaxResidency
\* Capacity and power rise with the frequency.
PointsValid(p) ==
  /\ Cardinality(DOMAIN p) > 1
  /\ \A f \in DOMAIN p :
       /\ f > 0 /\ p[f].capacity > 0 /\ p[f].power > 0
       /\ \A g \in DOMAIN p : f < g => p[f].capacity <= p[g].capacity /\ p[f].power <= p[g].power
ModelValid(m) ==
  IF m.kind = "measured" THEN PointsValid(m.point)
  ELSE /\ m.scale > 0 /\ 0 < m.free
       /\ m.free <= m.plain /\ m.plain <= m.sweet /\ m.sweet <= m.typical
\* The caps of a CPU target are not below its floor, and that of a lost sensor
\* is the lowest.
FrequencyModelValid(l) ==
  /\ 0 < l.floor
  /\ \A cap \in {l.reference, l.efficient} \cup l.admin \cup l.critical \cup l.failure :
       l.floor <= cap
  /\ \A low \in l.failure, high \in l.critical : low <= high

\* The target as the hardware resolves it; a measured model has a point for
\* every frequency the kernel offers.
FrequencyPolicyValid(c, l) ==
  /\ Hardware[c].min <= l.floor /\ l.floor <= l.reference /\ l.floor <= l.efficient
  /\ l.reference <= Hardware[c].max /\ l.efficient <= Hardware[c].max
CapsValid(c, l) ==
  \A cap \in l.admin \cup l.critical \cup l.failure :
    Hardware[c].min <= cap /\ cap <= Hardware[c].max
CriticalCap(c, l) == Optional(l.critical, Hardware[c].min)
FailureCap(c, l) == Optional(l.failure, Hardware[c].min)
Expandable(c, m) ==
  Cardinality(Opps[c]) > 1 /\ (m.kind = "measured" => Opps[c] \subseteq DOMAIN m.point)

Acceptable(k) ==
  /\ PolicyValid(k) /\ GovernorValid(k)
  /\ \A c \in Cluster :
       /\ ModelValid(k.model[c]) /\ FrequencyModelValid(k.limit[c])
       /\ FrequencyPolicyValid(c, k.limit[c]) /\ Expandable(c, k.model[c])
  /\ \A c \in Targets :
       CapsValid(c, k.limit[c]) /\ FailureCap(c, k.limit[c]) <= CriticalCap(c, k.limit[c])

-----------------------------------------------------------------------------
(* The expanded energy models                                              *)

\* The reference curve: linear, square and cubic, continuous at its corners.
CurvePower(m, f) ==
  CASE f <= m.plain -> m.sweet * m.plain * f
    [] f > m.plain /\ f <= m.sweet -> m.sweet * f * f
    [] f > m.sweet -> f * f * f
Between(a, b, k, n) == a + ((b - a) * k) \div n
\* The sparse points the governor plans with on a reference curve.
SparseOpps(S, free, plain, sweet) ==
  {SnapNearest(S, f) :
     f \in {free, plain} \cup {Between(plain, sweet, k, 3) : k \in 1..3}
           \cup {Between(sweet, MaxOf(S), k, 4) : k \in 1..4}}
ExpandReference(S, m) ==
  LET free == SnapNearest(S, m.free)
      plain == SnapNearest(S, m.plain)
      sweet == SnapNearest(S, m.sweet)
  IN [power |-> [f \in S |-> CurvePower(m, f)], perf |-> [f \in S |-> f * m.scale],
      plain |-> plain, sweet |-> sweet, control |-> SparseOpps(S, free, plain, sweet)]
\* A measured model has one corner, its first point of the lowest cost per
\* performance, and plans with every point.
ExpandMeasured(S, p) ==
  LET corner == MinOf({f \in S : \A g \in S :
                         p[f].power * p[g].capacity <= p[g].power * p[f].capacity})
  IN [power |-> [f \in S |-> p[f].power], perf |-> [f \in S |-> p[f].capacity],
      plain |-> corner, sweet |-> corner, control |-> S]
ModelOf(c, m) ==
  IF m.kind = "measured" THEN ExpandMeasured(Opps[c], m.point) ELSE ExpandReference(Opps[c], m)

\* The global cap path.  The cost penalty of n cores: 1 + 0.1 * (n - 1), at
\* most 1.2.
Penalty(n) == Lower(12, 9 + n)
Raised(m) == {f \in m.control : f >= m.plain /\ f # MaxOf(m.control)}
BudgetStep(k, model, c, f) ==
  [key |-> model[c].power[f] * Penalty(k.model[c].cores), cluster |-> c, lower |-> f,
   upper |-> MinOf({g \in model[c].control : g > f})]
BudgetSteps(k, model) ==
  UNION {{BudgetStep(k, model, c, f) : f \in Raised(model[c])} : c \in Cluster}
Before(s, t) == \/ s.key < t.key
                \/ s.key = t.key /\ s.cluster < t.cluster
                \/ s.key = t.key /\ s.cluster = t.cluster /\ s.lower < t.lower
\* The steps in their order: the n-th has n - 1 before it.
Path(S) == [n \in 1..Cardinality(S) |->
              CHOOSE s \in S : Cardinality({t \in S : Before(t, s)}) = n - 1]
\* A cluster with more performance per frequency, and the next such one, if any.
Faster(model, c, d) ==
  LET ofC == model[c].perf[Hardware[c].max] * Hardware[d].max
      ofD == model[d].perf[Hardware[d].max] * Hardware[c].max
  IN ofC > ofD \/ (ofC = ofD /\ c > d)
NextFaster(model, c) ==
  {d \in Cluster : /\ Faster(model, d, c)
                   /\ \A e \in Cluster : Faster(model, e, c) => ~Faster(model, d, e)}
\* The upper half's lowest point.
MiddleOpp(c) == CHOOSE f \in Opps[c] :
  Cardinality({g \in Opps[c] : g < f}) = Cardinality(Opps[c]) \div 2
\* `update_thermal_caps`: at most one cap per target.
ThermalCap(state, c, l) ==
  CASE state = "normal" -> {}
    [] state = "warning" -> IF c \in Cluster THEN {l.efficient} ELSE {}
    [] state = "throttled" ->
         {IF c \in Cluster THEN Lower(l.reference, l.efficient) ELSE MiddleOpp(c)}
    [] state = "critical" -> {CriticalCap(c, l)}
    [] state = "degraded" -> {FailureCap(c, l)}
SafetyCap(state, c, l) == MinOf(l.admin \cup ThermalCap(state, c, l) \cup {Hardware[c].max})

\* What is kept of an accepted configuration.
Load(k) ==
  LET model == [c \in Cluster |-> ModelOf(c, k.model[c])]
  IN [model |-> model, profile |-> k.profile, patch |-> k.patch,
      floor |-> [c \in Cluster |-> k.limit[c].floor],
      capped |-> [s \in Thermal |->
                    {c \in Targets : k.limit[c].admin \cup ThermalCap(s, c, k.limit[c]) # {}}],
      cap |-> [s \in Thermal |-> [c \in Targets |-> SafetyCap(s, c, k.limit[c])]],
      predict |-> k.predict, ramp |-> k.ramp, residency |-> k.residency,
      path |-> Path(BudgetSteps(k, model)),
      faster |-> [c \in Cluster |-> NextFaster(model, c)]]

Control(c) == energy.model[c].control
Power(c, f) == energy.model[c].power[f]
Performance(c, f) == energy.model[c].perf[f]
Sweet(c) == energy.model[c].sweet
\* The lowest point of at least that performance, or the highest point.
FirstMeeting(c, p) ==
  MinOf({f \in Control(c) : Performance(c, f) >= p} \cup {MaxOf(Control(c))})

\* `effective_parameters` of the dominant scene.
Parameters(s) ==
  IF s \notin DOMAIN energy.patch THEN energy.profile
  ELSE LET patch == energy.patch[s]
           base == energy.profile
       IN [burst |-> IF patch.burst = {} THEN base.burst ELSE TRUE \in patch.burst,
           efficient |-> IF patch.efficient = {} THEN base.efficient ELSE TRUE \in patch.efficient,
           budget |-> ResolveBudget(base.budget, patch.budget)]

-----------------------------------------------------------------------------
(* The cap path and the energy bucket                                      *)

TopCaps == [c \in Cluster |-> {MaxOf(Control(c))}]
\* Mutant: a step down moves the cursor two steps.
AdjustDownMovesAhead(g, estimate, limit) ==
  IF g.cursor = {} THEN g
  ELSE LET k == CHOOSE n \in g.cursor : TRUE
           s == energy.path[k]
       IN IF 10 * estimate > 11 * limit
          THEN [g EXCEPT !.cap[s.cluster] = {s.lower}, !.cursor = {Higher(1, k - 2)}]
          ELSE IF 10 * estimate < 9 * limit
          THEN [g EXCEPT !.cap[s.cluster] = {s.upper},
                         !.cursor = {Lower(Len(energy.path), k + 1)}]
          ELSE g
\* At most one step along the path, down when the estimate is more than 10%
\* above the budget, up when it is more than 10% below; the cursor turns with a
\* delay of one step.
AdjustBudgetCap(g, estimate, limit) ==
  IF g.cursor = {} THEN g
  ELSE LET k == CHOOSE n \in g.cursor : TRUE
           s == energy.path[k]
       IN IF 10 * estimate > 11 * limit
          THEN [g EXCEPT !.cap[s.cluster] = {s.lower}, !.cursor = {Higher(1, k - 1)}]
          ELSE IF 10 * estimate < 9 * limit
          THEN [g EXCEPT !.cap[s.cluster] = {s.upper},
                         !.cursor = {Lower(Len(energy.path), k + 1)}]
          ELSE g
ResetPath(g) ==
  IF g.pathLen = Len(energy.path) THEN g
  ELSE [g EXCEPT !.pathLen = Len(energy.path), !.cap = TopCaps,
                 !.cursor = IF Len(energy.path) = 0 THEN {} ELSE {Len(energy.path)}]

Clamp(x, n) == Higher(-n, Lower(x, n))
FillBucket(g, budget) ==
  [g EXCEPT !.capacity = budget.capacity,
            !.remaining = IF budget.capacity > g.capacity THEN budget.capacity
                          ELSE Clamp(@, budget.capacity)]
Integrate(g, budget, estimate, dt) ==
  LET used == (estimate - budget.slow) * dt
      charged == IF used < 0 THEN -((-used) \div RefillDivisor) ELSE used
  IN [g EXCEPT !.remaining = Clamp(@ - charged, budget.capacity)]
SelectedLimit(g, budget) == IF g.remaining > 0 THEN budget.fast ELSE budget.slow

-----------------------------------------------------------------------------
(* Floors: demand, ramp, residency and the efficiency ceiling.  A step's   *)
(* input is i = [dt, load, demand, estimate, thermal, observed] with the    *)
(* caps and the parameters that follow from the thermal state and scene.    *)

\* One busy CPU needs the frequency whatever its siblings do.
HighestLoad(loads) == MaxOf(loads \cup {0})
Input(i) ==
  [dt |-> i.dt, load |-> [c \in Cluster |-> HighestLoad(i.loads[c])],
   demand |-> i.demand, estimate |-> i.estimate, thermal |-> i.thermal, observed |-> i.observed,
   par |-> Parameters(i.scene), cap |-> energy.cap[i.thermal]]
TopPerformance(i, c) == Performance(c, MaxOf(SnapDown(Opps[c], i.cap[c])))
PreviousPerformance(g, i, c) ==
  IF g.last[c] = {} THEN TopPerformance(i, c)
  ELSE Lower(TopPerformance(i, c),
             Performance(c, MaxOf(UNION {SnapDown(Opps[c], l.min) : l \in g.last[c]})))
\* A load that rises by more than the threshold is predicted to rise further.
Predicted(g, i) == \E c \in Cluster : i.load[c] - g.load[c] > energy.predict
\* The performance the load asks for: none without load, at least the share of
\* what the cluster ran at, at most what the caps permit; the predictor and
\* the margins decide where in between.
Headroom(i, c) == i.demand[c] <= TopPerformance(i, c)
Demanded(g, i, c) ==
  /\ i.load[c] = 0 => i.demand[c] = 0
  /\ Headroom(i, c)
  /\ i.demand[c] * FullLoad >= i.load[c] * PreviousPerformance(g, i, c)
Demand(i, c) == FirstMeeting(c, i.demand[c])
PreviousFloor(g, c) ==
  IF g.last[c] = {} THEN energy.floor[c] ELSE MinOf({l.min : l \in g.last[c]})

Budgeted(g, i) ==
  [c \in Cluster |->
     LET cap == IF i.par.burst \/ g.cap[c] = {} THEN i.cap[c]
                ELSE Lower(MinOf(g.cap[c]), i.cap[c])
     IN [min |-> Lower(Demand(i, c), cap), max |-> cap]]

RampBypassed(g, i) == i.par.burst \/ Predicted(g, i)
HighCostIncrease(g, asked) ==
  \E c \in Cluster : asked[c].min > Sweet(c) /\ asked[c].min > PreviousFloor(g, c)
\* The first evaluation has no time behind it.
Elapsed(g, i) == IF \A c \in Cluster : g.last[c] = {} THEN 0 ELSE i.dt
Ramp(g, i, asked) ==
  [g EXCEPT !.ramp = IF RampBypassed(g, i) THEN energy.ramp
                     ELSE IF HighCostIncrease(g, asked) THEN Lower(@ + Elapsed(g, i), energy.ramp)
                     ELSE 0]

\* Above the sweet spot, the part of the power span the ramp has reached.
Reached(g, c, f, sweet, top) ==
  f <= Sweet(c) \/ (Power(c, f) - Power(c, sweet)) * energy.ramp
                     <= g.ramp * (Power(c, top) - Power(c, sweet))
RampLimited(g, c, asked) ==
  LET ctl == Control(c)
      sweet == MaxOf(SnapDown(ctl, Sweet(c)) \cup {MinOf(ctl)})
      top == IF SnapDown(ctl, asked.max) = {} THEN MaxOf(ctl) ELSE MaxOf(SnapDown(ctl, asked.max))
      below == {f \in ctl : f <= Lower(asked.min, asked.max) /\ Reached(g, c, f, sweet, top)}
  IN IF Power(c, top) <= Power(c, sweet) THEN Lower(asked.min, asked.max)
     ELSE IF below = {} THEN Lower(sweet, asked.max) ELSE MaxOf(below)

\* Within its residency a floor does not rise, unless the cap was reduced or
\* the ramp is bypassed.
DwellFloor(g, i, c, floor, cap) ==
  IF /\ g.dwell[c] > 0 /\ ~RampBypassed(g, i)
     /\ \E l \in g.last[c] : floor > l.min /\ cap >= l.max
  THEN Lower(PreviousFloor(g, c), cap) ELSE Lower(floor, cap)
Planned(g, i, asked) ==
  [c \in Cluster |->
     LET floor == IF RampBypassed(g, i) \/ asked[c].min <= Sweet(c) THEN asked[c].min
                  ELSE RampLimited(g, c, asked[c])
     IN [min |-> DwellFloor(g, i, c, floor, asked[c].max), max |-> asked[c].max]]

\* Power per performance of f on c is above that of g on d.
Dearer(c, f, d, g) == Power(c, f) * Performance(d, g) > Power(d, g) * Performance(c, f)
\* From the fastest cluster down: a slower cluster stops at its first point
\* that is dearer than what the next faster one runs at.
EfficiencyCap(c, d, floor) ==
  LET at == MaxOf(SnapDown(Opps[d], floor) \cup {MinOf(Opps[d])})
      dear == {f \in Control(c) : Dearer(c, f, d, at)}
  IN Higher(IF dear = {} THEN MaxOf(Control(c)) ELSE MinOf(dear), energy.model[c].plain)
\* The ceiling of a cluster, given the final floors of the faster ones.
Ceiling(asked, c, floor) ==
  MinOf({asked.max} \cup {EfficiencyCap(c, d, floor[d]) : d \in energy.faster[c]})
Efficient(asked) ==
  LET floor[c \in Cluster] == Lower(asked[c].min, Ceiling(asked[c], c, floor))
      cap(c) == Ceiling(asked[c], c, floor)
  IN [c \in Cluster |-> [min |-> Lower(asked[c].min, cap(c)), max |-> cap(c)]]

Selected(g, i) == LET p == Planned(g, i, Budgeted(g, i))
                  IN IF i.par.efficient THEN Efficient(p) ELSE p

-----------------------------------------------------------------------------
(* The evaluation                                                          *)

NewGovernor ==
  [cap |-> [c \in Cluster |-> {}], cursor |-> {}, pathLen |-> 0,
   capacity |-> 0, remaining |-> 0, ramp |-> 0, integrate |-> FALSE,
   last |-> [c \in Cluster |-> {}], dwell |-> [c \in Cluster |-> 0],
   load |-> [c \in Cluster |-> 0]]
GovInit ==
  /\ energy \in {Load(k) : k \in {x \in Configurations : Acceptable(x)}}
  /\ gov = NewGovernor
  /\ plan = {}
  /\ manual = [c \in Targets |-> {}]

\* Bucket and cap path; a burst freezes both.
Budget(g, i) ==
  LET budget == i.par.budget
      filled == FillBucket(ResetPath(g), budget)
      spent == IF g.integrate THEN Integrate(filled, budget, i.estimate, i.dt) ELSE filled
  IN IF i.par.burst THEN ResetPath(g)
     ELSE AdjustBudgetCap(spent, i.estimate, SelectedLimit(spent, budget))
DwellAged(g, dt) == [g EXCEPT !.dwell = [c \in Cluster |-> Higher(0, @[c] - dt)]]
Record(g, i, chosen) ==
  [g EXCEPT !.integrate = TRUE, !.load = i.load,
            !.dwell = [c \in Cluster |->
                         IF g.last[c] = {chosen[c]} THEN @[c] ELSE energy.residency],
            !.last = [c \in Cluster |-> {chosen[c]}]]

\* An override replaces what the governor chose and keeps to the caps.  A
\* target without an automatic policy is planned for only when it has an
\* override or a cap, from what it is observed at.
Wanted(i) ==
  Cluster \cup {c \in ManualOnly : manual[c] # {} \/ c \in energy.capped[i.thermal]}
WithOverrides(i, chosen) ==
  [c \in Wanted(i) |->
     IF c \in Cluster /\ manual[c] = {} THEN chosen[c]
     ELSE Constrain(c, CHOOSE m \in (IF manual[c] = {} THEN {i.observed[c]} ELSE manual[c]) : TRUE,
                    i.cap[c])]
\* The first evaluation after a start or a reload runs under the caps of a lost
\* sensor.
EvaluateGovernor(i) ==
  /\ plan = {} => i.thermal = "degraded"
  /\ \A c \in Cluster : Demanded(gov, i, c)
  /\ LET budgeted == Budget(DwellAged(gov, i.dt), i)
         g == Ramp(budgeted, i, Budgeted(budgeted, i))
         chosen == Selected(g, i)
     IN /\ gov' = Record(g, i, chosen)
        /\ plan' = {[thermal |-> i.thermal, limits |-> WithOverrides(i, chosen)]}
  /\ UNCHANGED <<energy, manual>>

SetOverride(c, m) ==
  /\ plan # {} /\ manual' = [manual EXCEPT ![c] = m] /\ manual[c] # m
  /\ UNCHANGED <<energy, gov, plan>>
\* A reload starts the governor anew and keeps the overrides; the evaluation
\* with which it ends is the next step.  A wake-up only skips one interval.
ReloadGovernor(k) ==
  /\ plan # {} /\ Acceptable(k) /\ energy' = Load(k)
  /\ gov' = NewGovernor /\ plan' = {}
  /\ UNCHANGED manual
SkipInterval ==
  /\ plan # {} /\ gov.integrate /\ gov' = [gov EXCEPT !.integrate = FALSE]
  /\ UNCHANGED <<energy, plan, manual>>

\* There is no boost while the temperature is unknown.
GovInput ==
  {i \in [dt : {1}, loads : Loads, demand : Demands, scene : {"idle"} \cup DOMAIN energy.patch,
          estimate : Estimates, thermal : Thermal, observed : Observations] :
     i.thermal = "degraded" => i.scene # "boost"}
GovNext ==
  \/ \E i \in GovInput : EvaluateGovernor(Input(i))
  \/ \E k \in Configurations : ReloadGovernor(k)
  \/ \E c \in Overridable : \E m \in {{}, {Hardware[c]}} : SetOverride(c, m)
  \/ SkipInterval

GovSpec == GovInit /\ [][GovNext]_govVars

-----------------------------------------------------------------------------
(* Properties                                                              *)

\* The caps after the first k steps of the path.
CapsAfter(k) ==
  [c \in Cluster |->
     LET taken == {energy.path[n].upper : n \in {m \in 1..k : energy.path[m].cluster = c}}
         steps == {n \in DOMAIN energy.path : energy.path[n].cluster = c}
     IN {IF taken # {} THEN MaxOf(taken)
         ELSE IF steps = {} THEN MaxOf(Control(c)) ELSE energy.path[MinOf(steps)].lower}]
\* However the budget turns, bursts interrupt and caps move, the caps of the
\* clusters are those of a prefix of the cost-ordered path, at the cursor or one
\* step behind it: no cluster is held below a point that is cheaper than one
\* another cluster still has (`adjust_reference_budget_cap`).
CapsFollowPath ==
  \A k \in gov.cursor : gov.cap \in {CapsAfter(k), CapsAfter(k - 1)}

\* A plan never exceeds the safety caps it was made for and is never reversed,
\* whatever ramp, residency, prediction, burst, the efficiency ceiling or an
\* override asks for ("Safety caps ... are never delayed").
PlanWithinCaps ==
  \A p \in plan : \A c \in DOMAIN p.limits :
    p.limits[c].min <= p.limits[c].max /\ p.limits[c].max <= energy.cap[p.thermal][c]

GovernorSound == CapsFollowPath /\ PlanWithinCaps
=============================================================================
