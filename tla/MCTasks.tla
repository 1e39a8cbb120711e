------------------------------ MODULE MCTasks ------------------------------
(***************************************************************************)
(* What is done to tasks and units, for TLC: the actuator that changes     *)
(* their fields, and the policy that decides what they get.  The two share *)
(* no state here and are explored one at a time.                           *)
(***************************************************************************)
EXTENDS InstanceActuator, SchedulingPolicy, TLC

VARIABLE part

-----------------------------------------------------------------------------
(* Instances.  The fields are interchangeable: they are written in any      *)
(* order.                                                                  *)

Slots == {"p", "q"}
Values == {"a", "b", "c"}
FieldSymmetry == Permutations(Field)

Scene(kind, slots, fields, values, lives, foreign) ==
  [family |-> kind, inPlay |-> slots \X fields \X values, foreign |-> foreign,
   lives |-> [s \in Slots |-> IF s \in slots THEN lives ELSE 0]]

\* A slot that is taken again, with two fields or with another writer; two
\* fields that others change; two slots in one batch.
AllScenes ==
  UNION {UNION {{Scene(k, {"p"}, Field, {"b"}, 2, 0), Scene(k, {"p"}, {f}, Values, 2, 1),
                 Scene(k, {"p"}, Field, {"b"}, 1, 2), Scene(k, Slots, {f}, {"b"}, 1, 1)}
                : f \in Field} : k \in {"task", "unit"}}

-----------------------------------------------------------------------------
(* Policies: plans that ask for FIFO or not, on the housekeeping CPU, on the *)
(* other one or nowhere, with too high a priority, with clamps that cross;  *)
(* CPU groups that exist or not, real time enabled or not.                  *)

NoPlan == [affinity |-> {}, class |-> {}, prio |-> {}, umin |-> {}, umax |-> {}]
SomePlans ==
  [affinity : {{}, {{1}}, {{0}}}, class : {{}, {"fifo"}}, prio : {{}, {1}, {9}},
   umin : {{}}, umax : {{}}]
  \cup [affinity : {{}, {{}}}, class : {{}}, prio : {{}}, umin : {{}, {1}, {3}}, umax : {{}, {2}}]
  \cup {[NoPlan EXCEPT !.class = {"other"}]}
SomeGroups == [g \in {"little", "big"} |-> IF g = "big" THEN {1} ELSE {0}]
\* Rules for this program's leader and "ui" threads, for another program, and for
\* a profile that does not exist.
RuleFor(executable, comm, profile, threads) ==
  [matcher |-> [executable |-> executable, comm |-> comm, desktop |-> {}], profile |-> profile,
   class |-> {"c"}, threads |-> threads]
ByName(name) == [leader |-> FALSE, comm |-> {name}, profile |-> "p"]
Leading == [leader |-> TRUE, comm |-> {}, profile |-> "p"]
AppRule == RuleFor({"app"}, {}, {"p"}, <<ByName("ui")>>)
OtherRule == RuleFor({"other"}, {}, {"p"}, <<>>)
UiRule == RuleFor({}, {{"ui"}}, {}, <<Leading, ByName("ui")>>)
Little == [cpus |-> {}, group |-> {"little"}, weight |-> 3]
SomeConfigs ==
  [group : {{}, {"big"}, {"little"}, {"gone"}},
   rt : [enabled : {TRUE}, housekeeping : {{0}, {}}, max : {5}], class : {Little},
   enabled : {TRUE}, rules : {<<OtherRule, AppRule>>}, focus : {{"p"}}, focusOn : {TRUE}]
  \cup
  [group : {{}}, rt : [enabled : {FALSE}, housekeeping : {{}}, max : {5}],
   class : {Little, [Little EXCEPT !.group = {}]}, enabled : BOOLEAN,
   rules : {<<UiRule, AppRule>>, <<OtherRule>>, <<RuleFor({"app"}, {}, {"q"}, <<>>)>>},
   focus : {{"p"}, {"q"}}, focusOn : {TRUE}]
Untouched == [affinity |-> Cpus, class |-> "other", prio |-> {}, umin |-> 0, umax |-> 4]

PlainDocument ==
  Document(NoPlan, NoPlan, CHOOSE c \in SomeConfigs : c.rules = <<OtherRule>> /\ c.focus = {"p"}
                                                    /\ ClassValid(c))

-----------------------------------------------------------------------------

MCInit ==
  \/ part = "instances" /\ Init /\ StartsWith(PlainDocument) /\ workload.comm["leader"] = "io"
  \/ part = "policy" /\ Init /\ scene = Scene("task", {"p"}, Field, {"b"}, 1, 2) /\ SchedInit
MCNext ==
  \/ part = "instances" /\ Next /\ UNCHANGED <<part, schedVars>>
  \/ part = "policy" /\ SchedNext /\ UNCHANGED <<part, vars>>
MCSpec == MCInit /\ [][MCNext]_<<part, vars, schedVars>>
=============================================================================
