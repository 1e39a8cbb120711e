--------------------------- MODULE MCTransitions ---------------------------
(***************************************************************************)
(* What the daemon passes through, for TLC: the barriers of sleep, wake,   *)
(* reload and shutdown inside it, the observer that brings sleep and wake, *)
(* the life of the process, its control plane, and its configuration.  The *)
(* models share no state and are explored one at a time: part says which   *)
(* one runs.                                                               *)
(***************************************************************************)
EXTENDS MutationBarrier, SleepObserver, DaemonLifecycle, ControlPlane, ConfigLifecycle

VARIABLE part

Caps(id, kind, picks, cpus, critical, sensor) ==
  [id |-> id, kind |-> kind, picks |-> picks, cpus |-> cpus, energy |-> TRUE, manual |-> TRUE,
   admin |-> {}, critical |-> critical, sensor |-> sensor]
ZoneOf(stale) ==
  [id |-> "z", picks |-> {"s0"}, warning |-> 1, throttled |-> 2, critical |-> 3,
   hysteresis |-> 1, dwell |-> 1, stale |-> stale]
Hint == [kind |-> "words", values |-> {"default", "power"}, empty |-> FALSE]
DeviceOf(targets, stale) ==
  [sound |-> TRUE, suits |-> "any", targets |-> targets, groups |-> {{0}},
   zones |-> {ZoneOf(stale)},
   scalars |-> {[id |-> "pref", path |-> "hint", domain |-> Hint]}]
CpuTarget == Caps("cpu", "cpu", {"c0"}, {0}, {4}, {2})
Good == DeviceOf({CpuTarget}, 2)
\* One kernel attribute driven by two targets, a target on another attribute, and
\* two CPU policies that share a CPU, in a document that is not valid.
Twice == DeviceOf({CpuTarget, Caps("gpu", "devfreq", {"c0"}, {}, {4}, {2})}, 1)
Moved == DeviceOf({Caps("cpu", "cpu", {"g0"}, {0}, {4}, {2})}, 1)
Overlapping == DeviceOf({CpuTarget, Caps("big", "cpu", {"g0"}, {0, 1}, {4}, {2})}, 2)
DeviceDocs == {Absent, Good, Twice, Moved, Overlapping}
\* The built-in profiles: one for this machine, whose zone goes stale soon, and
\* one for another.
Cooler == [DeviceOf({Caps("cpu", "cpu", {"c0"}, {0}, {2}, {})}, 1) EXCEPT !.suits = "yes"]
Profiles == {Cooler, [Moved EXCEPT !.suits = "no"]}
PolicyOf(interval, setting) ==
  [sound |-> TRUE, default |-> "balance", session |-> {}, interval |-> interval,
   heavyEnter |-> 2, heavyExit |-> 1,
   profiles |-> {[id |-> "balance", budget |-> TRUE,
                  settings |-> {[id |-> "pref", kind |-> "words", value |-> setting]}]}]
\* One that samples often, one that samples slowly, one that asks for the unknown.
Fast == PolicyOf(1, "power")
PolicyDocs == {Fast, PolicyOf(2, "default"), PolicyOf(1, "turbo")}
RuleOf(id, mode, priority) ==
  [id |-> id, mode |-> mode, priority |-> priority, enabled |-> TRUE, matches |-> {"app"},
   global |-> TRUE]
Rule1 == RuleOf("a", "performance", 0)
Rule2 == RuleOf("b", "powersave", 0)
RuleDocs == {[sound |-> TRUE, rules |-> <<Rule1, Rule2>>], Absent}
Ranges == [d \in {"c0", "g0"} |-> <<2, 6>>]
Units == [d \in {"c0", "g0"} |-> 2]
ClientRules == {RuleOf("b", "balance", 1)}

-----------------------------------------------------------------------------

MCInit ==
  /\ part \in {"barrier", "sleep", "life", "control", "config"}
  /\ Init /\ SleepInit /\ LifeInit /\ ControlInit /\ ConfigInit
  /\ part # "life" => journal = "none" /\ configOk
  /\ part # "config" => disk.device = Good /\ disk.policy = Fast
MCNext ==
  \/ part = "barrier" /\ Next /\ UNCHANGED <<part, sleepVars, lifeVars, controlVars, configVars>>
  \/ part = "sleep" /\ SleepNext /\ UNCHANGED <<part, vars, lifeVars, controlVars, configVars>>
  \/ part = "life" /\ LifeNext /\ UNCHANGED <<part, vars, sleepVars, controlVars, configVars>>
  \/ part = "control" /\ ControlNext /\ UNCHANGED <<part, vars, sleepVars, lifeVars, configVars>>
  \/ part = "config" /\ ConfigNext /\ UNCHANGED <<part, vars, sleepVars, lifeVars, controlVars>>
\* The fairness of each, where its part runs.
MCFairness ==
  /\ WF_vars(part = "barrier" /\ (ThreadSteps \/ TakeResults \/ StopAttempt))
  /\ WF_sleepVars(part = "sleep" /\ FallsAsleep) /\ WF_sleepVars(part = "sleep" /\ WakesUp)
  /\ WF_sleepVars(part = "sleep" /\ (Starts \/ Subscribes))
  /\ SF_sleepVars(part = "sleep" /\ (TakesSleep \/ TakesWake))
  /\ WF_sleepVars(part = "sleep" /\ Answered) /\ SF_sleepVars(part = "sleep" /\ PollsSessions)
  /\ WF_sleepVars(part = "sleep" /\ CoreSteps)
  /\ WF_lifeVars(part = "life" /\ Startup) /\ WF_lifeVars(part = "life" /\ Shutdown)
  /\ WF_controlVars(part = "control" /\ Threads)
  /\ WF_controlVars(part = "control" /\ ControlGoesOn)
  /\ WF_configVars(part = "config" /\ WatchDrains)
  /\ WF_configVars(part = "config" /\ WatchReloads)
  /\ WF_configVars(part = "config" /\ ReadDocument)
  /\ WF_configVars(part = "config" /\ (LoadFails \/ BootFails \/ LoadWaits))
  /\ WF_configVars(part = "config" /\ AdoptCandidate)
  /\ WF_configVars(part = "config" /\ BootLoads)
  /\ WF_configVars(part = "config" /\ (PersistWrites \/ PersistFails))
  /\ WF_configVars(part = "config" /\ FinishPersist)
MCSpec ==
  /\ MCInit /\ [][MCNext]_<<part, vars, sleepVars, lifeVars, controlVars, configVars>>
  /\ MCFairness

-----------------------------------------------------------------------------

\* Nothing is left behind by the life of the process (main.rs), once crashes,
\* calls and orders end: no change of the hardware without a daemon that answers
\* for it, no caller without an answer, no shutdown that does not end.
NothingLeft == <>[](AnsweredFor /\ CallsSettled)
=============================================================================
