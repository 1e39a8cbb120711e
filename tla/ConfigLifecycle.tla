--------------------------- MODULE ConfigLifecycle ---------------------------
(***************************************************************************)
(* How a configuration on disk becomes the one the daemon runs             *)
(* (crates/uperf-daemon/src/config.rs, config_watch.rs and the reload and  *)
(* application-rule commands of runtime.rs).                               *)
(*                                                                         *)
(* Three documents are read one after the other while an administrator may *)
(* be saving them; the watcher turns inotify events into a reload after a  *)
(* quiet period; clients ask for reloads and store application rules, each *)
(* of which rewrites one of the documents.  A reload and a rule never run  *)
(* together: the later one is refused.                                     *)
(*                                                                         *)
(* A document is a record of what its validation relates; `sound` says that *)
(* it parses, with names, paths and lists of a permitted form and length.  *)
(***************************************************************************)
EXTENDS Naturals, FiniteSets, Sequences

CONSTANTS
  DeviceDoc, PolicyDoc, RuleDoc,  \* documents an administrator may save
  Catalog,           \* the shared device profiles
  HardwareRange,     \* [device -> <<lowest, highest>>] as discovered
  HardwareUnit,      \* [device -> Hz per kernel unit]
  ClientRule,        \* rules a client may store
  Process,           \* what a workload's process may be called
  RuleLimit,         \* application rules a document may hold
  MaxHot,            \* the hottest threshold a zone may have
  RequiredProfiles,  \* the profiles every policy must define
  DirectoryMayGo,    \* whether the watched directory may be replaced
  MaxSaves, MaxCalls \* bounds on edits and on client calls

Absent == [absent |-> TRUE]
Missing == [sound |-> TRUE, rules |-> <<>>]   \* what a missing apps.json stands for

VARIABLES
  disk,        \* [device, policy, apps]: the documents
  watch,       \* [pc, event, gone]: the watcher and its inotify queue
  load,        \* the load under way: a set of at most one record
  persist,     \* the rule being stored: a set of at most one record
  running,     \* the active configuration, {} before start-up has loaded one
  kept,        \* rules acknowledged and not edited away since
  refused,     \* a change was reported and its reload turned away
  saves, calls

configVars == <<disk, watch, load, persist, running, kept, refused, saves, calls>>

-----------------------------------------------------------------------------
(* Loading: what a set of documents must satisfy, and what it resolves to. *)

\* CPU policies: at least one, each with CPUs of its own.
CpuTargets(d) == {t \in d.targets : t.kind = "cpu"}
ConfiguredCpus(d) == UNION {t.cpus : t \in CpuTargets(d)}
CpuPoliciesValid(d) ==
  /\ CpuTargets(d) # {}
  /\ \A t \in CpuTargets(d) : t.cpus # {}
  /\ \A t, u \in CpuTargets(d) : t # u => t.cpus \cap u.cpus = {}
GroupsValid(d) == \A g \in d.groups : g # {} /\ g \subseteq ConfiguredCpus(d)
\* Every other frequency target follows client requests and caps only.
DevfreqValid(t) ==
  /\ t.manual
  /\ 0 \notin t.admin \cup t.critical \cup t.sensor
  /\ \A c \in t.critical, f \in t.sensor : f <= c
\* One name space for every target the daemon may write.
TargetIdsUnique(d) ==
  /\ \A t, u \in d.targets : t # u => t.id # u.id
  /\ \A s, u \in d.scalars : s # u => s.id # u.id
  /\ \A s \in d.scalars, t \in d.targets : s.id # t.id

\* A domain lists what may be written: numbers, words, or the CPUs a list of
\* CPUs is made of.
ScalarDomainValid(domain, cpus) ==
  /\ domain.values # {}
  /\ domain.kind = "cpus" => domain.values \subseteq cpus
ScalarValueMatches(v, domain) ==
  IF domain.kind = "cpus" THEN (domain.empty \/ v.value # {}) /\ v.value \subseteq domain.values
  ELSE v.value \in domain.values
ScalarsValid(d) == \A s \in d.scalars : ScalarDomainValid(s.domain, ConfiguredCpus(d))

ZoneValid(z) ==
  /\ z.warning < z.throttled /\ z.throttled < z.critical
  /\ {z.warning, z.throttled, z.critical} \subseteq 0..MaxHot
  /\ z.hysteresis >= 0 /\ z.hysteresis < z.critical - z.warning
  /\ z.dwell > 0 /\ z.stale > 0
ZonesValid(d) ==
  /\ \A z \in d.zones : ZoneValid(z)
  /\ \A z, y \in d.zones : z # y => z.id # y.id

DeviceValid(d) ==
  /\ d.sound
  /\ CpuPoliciesValid(d) /\ GroupsValid(d)
  /\ \A t \in d.targets \ CpuTargets(d) : DevfreqValid(t)
  /\ TargetIdsUnique(d) /\ ScalarsValid(d) /\ ZonesValid(d)

\* The profiles the policy names exist, and so do the ones clients may select.
ProfileNames(p) == {f.id : f \in p.profiles}
ProfilesNamed(p) == RequiredProfiles \cup {p.default} \cup p.session \subseteq ProfileNames(p)
SamplingValid(p) == p.interval > 0 /\ p.heavyExit < p.heavyEnter
PolicyValid(p) ==
  /\ p.sound /\ ProfilesNamed(p) /\ SamplingValid(p)
  /\ \A f, g \in p.profiles : f # g => f.id # g.id

\* Mutant: a zone may go stale between two samples.
ThermalReferencesAnyAge(d, p) == d.zones # {}
ThermalReferences(d, p) == d.zones # {} /\ \A z \in d.zones : z.stale >= p.interval
EnergyReferences(d, p) ==
  /\ \A t \in CpuTargets(d) : t.energy
  /\ \A f \in p.profiles : f.budget
\* Every value a profile or one of its scenes sets suits its target.
ScalarSettingValid(v, d) ==
  \E s \in d.scalars :
    s.id = v.id /\ s.domain.kind = v.kind /\ ScalarValueMatches(v, s.domain)
ScalarReferences(d, p) == \A f \in p.profiles : \A v \in f.settings : ScalarSettingValid(v, d)
CrossReferences(d, p) ==
  ThermalReferences(d, p) /\ EnergyReferences(d, p) /\ ScalarReferences(d, p)

\* A cap is optional: absent ones fall back to the lowest frequency.
CapValid(cap, dev) ==
  \A c \in cap : /\ c >= HardwareRange[dev][1] /\ c <= HardwareRange[dev][2]
                 /\ c % HardwareUnit[dev] = 0
CapOf(cap, dev) == IF cap = {} THEN HardwareRange[dev][1] ELSE CHOOSE c \in cap : TRUE

\* Every selector matches exactly one discovered device.
Picked(t) == CHOOSE d \in t.picks : TRUE
TargetResolves(t) ==
  /\ Cardinality(t.picks) = 1
  /\ \A cap \in {t.admin, t.critical, t.sensor} : CapValid(cap, Picked(t))
  /\ CapOf(t.sensor, Picked(t)) <= CapOf(t.critical, Picked(t))

ZonesResolve(zones) ==
  /\ \A z \in zones : Cardinality(z.picks) = 1
  /\ \A z, y \in zones : z # y => z.picks # y.picks

\* The registry refuses a kernel attribute two targets claim.
RegistryBuilds(device) ==
  /\ \A t, u \in device.targets : t # u => t.id # u.id /\ Picked(t) # Picked(u)
  /\ \A s, u \in device.scalars : s # u => s.id # u.id /\ s.path # u.path
  /\ \A s \in device.scalars, t \in device.targets : s.id # t.id /\ s.path # Picked(t)

\* device.json overrides the catalog, whose profiles must all be sound and of
\* which exactly one must match this machine.
ProfileOf(device) ==
  IF device # Absent THEN (IF DeviceValid(device) /\ device.suits # "no" THEN {device} ELSE {})
  ELSE LET matching == {c \in Catalog : c.suits = "yes"}
       IN IF (\A c \in Catalog : DeviceValid(c)) /\ Cardinality(matching) = 1 THEN matching ELSE {}

RulesOf(apps) == IF apps = Absent THEN Missing ELSE apps
RulesSound(apps) ==
  /\ apps.sound
  /\ Len(apps.rules) <= RuleLimit
  /\ \A i, j \in DOMAIN apps.rules : i # j => apps.rules[i].id # apps.rules[j].id
RuleSet(rules) == {rules[i] : i \in DOMAIN rules}
Rules == ClientRule \cup UNION {RuleSet(a.rules) : a \in RuleDoc \ {Absent}}

\* Selectors pick discovered devices, whose ranges are not reversed (discovery).
ASSUME ConfigConstants ==
  /\ IsFiniteSet(Catalog)
  /\ \A d \in DOMAIN HardwareRange :
       HardwareRange[d] \in Nat \X Nat /\ HardwareRange[d][1] <= HardwareRange[d][2]
  /\ \A d \in (DeviceDoc \ {Absent}) \cup Catalog :
       \A t \in d.targets : t.picks \subseteq DOMAIN HardwareRange
  /\ \A a \in RuleDoc \ {Absent} : a.rules \in Seq(Rules)

\* The profile of a process: that of the first enabled rule that matches it,
\* higher priorities first, then the order of the document.
Applies(r, process) == r.enabled /\ process \in r.matches
Before(rules, i, j) ==
  \/ rules[i].priority > rules[j].priority
  \/ rules[i].priority = rules[j].priority /\ i < j
MatchProfile(rules, process) ==
  {rules[i].mode : i \in {j \in DOMAIN rules :
     /\ Applies(rules[j], process)
     /\ \A k \in DOMAIN rules : Applies(rules[k], process) => k = j \/ Before(rules, j, k)}}

\* The configurations the three documents give: none, or one.
Candidates(d) ==
  {[device |-> p, policy |-> d.policy, apps |-> RulesOf(d.apps).rules,
    engine |-> RulesOf(d.apps).rules] :
     p \in {q \in ProfileOf(d.device) :
              /\ d.policy # Absent /\ PolicyValid(d.policy)
              /\ CrossReferences(q, d.policy)
              /\ RulesSound(RulesOf(d.apps))
              /\ \A t \in q.targets : TargetResolves(t)
              /\ ZonesResolve(q.zones)
              /\ RegistryBuilds(q)}}

\* A running daemon adopts new values, never a new mapping of targets.
TargetSignature(c) ==
  <<{<<t.id, Picked(t)>> : t \in c.device.targets}, c.device.scalars>>

-----------------------------------------------------------------------------
(* The administrator, the file system and the watcher.                     *)

Save(file, doc) ==
  /\ saves < MaxSaves /\ doc # disk[file]
  /\ disk' = [disk EXCEPT ![file] = doc]
  /\ watch' = [watch EXCEPT !.event = TRUE]
  /\ kept' = IF file = "apps" THEN {} ELSE kept
  /\ saves' = saves + 1
  /\ UNCHANGED <<load, persist, running, refused, calls>>

ReplaceDirectory ==
  /\ DirectoryMayGo /\ ~watch.gone /\ saves < MaxSaves
  /\ watch' = [watch EXCEPT !.gone = TRUE]
  /\ saves' = saves + 1
  /\ UNCHANGED <<disk, load, persist, running, kept, refused, calls>>

\* Draining the queue: a vanished watch ends the watcher, a relevant event
\* starts the quiet period or restarts it.
WatchDrains ==
  /\ watch.pc \in {"idle", "quiet"} /\ (watch.event \/ watch.gone)
  /\ watch' = [watch EXCEPT !.pc = IF watch.gone THEN "stopped" ELSE "quiet", !.event = FALSE]
  /\ UNCHANGED <<disk, load, persist, running, kept, refused, saves, calls>>

Fresh(by) == [by |-> by, at |-> "device", device |-> Absent, policy |-> Absent, apps |-> Absent]
Busy == load # {} \/ persist # {}

\* The quiet period is over and the watcher asks for a reload.
WatchReloads ==
  /\ watch.pc = "quiet"
  /\ IF Busy
     THEN /\ watch' = [watch EXCEPT !.pc = "idle"] /\ refused' = TRUE
          /\ UNCHANGED load
     ELSE /\ load' = {Fresh("watcher")} /\ refused' = FALSE
          /\ watch' = [watch EXCEPT !.pc = "calling"]
  /\ UNCHANGED <<disk, persist, running, kept, saves, calls>>

ClientReloads ==
  /\ running # {} /\ calls < MaxCalls
  /\ calls' = calls + 1
  /\ IF Busy THEN UNCHANGED <<load, refused>>
             ELSE load' = {Fresh("client")} /\ refused' = FALSE
  /\ UNCHANGED <<disk, watch, persist, running, kept, saves>>

-----------------------------------------------------------------------------
(* The load on its own thread, one document at a time, and its end.        *)

NextFile == [device |-> "policy", policy |-> "apps", apps |-> "read"]
ReadDocument ==
  \E l \in load :
    /\ l.at \in DOMAIN NextFile
    /\ load' = {[l EXCEPT ![l.at] = disk[l.at], !.at = NextFile[l.at]]}
    /\ UNCHANGED <<disk, watch, persist, running, kept, refused, saves, calls>>

\* Mutant: events that came during the reload are drained with it.
WatcherServedAndDrained(l) ==
  IF l.by = "watcher" THEN [watch EXCEPT !.pc = "idle", !.event = FALSE] ELSE watch
\* The watcher sleeps while its reload is served.
WatcherServed(l) == IF l.by = "watcher" THEN [watch EXCEPT !.pc = "idle"] ELSE watch

\* Mutant: the mapping of the candidate is not compared.
AdoptableUnmapped(l) ==
  Candidates([device |-> l.device, policy |-> l.policy, apps |-> l.apps])
Adoptable(l) ==
  {c \in Candidates([device |-> l.device, policy |-> l.policy, apps |-> l.apps]) :
     \A r \in running : TargetSignature(c) = TargetSignature(r)}

\* Start-up ends without a configuration; a reload leaves the old one active.
LoadFails ==
  \E l \in load :
    /\ l.at = "read" /\ l.by # "boot" /\ Adoptable(l) = {}
    /\ load' = {} /\ watch' = WatcherServed(l)
    /\ UNCHANGED <<disk, persist, running, kept, refused, saves, calls>>

BootFails ==
  \E l \in load :
    /\ l.at = "read" /\ l.by = "boot" /\ Adoptable(l) = {}
    /\ load' = {} /\ watch' = [watch EXCEPT !.pc = "stopped"]
    /\ UNCHANGED <<disk, persist, running, kept, refused, saves, calls>>

\* The candidate waits for the mutation barrier before it is swapped in.
LoadWaits ==
  \E l \in load :
    /\ l.at = "read" /\ l.by # "boot" /\ Adoptable(l) # {}
    /\ load' = {[l EXCEPT !.at = "barrier"]}
    /\ UNCHANGED <<disk, watch, persist, running, kept, refused, saves, calls>>

AdoptCandidate ==
  \E l \in load :
    /\ l.at = "barrier"
    /\ running' = Adoptable(l)
    /\ load' = {} /\ watch' = WatcherServed(l)
    /\ UNCHANGED <<disk, persist, kept, refused, saves, calls>>

\* The watcher's descriptor exists before the first load, its task after.
BootLoads ==
  \E l \in load :
    /\ l.at = "read" /\ l.by = "boot" /\ Adoptable(l) # {}
    /\ running' = Adoptable(l)
    /\ load' = {} /\ watch' = [watch EXCEPT !.pc = "idle"]
    /\ UNCHANGED <<disk, persist, kept, refused, saves, calls>>

-----------------------------------------------------------------------------
(* Application rules stored by a client.                                   *)

BeginPersist(rules, rule, kind) ==
  persist' = {[rules |-> rules, rule |-> rule, kind |-> kind, at |-> "write"]}

\* What a client may send: a rule for everyone that restricts the process.
ClientRuleValid(rule) == rule.global /\ rule.matches # Process
\* Storing replaces the rule with the same ID where it stands, or appends one;
\* removing needs one to remove.
Stored(rules, rule) ==
  IF \E i \in DOMAIN rules : rules[i].id = rule.id
  THEN [i \in DOMAIN rules |-> IF rules[i].id = rule.id THEN rule ELSE rules[i]]
  ELSE Append(rules, rule)
\* The others are retained; no two rules of a running set have one ID.
Removed(rules, i) == SubSeq(rules, 1, i - 1) \o SubSeq(rules, i + 1, Len(rules))
SetAppRule(rule) ==
  /\ running # {} /\ calls < MaxCalls /\ ~Busy /\ ClientRuleValid(rule)
  /\ \E r \in running : BeginPersist(Stored(r.apps, rule), rule, "set")
  /\ calls' = calls + 1
  /\ UNCHANGED <<disk, watch, load, running, kept, refused, saves>>

RemoveAppRule(rule) ==
  /\ running # {} /\ calls < MaxCalls /\ ~Busy
  /\ \E r \in running : \E i \in DOMAIN r.apps :
       r.apps[i].id = rule.id /\ BeginPersist(Removed(r.apps, i), rule, "remove")
  /\ calls' = calls + 1
  /\ UNCHANGED <<disk, watch, load, running, kept, refused, saves>>

\* The document is checked and renamed into place, which the watcher sees.
PersistWrites ==
  \E p \in persist :
    /\ p.at = "write" /\ RulesSound([sound |-> TRUE, rules |-> p.rules])
    /\ disk' = [disk EXCEPT !.apps = [sound |-> TRUE, rules |-> p.rules]]
    /\ watch' = [watch EXCEPT !.event = TRUE]
    /\ persist' = {[p EXCEPT !.at = "stored"]}
    /\ kept' = kept \cap RuleSet(p.rules)
    /\ UNCHANGED <<load, running, refused, saves, calls>>

\* An unsound document or a failed write changes nothing.
PersistFails ==
  \E p \in persist :
    /\ p.at = "write"
    /\ persist' = {}
    /\ UNCHANGED <<disk, watch, load, running, kept, refused, saves, calls>>

\* The stored rules are listed at once; the compiled engine that matches them
\* is built by the next load.
FinishPersist ==
  \E p \in persist :
    /\ p.at = "stored"
    /\ running' = {[r EXCEPT !.apps = p.rules] : r \in running}
    /\ kept' = IF p.kind = "set" /\ disk.apps = [sound |-> TRUE, rules |-> p.rules]
               THEN kept \cup {p.rule} ELSE kept
    /\ persist' = {}
    /\ UNCHANGED <<disk, watch, load, refused, saves, calls>>

-----------------------------------------------------------------------------
ConfigInit ==
  /\ disk \in [device : DeviceDoc, policy : PolicyDoc, apps : {Absent}]
  /\ watch = [pc |-> "boot", event |-> FALSE, gone |-> FALSE]
  /\ load = {Fresh("boot")}
  /\ persist = {} /\ running = {} /\ kept = {} /\ refused = FALSE /\ saves = 0 /\ calls = 0

ConfigNext ==
  \/ \E doc \in DeviceDoc : Save("device", doc)
  \/ \E doc \in PolicyDoc : Save("policy", doc)
  \/ \E doc \in RuleDoc : Save("apps", doc)
  \/ ReplaceDirectory \/ WatchDrains \/ WatchReloads \/ ClientReloads
  \/ ReadDocument \/ LoadFails \/ BootFails \/ LoadWaits \/ AdoptCandidate \/ BootLoads
  \/ \E rule \in ClientRule : SetAppRule(rule) \/ RemoveAppRule(rule)
  \/ PersistWrites \/ PersistFails \/ FinishPersist

\* The watcher's timer fires, the blocking thread reads on, the actor consumes
\* every outcome and its barriers end (see MutationBarrier).
ConfigFairness ==
  /\ WF_configVars(WatchDrains) /\ WF_configVars(WatchReloads)
  /\ WF_configVars(ReadDocument)
  /\ WF_configVars(LoadFails \/ BootFails \/ LoadWaits)
  /\ WF_configVars(AdoptCandidate) /\ WF_configVars(BootLoads)
  /\ WF_configVars(PersistWrites \/ PersistFails) /\ WF_configVars(FinishPersist)

ConfigSpec == ConfigInit /\ [][ConfigNext]_configVars /\ ConfigFairness

-----------------------------------------------------------------------------
(* Properties.                                                             *)

\* Whatever mixture of old and new documents a load read, the running
\* configuration never drives one kernel attribute from two targets or one
\* sensor from two zones, never samples a zone more slowly than its readings
\* go stale, never sets a scalar outside the domain of the device document, and
\* its emergency caps lie inside the hardware range with the sensor-failure cap
\* the lower one (validate_cross_references, resolve_targets,
\* resolve_thermal_zones, TargetRegistry::new).
RunningIsSafe ==
  \A r \in running :
    /\ \A t, u \in r.device.targets : t # u => Picked(t) # Picked(u)
    /\ \A s \in r.device.scalars, t \in r.device.targets : s.path # Picked(t)
    /\ \A z, y \in r.device.zones : z # y => z.picks # y.picks
    /\ \A z \in r.device.zones : z.stale >= r.policy.interval
    /\ \A f \in r.policy.profiles : \A v \in f.settings : ScalarSettingValid(v, r.device)
    /\ \A t \in r.device.targets :
         LET lo == HardwareRange[Picked(t)][1]
             sensor == CapOf(t.sensor, Picked(t))
             critical == CapOf(t.critical, Picked(t))
         IN lo <= sensor /\ sensor <= critical /\ critical <= HardwareRange[Picked(t)][2]

\* An acknowledged rule is in the running rule set and on disk until someone
\* edits the document or removes it: no reload that read older documents
\* brings the set without it back (start_set_app_rule, start_reload).
StoredRulesKept ==
  persist = {} =>
    \A r \in running :
      kept \subseteq RuleSet(r.apps) /\ kept \subseteq RuleSet(RulesOf(disk.apps).rules)

\* What runs is what was validated, with the rules that were stored.
ConfigSound == RunningIsSafe /\ StoredRulesKept

\* A reload never changes the mapping of targets the actuators were built with
\* and never takes the running configuration away (receive_reload).
MappingNeverChanges ==
  [][running # {} =>
       /\ running' # {}
       /\ \A r \in running, c \in running' :
            TargetSignature(r) = TargetSignature(c)]_configVars

Adopted ==
  \A c \in Candidates(disk) :
    (\A r \in running : TargetSignature(c) = TargetSignature(r)) =>
      /\ running = {c}
      /\ \A r \in running, process \in Process :
           MatchProfile(r.engine, process) = MatchProfile(RulesOf(disk.apps).rules, process)

\* What an administrator last saved is eventually what runs, compiled rules
\* included, whatever torn or mixed documents earlier loads read: unless it
\* cannot be loaded, the watch was lost, or its reload was turned away
\* (ConfigWatcher::run_with_reload, wait_for_quiet_period).
EditsAdopted == <>[](running # {} /\ watch.pc # "stopped" /\ ~refused => Adopted)
=============================================================================
