---------------------------- MODULE DesktopProofs ----------------------------
(***************************************************************************)
(* Proofs about what the desktop tells the daemon and what it is shown, for *)
(* any processes, peers, devices, durations and number of events:           *)
(*                                                                          *)
(*   CausedBoosts         SceneSpec  => []BoostHasCause                     *)
(*   WorkloadIsRightful   LeaseSpec  => RightfulWorkload                    *)
(*   ViewsNeverGoBack     StatusSpec => ViewNeverGoesBack                   *)
(*   NoContactStuck       InputSpec  => []NoStuckContact                    *)
(*                                                                          *)
(* Scenes: the handlers work on one triple of hints, owners and             *)
(* interaction.  Sound says what every such triple keeps; it needs one fact *)
(* more than the property: before the first interaction nothing was         *)
(* rendered, so that the hint that makes it the first cannot inherit a      *)
(* report.                                                                  *)
(*                                                                          *)
(* Leases: a report that waits, or is verified under the newest revision,   *)
(* is what was told last (Newest); a report verified under an older         *)
(* revision grants nothing.                                                 *)
(*                                                                          *)
(* Views: along the way from the window over its queue and the reads of a   *)
(* new session to the daemon, values never fall (Flow), and between a       *)
(* status that waits for the timer and the snapshot of a later session the  *)
(* loss of the connection was posted (Separate).                            *)
(*                                                                          *)
(* Touch: the events to come are whole frames that start ever newer         *)
(* contacts (Orderly).  With several slots, wherever they lead the machine  *)
(* (Ends), it then has a contact only where a finger is, but perhaps in the *)
(* lowest slot (Final); with one slot, where it may be rebuilt from the     *)
(* kernel's state, the last tracking event says what the slot holds, and    *)
(* without one the machine knows (Alone).                                   *)
(***************************************************************************)
EXTENDS FocusLeases, StatusSignals, InteractionScenes, TouchInput, TLAPS

-----------------------------------------------------------------------------
(* Interaction scenes.                                                     *)

Stamp == [generation : Nat, left : Nat]
Interaction == [generation : Nat, ended : BOOLEAN, render : SUBSET Nat,
                deadline : SUBSET Stamp, missed : SUBSET Stamp]
Triple == [h : [Scene -> Nat], o : [Scene -> Nat], x : Interaction]

\* The owners of hints and the reports of a triple are the current interaction's.
Belongs(o, x) ==
  /\ \A s \in Scene : o[s] \in {0, x.generation}
  /\ \A g \in x.render : g = x.generation /\ g # 0
  /\ \A d \in x.deadline \cup x.missed : d.generation = x.generation /\ d.generation # 0

\* i is sound while the contacts c are on the screen.
Sound(i, c) ==
  /\ i \in Triple
  /\ c = {} => i.h["touch"] = 0
  /\ Belongs(i.o, i.x)

SceneInv == Sound(Now, contacts)

-----------------------------------------------------------------------------
(* What the handlers are made of.                                           *)

\* The scenes the daemon names are scenes.
LEMMA SceneNames ==
  /\ \A s \in OwnScene : s \in Scene
  /\ "touch" \in Scene /\ "trigger" \in OwnScene /\ "gesture" \in OwnScene /\ "junk" \in OwnScene
  /\ "wake" \in Scene /\ "switch" \in Scene
BY DEF Scene, OwnScene

\* Every scene has a duration.
LEMMA DurationType == \A s \in Scene : Duration(s) \in Nat
BY SceneConstants DEF Duration, Forever

\* Clearing hints keeps a triple sound, and takes the touch with it if asked to.
LEMMA ClearSound ==
  ASSUME NEW i, NEW c, NEW scenes, i \in Triple, Belongs(i.o, i.x),
         c = {} => i.h["touch"] = 0 \/ "touch" \in scenes
  PROVE  Sound(ClearHints(i, scenes), c) /\ ClearHints(i, scenes).x = i.x
<1> DEFINE j == ClearHints(i, scenes)
<1>1. /\ j = [h |-> j.h, o |-> j.o, x |-> i.x] /\ j.x = i.x
      /\ j.h = [s \in Scene |-> IF s \in scenes THEN 0 ELSE i.h[s]]
      /\ j.o = [s \in Scene |-> IF s \in scenes THEN 0 ELSE i.o[s]]
  <2> DEFINE f == [s \in Scene |-> IF s \in scenes THEN 0 ELSE i.h[s]]
             g == [s \in Scene |-> IF s \in scenes THEN 0 ELSE i.o[s]]
  <2>1. j = [i EXCEPT !.h = f, !.o = g]
    BY DEF ClearHints
  <2> HIDE DEF j, f, g
  <2>2. i = [h |-> i.h, o |-> i.o, x |-> i.x]
    BY DEF Triple
  <2>3. j = [h |-> f, o |-> g, x |-> i.x]
    BY <2>1, <2>2
  <2> QED BY <2>3 DEF f, g
<1>2. i.h \in [Scene -> Nat] /\ i.o \in [Scene -> Nat] /\ i.x \in Interaction
  BY DEF Triple
<1> HIDE DEF j
<1>3. j.h \in [Scene -> Nat] /\ j.o \in [Scene -> Nat]
  BY <1>1, <1>2
<1>4. j \in Triple
  BY <1>1, <1>2, <1>3 DEF Triple
<1>5. Belongs(j.o, j.x)
  BY <1>1 DEF Belongs
<1>6. c = {} => j.h["touch"] = 0
  BY <1>1, SceneNames
<1> QED BY <1>1, <1>4, <1>5, <1>6 DEF Sound, j

\* Nothing is left of the interaction but the hints that are not its own.
LEMMA EndSound ==
  ASSUME NEW i, NEW c, NEW x, Sound(i, c), x \in Interaction,
         x.render = {} /\ x.deadline = {} /\ x.missed = {}
  PROVE  Sound([ClearHints(i, Owned(i)) EXCEPT !.x = x], c)
<1> DEFINE j == ClearHints(i, Owned(i))
           k == [j EXCEPT !.x = x]
<1>1. Sound(j, c)
  <2>1. i \in Triple /\ Belongs(i.o, i.x) /\ (c = {} => i.h["touch"] = 0)
    BY DEF Sound
  <2>2. c = {} => i.h["touch"] = 0 \/ "touch" \in Owned(i)
    BY <2>1
  <2> HIDE DEF j
  <2>3. Sound(ClearHints(i, Owned(i)), c)
    BY <2>1, <2>2, ClearSound
  <2> QED BY <2>3 DEF j
<1>2. \A s \in Scene : j.o[s] = 0
  <2>1. \A s \in Scene : s \notin Owned(i) => i.o[s] = 0
    BY DEF Owned
  <2>2. j.o = [s \in Scene |-> IF s \in Owned(i) THEN 0 ELSE i.o[s]]
    BY DEF ClearHints, Sound, Triple
  <2> QED BY <2>1, <2>2
<1> HIDE DEF j
<1>3. k \in Triple /\ k.h = j.h /\ k.o = j.o /\ k.x = x
  BY <1>1 DEF Sound, Triple
<1> HIDE DEF k
<1>4. Belongs(k.o, k.x)
  BY <1>2, <1>3 DEF Belongs
<1>5. c = {} => k.h["touch"] = 0
  BY <1>1, <1>3 DEF Sound
<1> QED BY <1>3, <1>4, <1>5 DEF Sound, j, k

\* The begin and the end of an interaction keep a triple sound.
LEMMA BeginSound ==
  ASSUME NEW i, NEW c, Sound(i, c)
  PROVE  Sound(BeginInteraction(i), c) /\ Sound(EndInteraction(i), c)
<1> DEFINE x == [NoRender(i.x) EXCEPT !.generation = @ + 1, !.ended = FALSE]
           y == [NoRender(i.x) EXCEPT !.ended = TRUE]
<1>1. i.x \in Interaction
  BY DEF Sound, Triple
<1>2. NoRender(i.x) \in Interaction /\ NoRender(i.x).render = {} /\ NoRender(i.x).deadline = {}
      /\ NoRender(i.x).missed = {}
  BY <1>1 DEF NoRender, Interaction
<1>3. x \in Interaction /\ x.render = {} /\ x.deadline = {} /\ x.missed = {}
  <2> DEFINE n == NoRender(i.x)
  <2>1. n.generation + 1 \in Nat /\ n \in Interaction
    BY <1>2 DEF Interaction
  <2>2. x = [n EXCEPT !.generation = n.generation + 1, !.ended = FALSE]
    OBVIOUS
  <2> HIDE DEF n, x
  <2>3. x \in Interaction /\ x.render = n.render /\ x.deadline = n.deadline /\ x.missed = n.missed
    BY <2>1, <2>2 DEF Interaction
  <2> QED BY <1>2, <2>3 DEF n
<1>4. y \in Interaction /\ y.render = {} /\ y.deadline = {} /\ y.missed = {}
  BY <1>2 DEF Interaction
<1> HIDE DEF x, y
<1>5. BeginInteraction(i) = [ClearHints(i, Owned(i)) EXCEPT !.x = x]
  BY DEF BeginInteraction, x
<1>6. EndInteraction(i) = [ClearHints(i, Owned(i)) EXCEPT !.x = y]
  BY DEF EndInteraction, y
<1> QED BY <1>3, <1>4, <1>5, <1>6, EndSound

\* A hint of the current interaction; the touch needs a contact.
LEMMA ActivateOwnSound ==
  ASSUME NEW i, NEW c, Sound(i, c), NEW scene \in OwnScene, scene = "touch" => c # {}
  PROVE  Sound(ActivateOwn(i, scene), c)
<1> DEFINE g == IF i.x.generation = 0 THEN 1 ELSE i.x.generation
           j == ActivateOwn(i, scene)
<1>1. /\ i.h \in [Scene -> Nat] /\ i.o \in [Scene -> Nat] /\ i.x \in Interaction /\ i \in Triple
      /\ Belongs(i.o, i.x) /\ scene \in Scene /\ Duration(scene) \in Nat
  BY SceneNames, DurationType DEF Sound, Triple
<1>2. g \in Nat /\ g # 0 /\ (i.x.generation # 0 => g = i.x.generation)
  <2>1. i.x.generation \in Nat
    BY <1>1 DEF Interaction
  <2> QED BY <2>1
<1>3. /\ j.h = [i.h EXCEPT ![scene] = Duration(scene)] /\ j.o = [i.o EXCEPT ![scene] = g]
      /\ j.x = [i.x EXCEPT !.generation = g] /\ j = [h |-> j.h, o |-> j.o, x |-> j.x]
  <2>1. j = [i EXCEPT !.h[scene] = Duration(scene), !.o[scene] = g, !.x.generation = g]
    BY DEF ActivateOwn
  <2>2. i = [h |-> i.h, o |-> i.o, x |-> i.x]
    BY <1>1 DEF Triple
  <2> HIDE DEF g, j
  <2>3. j = [h |-> [i.h EXCEPT ![scene] = Duration(scene)], o |-> [i.o EXCEPT ![scene] = g],
             x |-> [i.x EXCEPT !.generation = g]]
    BY <2>1, <2>2
  <2> QED BY <2>3
<1> HIDE DEF g, j
<1>4. /\ j.x \in Interaction /\ j.x.generation = g /\ j.x.render = i.x.render
      /\ j.x.deadline = i.x.deadline /\ j.x.missed = i.x.missed
  BY <1>1, <1>2, <1>3 DEF Interaction
<1>5. j.h \in [Scene -> Nat] /\ j.o \in [Scene -> Nat]
  BY <1>1, <1>2, <1>3
<1>6. j \in Triple
  BY <1>3, <1>4, <1>5 DEF Triple
<1>7. Belongs(j.o, j.x)
  <2>1. \A s \in Scene : j.o[s] \in {0, g}
    BY <1>1, <1>2, <1>3 DEF Belongs
  <2>2. \A r \in i.x.render : r = g /\ r # 0
    BY <1>1, <1>2 DEF Belongs
  <2>3. \A d \in i.x.deadline \cup i.x.missed : d.generation = g /\ d.generation # 0
    BY <1>1, <1>2 DEF Belongs
  <2> QED BY <1>4, <2>1, <2>2, <2>3 DEF Belongs
<1>8. c = {} => j.h["touch"] = 0
  BY <1>1, <1>3, SceneNames DEF Sound
<1> QED BY <1>6, <1>7, <1>8 DEF Sound, j

\* A wake or a switch of windows keeps a triple sound.
LEMMA ActivateExternalSound ==
  ASSUME NEW i, NEW c, Sound(i, c), NEW scene \in {"wake", "switch"}
  PROVE  Sound(ActivateExternal(i, scene), c)
<1> DEFINE j == ActivateExternal(i, scene)
<1>1. /\ i.h \in [Scene -> Nat] /\ i.o \in [Scene -> Nat] /\ i.x \in Interaction /\ i \in Triple
      /\ scene \in Scene /\ Duration(scene) \in Nat /\ scene # "touch"
  BY SceneNames, DurationType DEF Sound, Triple
<1>2. j.h = [i.h EXCEPT ![scene] = Duration(scene)] /\ j.o = i.o /\ j.x = i.x
      /\ j = [h |-> j.h, o |-> j.o, x |-> j.x]
  BY <1>1 DEF ActivateExternal, Triple
<1> HIDE DEF j
<1>3. j.h \in [Scene -> Nat] /\ (c = {} => j.h["touch"] = 0)
  BY <1>1, <1>2, SceneNames DEF Sound
<1>4. j \in Triple
  BY <1>1, <1>2, <1>3 DEF Triple
<1> QED BY <1>2, <1>3, <1>4 DEF Sound, j

\* Another interaction record for the same hints.
LEMMA RecordSound ==
  ASSUME NEW i, NEW c, Sound(i, c), NEW x \in Interaction, Belongs(i.o, x)
  PROVE  Sound([i EXCEPT !.x = x], c)
<1>1. /\ i \in Triple /\ [i EXCEPT !.x = x].h = i.h /\ [i EXCEPT !.x = x].o = i.o
      /\ [i EXCEPT !.x = x].x = x
  BY DEF Sound, Triple
<1>2. [i EXCEPT !.x = x] \in Triple
  BY <1>1 DEF Triple
<1> QED BY <1>1, <1>2 DEF Sound

\* An owner whose hint ran out is forgotten.
LEMMA DropSound ==
  ASSUME NEW i, NEW c, Sound(i, c)
  PROVE  Sound(DropExpired(i), c)
<1> DEFINE f == [s \in Scene |-> IF i.h[s] = 0 THEN 0 ELSE i.o[s]]
           j == DropExpired(i)
<1>1. i \in Triple /\ i.o \in [Scene -> Nat] /\ Belongs(i.o, i.x) /\ (c = {} => i.h["touch"] = 0)
  BY DEF Sound, Triple
<1>2. j = [i EXCEPT !.o = f]
  BY DEF DropExpired
<1>3. f \in [Scene -> Nat] /\ Belongs(f, i.x)
  BY <1>1 DEF Belongs
<1> HIDE DEF f, j
<1>4. j \in Triple /\ j.h = i.h /\ j.o = f /\ j.x = i.x
  BY <1>1, <1>2, <1>3 DEF Triple
<1> QED BY <1>1, <1>3, <1>4 DEF Sound, j

\* The end of a rendered interaction leaves none of its hints.
LEMMA FinishSound ==
  ASSUME NEW i, NEW c, Sound(i, c)
  PROVE  Sound(FinishRenderIdle(i), c)
<1>1. /\ i \in Triple /\ i.x \in Interaction /\ Belongs(i.o, i.x) /\ (c = {} => i.h["touch"] = 0)
  BY DEF Sound, Triple
<1> DEFINE n == NoRender(i.x)
           y == [n EXCEPT !.ended = TRUE]
           j == ClearHints(i, OwnedBy(i, i.x.generation))
<1>2. n \in Interaction /\ n.render = {} /\ n.deadline = {} /\ n.missed = {}
      /\ n.generation = i.x.generation
  BY <1>1 DEF NoRender, Interaction
<1> HIDE DEF n
<1>3. y \in Interaction /\ y.render = {} /\ y.deadline = {} /\ y.missed = {}
      /\ y.generation = i.x.generation
  BY <1>2 DEF Interaction
<1>4. Sound(j, c) /\ j.x = i.x
  <2> DEFINE scenes == OwnedBy(i, i.x.generation)
  <2>1. c = {} => i.h["touch"] = 0 \/ "touch" \in scenes
    BY <1>1
  <2> HIDE DEF scenes
  <2> QED BY <1>1, <2>1, ClearSound DEF scenes
<1> HIDE DEF y, j
<1>5. Belongs(j.o, y)
  <2>1. \A s \in Scene : j.o[s] \in {0, i.x.generation}
    BY <1>4 DEF Sound, Belongs
  <2> QED BY <1>3, <2>1 DEF Belongs
<1>6. Belongs(i.o, n)
  BY <1>1, <1>2 DEF Belongs
<1>7. Sound([j EXCEPT !.x = y], c) /\ Sound([i EXCEPT !.x = n], c)
  BY <1>2, <1>3, <1>4, <1>5, <1>6, RecordSound
<1>8. FinishRenderIdle(i) \in {[j EXCEPT !.x = y], [i EXCEPT !.x = n], i}
  BY DEF FinishRenderIdle, j, y, n
<1> QED BY <1>7, <1>8

-----------------------------------------------------------------------------
(* The steps.                                                               *)

\* Most handlers leave the triple they computed.
LEMMA BecomesSound ==
  ASSUME NEW i, Becomes(i), Sound(i, contacts')
  PROVE  SceneInv'
<1>1. i = [h |-> i.h, o |-> i.o, x |-> i.x]
  BY DEF Sound, Triple
<1>2. hints' = i.h /\ hintOwner' = i.o /\ interaction' = i.x
  BY DEF Becomes
<1>3. Now' = i
  BY <1>1, <1>2 DEF Now
<1> QED BY <1>3 DEF SceneInv

\* A triple is sound for more contacts, and for any when it has no touch.
LEMMA ContactsSound ==
  ASSUME NEW i, NEW c, NEW d, Sound(i, c), d = {} => c = {}
  PROVE  Sound(i, d)
BY DEF Sound

\* Input events.
LEMMA InputStep ==
  ASSUME SceneInv, \/ \E c \in Contact : TouchDown(c) \/ TouchUp(c)
               \/ \E d \in {{v} : v \in Device} \cup {Device} : Resync(d)
               \/ Gesture \/ KeyOrPointer \/ SelectWorkload
  PROVE  SceneInv'
<1>1. Sound(Now, contacts) /\ Now \in Triple /\ Now.x = interaction /\ Belongs(Now.o, Now.x)
  BY DEF SceneInv, Sound, Now
<1>2. Sound(BeginInteraction(Now), contacts)
  BY <1>1, BeginSound
\* When the last contact goes the touch goes with it.
<1>3. ASSUME NEW c PROVE Sound(ClearHints(Now, {"touch"}), c)
  <2>1. c = {} => Now.h["touch"] = 0 \/ "touch" \in {"touch"}
    OBVIOUS
  <2> QED BY <1>1, <2>1, ClearSound
<1>4. ASSUME NEW c \in Contact, TouchDown(c) PROVE SceneInv'
  <2>1. contacts' # {}
    BY <1>4 DEF TouchDown
  <2>2. Sound(Now, contacts') /\ Sound(BeginInteraction(Now), contacts')
    BY <1>1, <1>2, <2>1, ContactsSound
  <2>3. Sound(ActivateOwn(BeginInteraction(Now), "touch"), contacts')
    BY <2>1, <2>2, ActivateOwnSound DEF OwnScene
  <2>4. \E i \in {Now, ActivateOwn(BeginInteraction(Now), "touch")} : Becomes(i)
    BY <1>4 DEF TouchDown
  <2> QED BY <2>2, <2>3, <2>4, BecomesSound
<1>5. ASSUME NEW c \in Contact, TouchUp(c) PROVE SceneInv'
  <2> DEFINE up == ClearHints(Now, {"touch"})
  <2>1. CASE ~LastReleased(contacts')
    <3>1. Sound(Now, contacts')
      BY <1>1, <2>1, ContactsSound DEF LastReleased
    <3>2. Becomes(Now)
      BY <1>5, <2>1 DEF TouchUp
    <3> QED BY <3>1, <3>2, BecomesSound
  <2>2. CASE LastReleased(contacts')
    <3>1. Sound(up, contacts')
      BY <1>3
    <3>2. \E i \in {up, ActivateOwn(up, "trigger")} : Becomes(i)
      BY <1>5, <2>2 DEF TouchUp
    <3> HIDE DEF up
    <3>3. Sound(ActivateOwn(up, "trigger"), contacts')
      BY <3>1, ActivateOwnSound DEF OwnScene
    <3> QED BY <3>1, <3>2, <3>3, BecomesSound
  <2> QED BY <2>1, <2>2
<1>6. ASSUME NEW d, Resync(d) PROVE SceneInv'
  <2>1. CASE ~LastReleased(contacts')
    <3>1. Sound(Now, contacts')
      BY <1>1, <2>1, ContactsSound DEF LastReleased
    <3>2. Becomes(Now)
      BY <1>6, <2>1 DEF Resync
    <3> QED BY <3>1, <3>2, BecomesSound
  <2>2. CASE LastReleased(contacts')
    <3>1. Becomes(ClearHints(Now, {"touch"}))
      BY <1>6, <2>2 DEF Resync
    <3> QED BY <1>3, <3>1, BecomesSound
  <2> QED BY <2>1, <2>2
<1>7. CASE Gesture
  <2> DEFINE i == IF interaction.generation = 0 THEN BeginInteraction(Now) ELSE Now
  <2>1. contacts' = contacts /\ Sound(i, contacts)
    BY <1>1, <1>2, <1>7 DEF Gesture
  <2>2. \E j \in {i, ActivateOwn(i, "gesture")} : Becomes(j)
    BY <1>7 DEF Gesture
  <2> HIDE DEF i
  <2>3. Sound(ActivateOwn(i, "gesture"), contacts)
    BY <2>1, ActivateOwnSound DEF OwnScene
  <2> QED BY <2>1, <2>2, <2>3, BecomesSound
<1>8. CASE KeyOrPointer
  <2>1. contacts' = contacts /\ Becomes(ActivateOwn(BeginInteraction(Now), "trigger"))
    BY <1>8 DEF KeyOrPointer
  <2>2. Sound(ActivateOwn(BeginInteraction(Now), "trigger"), contacts)
    BY <1>2, ActivateOwnSound DEF OwnScene
  <2> QED BY <2>1, <2>2, BecomesSound
<1>9. CASE SelectWorkload
  <2>1. contacts' = contacts /\ Becomes(ActivateExternal(Now, "switch"))
    BY <1>9 DEF SelectWorkload
  <2>2. Sound(ActivateExternal(Now, "switch"), contacts)
    BY <1>1, ActivateExternalSound
  <2> QED BY <2>1, <2>2, BecomesSound
<1> QED BY <1>4, <1>5, <1>6, <1>7, <1>8, <1>9

\* The session, the display and the machine.
LEMMA DisplayStep ==
  ASSUME SceneInv, \/ \E state \in {"active", "idle", "locked"} : ReduceSessionState(state)
               \/ EnterSuspended \/ ResumeFromSleep \/ DisplayBlanked \/ DisplayUnblanked
  PROVE  SceneInv'
<1>1. Sound(Now, contacts)
  BY DEF SceneInv
<1>2. Sound(EndInteraction(Now), contacts) /\ Sound(ActivateExternal(Now, "wake"), contacts)
  BY <1>1, BeginSound, ActivateExternalSound
<1>3. CASE \/ \E state \in {"active", "idle", "locked"} : ReduceSessionState(state)
           \/ ResumeFromSleep \/ DisplayBlanked \/ DisplayUnblanked
  <2>1. contacts' = contacts
    BY <1>3 DEF ReduceSessionState, ResumeFromSleep, DisplayBlanked, DisplayUnblanked
  <2>2. \E i \in {Now, EndInteraction(Now), ActivateExternal(Now, "wake")} : Becomes(i)
    BY <1>3 DEF ReduceSessionState, ResumeFromSleep, DisplayBlanked, DisplayUnblanked
  <2> QED BY <1>1, <1>2, <2>1, <2>2, BecomesSound
<1>4. CASE EnterSuspended
  <2> DEFINE e == EndInteraction(Now)
  <2>1. contacts' = {} /\ Becomes(ClearHints(e, Scene))
    BY <1>4 DEF EnterSuspended
  <2>2. e \in Triple /\ Belongs(e.o, e.x) /\ "touch" \in Scene
    BY <1>2, SceneNames DEF Sound
  <2> HIDE DEF e
  <2>3. Sound(ClearHints(e, Scene), contacts')
    BY <2>2, ClearSound
  <2> QED BY <2>1, <2>3, BecomesSound
<1> QED BY <1>3, <1>4

\* The frame reporter.
LEMMA ReportStep ==
  ASSUME SceneInv, RenderStarted \/ RenderIdle \/ DeadlineMissed \/ ResetFrameReporter
  PROVE  SceneInv'
<1> DEFINE x == interaction
           v == x.generation
<1>1. /\ Sound(Now, contacts) /\ Now.x = x /\ Now.o = hintOwner /\ Belongs(hintOwner, x)
      /\ x \in Interaction /\ v \in Nat /\ Now \in Triple
  BY DEF SceneInv, Sound, Now, Triple, Interaction
<1>2. contacts' = contacts
  BY DEF RenderStarted, RenderIdle, DeadlineMissed, ResetFrameReporter
\* A report changes the interaction's record only.
<1>3. ASSUME NEW y \in Interaction, Belongs(hintOwner, y), Becomes([Now EXCEPT !.x = y])
      PROVE  SceneInv'
  BY <1>1, <1>2, <1>3, RecordSound, BecomesSound
<1>4. CASE RenderStarted
  <2> DEFINE y == [x EXCEPT !.render = {v}, !.deadline = {}]
  <2>1. Becomes([Now EXCEPT !.x = y]) /\ v # 0
    BY <1>4 DEF RenderStarted, InteractionActive
  <2>2. y \in Interaction /\ y.generation = v /\ y.render = {v} /\ y.deadline = {} /\ y.missed = x.missed
    BY <1>1 DEF Interaction
  <2> HIDE DEF y, x, v
  <2>3. Belongs(hintOwner, y)
    BY <1>1, <2>1, <2>2 DEF Belongs, v
  <2> QED BY <1>3, <2>1, <2>2, <2>3
<1>5. CASE RenderIdle
  <2>1. PICK g \in x.render :
          Becomes([Now EXCEPT !.x =
            IF g = interaction.generation /\ InteractionActive
            THEN [interaction EXCEPT !.deadline = {[generation |-> g, left |-> IdleSlack]}]
            ELSE [interaction EXCEPT !.render = {}, !.deadline = {}]])
    BY <1>5 DEF RenderIdle
  <2> DEFINE y == [x EXCEPT !.deadline = {[generation |-> g, left |-> IdleSlack]}]
             z == [x EXCEPT !.render = {}, !.deadline = {}]
             stamp == [generation |-> g, left |-> IdleSlack]
  <2>2. g = v /\ g # 0 /\ g \in Nat
    BY <1>1 DEF Belongs
  <2>3. stamp \in Stamp /\ stamp.generation = g
    BY <2>2, SceneConstants DEF Stamp
  <2>4. z \in Interaction /\ z.generation = v /\ z.render = {} /\ z.deadline = {} /\ z.missed = x.missed
    BY <1>1 DEF Interaction
  <2>5. /\ y \in Interaction /\ y.generation = v /\ y.render = x.render /\ y.deadline = {stamp}
        /\ y.missed = x.missed
    <3>1. {stamp} \in SUBSET Stamp
      BY <2>3
    <3> HIDE DEF stamp
    <3>2. y = [x EXCEPT !.deadline = {stamp}]
      BY DEF stamp
    <3> HIDE DEF y
    <3> QED BY <1>1, <3>1, <3>2 DEF Interaction
  <2>6. \E w \in {y, z} : Becomes([Now EXCEPT !.x = w])
    BY <2>1
  <2> HIDE DEF y, z, x, v, stamp
  <2>7. Belongs(hintOwner, y) /\ Belongs(hintOwner, z)
    BY <1>1, <2>2, <2>3, <2>4, <2>5 DEF Belongs, v
  <2> QED BY <1>3, <2>4, <2>5, <2>6, <2>7
<1>6. CASE DeadlineMissed
  <2> DEFINE stamp == [generation |-> v, left |-> MissLimit]
             i == [Now EXCEPT !.x.missed = {stamp}]
             y == [x EXCEPT !.missed = {stamp}]
  <2>1. Becomes(ActivateOwn(i, "junk")) /\ v # 0
    BY <1>6 DEF DeadlineMissed, InteractionActive
  <2>2. stamp \in Stamp /\ stamp.generation = v
    BY <1>1, SceneConstants DEF Stamp
  <2>3. i = [Now EXCEPT !.x = y]
    BY <1>1
  <2> HIDE DEF stamp, i
  <2>4. /\ y \in Interaction /\ y.generation = v /\ y.render = x.render /\ y.deadline = x.deadline
        /\ y.missed = {stamp}
    BY <1>1, <2>2 DEF Interaction
  <2> HIDE DEF x, v, y
  <2>5. Belongs(hintOwner, y)
    BY <1>1, <2>1, <2>2, <2>4 DEF Belongs, v
  <2>6. Sound(i, contacts)
    BY <1>1, <2>3, <2>4, <2>5, RecordSound
  <2>7. Sound(ActivateOwn(i, "junk"), contacts)
    BY <2>6, ActivateOwnSound DEF OwnScene
  <2> QED BY <1>2, <2>1, <2>7, BecomesSound
<1>7. CASE ResetFrameReporter
  <2> DEFINE y == NoRender(x)
  <2>1. interaction' = y /\ hints' = hints /\ hintOwner' = hintOwner
    BY <1>7 DEF ResetFrameReporter
  <2>2. y \in Interaction /\ y.generation = v /\ y.render = {} /\ y.deadline = {} /\ y.missed = {}
    BY <1>1 DEF NoRender, Interaction
  <2> HIDE DEF x, v, y
  <2>3. Belongs(hintOwner, y)
    BY <1>1, <2>2 DEF Belongs, v
  <2>4. Becomes([Now EXCEPT !.x = y])
    BY <2>1 DEF Becomes, Now
  <2> QED BY <1>3, <2>2, <2>3, <2>4
<1> QED BY <1>4, <1>5, <1>6, <1>7

\* The timer, and time itself.
LEMMA SceneTimeStep ==
  ASSUME SceneInv, SceneTick \/ SceneTime
  PROVE  SceneInv'
<1> DEFINE x == interaction
<1>1. /\ Sound(Now, contacts) /\ hints \in [Scene -> Nat] /\ hintOwner \in [Scene -> Nat]
      /\ x \in Interaction /\ Belongs(hintOwner, x) /\ (contacts = {} => hints["touch"] = 0)
  BY DEF SceneInv, Sound, Now, Triple
<1>2. CASE SceneTick
  <2>1. contacts' = contacts /\ Becomes(FinishRenderIdle(DropExpired(Now)))
    BY <1>2 DEF SceneTick
  <2>2. Sound(FinishRenderIdle(DropExpired(Now)), contacts)
    BY <1>1, DropSound, FinishSound
  <2> QED BY <2>1, <2>2, BecomesSound
<1>3. CASE SceneTime
  <2> DEFINE Aged(S) == {[d EXCEPT !.left = Sooner(@)] : d \in S}
  <2>1. /\ hints' = [s \in Scene |-> IF hints[s] = Forever THEN Forever ELSE Sooner(hints[s])]
        /\ x' = [x EXCEPT !.deadline = Aged(x.deadline), !.missed = Aged(x.missed)]
        /\ contacts' = contacts /\ hintOwner' = hintOwner
    BY <1>3 DEF SceneTime
  <2>2. \A n \in Nat : Sooner(n) \in Nat
    BY DEF Sooner
  <2>3. hints' \in [Scene -> Nat] /\ (contacts = {} => hints'["touch"] = 0)
    <3>1. Forever \in Nat /\ Sooner(0) = 0
      BY SceneConstants DEF Forever, Sooner
    <3> QED BY <1>1, <2>1, <2>2, <3>1, SceneNames
  <2>4. ASSUME NEW S \in SUBSET Stamp
        PROVE  Aged(S) \in SUBSET Stamp /\ \A e \in Aged(S) : \E d \in S : e.generation = d.generation
    <3>1. ASSUME NEW d \in S
          PROVE  [d EXCEPT !.left = Sooner(@)] \in Stamp /\ [d EXCEPT !.left = Sooner(@)].generation = d.generation
      BY <2>2 DEF Stamp
    <3> QED BY <3>1
  <2>5. x.deadline \in SUBSET Stamp /\ x.missed \in SUBSET Stamp
    BY <1>1 DEF Interaction
  <2>6. /\ Aged(x.deadline) \in SUBSET Stamp /\ \A e \in Aged(x.deadline) : \E d \in x.deadline : e.generation = d.generation
        /\ Aged(x.missed) \in SUBSET Stamp /\ \A e \in Aged(x.missed) : \E d \in x.missed : e.generation = d.generation
    BY <2>4, <2>5
  <2> HIDE DEF Aged
  <2>7. /\ x' \in Interaction /\ x'.generation = x.generation /\ x'.render = x.render
        /\ x'.deadline = Aged(x.deadline) /\ x'.missed = Aged(x.missed)
    BY <1>1, <2>1, <2>6 DEF Interaction
  <2>8. Belongs(hintOwner', x')
    <3>1. \A s \in Scene : hintOwner'[s] \in {0, x'.generation}
      BY <1>1, <2>1, <2>7 DEF Belongs
    <3>2. \A g \in x'.render : g = x'.generation /\ g # 0
      BY <1>1, <2>7 DEF Belongs
    <3>3. \A d \in x'.deadline \cup x'.missed : d.generation = x'.generation /\ d.generation # 0
      BY <1>1, <2>6, <2>7 DEF Belongs
    <3> QED BY <3>1, <3>2, <3>3 DEF Belongs
  <2>9. Now' \in Triple /\ Now'.h = hints' /\ Now'.o = hintOwner' /\ Now'.x = x'
    BY <1>1, <2>1, <2>3, <2>7 DEF Now, Triple
  <2> QED BY <2>1, <2>3, <2>8, <2>9 DEF SceneInv, Sound
<1> QED BY <1>2, <1>3

-----------------------------------------------------------------------------
(* The theorem.                                                             *)

\* The scenes start in their invariant.
LEMMA InitSceneInv == SceneInit => SceneInv
<1> SUFFICES ASSUME SceneInit PROVE SceneInv
  OBVIOUS
<1>1. /\ hints = [s \in Scene |-> 0] /\ hintOwner = [s \in Scene |-> 0]
      /\ interaction = [generation |-> 0, ended |-> FALSE, render |-> {}, deadline |-> {}, missed |-> {}]
  BY DEF SceneInit
<1>2. interaction \in Interaction /\ hints \in [Scene -> Nat] /\ hintOwner \in [Scene -> Nat]
  BY <1>1 DEF Interaction
<1>3. Belongs(hintOwner, interaction)
  BY <1>1 DEF Belongs
<1>4. Now \in Triple /\ Now.h = hints /\ Now.o = hintOwner /\ Now.x = interaction
  BY <1>2 DEF Now, Triple
<1>5. hints["touch"] = 0
  BY <1>1, SceneNames
<1> QED BY <1>3, <1>4, <1>5 DEF SceneInv, Sound

\* Every step of the scenes keeps their invariant.
LEMMA StepSceneInv == SceneInv /\ [SceneNext]_sceneVars => SceneInv'
<1> SUFFICES ASSUME SceneInv, [SceneNext]_sceneVars PROVE SceneInv'
  OBVIOUS
<1>1. CASE UNCHANGED sceneVars
  BY <1>1 DEF sceneVars, SceneInv, Now
<1>2. CASE SceneNext
  BY <1>2, InputStep, DisplayStep, ReportStep, SceneTimeStep DEF SceneNext
<1> QED BY <1>1, <1>2

\* The persistent touch boost never outlives the last contact, and every hint,
\* render report and idle deadline belongs to the interaction that is current
\* (begin_interaction, finish_render_idle_if_due), in every order
\* of input, lost devices, reports, blanking, locking, suspends and time.
THEOREM CausedBoosts == SceneSpec => []BoostHasCause
<1>1. SceneSpec => []SceneInv
  BY InitSceneInv, StepSceneInv, PTL DEF SceneSpec
<1>2. SceneInv => BoostHasCause
  <2> SUFFICES ASSUME SceneInv PROVE BoostHasCause
    OBVIOUS
  <2>1. /\ contacts = {} => hints["touch"] = 0
        /\ Belongs(hintOwner, interaction)
    BY DEF SceneInv, Sound, Now
  <2> QED BY <2>1 DEF Belongs, BoostHasCause, TouchNeedsContact, NothingOfAnOldInteraction
<1> QED BY <1>1, <1>2, PTL

-----------------------------------------------------------------------------
(* Focus leases.                                                           *)

\* The fields of the records the handlers work on.
LeaseFields == {"explicit", "lease", "reporter", "pending", "revision", "slot", "enabled"}
ReadFields == {"kind", "subject", "by", "rev", "got", "done"}
ReadKinds == {"set", "clear", "refresh", "focus", "focus-refresh"}

\* A report that waits has the newest revision and is the last one told; so is
\* one under verification, unless its revision is an old one; and a verification
\* finds nothing but incarnations of the process it is about.
Newest(s, w) ==
  /\ DOMAIN s = LeaseFields /\ s.revision \in Nat
  /\ \A l \in s.lease : DOMAIN l = {"proc", "peer", "left"}
  /\ \A p \in s.pending :
       /\ DOMAIN p = {"pid", "peer", "wait", "rev"}
       /\ p.rev = s.revision /\ w = {[peer |-> p.peer, pid |-> p.pid]}
  /\ \A r \in s.slot :
       /\ DOMAIN r = ReadFields /\ r.kind \in ReadKinds
       /\ r.kind = "focus" =>
            /\ r.rev \in Nat /\ r.rev <= s.revision
            /\ r.rev = s.revision => w = {[peer |-> r.by, pid |-> r.subject]}
            /\ \A p \in r.got : p.pid = r.subject
LeaseInv == Newest(leases, told)

\* Every lease of t that s does not have is what w says.
Granted(s, t, w) ==
  \A l \in t.lease : (\A old \in s.lease : old.proc # l.proc \/ old.peer # l.peer)
                       => w = {[peer |-> l.peer, pid |-> l.proc.pid]}

LeaseItem(l) == DOMAIN l = {"proc", "peer", "left"}

\* Reports that are withdrawn, and any change of leases, leave the newest one.
LEMMA FewerReports ==
  ASSUME NEW s, NEW w, NEW t, Newest(s, w), DOMAIN t = LeaseFields, t.revision = s.revision,
         t.pending \subseteq s.pending, t.slot \subseteq s.slot, \A l \in t.lease : LeaseItem(l)
  PROVE  Newest(t, w)
BY DEF Newest, LeaseItem

\* With a new revision every older report is out of date.
LEMMA NewRevision ==
  ASSUME NEW s, NEW w, NEW t, NEW v, Newest(s, w), DOMAIN t = LeaseFields,
         t.revision = s.revision + 1, t.slot = s.slot, \A l \in t.lease : LeaseItem(l),
         \A p \in t.pending : /\ DOMAIN p = {"pid", "peer", "wait", "rev"}
                              /\ p.rev = t.revision /\ v = {[peer |-> p.peer, pid |-> p.pid]}
  PROVE  Newest(t, v)
<1>1. s.revision \in Nat /\ t.revision \in Nat
  BY DEF Newest
<1>2. ASSUME NEW r \in t.slot
      PROVE  /\ DOMAIN r = ReadFields /\ r.kind \in ReadKinds
             /\ r.kind = "focus" =>
                  /\ r.rev \in Nat /\ r.rev <= t.revision
                  /\ r.rev = t.revision => v = {[peer |-> r.by, pid |-> r.subject]}
                  /\ \A p \in r.got : p.pid = r.subject
  <2>1. /\ DOMAIN r = ReadFields /\ r.kind \in ReadKinds
        /\ r.kind = "focus" => /\ r.rev \in Nat /\ r.rev <= s.revision
                               /\ \A p \in r.got : p.pid = r.subject
    BY DEF Newest
  <2> QED BY <1>1, <2>1
<1> QED BY <1>1, <1>2 DEF Newest, LeaseItem

\* A report that takes the slot is still the newest.
LEMMA DriveNewest ==
  ASSUME NEW s, NEW w, Newest(s, w)
  PROVE  /\ Newest(DrivePending(s), w)
         /\ DrivePending(s).lease = s.lease /\ DrivePending(s).explicit = s.explicit
<1> DEFINE t == DrivePending(s)
<1>1. DOMAIN s = LeaseFields /\ s.revision \in Nat
  BY DEF Newest
<1>2. /\ DOMAIN t = LeaseFields
      /\ t.pending = s.pending \ DueReports(s)
      /\ t.slot = s.slot \cup {Read("focus", p.pid, p.peer, p.rev) : p \in DueReports(s)}
      /\ t.lease = s.lease /\ t.explicit = s.explicit /\ t.revision = s.revision
  BY <1>1 DEF DrivePending, LeaseFields
<1> HIDE DEF t
<1>3. ASSUME NEW r \in t.slot, r \notin s.slot
      PROVE  /\ DOMAIN r = ReadFields /\ r.kind \in ReadKinds
             /\ r.kind = "focus" =>
                  /\ r.rev \in Nat /\ r.rev <= t.revision
                  /\ r.rev = t.revision => w = {[peer |-> r.by, pid |-> r.subject]}
                  /\ \A p \in r.got : p.pid = r.subject
  <2>1. PICK p \in DueReports(s) : r = Read("focus", p.pid, p.peer, p.rev)
    BY <1>2, <1>3
  <2>2. p \in s.pending
    BY <2>1 DEF DueReports
  <2>3. p.rev = s.revision /\ w = {[peer |-> p.peer, pid |-> p.pid]}
    BY <2>2 DEF Newest
  <2> QED BY <1>1, <1>2, <2>1, <2>3 DEF Read, ReadFields, ReadKinds
<1> QED BY <1>1, <1>2, <1>3 DEF Newest, t

\* What an answer changes: a focus report of the newest revision is granted, and
\* nothing but a set, a clear or a refresh touches the user's selection.
Rightful(s, t, r, w) ==
  /\ Newest(t, w) /\ Granted(s, t, w)
  /\ t.explicit # s.explicit => /\ r.kind \in {"set", "clear", "refresh"}
                                /\ r.kind # "set" => s.explicit = {r.subject}

\* The state without the read that was answered.
LEMMA Freed ==
  ASSUME NEW s, NEW w, Newest(s, w)
  PROVE  LET free == [s EXCEPT !.slot = {}]
         IN /\ DOMAIN free = LeaseFields /\ free.slot = {} /\ free.lease = s.lease
            /\ free.explicit = s.explicit /\ free.pending = s.pending
            /\ free.revision = s.revision /\ free.enabled = s.enabled
            /\ Newest(free, w)
<1> DEFINE free == [s EXCEPT !.slot = {}]
<1>1. DOMAIN s = LeaseFields /\ \A l \in s.lease : LeaseItem(l)
  BY DEF Newest, LeaseItem
<1>2. /\ DOMAIN free = LeaseFields /\ free.slot = {} /\ free.lease = s.lease
      /\ free.explicit = s.explicit /\ free.pending = s.pending
      /\ free.revision = s.revision /\ free.enabled = s.enabled
  BY <1>1 DEF LeaseFields
<1> HIDE DEF free
<1>3. Newest(free, w)
  BY <1>1, <1>2, FewerReports
<1> QED BY <1>2, <1>3 DEF free

\* The user's own reads change the selection and nothing else.
LEMMA SelectionRead ==
  ASSUME NEW s, NEW w, NEW f, NEW r, NEW t, Newest(f, w), f.lease = s.lease,
         f.explicit = s.explicit,
         \/ r.kind = "set" /\ t = CompleteSet(f, r)
         \/ r.kind = "clear" /\ t = CompleteClear(f, r)
         \/ r.kind = "refresh" /\ t = CompleteRefresh(f, r)
  PROVE  Rightful(s, t, r, w)
<1>1. DOMAIN f = LeaseFields /\ \A l \in f.lease : LeaseItem(l)
  BY DEF Newest, LeaseItem
<1>2. PICK x : /\ t = f \/ t = [f EXCEPT !.explicit = x]
               /\ t # f => r.kind = "set" \/ s.explicit = {r.subject}
  BY DEF CompleteSet, CompleteClear, CompleteRefresh
<1>3. /\ DOMAIN t = LeaseFields /\ t.slot = f.slot /\ t.lease = f.lease
      /\ t.pending = f.pending /\ t.revision = f.revision
  BY <1>1, <1>2 DEF LeaseFields
<1>4. Newest(t, w)
  BY <1>1, <1>3, FewerReports
<1>5. t.explicit # s.explicit => t # f
  OBVIOUS
<1> QED BY <1>2, <1>3, <1>4, <1>5 DEF Rightful, Granted

\* A focus read gives the lease to what was told last, or takes it.
LEMMA FocusRead ==
  ASSUME NEW s, NEW w, NEW r \in s.slot, NEW t, Newest(s, w),
         LET f == [s EXCEPT !.slot = {}]
         IN \/ r.kind = "focus" /\ t = CompleteFocus(f, r)
            \/ r.kind = "focus-refresh" /\ t = CompleteFocusRefresh(f, r)
  PROVE  Rightful(s, t, r, w)
<1> DEFINE f == [s EXCEPT !.slot = {}]
<1>0. \/ r.kind = "focus" /\ t = CompleteFocus(f, r)
      \/ r.kind = "focus-refresh" /\ t = CompleteFocusRefresh(f, r)
  OBVIOUS
<1>1. /\ DOMAIN f = LeaseFields /\ f.slot = {} /\ f.lease = s.lease
      /\ f.explicit = s.explicit /\ f.pending = s.pending
      /\ f.revision = s.revision /\ f.enabled = s.enabled /\ Newest(f, w)
  BY Freed
<1>2. \A l \in s.lease : LeaseItem(l)
  BY DEF Newest, LeaseItem
<1> HIDE DEF f
<1>4. ASSUME NEW u, DOMAIN u = LeaseFields, u.slot = {}, u.lease \subseteq s.lease,
             u.explicit = s.explicit, u.pending = s.pending, u.revision = s.revision
      PROVE  Rightful(s, u, r, w)
  <2>1. Newest(u, w)
    BY <1>2, <1>4, FewerReports
  <2> QED BY <1>4, <2>1 DEF Rightful, Granted
<1>5. CASE t = f
  BY <1>1, <1>4, <1>5
<1>6. CASE t = Release(f)
  <2>1. /\ DOMAIN t = LeaseFields /\ t.slot = {} /\ t.lease = {}
        /\ t.explicit = s.explicit /\ t.pending = s.pending /\ t.revision = s.revision
    BY <1>1, <1>6 DEF Release, LeaseFields
  <2> QED BY <1>4, <2>1
<1>7. CASE t = Release(Revoke(f, r.by))
  <2> DEFINE v == [f EXCEPT !.reporter = {q \in f.reporter : q.peer # r.by}]
  <2>1. /\ DOMAIN v = LeaseFields /\ v.slot = {}
        /\ v.explicit = s.explicit /\ v.pending = s.pending /\ v.revision = s.revision
    BY <1>1 DEF LeaseFields
  <2>2. t = [v EXCEPT !.lease = {}]
    BY <1>7 DEF Release, Revoke
  <2> HIDE DEF v
  <2>3. /\ DOMAIN t = LeaseFields /\ t.slot = {} /\ t.lease = {}
        /\ t.explicit = s.explicit /\ t.pending = s.pending /\ t.revision = s.revision
    BY <2>1, <2>2 DEF LeaseFields
  <2> QED BY <1>4, <2>3
<1>8. CASE r.kind = "focus" /\ r.rev = f.revision /\ \E p \in r.got : Focusable(r.by, p)
  <2> DEFINE p == CHOOSE q \in r.got : TRUE
             l == [proc |-> p, peer |-> r.by, left |-> LeaseTtl]
             y == {[peer |-> r.by, uid |-> Owner[p.pid], left |-> LeaseTtl]}
  <2>1. p \in r.got
    BY <1>8
  <2>2. p.pid = r.subject /\ w = {[peer |-> r.by, pid |-> r.subject]}
    BY <1>1, <1>8, <2>1 DEF Newest
  <2>3. l.proc = p /\ l.peer = r.by /\ LeaseItem(l)
    BY DEF LeaseItem
  <2>4. t = f \/ t = [[f EXCEPT !.lease = {l}] EXCEPT !.reporter = y]
    BY <1>0, <1>8 DEF CompleteFocus, InstallReporter
  <2> HIDE DEF p, l, y
  <2>5. ASSUME t = [[f EXCEPT !.lease = {l}] EXCEPT !.reporter = y]
        PROVE  Rightful(s, t, r, w)
    <3>1. /\ DOMAIN t = LeaseFields /\ t.slot = {} /\ t.lease = {l}
          /\ t.explicit = s.explicit /\ t.pending = s.pending /\ t.revision = s.revision
      <4> DEFINE v == [f EXCEPT !.lease = {l}]
      <4>1. /\ DOMAIN v = LeaseFields /\ v.slot = {} /\ v.lease = {l}
            /\ v.explicit = s.explicit /\ v.pending = s.pending /\ v.revision = s.revision
        BY <1>1 DEF LeaseFields
      <4>2. t = [v EXCEPT !.reporter = y]
        BY <2>5
      <4> HIDE DEF v
      <4> QED BY <4>1, <4>2 DEF LeaseFields
    <3>2. Newest(t, w)
      BY <2>3, <3>1, FewerReports
    <3>3. Granted(s, t, w)
      BY <2>2, <2>3, <3>1 DEF Granted
    <3> QED BY <3>1, <3>2, <3>3 DEF Rightful
  <2> QED BY <1>5, <2>4, <2>5
<1>9. \/ t = f \/ t = Release(f) \/ t = Release(Revoke(f, r.by))
      \/ r.kind = "focus" /\ r.rev = f.revision /\ \E p \in r.got : Focusable(r.by, p)
  BY <1>0 DEF CompleteFocus, CompleteFocusRefresh, RejectFocus
<1> QED BY <1>5, <1>6, <1>7, <1>8, <1>9

\* What the answer to a read makes of the state is rightful.
LEMMA FinishRightful ==
  ASSUME NEW s, NEW w, NEW r \in s.slot, Newest(s, w)
  PROVE  Rightful(s, FinishIdentity(s, r), r, w)
<1> DEFINE f == [s EXCEPT !.slot = {}]
           next == CASE r.kind = "set" -> CompleteSet(f, r)
                     [] r.kind = "clear" -> CompleteClear(f, r)
                     [] r.kind = "refresh" -> CompleteRefresh(f, r)
                     [] r.kind = "focus" -> CompleteFocus(f, r)
                     [] r.kind = "focus-refresh" -> CompleteFocusRefresh(f, r)
<1>1. r.kind \in ReadKinds
  BY DEF Newest
<1>2. Rightful(s, next, r, w)
  <2>1. CASE r.kind \in {"focus", "focus-refresh"}
    <3>1. \/ r.kind = "focus" /\ next = CompleteFocus(f, r)
          \/ r.kind = "focus-refresh" /\ next = CompleteFocusRefresh(f, r)
      BY <2>1
    <3> HIDE DEF next
    <3> QED BY <3>1, FocusRead
  <2>2. CASE r.kind \in {"set", "clear", "refresh"}
    <3>1. f.lease = s.lease /\ f.explicit = s.explicit /\ Newest(f, w)
      BY Freed
    <3> HIDE DEF f
    <3>2. /\ r.kind = "set" => next = CompleteSet(f, r)
          /\ r.kind = "clear" => next = CompleteClear(f, r)
          /\ r.kind = "refresh" => next = CompleteRefresh(f, r)
      OBVIOUS
    <3> HIDE DEF next
    <3> QED BY <2>2, <3>1, <3>2, SelectionRead
  <2> QED BY <1>1, <2>1, <2>2 DEF ReadKinds
<1>3. FinishIdentity(s, r) = DrivePending(next)
  BY DEF FinishIdentity
<1> HIDE DEF next
<1>4. Newest(next, w)
  BY <1>2 DEF Rightful
<1>5. /\ Newest(DrivePending(next), w)
      /\ DrivePending(next).lease = next.lease /\ DrivePending(next).explicit = next.explicit
  BY <1>4, DriveNewest
<1> QED BY <1>2, <1>3, <1>5 DEF Rightful, Granted

-----------------------------------------------------------------------------
(* The steps.                                                               *)

\* What a step that does not answer a read must do.
Unselected(s, t, v) == Newest(t, v) /\ Granted(s, t, v) /\ t.explicit = s.explicit

\* A state that grants nothing new, with the reports it had or fewer.
LEMMA NothingGranted ==
  ASSUME NEW s, NEW w, NEW t, Newest(s, w), DOMAIN t = LeaseFields, t.explicit = s.explicit,
         t.revision = s.revision, t.pending \subseteq s.pending, t.slot \subseteq s.slot,
         \A l \in t.lease : LeaseItem(l) /\ \E old \in s.lease : old.proc = l.proc /\ old.peer = l.peer
  PROVE  Unselected(s, t, w)
<1>1. Newest(t, w)
  BY FewerReports
<1> QED BY <1>1 DEF Unselected, Granted

\* One that begins a revision.
LEMMA NothingGrantedAnew ==
  ASSUME NEW s, NEW w, NEW t, NEW v, Newest(s, w), DOMAIN t = LeaseFields,
         t.explicit = s.explicit, t.revision = s.revision + 1, t.slot = s.slot,
         \A l \in t.lease : LeaseItem(l) /\ \E old \in s.lease : old.proc = l.proc /\ old.peer = l.peer,
         \A p \in t.pending : /\ DOMAIN p = {"pid", "peer", "wait", "rev"}
                              /\ p.rev = t.revision /\ v = {[peer |-> p.peer, pid |-> p.pid]}
  PROVE  Unselected(s, t, v)
<1>1. Newest(t, v)
  BY NewRevision
<1> QED BY <1>1 DEF Unselected, Granted

\* The fields after reports were invalidated.
LEMMA Invalidated ==
  ASSUME NEW s, NEW w, Newest(s, w)
  PROVE  LET t == InvalidateReports(s)
         IN /\ DOMAIN t = LeaseFields /\ t.explicit = s.explicit /\ t.revision = s.revision + 1
            /\ t.slot = s.slot /\ t.pending = {} /\ t.lease = s.lease /\ t.enabled = s.enabled
            /\ t.reporter = s.reporter
BY DEF InvalidateReports, Newest, LeaseFields

\* An explicit request takes the slot.
LEMMA StartStep ==
  ASSUME LeaseInv, NEW k \in {"set", "clear"}, NEW x, NEW u, StartControl(Read(k, x, u, 0))
  PROVE  Unselected(leases, leases', told)
<1> DEFINE r == Read(k, x, u, 0)
<1>1. leases' = [leases EXCEPT !.slot = {r}] /\ DOMAIN leases = LeaseFields
  BY DEF StartControl, LeaseInv, Newest
<1>2. r.kind = k /\ DOMAIN r = ReadFields /\ k \in ReadKinds
  BY DEF Read, ReadFields, ReadKinds
<1> HIDE DEF r
<1>3. /\ DOMAIN leases' = LeaseFields /\ leases'.slot = {r} /\ leases'.lease = leases.lease
      /\ leases'.explicit = leases.explicit /\ leases'.pending = leases.pending
      /\ leases'.revision = leases.revision
  BY <1>1 DEF LeaseFields
<1>4. Newest(leases', told)
  BY <1>2, <1>3 DEF Newest, LeaseInv
<1> QED BY <1>3, <1>4 DEF Unselected, Granted

\* A focus report begins a revision, renews the lease or waits.
LEMMA AcceptStep ==
  ASSUME LeaseInv, NEW peer, NEW pid, AcceptFocusReport(peer, pid)
  PROVE  Unselected(leases, leases', told')
<1> DEFINE s == InvalidateReports(leases)
           v == {[peer |-> peer, pid |-> pid]}
<1>1. /\ DOMAIN s = LeaseFields /\ s.explicit = leases.explicit
      /\ s.revision = leases.revision + 1
      /\ s.slot = leases.slot /\ s.pending = {} /\ s.lease = leases.lease
  BY Invalidated DEF LeaseInv
<1>2. told' = v
  BY DEF AcceptFocusReport
<1>3. \A l \in leases.lease : LeaseItem(l)
  BY DEF LeaseInv, Newest, LeaseItem
<1>4. CASE Renews(s, peer, pid)
  <2> DEFINE x == {[l EXCEPT !.left = LeaseTtl] : l \in s.lease}
             q == [s EXCEPT !.lease = x]
             y == {[peer |-> peer, uid |-> Owner[pid], left |-> LeaseTtl]}
  <2>1. leases' = [q EXCEPT !.reporter = y]
    BY <1>4 DEF AcceptFocusReport, InstallReporter
  <2>2. /\ DOMAIN q = LeaseFields /\ q.explicit = s.explicit /\ q.revision = s.revision
        /\ q.slot = s.slot /\ q.pending = s.pending /\ q.lease = x
    <3> HIDE DEF s, x
    <3> QED BY <1>1 DEF LeaseFields
  <2>3. ASSUME NEW l \in x
        PROVE  LeaseItem(l) /\ \E old \in leases.lease : old.proc = l.proc /\ old.peer = l.peer
    <3>1. PICK old \in leases.lease : l = [old EXCEPT !.left = LeaseTtl]
      BY <1>1
    <3> HIDE DEF s, x
    <3>2. DOMAIN old = {"proc", "peer", "left"}
      BY <1>3 DEF LeaseItem
    <3>3. LeaseItem(l) /\ old.proc = l.proc /\ old.peer = l.peer
      BY <3>1, <3>2 DEF LeaseItem
    <3> QED BY <3>3
  <2> HIDE DEF q, x, y
  <2>4. /\ DOMAIN leases' = LeaseFields /\ leases'.explicit = s.explicit
        /\ leases'.revision = s.revision /\ leases'.slot = s.slot
        /\ leases'.pending = s.pending /\ leases'.lease = x
    BY <2>1, <2>2 DEF LeaseFields
  <2> HIDE DEF s, v
  <2> QED BY <1>1, <1>2, <2>3, <2>4, NothingGrantedAnew DEF LeaseInv
<1>5. CASE ~Renews(s, peer, pid)
  <2> DEFINE p == [pid |-> pid, peer |-> peer, wait |-> LeaseDebounce, rev |-> s.revision]
             q == [s EXCEPT !.pending = {p}]
  <2>1. leases' = DrivePending(q)
    BY <1>5 DEF AcceptFocusReport
  <2>2. DOMAIN p = {"pid", "peer", "wait", "rev"} /\ p.rev = s.revision /\ p.peer = peer /\ p.pid = pid
    OBVIOUS
  <2> HIDE DEF p
  <2>3. /\ DOMAIN q = LeaseFields /\ q.explicit = s.explicit /\ q.revision = s.revision
        /\ q.slot = s.slot /\ q.pending = {p} /\ q.lease = s.lease
    <3> HIDE DEF s
    <3> QED BY <1>1 DEF LeaseFields
  <2> HIDE DEF q, s
  <2>4. Unselected(leases, q, v)
    BY <1>1, <1>3, <2>2, <2>3, NothingGrantedAnew DEF LeaseInv
  <2>5. /\ Newest(DrivePending(q), v) /\ DrivePending(q).lease = q.lease
        /\ DrivePending(q).explicit = q.explicit
    BY <2>4, DriveNewest DEF Unselected
  <2> HIDE DEF v
  <2> QED BY <1>2, <2>1, <2>4, <2>5 DEF Unselected, Granted
<1> QED BY <1>4, <1>5

\* A clear, a reload and the departure of a peer take leases and reports away.
LEMMA ClearStep ==
  ASSUME LeaseInv, NEW peer, ClearForeground(peer)
  PROVE  Unselected(leases, leases', told')
<1> DEFINE s == InstallReporter(leases, peer, PeerUid[peer])
<1>1. DOMAIN leases = LeaseFields /\ \A l \in leases.lease : LeaseItem(l)
  BY DEF LeaseInv, Newest, LeaseItem
<1>2. /\ DOMAIN s = LeaseFields /\ s.explicit = leases.explicit /\ s.revision = leases.revision
      /\ s.slot = leases.slot /\ s.pending = leases.pending /\ s.lease = leases.lease
  BY <1>1 DEF InstallReporter, LeaseFields
<1>3. \/ leases' = Release(InvalidateReports(s)) /\ told' = {}
      \/ leases' = s /\ told' = told
  BY DEF ClearForeground
<1> HIDE DEF s
<1>4. Unselected(leases, s, told)
  BY <1>1, <1>2, NothingGranted DEF LeaseInv
<1>5. CASE leases' = Release(InvalidateReports(s)) /\ told' = {}
  <2> DEFINE t == InvalidateReports(s)
  <2>1. /\ DOMAIN t = LeaseFields /\ t.explicit = s.explicit /\ t.revision = s.revision + 1
        /\ t.slot = s.slot /\ t.pending = {}
    BY <1>4, Invalidated DEF Unselected
  <2>2. leases' = [t EXCEPT !.lease = {}]
    BY <1>5 DEF Release
  <2> HIDE DEF t
  <2>3. /\ DOMAIN leases' = LeaseFields /\ leases'.explicit = s.explicit
        /\ leases'.revision = s.revision + 1
        /\ leases'.slot = s.slot /\ leases'.pending = {} /\ leases'.lease = {}
    BY <2>1, <2>2 DEF LeaseFields
  <2> QED BY <1>2, <2>3, NothingGrantedAnew DEF LeaseInv
<1> QED BY <1>3, <1>4, <1>5

\* A frame hint renews the reporter.
LEMMA FrameStep ==
  ASSUME LeaseInv, NEW peer, AuthorizeFrameReporter(peer)
  PROVE  Unselected(leases, leases', told')
<1>1. DOMAIN leases = LeaseFields /\ \A l \in leases.lease : LeaseItem(l)
  BY DEF LeaseInv, Newest, LeaseItem
<1>2. PICK x : leases' = [leases EXCEPT !.reporter = x] /\ told' = told
  BY DEF AuthorizeFrameReporter
<1>3. /\ DOMAIN leases' = LeaseFields /\ leases'.explicit = leases.explicit
      /\ leases'.revision = leases.revision
      /\ leases'.slot = leases.slot /\ leases'.pending = leases.pending
      /\ leases'.lease = leases.lease
  BY <1>1, <1>2 DEF LeaseFields
<1> QED BY <1>1, <1>2, <1>3, NothingGranted DEF LeaseInv

\* A reload begins a revision, and a lease that is no longer enabled ends.
LEMMA ReloadStep ==
  ASSUME LeaseInv, NEW e, ApplyReload(e)
  PROVE  Unselected(leases, leases', told')
<1> DEFINE t == InvalidateReports(leases)
           s == [t EXCEPT !.enabled = e]
           u == [s EXCEPT !.lease = {}]
<1>1. \A l \in leases.lease : LeaseItem(l)
  BY DEF LeaseInv, Newest, LeaseItem
<1>2. /\ DOMAIN t = LeaseFields /\ t.explicit = leases.explicit
      /\ t.revision = leases.revision + 1
      /\ t.slot = leases.slot /\ t.pending = {} /\ t.lease = leases.lease
  BY Invalidated DEF LeaseInv
<1>3. leases' = s \/ leases' = [u EXCEPT !.reporter = {}]
  BY DEF ApplyReload
<1> HIDE DEF t
<1>4. /\ DOMAIN s = LeaseFields /\ s.explicit = leases.explicit
      /\ s.revision = leases.revision + 1
      /\ s.slot = leases.slot /\ s.pending = {} /\ s.lease = leases.lease
  BY <1>2 DEF LeaseFields
<1> HIDE DEF s
<1>5. /\ DOMAIN u = LeaseFields /\ u.explicit = leases.explicit
      /\ u.revision = leases.revision + 1
      /\ u.slot = leases.slot /\ u.pending = {} /\ u.lease = {}
  BY <1>4 DEF LeaseFields
<1> HIDE DEF u
<1>6. /\ DOMAIN leases' = LeaseFields /\ leases'.explicit = leases.explicit
      /\ leases'.revision = leases.revision + 1
      /\ leases'.slot = leases.slot /\ leases'.pending = {} /\ leases'.lease \subseteq leases.lease
  BY <1>3, <1>4, <1>5 DEF LeaseFields
<1> QED BY <1>1, <1>6, NothingGrantedAnew DEF LeaseInv

\* A peer that left takes its reports and its lease with it.
LEMMA ForgetStep ==
  ASSUME LeaseInv, NEW peer, ForgetPeer(peer)
  PROVE  Unselected(leases, leases', told')
<1> DEFINE waiting == \E p \in leases.pending : p.peer = peer
           t == IF waiting THEN InvalidateReports(leases) ELSE leases
           s == [t EXCEPT !.reporter = {r \in t.reporter : r.peer # peer}]
<1>1. DOMAIN leases = LeaseFields /\ \A l \in leases.lease : LeaseItem(l)
  BY DEF LeaseInv, Newest, LeaseItem
<1>2. /\ DOMAIN t = LeaseFields /\ t.explicit = leases.explicit
      /\ t.revision = IF waiting THEN leases.revision + 1 ELSE leases.revision
      /\ t.slot = leases.slot /\ t.pending = (IF waiting THEN {} ELSE leases.pending)
      /\ t.lease = leases.lease
  <2>1. CASE waiting
    BY <2>1, Invalidated DEF LeaseInv
  <2>2. CASE ~waiting
    BY <1>1, <2>2
  <2> QED BY <2>1, <2>2
<1>3. /\ leases' = s \/ leases' = [s EXCEPT !.lease = {}]
      /\ told' = IF waiting THEN {} ELSE told
  BY DEF ForgetPeer, Revoke, Release
<1> HIDE DEF t, waiting
<1>4. /\ DOMAIN s = LeaseFields /\ s.explicit = t.explicit /\ s.revision = t.revision
      /\ s.slot = t.slot /\ s.pending = t.pending /\ s.lease = t.lease
  BY <1>2 DEF LeaseFields
<1> HIDE DEF s
<1>5. /\ DOMAIN leases' = LeaseFields /\ leases'.explicit = leases.explicit
      /\ leases'.revision = t.revision
      /\ leases'.slot = leases.slot /\ leases'.pending = t.pending
      /\ leases'.lease \subseteq leases.lease
  BY <1>2, <1>3, <1>4 DEF LeaseFields
<1>6. CASE waiting
  BY <1>1, <1>2, <1>5, <1>6, NothingGrantedAnew DEF LeaseInv
<1>7. CASE ~waiting
  BY <1>1, <1>2, <1>3, <1>5, <1>7, NothingGranted DEF LeaseInv
<1> QED BY <1>6, <1>7

\* The tick expires leases, lets a report go and begins a liveness check.
LEMMA TickStep ==
  ASSUME LeaseInv, NEW check, LeaseTick(check)
  PROVE  Unselected(leases, leases', told')
<1> DEFINE x == {l \in leases.lease : l.left > 0}
           e == [leases EXCEPT !.lease = x]
           g == Expire(leases)
           s == DrivePending(g)
<1>1. DOMAIN leases = LeaseFields /\ \A l \in leases.lease : LeaseItem(l)
  BY DEF LeaseInv, Newest, LeaseItem
<1>2. leases' \in {s, CheckIdentity(s)} /\ told' = told
  BY DEF LeaseTick
<1>3. /\ DOMAIN g = LeaseFields /\ g.explicit = leases.explicit /\ g.revision = leases.revision
      /\ g.slot = leases.slot /\ g.pending = leases.pending /\ g.lease = x
  BY <1>1 DEF Expire, LeaseFields
<1> HIDE DEF g
<1>4. Unselected(leases, g, told)
  BY <1>1, <1>3, NothingGranted DEF LeaseInv
<1>5. /\ Newest(s, told) /\ s.lease = g.lease /\ s.explicit = g.explicit
  BY <1>4, DriveNewest DEF Unselected
<1> HIDE DEF s
<1>6. CASE leases' = s
  BY <1>2, <1>4, <1>5, <1>6 DEF Unselected, Granted
<1>7. CASE leases' # s
  <2> DEFINE y == IF s.explicit # {} THEN {Read("refresh", p, 0, 0) : p \in s.explicit}
                  ELSE {Read("focus-refresh", l.proc, 0, 0) : l \in s.lease}
  <2>1. leases' = [s EXCEPT !.slot = y]
    BY <1>2, <1>7 DEF CheckIdentity
  <2>2. \A r \in y : DOMAIN r = ReadFields /\ r.kind \in ReadKinds /\ r.kind # "focus"
    BY DEF Read, ReadFields, ReadKinds
  <2>3. DOMAIN s = LeaseFields
    BY <1>5 DEF Newest
  <2> HIDE DEF y
  <2>4. /\ DOMAIN leases' = LeaseFields /\ leases'.explicit = s.explicit
        /\ leases'.revision = s.revision
        /\ leases'.slot = y /\ leases'.pending = s.pending /\ leases'.lease = s.lease
    BY <2>1, <2>3 DEF LeaseFields
  <2>5. Newest(leases', told)
    BY <1>5, <2>2, <2>4 DEF Newest
  <2> QED BY <1>2, <1>4, <1>5, <2>4, <2>5 DEF Unselected, Granted
<1> QED BY <1>6, <1>7

\* Time passes.
LEMMA LeaseTimeStep ==
  ASSUME LeaseInv, LeaseTime
  PROVE  Unselected(leases, leases', told')
<1> DEFINE x == {[l EXCEPT !.left = Less(l.left)] : l \in leases.lease}
           y == {[r EXCEPT !.left = Less(r.left)] : r \in leases.reporter}
           z == {[p EXCEPT !.wait = Less(p.wait)] : p \in leases.pending}
<1>1. /\ DOMAIN leases = LeaseFields /\ \A l \in leases.lease : LeaseItem(l)
      /\ leases.revision \in Nat
  BY DEF LeaseInv, Newest, LeaseItem
<1>2. leases' = [leases EXCEPT !.lease = x, !.reporter = y, !.pending = z] /\ told' = told
  BY DEF LeaseTime
<1>3. ASSUME NEW l \in x
      PROVE  LeaseItem(l) /\ \E old \in leases.lease : old.proc = l.proc /\ old.peer = l.peer
  <2>1. PICK old \in leases.lease : l = [old EXCEPT !.left = Less(old.left)]
    OBVIOUS
  <2>2. DOMAIN old = {"proc", "peer", "left"}
    BY <1>1 DEF LeaseItem
  <2>3. LeaseItem(l) /\ old.proc = l.proc /\ old.peer = l.peer
    BY <2>1, <2>2 DEF LeaseItem
  <2> QED BY <2>3
<1>4. ASSUME NEW p \in z
      PROVE  /\ DOMAIN p = {"pid", "peer", "wait", "rev"}
             /\ p.rev = leases.revision /\ told = {[peer |-> p.peer, pid |-> p.pid]}
  <2>1. PICK old \in leases.pending : p = [old EXCEPT !.wait = Less(old.wait)]
    OBVIOUS
  <2>2. /\ DOMAIN old = {"pid", "peer", "wait", "rev"}
        /\ old.rev = leases.revision /\ told = {[peer |-> old.peer, pid |-> old.pid]}
    BY DEF LeaseInv, Newest
  <2>3. DOMAIN p = DOMAIN old /\ p.rev = old.rev /\ p.peer = old.peer /\ p.pid = old.pid
    BY <2>1, <2>2
  <2> QED BY <2>2, <2>3
<1> HIDE DEF x, y, z
<1>5. /\ DOMAIN leases' = LeaseFields /\ leases'.explicit = leases.explicit
      /\ leases'.revision = leases.revision
      /\ leases'.slot = leases.slot /\ leases'.pending = z /\ leases'.lease = x
  BY <1>1, <1>2 DEF LeaseFields
<1>6. Newest(leases', told)
  BY <1>3, <1>4, <1>5 DEF Newest, LeaseInv, LeaseItem
<1> QED BY <1>2, <1>3, <1>5, <1>6 DEF Unselected, Granted

\* A read finds the process it is about.
LEMMA ReaderStep ==
  ASSUME LeaseInv, ReaderReads
  PROVE  Unselected(leases, leases', told')
<1>1. PICK r \in leases.slot :
        leases' = [leases EXCEPT !.slot = {[r EXCEPT !.got = Current(PidOf(r)), !.done = TRUE]}]
  BY DEF ReaderReads
<1> DEFINE yes == TRUE
           g == Current(PidOf(r))
           q == [r EXCEPT !.got = g, !.done = yes]
<1>2. leases' = [leases EXCEPT !.slot = {q}] /\ DOMAIN leases = LeaseFields /\ told' = told
  BY <1>1 DEF ReaderReads, LeaseInv, Newest
<1>3. DOMAIN r = ReadFields /\ r.kind \in ReadKinds
  BY DEF LeaseInv, Newest
<1>4. r.kind = "focus" => \A p \in g : p.pid = r.subject
  BY DEF Current, PidOf
<1> HIDE DEF g, yes
<1>5. /\ DOMAIN q = ReadFields /\ q.kind = r.kind /\ q.rev = r.rev /\ q.by = r.by
      /\ q.subject = r.subject /\ q.got = g
  BY <1>3 DEF ReadFields
<1> HIDE DEF q
<1>6. /\ DOMAIN leases' = LeaseFields /\ leases'.explicit = leases.explicit
      /\ leases'.revision = leases.revision
      /\ leases'.slot = {q} /\ leases'.pending = leases.pending /\ leases'.lease = leases.lease
  BY <1>2 DEF LeaseFields
<1>7. Newest(leases', told)
  BY <1>3, <1>4, <1>5, <1>6 DEF Newest, LeaseInv
<1> QED BY <1>2, <1>6, <1>7 DEF Unselected, Granted

\* The user's selection changes only by an answer about it.
Selected ==
  leases'.explicit # leases.explicit
    => \E r \in leases.slot : r.kind \in {"set", "clear", "refresh"}
                              /\ (r.kind # "set" => leases.explicit = {r.subject})

\* Every step grants at most what was told last and leaves the selection to the
\* answers about it.
LEMMA LeaseStep ==
  ASSUME LeaseInv, LeaseNext
  PROVE  LeaseInv' /\ Granted(leases, leases', told') /\ Selected
<1>1. ASSUME Unselected(leases, leases', told')
      PROVE  LeaseInv' /\ Granted(leases, leases', told') /\ Selected
  BY <1>1 DEF Unselected, Selected, LeaseInv
<1>2. CASE \E u \in {0} \cup {Owner[p] : p \in Pid} :
             (\E p \in Pid : StartSetWorkload(u, p)) \/ StartClearWorkload(u)
  <2>1. told' = told /\ \E k \in {"set", "clear"} : \E x, u : StartControl(Read(k, x, u, 0))
    BY <1>2 DEF StartSetWorkload, StartClearWorkload
  <2> QED BY <1>1, <2>1, StartStep
<1>3. CASE \E peer \in Peer : (\E p \in Pid : AcceptFocusReport(peer, p))
                              \/ ClearForeground(peer) \/ AuthorizeFrameReporter(peer)
                              \/ ForgetPeer(peer)
  BY <1>1, <1>3, AcceptStep, ClearStep, FrameStep, ForgetStep
<1>4. CASE \E e \in BOOLEAN : ApplyReload(e) \/ LeaseTick(e)
  BY <1>1, <1>4, ReloadStep, TickStep
<1>5. CASE LeaseTime \/ ReaderReads
  BY <1>1, <1>5, LeaseTimeStep, ReaderStep
<1>6. ASSUME leases' = leases, told' = told
      PROVE  LeaseInv' /\ Granted(leases, leases', told') /\ Selected
  BY <1>6 DEF LeaseInv, Granted, Selected
<1>7. CASE Answer
  <2>1. CASE \E r \in leases.slot : leases' = FinishIdentity(leases, r)
    <3>1. PICK r \in leases.slot : leases' = FinishIdentity(leases, r)
      BY <2>1
    <3>2. Rightful(leases, leases', r, told) /\ told' = told
      BY <1>7, <3>1, FinishRightful DEF LeaseInv, Answer
    <3> QED BY <3>2 DEF Rightful, LeaseInv, Selected
  <2>2. CASE leases' = leases
    BY <1>6, <1>7, <2>2 DEF Answer
  <2> QED BY <1>7, <2>1, <2>2 DEF Answer, FinishStale
<1>8. CASE \E p \in Pid : NextIncarnation(p)
  BY <1>6, <1>8 DEF NextIncarnation
<1> QED BY <1>2, <1>3, <1>4, <1>5, <1>7, <1>8 DEF LeaseNext

\* Whatever requests, reloads, departures, deadlines and late answers there are,
\* a lease is given only to the newest report, and the user's selection changes
\* only by the user or by the end of its process (complete_focus_report,
\* complete_process_identity).
THEOREM WorkloadIsRightful == LeaseSpec => RightfulWorkload
<1>1. LeaseInit => LeaseInv
  <2> SUFFICES ASSUME LeaseInit PROVE LeaseInv
    OBVIOUS
  <2> DEFINE s == [explicit |-> {}, lease |-> {}, reporter |-> {}, pending |-> {},
                   revision |-> 0, slot |-> {}, enabled |-> TRUE]
  <2>1. leases = s
    BY DEF LeaseInit
  <2>2. /\ DOMAIN s = LeaseFields /\ s.lease = {} /\ s.pending = {} /\ s.slot = {}
        /\ s.revision = 0
    BY DEF LeaseFields
  <2> HIDE DEF s
  <2> QED BY <2>1, <2>2 DEF LeaseInv, Newest
<1>2. LeaseInv /\ [LeaseNext]_leaseVars => LeaseInv'
  <2>1. LeaseInv /\ UNCHANGED leaseVars => LeaseInv'
    BY DEF LeaseInv, leaseVars
  <2> QED BY <2>1, LeaseStep
<1>3. LeaseInv /\ [LeaseNext]_leaseVars =>
        [\A l \in leases'.lease :
           (\A old \in leases.lease : old.proc # l.proc \/ old.peer # l.peer)
             => told' = {[peer |-> l.peer, pid |-> l.proc.pid]}]_leaseVars
  BY LeaseStep DEF Granted
<1>4. LeaseInv /\ [LeaseNext]_leaseVars =>
        [leases'.explicit # leases.explicit
           => \E r \in leases.slot : r.kind \in {"set", "clear", "refresh"}
                                     /\ (r.kind # "set" => leases.explicit = {r.subject})]_leaseVars
  BY LeaseStep DEF Selected
<1>5. LeaseSpec => []LeaseInv
  BY <1>1, <1>2, PTL DEF LeaseSpec
<1>6. LeaseSpec => LatestReportWins
  BY <1>3, <1>5, PTL DEF LeaseSpec, LatestReportWins
<1>7. LeaseSpec => SelectionIsUsers
  BY <1>4, <1>5, PTL DEF LeaseSpec, SelectionIsUsers
<1> QED BY <1>6, <1>7 DEF RightfulWorkload

-----------------------------------------------------------------------------
(* Status signals.                                                         *)

Message ==
  [kind : {"snapshot"}, value : [Topic -> Nat \ {0}]] \cup [kind : Topic, value : Nat]
    \cup {Reconnecting}

\* The value a message has for a topic, as a set of at most one.
About(m, t) ==
  IF m.kind = "snapshot" THEN {m.value[t] - 1} ELSE IF m.kind = t THEN {m.value} ELSE {}

\* The messages about a topic never go back, begin at a value and end at one.
Rising(q, t) == \A i, j \in 1 .. Len(q) : i < j => \A x \in About(q[i], t), y \in About(q[j], t) : x <= y
Begin(q, t, v) == \A i \in 1 .. Len(q) : \A x \in About(q[i], t) : v <= x
End(q, t, v) == \A i \in 1 .. Len(q) : \A x \in About(q[i], t) : x <= v

\* The newest value the window has of a topic, applied or not.
Latest(w, t) == IF t = "status" /\ w.waiting # 0 THEN w.waiting - 1 ELSE w.shown[t]

\* Values grow from the window over the mail and the reads of a new session to
\* the daemon.
Flow(d, c, q, w) ==
  \A t \in Topic :
    /\ w.shown[t] <= Latest(w, t) /\ Latest(w, t) <= d.seen[t]
    /\ Rising(q, t) /\ Begin(q, t, Latest(w, t)) /\ End(q, t, d.seen[t])
    /\ c.phase # "session" /\ c.got[t] # 0 =>
         /\ Latest(w, t) <= c.got[t] - 1 /\ End(q, t, c.got[t] - 1) /\ c.got[t] - 1 <= d.seen[t]

\* Between a status and the snapshot of a later session the connection was lost.
Cleared(q, w, n) ==
  /\ w.waiting # 0 => \E j \in 1 .. n - 1 : q[j].kind = "reconnecting"
  /\ \A k \in 1 .. n - 1 : q[k].kind = "status" =>
       \E j \in k + 1 .. n - 1 : q[j].kind = "reconnecting"
Separate(c, q, w) ==
  /\ c.phase # "session" => Cleared(q, w, Len(q) + 1)
  /\ \A n \in 1 .. Len(q) : q[n].kind = "snapshot" => Cleared(q, w, n)

StatusTypes ==
  /\ daemon \in [up : BOOLEAN, seen : [Topic -> Nat]]
  /\ version \in Nat /\ \A t \in Topic : daemon.seen[t] <= version
  /\ client \in [phase : {"waiting", "reading", "subscribing", "session"}, got : [Topic -> Nat],
                 subs : SUBSET (Topic \cup {"owner"}), lost : BOOLEAN]
  /\ client.phase = "subscribing" => \A t \in Topic : client.got[t] # 0
  /\ mail \in Seq(Message)
  /\ window \in [shown : [Topic -> Nat], waiting : Nat, connected : BOOLEAN]
StatusInv == StatusTypes /\ Flow(daemon, client, mail, window) /\ Separate(client, mail, window)

-----------------------------------------------------------------------------
(* Messages.                                                                *)

\* What a message says of a topic is a number, and a lost connection says nothing.
LEMMA AboutType ==
  ASSUME NEW m \in Message, NEW t \in Topic
  PROVE  About(m, t) \subseteq Nat
<1>1. CASE m \in [kind : {"snapshot"}, value : [Topic -> Nat \ {0}]]
  <2>1. m.kind = "snapshot" /\ m.value[t] \in Nat \ {0}
    BY <1>1
  <2> QED BY <2>1 DEF About
<1>2. CASE m \in [kind : Topic, value : Nat]
  <2>1. m.kind \in Topic /\ m.value \in Nat
    BY <1>2
  <2> QED BY <2>1 DEF About, Topic
<1>3. CASE m = Reconnecting
  BY <1>3 DEF Reconnecting, About, Topic
<1> QED BY <1>1, <1>2, <1>3 DEF Message

\* q2 is q with messages after it.
Continues(q, q2) ==
  /\ q2 \in Seq(Message) /\ Len(q) <= Len(q2)
  /\ \A i \in 1 .. Len(q) : q2[i] = q[i]

\* Messages with the value v of the topic t, or none, keep the queue in order
\* when v is the newest.
LEMMA Extended ==
  ASSUME NEW q \in Seq(Message), NEW q2, NEW t \in Topic, NEW v \in Nat, NEW b \in Nat,
         Continues(q, q2), \A i \in Len(q) + 1 .. Len(q2) : About(q2[i], t) \subseteq {v},
         Rising(q, t), Begin(q, t, b), End(q, t, v), b <= v
  PROVE  Rising(q2, t) /\ Begin(q2, t, b) /\ End(q2, t, v)
<1>1. Len(q) \in Nat /\ Len(q2) \in Nat
  BY DEF Continues
<1>2. ASSUME NEW i \in 1 .. Len(q2)
      PROVE  (i \in 1 .. Len(q) /\ q2[i] = q[i]) \/ About(q2[i], t) \subseteq {v}
  <2>1. i \in 1 .. Len(q) \/ i \in Len(q) + 1 .. Len(q2)
    BY <1>1
  <2> QED BY <2>1 DEF Continues
<1>3. End(q2, t, v)
  <2>1. v <= v
    OBVIOUS
  <2>2. ASSUME NEW i \in 1 .. Len(q2), NEW x \in About(q2[i], t)
        PROVE  x <= v
    BY <1>2, <2>1, <2>2 DEF End
  <2> QED BY <2>2 DEF End
<1>4. Begin(q2, t, b)
  BY <1>2 DEF Begin
<1>5. ASSUME NEW i \in 1 .. Len(q2), NEW j \in 1 .. Len(q2), i < j,
             NEW x \in About(q2[i], t), NEW y \in About(q2[j], t)
      PROVE  x <= y
  <2>1. CASE About(q2[j], t) \subseteq {v}
    <3>1. y = v
      BY <2>1
    <3> QED BY <1>3, <3>1 DEF End
  <2>2. CASE j \in 1 .. Len(q) /\ q2[j] = q[j]
    <3>1. i \in 1 .. Len(q)
      BY <1>1, <1>5, <2>2
    <3>2. q2[i] = q[i]
      BY <3>1 DEF Continues
    <3> QED BY <1>5, <2>2, <3>1, <3>2 DEF Rising
  <2> QED BY <1>2, <2>1, <2>2
<1>6. Rising(q2, t)
  BY <1>5 DEF Rising
<1> QED BY <1>3, <1>4, <1>6

\* Without its first message the mail begins where that message was.
LEMMA Taken ==
  ASSUME NEW q \in Seq(Message), q # << >>, NEW t \in Topic, NEW v, NEW b,
         Rising(q, t), Begin(q, t, b), End(q, t, v)
  PROVE  /\ Rising(Tail(q), t) /\ Begin(Tail(q), t, b) /\ End(Tail(q), t, v)
         /\ \A x \in About(Head(q), t) : Begin(Tail(q), t, x) /\ b <= x /\ x <= v
<1>1. /\ Len(q) \in Nat /\ Len(q) >= 1 /\ Head(q) = q[1]
      /\ Len(Tail(q)) = Len(q) - 1 /\ \A i \in 1 .. Len(q) - 1 : Tail(q)[i] = q[i + 1]
  OBVIOUS
<1>2. \A i \in 1 .. Len(q) - 1 : i + 1 \in 1 .. Len(q) /\ 1 < i + 1
  BY <1>1
<1>3. 1 \in 1 .. Len(q)
  BY <1>1
<1>4. Rising(Tail(q), t)
  <2>1. \A i, j \in 1 .. Len(q) - 1 : i < j => i + 1 < j + 1
    BY <1>1
  <2> QED BY <1>1, <1>2, <2>1 DEF Rising
<1>5. Begin(Tail(q), t, b) /\ End(Tail(q), t, v)
  BY <1>1, <1>2 DEF Begin, End
<1>6. \A x \in About(Head(q), t) : Begin(Tail(q), t, x) /\ b <= x /\ x <= v
  BY <1>1, <1>2, <1>3 DEF Begin, End, Rising
<1> QED BY <1>4, <1>5, <1>6

\* A message appended to the mail.
LEMMA Appended ==
  ASSUME NEW q \in Seq(Message), NEW m \in Message
  PROVE  /\ Continues(q, Append(q, m)) /\ Len(Append(q, m)) = Len(q) + 1
         /\ Append(q, m)[Len(q) + 1] = m
         /\ \A i \in Len(q) + 1 .. Len(Append(q, m)) : Append(q, m)[i] = m
<1>1. /\ Append(q, m) \in Seq(Message) /\ Len(Append(q, m)) = Len(q) + 1 /\ Len(q) \in Nat
      /\ Append(q, m)[Len(q) + 1] = m
      /\ \A i \in 1 .. Len(q) : Append(q, m)[i] = q[i]
  OBVIOUS
<1>2. \A i \in Len(q) + 1 .. Len(q) + 1 : i = Len(q) + 1
  BY <1>1
<1> QED BY <1>1, <1>2 DEF Continues

-----------------------------------------------------------------------------
(* The steps.                                                               *)

\* The facts about numbers that the type invariant gives.
LEMMA StatusNumbers ==
  ASSUME StatusTypes
  PROVE  \A t \in Topic :
           /\ daemon.seen[t] \in Nat /\ client.got[t] \in Nat /\ window.shown[t] \in Nat
           /\ window.waiting \in Nat /\ Latest(window, t) \in Nat
<1>1. /\ daemon.seen \in [Topic -> Nat] /\ client.got \in [Topic -> Nat]
      /\ window.shown \in [Topic -> Nat] /\ window.waiting \in Nat
  BY DEF StatusTypes
<1> QED BY <1>1 DEF Latest

\* The daemon's values only grow.
LEMMA DaemonGrows ==
  ASSUME StatusTypes, Flow(daemon, client, mail, window), Separate(client, mail, window),
         daemon'.seen \in [Topic -> Nat], \A t \in Topic : daemon.seen[t] <= daemon'.seen[t],
         client'.got = client.got, client'.phase # "session" => client.phase # "session",
         mail' = mail, window' = window
  PROVE  Flow(daemon, client, mail, window)' /\ Separate(client, mail, window)'
<1>1. Separate(client, mail, window)'
  BY DEF Separate
<1>2. ASSUME NEW t \in Topic
      PROVE  /\ window.shown[t] <= Latest(window, t) /\ Latest(window, t) <= daemon'.seen[t]
             /\ Rising(mail, t) /\ Begin(mail, t, Latest(window, t)) /\ End(mail, t, daemon'.seen[t])
             /\ client'.phase # "session" /\ client.got[t] # 0 =>
                  /\ Latest(window, t) <= client.got[t] - 1 /\ End(mail, t, client.got[t] - 1)
                  /\ client.got[t] - 1 <= daemon'.seen[t]
  <2>1. /\ daemon.seen[t] \in Nat /\ client.got[t] \in Nat /\ window.shown[t] \in Nat
        /\ Latest(window, t) \in Nat /\ daemon'.seen[t] \in Nat
        /\ daemon.seen[t] <= daemon'.seen[t] /\ mail \in Seq(Message)
    BY StatusNumbers DEF StatusTypes
  <2>2. /\ window.shown[t] <= Latest(window, t) /\ Latest(window, t) <= daemon.seen[t]
        /\ Rising(mail, t) /\ Begin(mail, t, Latest(window, t)) /\ End(mail, t, daemon.seen[t])
        /\ client.phase # "session" /\ client.got[t] # 0 =>
             /\ Latest(window, t) <= client.got[t] - 1 /\ End(mail, t, client.got[t] - 1)
             /\ client.got[t] - 1 <= daemon.seen[t]
    BY DEF Flow
  <2>3. End(mail, t, daemon'.seen[t])
    <3>1. \A i \in 1 .. Len(mail) : About(mail[i], t) \subseteq Nat
      BY <2>1, AboutType
    <3>2. ASSUME NEW i \in 1 .. Len(mail), NEW x \in About(mail[i], t)
          PROVE  x <= daemon'.seen[t]
      <4>1. x \in Nat /\ x <= daemon.seen[t]
        BY <2>2, <3>1 DEF End
      <4> QED BY <2>1, <4>1
    <3> QED BY <3>2 DEF End
  <2> QED BY <2>1, <2>2, <2>3
<1>3. Flow(daemon, client, mail, window)'
  BY <1>2 DEF Flow
<1> QED BY <1>1, <1>3

\* Steps of the daemon.
LEMMA DaemonStep ==
  ASSUME StatusInv,
         \/ \E t \in Topic : DaemonChanges(t)
         \/ ScannerRefreshes \/ RunsCommand \/ DaemonStops \/ DaemonStartsAgain
  PROVE  StatusInv'
<1>1. StatusTypes /\ Flow(daemon, client, mail, window) /\ Separate(client, mail, window)
  BY DEF StatusInv
<1>2. /\ daemon \in [up : BOOLEAN, seen : [Topic -> Nat]] /\ daemon.seen \in [Topic -> Nat]
      /\ version \in Nat
      /\ \A t \in Topic : daemon.seen[t] <= version /\ daemon.seen[t] \in Nat
  BY <1>1 DEF StatusTypes
<1>3. mail' = mail /\ window' = window
  BY DEF DaemonChanges, ScannerRefreshes, RunsCommand, DaemonStops, DaemonStartsAgain
<1>4. /\ client' \in [phase : {"waiting", "reading", "subscribing", "session"}, got : [Topic -> Nat],
                      subs : SUBSET (Topic \cup {"owner"}), lost : BOOLEAN]
      /\ client'.got = client.got /\ client'.phase = client.phase
  <2> DEFINE l == client.lost \/ "owner" \in client.subs
  <2>1. client' = client \/ client' = [client EXCEPT !.lost = l]
    BY DEF DaemonChanges, ScannerRefreshes, RunsCommand, DaemonStops, DaemonStartsAgain
  <2>2. client \in [phase : {"waiting", "reading", "subscribing", "session"}, got : [Topic -> Nat],
                      subs : SUBSET (Topic \cup {"owner"}), lost : BOOLEAN]
    BY <1>1 DEF StatusTypes
  <2>3. l \in BOOLEAN
    OBVIOUS
  <2> HIDE DEF l
  <2> QED BY <2>1, <2>2, <2>3
<1> DEFINE Grown == /\ daemon' \in [up : BOOLEAN, seen : [Topic -> Nat]] /\ version' \in Nat
                    /\ \A t \in Topic : /\ daemon'.seen[t] <= version'
                                        /\ daemon.seen[t] <= daemon'.seen[t]
<1>5. Grown
  <2>1. ASSUME NEW t \in Topic, daemon' = [daemon EXCEPT !.seen[t] = version'],
               version' = version + 1
        PROVE  Grown
    <3> DEFINE s == [daemon.seen EXCEPT ![t] = version']
    <3>1. daemon' = [daemon EXCEPT !.seen = s]
      BY <2>1
    <3>2. s \in [Topic -> Nat] /\ version' \in Nat
      BY <1>2, <2>1
    <3>3. \A u \in Topic : s[u] = IF u = t THEN version + 1 ELSE daemon.seen[u]
      BY <1>2, <2>1
    <3> HIDE DEF s
    <3>4. daemon' \in [up : BOOLEAN, seen : [Topic -> Nat]] /\ daemon'.seen = s
      BY <1>2, <3>1, <3>2
    <3>5. \A u \in Topic : s[u] <= version + 1 /\ daemon.seen[u] <= s[u]
      BY <1>2, <3>3
    <3> QED BY <2>1, <3>2, <3>4, <3>5
  <2>2. CASE \E t \in Topic : DaemonChanges(t)
    BY <2>1, <2>2 DEF DaemonChanges, PublishChange
  <2>3. CASE ScannerRefreshes \/ RunsCommand
    BY <2>1, <2>3 DEF ScannerRefreshes, RunsCommand, PublishChange, Topic
  <2>4. CASE DaemonStops
    <3> DEFINE no == FALSE
    <3>1. daemon' = [daemon EXCEPT !.up = no] /\ version' = version
      BY <2>4 DEF DaemonStops
    <3>2. no \in BOOLEAN
      OBVIOUS
    <3> HIDE DEF no
    <3>3. daemon' \in [up : BOOLEAN, seen : [Topic -> Nat]] /\ daemon'.seen = daemon.seen
      BY <1>2, <3>1, <3>2
    <3> QED BY <1>2, <3>1, <3>3
  <2>5. CASE DaemonStartsAgain
    <3> DEFINE yes == TRUE
               s == [t \in Topic |-> version']
    <3>1. daemon' = [up |-> yes, seen |-> s] /\ version' = version + 1
      BY <2>5 DEF DaemonStartsAgain
    <3>2. yes \in BOOLEAN /\ s \in [Topic -> Nat] /\ \A t \in Topic : s[t] = version + 1
      BY <1>2, <3>1
    <3> HIDE DEF yes, s
    <3>3. daemon' \in [up : BOOLEAN, seen : [Topic -> Nat]] /\ daemon'.seen = s
      BY <3>1, <3>2
    <3>4. \A t \in Topic : daemon.seen[t] <= version + 1
      BY <1>2
    <3> QED BY <1>2, <3>1, <3>2, <3>3, <3>4
  <2> QED BY <2>2, <2>3, <2>4, <2>5
<1>6. StatusTypes'
  BY <1>1, <1>3, <1>4, <1>5 DEF StatusTypes
<1>7. daemon'.seen \in [Topic -> Nat]
  BY <1>5
<1> QED BY <1>1, <1>3, <1>4, <1>5, <1>6, <1>7, DaemonGrows DEF StatusInv

ClientRecord == [phase : {"waiting", "reading", "subscribing", "session"}, got : [Topic -> Nat],
                 subs : SUBSET (Topic \cup {"owner"}), lost : BOOLEAN]

\* A read of a new session brings the daemon's present value.
LEMMA ReadsStep ==
  ASSUME StatusInv, NEW t \in Topic, ReadsTopic(t)
  PROVE  StatusInv'
<1> DEFINE g == [client.got EXCEPT ![t] = daemon.seen[t] + 1]
           p == IF \A u \in Topic : g[u] # 0 THEN "subscribing" ELSE client.phase
<1>1. StatusTypes /\ Flow(daemon, client, mail, window) /\ Separate(client, mail, window)
  BY DEF StatusInv
<1>2. client \in ClientRecord /\ client.got \in [Topic -> Nat] /\ client.phase = "reading"
  BY <1>1 DEF StatusTypes, ClientRecord, ReadsTopic
<1>3. /\ client' = [client EXCEPT !.got = g, !.phase = p]
      /\ daemon' = daemon /\ version' = version /\ mail' = mail /\ window' = window
  BY DEF ReadsTopic, clientOnly
<1>4. \A u \in Topic : daemon.seen[u] \in Nat
  BY <1>1, StatusNumbers
<1>5. /\ g \in [Topic -> Nat]
      /\ \A u \in Topic : g[u] = IF u = t THEN daemon.seen[t] + 1 ELSE client.got[u]
  BY <1>2, <1>4
<1>6. p \in {"reading", "subscribing"} /\ (p = "subscribing" => \A u \in Topic : g[u] # 0)
  BY <1>2
<1> HIDE DEF g, p
<1>7. client' \in ClientRecord /\ client'.got = g /\ client'.phase = p
  <2>1. \A f \in {"got", "phase"} : f \in DOMAIN client
    BY <1>2 DEF ClientRecord
  <2> QED BY <1>2, <1>3, <1>5, <1>6, <2>1 DEF ClientRecord
<1>8. StatusTypes'
  BY <1>1, <1>3, <1>6, <1>7 DEF StatusTypes, ClientRecord
<1>9. Separate(client, mail, window)'
  BY <1>1, <1>2, <1>3 DEF Separate
<1>10. ASSUME NEW u \in Topic
       PROVE  /\ window.shown[u] <= Latest(window, u) /\ Latest(window, u) <= daemon.seen[u]
              /\ Rising(mail, u) /\ Begin(mail, u, Latest(window, u)) /\ End(mail, u, daemon.seen[u])
              /\ g[u] # 0 => /\ Latest(window, u) <= g[u] - 1 /\ End(mail, u, g[u] - 1)
                             /\ g[u] - 1 <= daemon.seen[u]
  <2>1. /\ window.shown[u] <= Latest(window, u) /\ Latest(window, u) <= daemon.seen[u]
        /\ Rising(mail, u) /\ Begin(mail, u, Latest(window, u)) /\ End(mail, u, daemon.seen[u])
        /\ client.got[u] # 0 =>
             /\ Latest(window, u) <= client.got[u] - 1 /\ End(mail, u, client.got[u] - 1)
             /\ client.got[u] - 1 <= daemon.seen[u]
    BY <1>1, <1>2 DEF Flow
  <2>2. CASE u = t
    <3>1. g[u] - 1 = daemon.seen[u]
      BY <1>4, <1>5, <2>2
    <3>2. daemon.seen[u] <= daemon.seen[u]
      BY <1>4
    <3> QED BY <2>1, <3>1, <3>2
  <2>3. CASE u # t
    BY <1>5, <2>1, <2>3
  <2> QED BY <2>2, <2>3
<1>11. Flow(daemon, client, mail, window)'
  BY <1>3, <1>7, <1>10 DEF Flow
<1> QED BY <1>8, <1>9, <1>11 DEF StatusInv

\* A mail that continues keeps its messages apart.
LEMMA StillCleared ==
  ASSUME NEW q \in Seq(Message), NEW q2, NEW w, NEW n \in 1 .. Len(q) + 1, Continues(q, q2),
         Cleared(q, w, n)
  PROVE  Cleared(q2, w, n)
<1>1. Len(q) \in Nat
  OBVIOUS
<1>2. \A i \in 1 .. n - 1 : i \in 1 .. Len(q) /\ q2[i] = q[i]
  BY <1>1 DEF Continues
<1>3. \A k \in 1 .. n - 1 : \A j \in k + 1 .. n - 1 : j \in 1 .. n - 1
  BY <1>1
<1> QED BY <1>2, <1>3 DEF Cleared

\* A client in its session posts values of the daemon, one that begins it the
\* snapshot.  v says what is posted of each topic.
LEMMA PostStep ==
  ASSUME StatusInv, client' \in ClientRecord, daemon' = daemon, version' = version,
         window' = window, client'.phase \in {"session", "waiting"},
         client'.phase # "session" =>
           client'.got = Nothing /\ Cleared(mail', window, Len(mail') + 1),
         Continues(mail, mail'), NEW v \in [Topic -> Nat],
         \A t \in Topic : /\ Latest(window, t) <= v[t] /\ v[t] <= daemon.seen[t]
                          /\ End(mail, t, v[t])
                          /\ \A i \in Len(mail) + 1 .. Len(mail') : About(mail'[i], t) \subseteq {v[t]},
         \A i \in Len(mail) + 1 .. Len(mail') : mail'[i].kind = "snapshot" =>
           i = Len(mail) + 1 /\ client.phase # "session"
  PROVE  StatusInv'
<1>1. StatusTypes /\ Flow(daemon, client, mail, window) /\ Separate(client, mail, window)
  BY DEF StatusInv
<1>2. mail \in Seq(Message) /\ mail' \in Seq(Message) /\ Len(mail) \in Nat /\ Len(mail') \in Nat
      /\ Len(mail) <= Len(mail')
  BY <1>1 DEF StatusTypes, Continues
<1>3. StatusTypes'
  BY <1>1, <1>2 DEF StatusTypes, ClientRecord
<1>4. Separate(client, mail, window)'
  <2>1. ASSUME NEW n \in 1 .. Len(mail'), mail'[n].kind = "snapshot"
        PROVE  Cleared(mail', window, n)
    <3>1. CASE n \in 1 .. Len(mail)
      <4>1. mail'[n] = mail[n]
        BY <3>1 DEF Continues
      <4>2. Cleared(mail, window, n)
        BY <1>1, <2>1, <3>1, <4>1 DEF Separate
      <4>3. n \in 1 .. Len(mail) + 1
        BY <1>2, <3>1
      <4> QED BY <1>2, <4>2, <4>3, StillCleared
    <3>2. CASE n \notin 1 .. Len(mail)
      <4>1. n \in Len(mail) + 1 .. Len(mail')
        BY <1>2, <3>2
      <4>2. n = Len(mail) + 1 /\ client.phase # "session"
        BY <2>1, <4>1
      <4>3. Cleared(mail, window, n)
        BY <1>1, <4>2 DEF Separate
      <4>4. n \in 1 .. Len(mail) + 1
        BY <1>2, <4>2
      <4> QED BY <1>2, <4>3, <4>4, StillCleared
    <3> QED BY <3>1, <3>2
  <2> QED BY <2>1 DEF Separate
<1>5. ASSUME NEW t \in Topic
      PROVE  /\ window.shown[t] <= Latest(window, t) /\ Latest(window, t) <= daemon.seen[t]
             /\ Rising(mail', t) /\ Begin(mail', t, Latest(window, t)) /\ End(mail', t, daemon.seen[t])
             /\ ~(client'.phase # "session" /\ client'.got[t] # 0)
  <2>1. /\ window.shown[t] <= Latest(window, t) /\ Latest(window, t) <= daemon.seen[t]
        /\ Rising(mail, t) /\ Begin(mail, t, Latest(window, t))
    BY <1>1 DEF Flow
  <2>2. Latest(window, t) \in Nat /\ v[t] \in Nat /\ daemon.seen[t] \in Nat
    BY <1>1, StatusNumbers
  <2>3. Rising(mail', t) /\ Begin(mail', t, Latest(window, t)) /\ End(mail', t, v[t])
    BY <1>2, <2>1, <2>2, Extended
  <2>4. End(mail', t, daemon.seen[t])
    <3>1. ASSUME NEW i \in 1 .. Len(mail'), NEW x \in About(mail'[i], t)
          PROVE  x <= daemon.seen[t]
      <4>1. mail'[i] \in Message
        BY <1>2
      <4>2. x \in Nat /\ x <= v[t]
        BY <2>3, <4>1, AboutType DEF End
      <4> QED BY <2>2, <4>2
    <3> QED BY <3>1 DEF End
  <2>5. ~(client'.phase # "session" /\ client'.got[t] # 0)
    BY DEF Nothing
  <2> QED BY <2>1, <2>3, <2>4, <2>5
<1>6. Flow(daemon, client, mail, window)'
  BY <1>5 DEF Flow
<1> QED BY <1>3, <1>4, <1>6 DEF StatusInv

\* Steps of the client that post nothing.
LEMMA QuietStep ==
  ASSUME StatusInv, client' \in ClientRecord, client'.got = client.got,
         client'.phase # "session" => client.phase # "session",
         client'.phase = "subscribing" => client.phase = "subscribing",
         daemon' = daemon, version' = version, mail' = mail, window' = window
  PROVE  StatusInv'
<1>1. StatusTypes /\ Flow(daemon, client, mail, window) /\ Separate(client, mail, window)
  BY DEF StatusInv
<1>2. StatusTypes'
  BY <1>1 DEF StatusTypes, ClientRecord
<1>3. daemon'.seen \in [Topic -> Nat] /\ \A t \in Topic : daemon.seen[t] <= daemon'.seen[t]
  <2>1. daemon.seen \in [Topic -> Nat]
    BY <1>1 DEF StatusTypes
  <2>2. \A t \in Topic : daemon.seen[t] <= daemon.seen[t]
    BY <2>1
  <2> QED BY <2>1, <2>2
<1> QED BY <1>1, <1>2, <1>3, DaemonGrows DEF StatusInv

\* A client subscribes, and begins its session with the snapshot.
LEMMA SubscribesStep ==
  ASSUME StatusInv, Subscribes
  PROVE  StatusInv'
<1> DEFINE s == client.subs \cup {NextSubscription}
           p == IF NextSubscription = "owner" THEN "session" ELSE client.phase
           m == [kind |-> "snapshot", value |-> client.got]
<1>1. StatusTypes /\ Flow(daemon, client, mail, window)
  BY DEF StatusInv
<1>2. /\ client \in ClientRecord /\ client.got \in [Topic -> Nat] /\ client.phase = "subscribing"
      /\ (\A t \in Topic : client.got[t] # 0) /\ mail \in Seq(Message)
  BY <1>1 DEF StatusTypes, ClientRecord, Subscribes
<1>3. /\ client' = [client EXCEPT !.subs = s, !.phase = p]
      /\ daemon' = daemon /\ version' = version /\ window' = window
  BY DEF Subscribes, clientOnly
<1>4. NextSubscription \in Topic \cup {"owner"}
  BY DEF NextSubscription, Topic
<1>5. s \in SUBSET (Topic \cup {"owner"}) /\ p \in {"session", "subscribing"}
  BY <1>2, <1>4 DEF ClientRecord
<1>6. /\ p = "session" => mail' = Append(mail, m)
      /\ p # "session" => mail' = mail
  BY <1>2 DEF Subscribes, Post
<1> HIDE DEF s, p
<1>7. client' \in ClientRecord /\ client'.got = client.got /\ client'.phase = p
  BY <1>2, <1>3, <1>5 DEF ClientRecord
<1>8. CASE p # "session"
  BY <1>2, <1>3, <1>5, <1>6, <1>7, <1>8, QuietStep
<1>9. CASE p = "session"
  <2> DEFINE v == [t \in Topic |-> client.got[t] - 1]
  <2>1. \A t \in Topic : client.got[t] \in Nat \ {0}
    BY <1>2
  <2>2. v \in [Topic -> Nat] /\ \A t \in Topic : v[t] = client.got[t] - 1
    BY <2>1
  <2>3. m \in Message /\ m.kind = "snapshot" /\ m.value = client.got
    <3>1. client.got \in [Topic -> Nat \ {0}]
      BY <1>2, <2>1
    <3> QED BY <3>1 DEF Message
  <2> HIDE DEF m
  <2>4. /\ Continues(mail, mail') /\ Len(mail') = Len(mail) + 1 /\ Len(mail) \in Nat
        /\ \A i \in Len(mail) + 1 .. Len(mail') : mail'[i] = m
    <3>1. mail' = Append(mail, m)
      BY <1>6, <1>9
    <3>2. Len(mail) \in Nat
      BY <1>2
    <3>3. /\ Continues(mail, Append(mail, m)) /\ Len(Append(mail, m)) = Len(mail) + 1
          /\ \A i \in Len(mail) + 1 .. Len(Append(mail, m)) : Append(mail, m)[i] = m
      BY <1>2, <2>3, Appended
    <3> QED BY <3>1, <3>2, <3>3
  <2>5. ASSUME NEW t \in Topic
        PROVE  /\ Latest(window, t) <= v[t] /\ v[t] <= daemon.seen[t] /\ End(mail, t, v[t])
               /\ \A i \in Len(mail) + 1 .. Len(mail') : About(mail'[i], t) \subseteq {v[t]}
    <3>1. About(m, t) = {v[t]}
      BY <2>2, <2>3 DEF About
    <3>2. Latest(window, t) <= v[t] /\ v[t] <= daemon.seen[t] /\ End(mail, t, v[t])
      BY <1>1, <1>2, <2>2 DEF Flow
    <3> QED BY <2>4, <3>1, <3>2
  <2>6. \A i \in Len(mail) + 1 .. Len(mail') : i = Len(mail) + 1
    BY <2>4
  <2> HIDE DEF v
  <2> QED BY <1>2, <1>3, <1>7, <1>9, <2>2, <2>4, <2>5, <2>6, PostStep
<1> QED BY <1>8, <1>9

\* A signal makes a client in its session read again.
LEMMA RefreshesStep ==
  ASSUME StatusInv, NEW t \in Topic, Refreshes(t)
  PROVE  StatusInv'
<1> DEFINE n == IF t = "capabilities" THEN 2 ELSE 1
           u(i) == IF i = 1 THEN t ELSE "workloads"
           e == [i \in 1 .. n |-> [kind |-> u(i), value |-> daemon.seen[u(i)]]]
           q == mail \o e
<1>1. StatusTypes /\ Flow(daemon, client, mail, window)
  BY DEF StatusInv
<1>2. /\ client \in ClientRecord /\ client.phase = "session" /\ mail \in Seq(Message)
      /\ daemon.seen \in [Topic -> Nat]
  BY <1>1 DEF StatusTypes, ClientRecord, Refreshes
<1>3. /\ client' = client /\ daemon' = daemon /\ version' = version /\ window' = window
      /\ mail' = q
  BY DEF Refreshes, clientOnly
<1>4. n \in Nat
  OBVIOUS
<1>5. ASSUME NEW i \in 1 .. n
      PROVE  /\ e[i] \in Message /\ e[i].kind = u(i) /\ e[i].value = daemon.seen[u(i)]
             /\ u(i) \in Topic
  <2>1. u(i) \in Topic
    BY DEF Topic
  <2>2. e[i] = [kind |-> u(i), value |-> daemon.seen[u(i)]]
    OBVIOUS
  <2>3. daemon.seen[u(i)] \in Nat
    BY <1>2, <2>1
  <2> HIDE DEF e, u
  <2> QED BY <2>1, <2>2, <2>3 DEF Message
<1>6. e \in Seq(Message) /\ Len(e) = n
  <2>1. e \in [1 .. n -> Message]
    BY <1>5
  <2> HIDE DEF e, n
  <2> QED BY <1>4, <2>1
<1> HIDE DEF e, n
<1>7. /\ q \in Seq(Message) /\ Len(q) = Len(mail) + n /\ Len(mail) \in Nat
      /\ \A i \in 1 .. Len(mail) : q[i] = mail[i]
      /\ \A i \in 1 .. n : q[Len(mail) + i] = e[i]
  BY <1>2, <1>4, <1>6
<1>8. ASSUME NEW i \in Len(mail) + 1 .. Len(q)
      PROVE  i - Len(mail) \in 1 .. n /\ q[i] = e[i - Len(mail)]
  <2>1. i - Len(mail) \in 1 .. n /\ Len(mail) + (i - Len(mail)) = i
    BY <1>4, <1>7
  <2> QED BY <1>7, <2>1
<1> HIDE DEF q
<1>9. Continues(mail, q)
  BY <1>4, <1>7 DEF Continues
<1>10. ASSUME NEW x \in Topic
       PROVE  /\ Latest(window, x) <= daemon.seen[x] /\ daemon.seen[x] <= daemon.seen[x]
              /\ End(mail, x, daemon.seen[x])
              /\ \A i \in Len(mail) + 1 .. Len(q) : About(q[i], x) \subseteq {daemon.seen[x]}
  <2>1. Latest(window, x) <= daemon.seen[x] /\ End(mail, x, daemon.seen[x])
    BY <1>1 DEF Flow
  <2>2. daemon.seen[x] <= daemon.seen[x]
    BY <1>2
  <2>3. ASSUME NEW i \in Len(mail) + 1 .. Len(q)
        PROVE  About(q[i], x) \subseteq {daemon.seen[x]}
    <3>1. /\ i - Len(mail) \in 1 .. n /\ q[i] = e[i - Len(mail)]
      BY <1>8
    <3>2. PICK y \in Topic : q[i].kind = y /\ q[i].value = daemon.seen[y]
      BY <1>5, <3>1
    <3> QED BY <3>2 DEF About, Topic
  <2> QED BY <2>1, <2>2, <2>3
<1>11. \A i \in Len(mail) + 1 .. Len(q) : q[i].kind # "snapshot"
  BY <1>5, <1>8 DEF Topic
<1> QED BY <1>2, <1>3, <1>9, <1>10, <1>11, PostStep

\* The session ends.
LEMMA EndsStep ==
  ASSUME StatusInv, SessionEnds
  PROVE  StatusInv'
<1>1. StatusTypes /\ Flow(daemon, client, mail, window)
  BY DEF StatusInv
<1>2. mail \in Seq(Message) /\ daemon.seen \in [Topic -> Nat] /\ Reconnecting \in Message
  BY <1>1 DEF StatusTypes, Message
<1>3. /\ client' = Disconnected /\ daemon' = daemon /\ version' = version /\ window' = window
      /\ \/ mail # << >> /\ mail[Len(mail)] = Reconnecting /\ mail' = mail
         \/ mail' = Append(mail, Reconnecting)
  BY DEF SessionEnds, clientOnly, Post
<1>4. client' \in ClientRecord /\ client'.got = Nothing /\ client'.phase = "waiting"
  BY <1>3 DEF Disconnected, ClientRecord, Nothing
<1>5. /\ Continues(mail, mail') /\ Len(mail') \in Nat \ {0} /\ mail'[Len(mail')] = Reconnecting
      /\ \A i \in Len(mail) + 1 .. Len(mail') : mail'[i] = Reconnecting
  <2>1. CASE mail' = Append(mail, Reconnecting)
    BY <1>2, <2>1, Appended
  <2>2. CASE mail # << >> /\ mail[Len(mail)] = Reconnecting /\ mail' = mail
    BY <1>2, <2>2 DEF Continues
  <2> QED BY <1>3, <2>1, <2>2
<1>6. Cleared(mail', window, Len(mail') + 1)
  <2> DEFINE n == Len(mail')
  <2>1. n \in Nat \ {0} /\ mail'[n].kind = "reconnecting"
    BY <1>5 DEF Reconnecting
  <2> HIDE DEF n
  <2>2. n \in 1 .. n + 1 - 1
    BY <2>1
  <2>3. ASSUME NEW k \in 1 .. n + 1 - 1, mail'[k].kind = "status"
        PROVE  n \in k + 1 .. n + 1 - 1
    <3>1. k # n
      BY <2>1, <2>3
    <3> QED BY <2>1, <3>1
  <2>4. Cleared(mail', window, n + 1)
    BY <2>1, <2>2, <2>3 DEF Cleared
  <2> QED BY <2>4 DEF n
<1>7. ASSUME NEW t \in Topic
      PROVE  /\ Latest(window, t) <= daemon.seen[t] /\ daemon.seen[t] <= daemon.seen[t]
             /\ End(mail, t, daemon.seen[t])
             /\ \A i \in Len(mail) + 1 .. Len(mail') : About(mail'[i], t) \subseteq {daemon.seen[t]}
  <2>1. About(Reconnecting, t) = {}
    BY DEF About, Reconnecting, Topic
  <2>2. Latest(window, t) <= daemon.seen[t] /\ End(mail, t, daemon.seen[t])
    BY <1>1 DEF Flow
  <2>3. daemon.seen[t] <= daemon.seen[t]
    BY <1>2
  <2> QED BY <1>5, <2>1, <2>2, <2>3
<1>8. \A i \in Len(mail) + 1 .. Len(mail') : mail'[i].kind # "snapshot"
  BY <1>5 DEF Reconnecting
<1> QED BY <1>2, <1>3, <1>4, <1>5, <1>6, <1>7, <1>8, PostStep

WindowRecord == [shown : [Topic -> Nat], waiting : Nat, connected : BOOLEAN]

\* What the window does with a message that is not the loss of the connection:
\* it has that message's values, and what it waits to apply is a status.
LEMMA WindowStep ==
  ASSUME StatusInv, window' \in WindowRecord, daemon' = daemon, version' = version, client' = client,
         mail' \in Seq(Message), Separate(client, mail', window'),
         \A t \in Topic :
           /\ window'.shown[t] <= Latest(window', t)
           /\ \/ Latest(window', t) <= Latest(window, t) /\ Begin(mail', t, Latest(window, t))
              \/ /\ Begin(mail', t, Latest(window', t)) /\ Latest(window', t) <= daemon.seen[t]
                 /\ client.phase # "session" /\ client.got[t] # 0 => Latest(window', t) <= client.got[t] - 1
           /\ Rising(mail', t)
           /\ \A v : End(mail, t, v) => End(mail', t, v)
  PROVE  StatusInv'
<1>1. StatusTypes /\ Flow(daemon, client, mail, window)
  BY DEF StatusInv
<1>2. StatusTypes'
  BY <1>1 DEF StatusTypes, WindowRecord
<1>3. ASSUME NEW t \in Topic
      PROVE  /\ window'.shown[t] <= Latest(window', t) /\ Latest(window', t) <= daemon.seen[t]
             /\ Rising(mail', t) /\ Begin(mail', t, Latest(window', t)) /\ End(mail', t, daemon.seen[t])
             /\ client.phase # "session" /\ client.got[t] # 0 =>
                  /\ Latest(window', t) <= client.got[t] - 1 /\ End(mail', t, client.got[t] - 1)
                  /\ client.got[t] - 1 <= daemon.seen[t]
  <2>1. /\ Latest(window, t) <= daemon.seen[t] /\ End(mail, t, daemon.seen[t])
        /\ client.phase # "session" /\ client.got[t] # 0 =>
             /\ Latest(window, t) <= client.got[t] - 1 /\ End(mail, t, client.got[t] - 1)
             /\ client.got[t] - 1 <= daemon.seen[t]
    BY <1>1 DEF Flow
  <2>2. Latest(window, t) \in Nat /\ daemon.seen[t] \in Nat /\ client.got[t] \in Nat
    BY <1>1, StatusNumbers
  <2>3. Latest(window', t) \in Nat
    <3>1. window'.shown[t] \in Nat /\ window'.waiting \in Nat
      BY DEF WindowRecord
    <3> QED BY <3>1 DEF Latest
  <2>4. CASE Latest(window', t) <= Latest(window, t) /\ Begin(mail', t, Latest(window, t))
    <3>1. ASSUME NEW i \in 1 .. Len(mail'), NEW x \in About(mail'[i], t)
          PROVE  Latest(window', t) <= x
      <4>1. mail'[i] \in Message
        OBVIOUS
      <4>2. x \in Nat /\ Latest(window, t) <= x
        BY <2>4, <4>1, AboutType DEF Begin
      <4> QED BY <2>2, <2>3, <2>4, <4>2
    <3>2. Begin(mail', t, Latest(window', t))
      BY <3>1 DEF Begin
    <3> QED BY <2>1, <2>2, <2>3, <2>4, <3>2
  <2> QED BY <2>1, <2>4
<1>4. Flow(daemon, client, mail, window)'
  BY <1>3 DEF Flow
<1> QED BY <1>2, <1>4 DEF StatusInv

\* Without its first message the mail is still separate, for a window that
\* waits for a status only if it did before or has just got one.
LEMMA TakenSeparate ==
  ASSUME NEW q \in Seq(Message), q # << >>, NEW c, NEW w, NEW w2, Separate(c, q, w),
         w2.waiting # 0 => \/ Head(q).kind = "status"
                           \/ w.waiting # 0 /\ Head(q).kind # "reconnecting"
  PROVE  Separate(c, Tail(q), w2)
<1>1. /\ Len(q) \in Nat /\ Len(q) >= 1 /\ Head(q) = q[1]
      /\ Len(Tail(q)) = Len(q) - 1 /\ \A i \in 1 .. Len(q) - 1 : Tail(q)[i] = q[i + 1]
  OBVIOUS
<1>2. ASSUME NEW n \in 1 .. Len(q), Cleared(q, w, n + 1)
      PROVE  Cleared(Tail(q), w2, n)
  <2>1. \A j \in 2 .. n : j - 1 \in 1 .. n - 1 /\ Tail(q)[j - 1] = q[j]
    <3>1. ASSUME NEW j \in 2 .. n PROVE j - 1 \in 1 .. n - 1 /\ j - 1 \in 1 .. Len(q) - 1 /\ (j - 1) + 1 = j
      BY <1>1
    <3> QED BY <1>1, <3>1
  <2>2. w2.waiting # 0 => \E j \in 1 .. n - 1 : Tail(q)[j].kind = "reconnecting"
    <3>1. SUFFICES ASSUME w2.waiting # 0
                   PROVE  \E j \in 2 .. n : q[j].kind = "reconnecting"
      BY <2>1
    <3>2. CASE Head(q).kind = "status"
      <4>1. 1 \in 1 .. (n + 1) - 1 /\ q[1].kind = "status"
        BY <1>1, <3>2
      <4>2. PICK j \in 1 + 1 .. (n + 1) - 1 : q[j].kind = "reconnecting"
        BY <1>2, <4>1 DEF Cleared
      <4>3. j \in 2 .. n
        BY <1>1
      <4> QED BY <4>2, <4>3
    <3>3. CASE w.waiting # 0 /\ Head(q).kind # "reconnecting"
      <4>1. PICK j \in 1 .. (n + 1) - 1 : q[j].kind = "reconnecting"
        BY <1>2, <3>3 DEF Cleared
      <4>2. j # 1
        BY <1>1, <3>3, <4>1
      <4>3. j \in 2 .. n
        BY <1>1, <4>2
      <4> QED BY <4>1, <4>3
    <3> QED BY <3>1, <3>2, <3>3
  <2>3. ASSUME NEW k \in 1 .. n - 1, Tail(q)[k].kind = "status"
        PROVE  \E j \in k + 1 .. n - 1 : Tail(q)[j].kind = "reconnecting"
    <3>1. k \in 1 .. Len(q) - 1 /\ k + 1 \in 1 .. (n + 1) - 1
      BY <1>1
    <3>2. q[k + 1].kind = "status"
      BY <1>1, <2>3, <3>1
    <3>3. PICK j \in (k + 1) + 1 .. (n + 1) - 1 : q[j].kind = "reconnecting"
      BY <1>2, <3>1, <3>2 DEF Cleared
    <3>4. j \in 2 .. n /\ j - 1 \in k + 1 .. n - 1
      BY <1>1, <3>1
    <3>5. Tail(q)[j - 1].kind = "reconnecting"
      BY <2>1, <3>3, <3>4
    <3> QED BY <3>4, <3>5
  <2> QED BY <2>2, <2>3 DEF Cleared
<1>3. c.phase # "session" => Cleared(Tail(q), w2, Len(Tail(q)) + 1)
  <2>1. Len(q) \in 1 .. Len(q) /\ Len(Tail(q)) + 1 = Len(q)
    BY <1>1
  <2> QED BY <1>2, <2>1 DEF Separate
<1>4. ASSUME NEW n \in 1 .. Len(Tail(q)), Tail(q)[n].kind = "snapshot"
      PROVE  Cleared(Tail(q), w2, n)
  <2>1. n \in 1 .. Len(q) /\ n + 1 \in 1 .. Len(q) /\ Tail(q)[n] = q[n + 1]
    BY <1>1
  <2> QED BY <1>2, <1>4, <2>1 DEF Separate
<1> QED BY <1>3, <1>4 DEF Separate

\* What the window shows of a topic grows with a message about it.
Newer == \A t \in Topic : window.shown[t] <= window'.shown[t]

\* The kinds of messages.
LEMMA MessageKinds ==
  ASSUME NEW m \in Message
  PROVE  /\ m.kind \in {"snapshot", "reconnecting"} \cup Topic
         /\ m.kind = "snapshot" => m.value \in [Topic -> Nat \ {0}]
         /\ m.kind \in Topic => m.value \in Nat
         /\ \A t \in Topic : About(m, t) = IF m.kind = "snapshot" THEN {m.value[t] - 1}
                                           ELSE IF m.kind = t THEN {m.value} ELSE {}
<1>1. CASE m \in [kind : {"snapshot"}, value : [Topic -> Nat \ {0}]]
  BY <1>1 DEF About, Topic
<1>2. CASE m \in [kind : Topic, value : Nat]
  BY <1>2 DEF About, Topic
<1>3. CASE m = Reconnecting
  BY <1>3 DEF Reconnecting, About, Topic
<1> QED BY <1>1, <1>2, <1>3 DEF Message

\* The window takes a message.
LEMMA HandlesStep ==
  ASSUME StatusInv, WindowHandles
  PROVE  StatusInv' /\ Newer
<1> DEFINE m == Head(mail)
<1>1. StatusTypes /\ Flow(daemon, client, mail, window) /\ Separate(client, mail, window)
  BY DEF StatusInv
<1>2. /\ mail \in Seq(Message) /\ mail # << >> /\ mail' = Tail(mail) /\ m \in Message
      /\ mail' \in Seq(Message)
      /\ daemon' = daemon /\ version' = version /\ client' = client
  BY <1>1 DEF StatusTypes, WindowHandles
<1>3. /\ window \in WindowRecord /\ window.shown \in [Topic -> Nat] /\ window.waiting \in Nat
  BY <1>1 DEF StatusTypes, WindowRecord
<1>4. window' = CASE m.kind = "snapshot" ->
                       [window EXCEPT !.shown = [t \in Topic |-> m.value[t] - 1], !.connected = TRUE]
                  [] m.kind = "status" -> [window EXCEPT !.waiting = m.value + 1]
                  [] m.kind = "reconnecting" -> SetDisconnected(window)
                  [] OTHER -> [window EXCEPT !.shown[m.kind] = m.value]
  BY DEF WindowHandles
<1>5. ASSUME NEW t \in Topic
      PROVE  /\ window.shown[t] \in Nat /\ Latest(window, t) \in Nat
             /\ window.shown[t] <= Latest(window, t)
             /\ Rising(mail', t) /\ Begin(mail', t, Latest(window, t))
             /\ \A v : End(mail, t, v) => End(mail', t, v)
             /\ \A x \in About(m, t) :
                  /\ x \in Nat /\ Latest(window, t) <= x
                  /\ Begin(mail', t, x) /\ x <= daemon.seen[t]
                  /\ client.phase # "session" /\ client.got[t] # 0 => x <= client.got[t] - 1
  <2>1. /\ window.shown[t] <= Latest(window, t) /\ Rising(mail, t)
        /\ Begin(mail, t, Latest(window, t)) /\ End(mail, t, daemon.seen[t])
        /\ client.phase # "session" /\ client.got[t] # 0 => End(mail, t, client.got[t] - 1)
    BY <1>1 DEF Flow
  <2>2. window.shown[t] \in Nat /\ Latest(window, t) \in Nat
    BY <1>1, StatusNumbers
  <2>3. /\ Rising(mail', t) /\ Begin(mail', t, Latest(window, t))
        /\ \A x \in About(m, t) : /\ Begin(mail', t, x) /\ Latest(window, t) <= x
                                  /\ x <= daemon.seen[t]
    BY <1>2, <2>1, Taken
  <2>4. ASSUME NEW v, End(mail, t, v)
        PROVE  End(mail', t, v) /\ \A x \in About(m, t) : x <= v
    BY <1>2, <2>1, <2>4, Taken
  <2>5. \A x \in About(m, t) : x \in Nat
    BY <1>2, AboutType
  <2> QED BY <2>1, <2>2, <2>3, <2>4, <2>5
<1>6. /\ m.kind \in {"snapshot", "reconnecting"} \cup Topic
      /\ m.kind = "snapshot" => m.value \in [Topic -> Nat \ {0}]
      /\ m.kind \in Topic => m.value \in Nat
      /\ \A t \in Topic : About(m, t) = IF m.kind = "snapshot" THEN {m.value[t] - 1}
                                        ELSE IF m.kind = t THEN {m.value} ELSE {}
  BY <1>2, MessageKinds
<1>7. ASSUME window'.waiting # 0 => \/ m.kind = "status"
                                    \/ window.waiting # 0 /\ m.kind # "reconnecting"
      PROVE  Separate(client, mail', window')
  BY <1>1, <1>2, <1>7, TakenSeparate
<1> HIDE DEF m
<1>8. CASE m.kind = "snapshot"
  <2> DEFINE s == [t \in Topic |-> m.value[t] - 1]
             yes == TRUE
  <2>1. window.waiting = 0
    <3>1. mail[1] = m /\ 1 \in 1 .. Len(mail)
      BY <1>2 DEF m
    <3>2. Cleared(mail, window, 1)
      BY <1>1, <1>8, <3>1 DEF Separate
    <3>3. 1 .. 1 - 1 = {}
      OBVIOUS
    <3> QED BY <3>2, <3>3 DEF Cleared
  <2>2. window' = [window EXCEPT !.shown = s, !.connected = yes]
    BY <1>4, <1>8
  <2>3. s \in [Topic -> Nat] /\ (\A t \in Topic : s[t] \in About(m, t)) /\ yes \in BOOLEAN
    BY <1>6, <1>8
  <2> HIDE DEF s, yes
  <2>4. window' \in WindowRecord /\ window'.shown = s /\ window'.waiting = 0
    BY <1>3, <2>1, <2>2, <2>3 DEF WindowRecord
  <2>5. ASSUME NEW t \in Topic
        PROVE  /\ window'.shown[t] <= Latest(window', t)
               /\ \/ Latest(window', t) <= Latest(window, t) /\ Begin(mail', t, Latest(window, t))
                  \/ /\ Begin(mail', t, Latest(window', t)) /\ Latest(window', t) <= daemon.seen[t]
                     /\ client.phase # "session" /\ client.got[t] # 0 =>
                          Latest(window', t) <= client.got[t] - 1
               /\ Rising(mail', t)
               /\ \A v : End(mail, t, v) => End(mail', t, v)
               /\ window.shown[t] <= window'.shown[t]
    <3>1. Latest(window', t) = s[t] /\ window'.shown[t] = s[t]
      BY <2>4 DEF Latest
    <3>2. s[t] \in About(m, t) /\ s[t] \in Nat
      BY <1>5, <2>3
    <3>3. s[t] <= s[t] /\ window.shown[t] <= s[t]
      BY <1>5, <3>2
    <3> QED BY <1>5, <3>1, <3>2, <3>3
  <2>6. Separate(client, mail', window')
    BY <1>7, <2>4
  <2>7. StatusInv'
    BY <1>2, <2>4, <2>5, <2>6, WindowStep
  <2> QED BY <2>5, <2>7 DEF Newer
<1>9. CASE m.kind = "status"
  <2> DEFINE x == m.value + 1
  <2>1. window' = [window EXCEPT !.waiting = x]
    BY <1>4, <1>9
  <2>2. x \in Nat /\ x # 0 /\ x - 1 = m.value /\ m.value \in Nat
    BY <1>6, <1>9 DEF Topic
  <2> HIDE DEF x
  <2>3. window' \in WindowRecord /\ window'.shown = window.shown /\ window'.waiting = x
    BY <1>3, <2>1, <2>2 DEF WindowRecord
  <2>4. ASSUME NEW t \in Topic
        PROVE  /\ window'.shown[t] <= Latest(window', t)
               /\ \/ Latest(window', t) <= Latest(window, t) /\ Begin(mail', t, Latest(window, t))
                  \/ /\ Begin(mail', t, Latest(window', t)) /\ Latest(window', t) <= daemon.seen[t]
                     /\ client.phase # "session" /\ client.got[t] # 0 =>
                          Latest(window', t) <= client.got[t] - 1
               /\ Rising(mail', t)
               /\ \A v : End(mail, t, v) => End(mail', t, v)
               /\ window.shown[t] <= window'.shown[t]
    <3>1. CASE t = "status"
      <4>1. Latest(window', t) = m.value /\ m.value \in About(m, t)
        BY <1>6, <1>9, <2>2, <2>3, <3>1 DEF Latest
      <4>2. window.shown[t] <= m.value /\ window.shown[t] <= window.shown[t]
        BY <1>5, <4>1
      <4> QED BY <1>5, <2>3, <4>1, <4>2
    <3>2. CASE t # "status"
      <4>1. Latest(window', t) = Latest(window, t)
        BY <2>3, <3>2 DEF Latest
      <4>2. Latest(window, t) <= Latest(window, t) /\ window.shown[t] <= window.shown[t]
        BY <1>5
      <4> QED BY <1>5, <2>3, <4>1, <4>2
    <3> QED BY <3>1, <3>2
  <2>5. Separate(client, mail', window')
    BY <1>7, <1>9
  <2>6. StatusInv'
    BY <1>2, <2>3, <2>4, <2>5, WindowStep
  <2> QED BY <2>4, <2>6 DEF Newer
<1>10. CASE m.kind = "reconnecting"
  <2> DEFINE no == FALSE
  <2>1. window' = [window EXCEPT !.connected = no, !.waiting = 0]
    BY <1>4, <1>10 DEF SetDisconnected
  <2>2. no \in BOOLEAN
    OBVIOUS
  <2> HIDE DEF no
  <2>3. window' \in WindowRecord /\ window'.shown = window.shown /\ window'.waiting = 0
    BY <1>3, <2>1, <2>2 DEF WindowRecord
  <2>4. ASSUME NEW t \in Topic
        PROVE  /\ window'.shown[t] <= Latest(window', t)
               /\ Latest(window', t) <= Latest(window, t) /\ Begin(mail', t, Latest(window, t))
               /\ Rising(mail', t)
               /\ \A v : End(mail, t, v) => End(mail', t, v)
               /\ window.shown[t] <= window'.shown[t]
    <3>1. Latest(window', t) = window.shown[t]
      BY <2>3 DEF Latest
    <3>2. window.shown[t] <= window.shown[t]
      BY <1>5
    <3> QED BY <1>5, <2>3, <3>1, <3>2
  <2>5. Separate(client, mail', window')
    BY <1>7, <2>3
  <2>6. StatusInv'
    BY <1>2, <2>3, <2>4, <2>5, WindowStep
  <2> QED BY <2>4, <2>6 DEF Newer
<1>11. CASE m.kind \in Topic \ {"status"}
  <2> DEFINE s == [window.shown EXCEPT ![m.kind] = m.value]
  <2>1. window' = [window EXCEPT !.shown = s]
    BY <1>4, <1>11 DEF Topic
  <2>2. /\ s \in [Topic -> Nat]
        /\ \A t \in Topic : s[t] = IF t = m.kind THEN m.value ELSE window.shown[t]
    BY <1>3, <1>6, <1>11
  <2> HIDE DEF s
  <2>3. window' \in WindowRecord /\ window'.shown = s /\ window'.waiting = window.waiting
    BY <1>3, <2>1, <2>2 DEF WindowRecord
  <2>4. ASSUME NEW t \in Topic
        PROVE  /\ window'.shown[t] <= Latest(window', t)
               /\ \/ Latest(window', t) <= Latest(window, t) /\ Begin(mail', t, Latest(window, t))
                  \/ /\ Begin(mail', t, Latest(window', t)) /\ Latest(window', t) <= daemon.seen[t]
                     /\ client.phase # "session" /\ client.got[t] # 0 =>
                          Latest(window', t) <= client.got[t] - 1
               /\ Rising(mail', t)
               /\ \A v : End(mail, t, v) => End(mail', t, v)
               /\ window.shown[t] <= window'.shown[t]
    <3>1. CASE t = m.kind
      <4>1. Latest(window', t) = m.value /\ window'.shown[t] = m.value /\ m.value \in About(m, t)
        BY <1>6, <1>11, <2>2, <2>3, <3>1 DEF Latest, Topic
      <4>2. window.shown[t] <= m.value /\ m.value <= m.value
        BY <1>5, <4>1
      <4> QED BY <1>5, <4>1, <4>2
    <3>2. CASE t # m.kind
      <4>1. Latest(window', t) = Latest(window, t) /\ window'.shown[t] = window.shown[t]
        BY <2>2, <2>3, <3>2 DEF Latest
      <4>2. Latest(window, t) <= Latest(window, t) /\ window.shown[t] <= window.shown[t]
        BY <1>5
      <4> QED BY <1>5, <4>1, <4>2
    <3> QED BY <3>1, <3>2
  <2>5. Separate(client, mail', window')
    BY <1>7, <1>11, <2>3 DEF Topic
  <2>6. StatusInv'
    BY <1>2, <2>3, <2>4, <2>5, WindowStep
  <2> QED BY <2>4, <2>6 DEF Newer
<1> QED BY <1>6, <1>8, <1>9, <1>10, <1>11 DEF Topic

\* The timer applies the status that waits.
LEMMA TimerStep ==
  ASSUME StatusInv, WindowRefreshes
  PROVE  StatusInv' /\ Newer
<1> DEFINE x == window.waiting - 1
           s == [window.shown EXCEPT !["status"] = x]
<1>1. StatusTypes /\ Flow(daemon, client, mail, window) /\ Separate(client, mail, window)
  BY DEF StatusInv
<1>2. /\ window \in WindowRecord /\ window.shown \in [Topic -> Nat] /\ window.waiting \in Nat \ {0}
      /\ mail \in Seq(Message)
  BY <1>1 DEF StatusTypes, WindowRecord, WindowRefreshes
<1>3. /\ window' = [window EXCEPT !.shown = s, !.waiting = 0]
      /\ daemon' = daemon /\ version' = version /\ client' = client /\ mail' = mail
  BY DEF WindowRefreshes
<1>4. x \in Nat
  BY <1>2
<1>5. x = Latest(window, "status")
  BY <1>2 DEF Latest
<1> HIDE DEF x
<1>6. s \in [Topic -> Nat] /\ \A t \in Topic : s[t] = IF t = "status" THEN x ELSE window.shown[t]
  BY <1>2, <1>4
<1> HIDE DEF s
<1>7. window' \in WindowRecord /\ window'.shown = s /\ window'.waiting = 0
  BY <1>2, <1>3, <1>6 DEF WindowRecord
<1>8. ASSUME NEW t \in Topic
      PROVE  /\ window'.shown[t] <= Latest(window', t)
             /\ Latest(window', t) <= Latest(window, t) /\ Begin(mail', t, Latest(window, t))
             /\ Rising(mail', t)
             /\ \A v : End(mail, t, v) => End(mail', t, v)
             /\ window.shown[t] <= window'.shown[t]
  <2>1. /\ window.shown[t] <= Latest(window, t) /\ Rising(mail, t)
        /\ Begin(mail, t, Latest(window, t))
    BY <1>1 DEF Flow
  <2>2. window.shown[t] \in Nat /\ Latest(window, t) \in Nat
    BY <1>1, StatusNumbers
  <2>3. Latest(window', t) = s[t] /\ window'.shown[t] = s[t]
    BY <1>7 DEF Latest
  <2>4. s[t] = Latest(window, t)
    BY <1>5, <1>6 DEF Latest
  <2>5. s[t] <= s[t]
    BY <2>2, <2>4
  <2> QED BY <1>3, <2>1, <2>3, <2>4, <2>5
<1>9. Separate(client, mail', window')
  BY <1>1, <1>3, <1>7 DEF Separate, Cleared
<1>10. StatusInv'
  BY <1>2, <1>3, <1>7, <1>8, <1>9, WindowStep
<1> QED BY <1>8, <1>10 DEF Newer

\* Every step keeps the order of the values and shows nothing older.
LEMMA StatusStep ==
  ASSUME StatusInv, StatusNext
  PROVE  StatusInv' /\ Newer
<1>1. ASSUME window' = window PROVE Newer
  <2>1. \A t \in Topic : window.shown[t] \in Nat
    BY StatusNumbers DEF StatusInv
  <2>2. \A t \in Topic : window.shown[t] <= window.shown[t]
    BY <2>1
  <2> QED BY <1>1, <2>2 DEF Newer
<1>2. CASE \/ \E t \in Topic : DaemonChanges(t)
           \/ ScannerRefreshes \/ RunsCommand \/ DaemonStops \/ DaemonStartsAgain
  <2>1. window' = window
    BY <1>2 DEF DaemonChanges, ScannerRefreshes, RunsCommand, DaemonStops, DaemonStartsAgain
  <2> QED BY <1>1, <1>2, <2>1, DaemonStep
<1>3. CASE Pump
  <2>1. client \in ClientRecord
    BY DEF StatusInv, StatusTypes, ClientRecord
  <2>2. client' = client /\ daemon' = daemon /\ version' = version /\ mail' = mail /\ window' = window
    BY <1>3 DEF Pump
  <2> QED BY <1>1, <2>1, <2>2, QuietStep
<1>4. CASE ClientSteps
  <2>1. window' = window
    BY <1>4 DEF ClientSteps, ReadsTopic, Refreshes, Subscribes, SessionEnds, RetryDelayEnds, clientOnly
  <2>2. CASE RetryDelayEnds
    <3> DEFINE p == "reading"
    <3>1. /\ client' = [client EXCEPT !.phase = p] /\ client.phase = "waiting" /\ mail' = mail
          /\ daemon' = daemon /\ version' = version
      BY <2>2 DEF RetryDelayEnds, clientOnly
    <3>2. client \in ClientRecord
      BY DEF StatusInv, StatusTypes, ClientRecord
    <3>3. client' \in ClientRecord /\ client'.got = client.got /\ client'.phase = "reading"
      BY <3>1, <3>2 DEF ClientRecord
    <3>4. StatusInv'
      BY <2>1, <3>1, <3>3, QuietStep
    <3> QED BY <1>1, <2>1, <3>4
  <2>3. CASE \E t \in Topic : ReadsTopic(t) \/ Refreshes(t)
    BY <1>1, <2>1, <2>3, ReadsStep, RefreshesStep
  <2>4. CASE Subscribes \/ SessionEnds
    BY <1>1, <2>1, <2>4, SubscribesStep, EndsStep
  <2> QED BY <1>4, <2>2, <2>3, <2>4 DEF ClientSteps
<1>5. CASE WindowSteps
  BY <1>5, HandlesStep, TimerStep DEF WindowSteps
<1> QED BY <1>2, <1>3, <1>4, <1>5 DEF StatusNext

\* However often the daemon is restarted, the channel lags and sessions end with
\* messages still in the window's queue, the window never shows an older value
\* after a newer one (set_connected, apply_runtime_update).
THEOREM ViewsNeverGoBack == StatusSpec => ViewNeverGoesBack
<1>1. StatusInit => StatusInv
  <2> SUFFICES ASSUME StatusInit PROVE StatusInv
    OBVIOUS
  <2>1. /\ daemon = [up |-> TRUE, seen |-> Nothing] /\ version = 0 /\ mail = << >>
        /\ client = [Disconnected EXCEPT !.phase = "reading"]
        /\ window = [shown |-> Nothing, waiting |-> 0, connected |-> FALSE]
    BY DEF StatusInit
  <2>2. Nothing \in [Topic -> Nat] /\ \A t \in Topic : Nothing[t] = 0
    BY DEF Nothing
  <2>3. daemon \in [up : BOOLEAN, seen : [Topic -> Nat]] /\ daemon.seen = Nothing
    BY <2>1, <2>2
  <2>4. window \in WindowRecord /\ window.shown = Nothing /\ window.waiting = 0
    BY <2>1, <2>2 DEF WindowRecord
  <2>5. client \in ClientRecord /\ client.got = Nothing /\ client.phase = "reading"
    <3>1. /\ Disconnected \in ClientRecord /\ Disconnected.got = Nothing
      BY <2>2 DEF Disconnected, ClientRecord
    <3> QED BY <2>1, <3>1 DEF ClientRecord
  <2>6. mail \in Seq(Message) /\ Len(mail) = 0 /\ 1 .. 0 = {}
    BY <2>1
  <2>7. StatusTypes
    BY <2>1, <2>2, <2>3, <2>4, <2>5, <2>6 DEF StatusTypes, ClientRecord, WindowRecord
  <2>8. Flow(daemon, client, mail, window)
    BY <2>2, <2>3, <2>4, <2>5, <2>6 DEF Flow, Latest, Rising, Begin, End
  <2>9. Separate(client, mail, window)
    BY <2>4, <2>6 DEF Separate, Cleared
  <2> QED BY <2>7, <2>8, <2>9 DEF StatusInv
<1>2. StatusInv /\ [StatusNext]_statusVars => StatusInv'
  <2>1. StatusInv /\ UNCHANGED statusVars => StatusInv'
    BY DEF StatusInv, StatusTypes, statusVars
  <2> QED BY <2>1, StatusStep
<1>3. StatusInv /\ [StatusNext]_statusVars =>
        [\A t \in Topic : window'.shown[t] >= window.shown[t]]_statusVars
  <2> SUFFICES ASSUME StatusInv, StatusNext, NEW t \in Topic
               PROVE  window'.shown[t] >= window.shown[t]
    OBVIOUS
  <2>1. StatusInv' /\ window.shown[t] <= window'.shown[t]
    BY StatusStep DEF Newer
  <2>2. window.shown[t] \in Nat /\ window'.shown[t] \in Nat
    <3>1. window.shown \in [Topic -> Nat] /\ window'.shown \in [Topic -> Nat]
      BY <2>1 DEF StatusInv, StatusTypes
    <3> QED BY <3>1
  <2> QED BY <2>1, <2>2
<1> QED BY <1>1, <1>2, <1>3, PTL DEF StatusSpec, ViewNeverGoesBack

-----------------------------------------------------------------------------
(* Touch devices.                                                           *)

TouchEvent ==
  [type : {"slot", "tracking", "x", "y", "report", "dropped"}, value : Nat \cup {Lifted}]
TouchContact == [id : Nat, x : BOOLEAN, y : BOOLEAN, down : BOOLEAN]
Machine ==
  [cur : SUBSET Nat, active : UNION {[S -> TouchContact] : S \in SUBSET Nat},
   releases : SUBSET TouchContact, desync : BOOLEAN]
Panel ==
  [inode : Nat, slots : SlotSets, held : UNION {[S -> Nat \cup {Lifted}] : S \in SlotSets}, cur : Nat]
PanelType(n) == n \in Panel /\ n.held \in [n.slots -> Nat \cup {Lifted}] /\ n.cur \in n.slots

\* A machine announced only contacts with a point, holds nothing while it waits
\* for a report, and tells its contacts apart.
MachineInv(m) ==
  /\ m \in Machine
  /\ \A c \in Held(m) : c.down => Placed(c)
  /\ m.desync => Held(m) = {}
  /\ \A r \in m.releases : \A s \in Active(m) : r.id # m.active[s].id
  /\ \A s, t \in Active(m) : m.active[s].id = m.active[t].id => s = t
Ids(m) == {c.id : c \in Held(m)}
DownIds(m) == {c.id : c \in {x \in Held(m) : x.down}}

\* Events as the kernel sends them: whole frames, with one tracking event at
\* most, whose number is new.
Tracks(e) == e.type = "tracking"
Starts(e) == Tracks(e) /\ e.value # Lifted
OfPanel(P, slots, top) ==
  \A i \in 1..Len(P) : /\ P[i].type = "slot" => P[i].value \in slots
                       /\ Starts(P[i]) => P[i].value <= top
Framed(P) ==
  \A i, j \in 1..Len(P) :
    i < j /\ Tracks(P[i]) /\ Tracks(P[j]) =>
      /\ \E k \in 1..Len(P) : i < k /\ k < j /\ P[k].type = "report"
      /\ Starts(P[i]) /\ Starts(P[j]) => P[i].value < P[j].value
Orderly(P, slots, top) ==
  /\ P \in Seq(TouchEvent)
  /\ P # <<>> => P[Len(P)].type = "report"
  /\ OfPanel(P, slots, top) /\ Framed(P)

\* A frame: the report is last, and the only one.
IsFrame(F, slots, top) ==
  /\ F \in Seq(TouchEvent) /\ Len(F) \in 1..5 /\ F[Len(F)].type = "report"
  /\ \A i \in 1..Len(F) : F[i].type # "dropped" /\ (F[i].type = "report" => i = Len(F))
  /\ OfPanel(F, slots, top)
  /\ \A i, j \in 1..Len(F) : Tracks(F[i]) /\ Tracks(F[j]) => i = j

\* What a device with several slots is seen to be: the current slot, the slots
\* with a contact, and whether a report is awaited; and what an event makes of it.
View == [cur : SUBSET Int, act : SUBSET Int, desync : BOOLEAN]
Blank(waits) == [cur |-> {0}, act |-> {}, desync |-> waits]
After(a, e) ==
  IF e.type = "dropped" THEN Blank(TRUE)
  ELSE IF a.desync THEN (IF e.type = "report" THEN Blank(FALSE) ELSE a)
  ELSE IF e.type = "slot" THEN [cur |-> {e.value}, act |-> a.act, desync |-> FALSE]
  ELSE IF Starts(e) THEN [cur |-> a.cur, act |-> a.act \cup a.cur, desync |-> FALSE]
  ELSE IF Tracks(e) THEN [cur |-> a.cur, act |-> a.act \ a.cur, desync |-> FALSE]
  ELSE a
Seen(m) == [cur |-> m.cur, act |-> Active(m), desync |-> m.desync]

\* The events P lead from a to b.
Ends(a, P, b) ==
  \E tr \in [0..Len(P) -> View] :
    /\ tr[0] = a /\ tr[Len(P)] = b
    /\ \A i \in 1..Len(P) : tr[i] = After(tr[i - 1], P[i])

\* Where the events of the panel n end: a contact is in a slot that is held, but
\* for slot 0 while the machine has not been told the current slot.
Final(n, b) ==
  /\ ~b.desync /\ b.act \subseteq n.slots
  /\ \A s \in b.act : s # 0 => n.held[s] # Lifted
  /\ b.cur = {n.cur} \/ (b.cur = {0} /\ b.act \subseteq {0})
  /\ n.slots \subseteq {0, 1} /\ 0 \in b.act =>
       n.held[0] # Lifted \/ (b.cur = {0} /\ n.cur # 0 /\ n.held[n.cur] # Lifted)

\* A panel of one slot: the last tracking event says what the slot holds, and
\* without one the machine knows.
Later(P, t) == \A u \in 1..Len(P) : t < u => ~Tracks(P[u]) /\ P[u].type # "dropped"
Alone(n, m, P) ==
  /\ \A t \in 1..Len(P) : Tracks(P[t]) /\ Later(P, t) => P[t].value = n.held[0]
  /\ ~m.desync /\ Active(m) # {} /\ Later(P, 0) => n.held[0] # Lifted

\* The machine m, the fetched events B and all events P that are to come.
PendingInv(n, m, B, P, top) ==
  /\ Orderly(B, n.slots, top) /\ Orderly(P, n.slots, top)
  /\ Active(m) \subseteq n.slots /\ \E s \in n.slots : m.cur = {s}
  /\ (m.desync => P # <<>>) /\ (m.releases # {} => B # <<>>)
  /\ m.releases # {} => \A j \in 1..Len(P) : Tracks(P[j]) =>
                          \E k \in 1..Len(P) : k < j /\ P[k].type = "report"
  /\ n.slots # {0} =>
       /\ \A i \in Ids(m) : i <= top /\ \A j \in 1..Len(P) : Starts(P[j]) => i < P[j].value
       /\ \A b : Ends(Seen(m), P, b) => Final(n, b)
  /\ n.slots = {0} => Alone(n, m, P)

Live == \E d \in opened : d.inode = node.inode
Told(o, m) == {<<d.id, i>> : d \in o, i \in DownIds(m)}
TypesInv ==
  /\ PanelType(node) /\ lastTracking \in Nat /\ plugs \in Nat
  /\ batch \in Seq(TouchEvent) /\ queue \in Seq(TouchEvent) /\ Len(queue) <= QueueLimit
  /\ node.inode <= plugs + 1 /\ \A d, e \in opened : d = e
  /\ \A d \in opened : /\ d.inode \in Nat /\ d.inode # 0 /\ d.inode <= plugs + 1
                       /\ node.inode = 0 => d.inode <= plugs
InputInv ==
  /\ TypesInv
  /\ MachineInv(machine) /\ tracked = Told(opened, machine)
  /\ opened = {} => machine = CleanMachine
  /\ Live => PendingInv(node, machine, batch, batch \o queue, lastTracking)
-----------------------------------------------------------------------------
(* Sequences of events.                                                     *)

\* What is left of orderly events is orderly.
LEMMA OrderlyTail ==
  ASSUME NEW P, NEW slots, NEW top \in Nat, Orderly(P, slots, top), P # <<>>
  PROVE  /\ Orderly(Tail(P), slots, top) /\ Tail(P) \in Seq(TouchEvent)
         /\ Len(P) \in Nat /\ Len(P) > 0 /\ Len(Tail(P)) = Len(P) - 1
         /\ \A i \in 1..Len(Tail(P)) : Tail(P)[i] = P[i + 1]
<1>1. P \in Seq(TouchEvent)
  BY DEF Orderly, OfPanel, Framed
<1>2. /\ Tail(P) \in Seq(TouchEvent) /\ Len(P) \in Nat /\ Len(P) > 0 /\ Len(Tail(P)) = Len(P) - 1
      /\ \A i \in 1..Len(Tail(P)) : Tail(P)[i] = P[i + 1]
  BY <1>1
<1>3. Tail(P) # <<>> => Tail(P)[Len(Tail(P))].type = "report"
  <2>1. ASSUME Tail(P) # <<>> PROVE Tail(P)[Len(Tail(P))].type = "report"
    <3>1. Len(Tail(P)) \in 1..Len(Tail(P))
      BY <1>2, <2>1
    <3>2. Tail(P)[Len(Tail(P))] = P[Len(P)]
      BY <3>1, <1>2
    <3> QED
      BY <3>2 DEF Orderly, OfPanel, Framed
  <2> QED
    BY <2>1
<1>4. \A i \in 1..Len(Tail(P)) : i + 1 \in 1..Len(P)
  BY <1>2
<1>5. ASSUME NEW i \in 1..Len(Tail(P)), NEW j \in 1..Len(Tail(P)), i < j,
             Tracks(Tail(P)[i]), Tracks(Tail(P)[j])
      PROVE  /\ \E k \in 1..Len(Tail(P)) : i < k /\ k < j /\ Tail(P)[k].type = "report"
             /\ Starts(Tail(P)[i]) /\ Starts(Tail(P)[j]) => Tail(P)[i].value < Tail(P)[j].value
  <2>1. i + 1 \in 1..Len(P) /\ j + 1 \in 1..Len(P) /\ i + 1 < j + 1
    BY <1>2, <1>5
  <2>2. Tail(P)[i] = P[i + 1] /\ Tail(P)[j] = P[j + 1]
    BY <1>2
  <2>3. /\ \E k \in 1..Len(P) : i + 1 < k /\ k < j + 1 /\ P[k].type = "report"
        /\ Starts(P[i + 1]) /\ Starts(P[j + 1]) => P[i + 1].value < P[j + 1].value
    BY <1>5, <2>1, <2>2 DEF Orderly, OfPanel, Framed
  <2>4. PICK k \in 1..Len(P) : i + 1 < k /\ k < j + 1 /\ P[k].type = "report"
    BY <2>3
  <2>5. k - 1 \in 1..Len(Tail(P)) /\ i < k - 1 /\ k - 1 < j /\ (k - 1) + 1 = k
    BY <2>4, <1>2
  <2>6. Tail(P)[k - 1].type = "report"
    BY <2>4, <2>5, <1>2
  <2> QED
    BY <2>2, <2>3, <2>5, <2>6
<1> QED
  BY <1>2, <1>3, <1>4, <1>5 DEF Orderly, OfPanel, Framed

\* Orderly events followed by orderly events that start newer contacts.
LEMMA OrderlyCat ==
  ASSUME NEW P, NEW Q, NEW slots, NEW top \in Nat, NEW new \in Nat, top <= new,
         Orderly(P, slots, top), Orderly(Q, slots, new),
         \A j \in 1..Len(Q) : Starts(Q[j]) => top < Q[j].value
  PROVE  Orderly(P \o Q, slots, new)
<1> DEFINE R == P \o Q
<1>1. /\ P \in Seq(TouchEvent) /\ Q \in Seq(TouchEvent) /\ R \in Seq(TouchEvent)
      /\ Len(P) \in Nat /\ Len(Q) \in Nat /\ Len(R) = Len(P) + Len(Q)
  BY DEF Orderly, OfPanel, Framed
<1>2. /\ \A i \in 1..Len(P) : R[i] = P[i]
      /\ \A i \in 1..Len(Q) : R[Len(P) + i] = Q[i]
      /\ \A i \in 1..Len(R) : R[i] \in TouchEvent
  BY <1>1
<1>3. \A i \in 1..Len(R) : i \in 1..Len(P) \/ (i - Len(P) \in 1..Len(Q) /\ R[i] = Q[i - Len(P)])
  <2>1. ASSUME NEW i \in 1..Len(R), i \notin 1..Len(P)
        PROVE  i - Len(P) \in 1..Len(Q) /\ R[i] = Q[i - Len(P)]
    <3>1. i - Len(P) \in 1..Len(Q) /\ Len(P) + (i - Len(P)) = i
      BY <1>1, <2>1
    <3> QED
      BY <3>1, <1>2
  <2> QED
    BY <2>1
<1>4. R # <<>> => R[Len(R)].type = "report"
  <2>1. CASE Q = <<>>
    BY <2>1, <1>1 DEF Orderly, OfPanel, Framed
  <2>2. CASE Q # <<>>
    <3>1. Len(Q) \in 1..Len(Q) /\ Len(P) + Len(Q) = Len(R)
      BY <2>2, <1>1
    <3>2. R[Len(R)] = Q[Len(Q)]
      BY <3>1, <1>2
    <3> QED
      BY <3>2, <2>2 DEF Orderly, OfPanel, Framed
  <2> QED
    BY <2>1, <2>2
<1>5. \A i \in 1..Len(P) : Starts(P[i]) => P[i].value \in Nat /\ P[i].value <= top
  <2>1. \A i \in 1..Len(P) : P[i] \in TouchEvent
    BY <1>1
  <2> QED
    BY <2>1 DEF Orderly, OfPanel, Framed, Starts, TouchEvent
<1>6. \A i \in 1..Len(Q) : Starts(Q[i]) => Q[i].value \in Nat /\ Q[i].value <= new /\ top < Q[i].value
  <2>1. \A i \in 1..Len(Q) : Q[i] \in TouchEvent
    BY <1>1
  <2> QED
    BY <2>1 DEF Orderly, OfPanel, Framed, Starts, TouchEvent
<1>7. \A i \in 1..Len(R) : /\ R[i].type = "slot" => R[i].value \in slots
                           /\ Starts(R[i]) => R[i].value <= new
  <2>1. SUFFICES ASSUME NEW i \in 1..Len(R)
                 PROVE  /\ R[i].type = "slot" => R[i].value \in slots
                        /\ Starts(R[i]) => R[i].value <= new
    OBVIOUS
  <2> HIDE DEF R
  <2>2. CASE i \in 1..Len(P)
    <3>1. Starts(P[i]) => P[i].value <= new
      BY <2>2, <1>5
    <3> QED
      BY <2>2, <1>2, <3>1 DEF Orderly, OfPanel, Framed
  <2>3. CASE i - Len(P) \in 1..Len(Q) /\ R[i] = Q[i - Len(P)]
    <3>1. Starts(Q[i - Len(P)]) => Q[i - Len(P)].value <= new
      BY <2>3, <1>6
    <3> QED
      BY <2>3, <3>1 DEF Orderly, OfPanel, Framed
  <2> QED
    BY <2>2, <2>3, <1>3
<1>8. ASSUME NEW i \in 1..Len(R), NEW j \in 1..Len(R), i < j, Tracks(R[i]), Tracks(R[j])
      PROVE  /\ \E k \in 1..Len(R) : i < k /\ k < j /\ R[k].type = "report"
             /\ Starts(R[i]) /\ Starts(R[j]) => R[i].value < R[j].value
  <2> HIDE DEF R
  <2>1. CASE i \in 1..Len(P) /\ j \in 1..Len(P)
    <3>1. R[i] = P[i] /\ R[j] = P[j]
      BY <2>1, <1>2
    <3>2. /\ \E k \in 1..Len(P) : i < k /\ k < j /\ P[k].type = "report"
          /\ Starts(P[i]) /\ Starts(P[j]) => P[i].value < P[j].value
      BY <2>1, <3>1, <1>8 DEF Orderly, OfPanel, Framed
    <3>3. \A k \in 1..Len(P) : k \in 1..Len(R) /\ R[k] = P[k]
      BY <1>1, <1>2
    <3> QED
      BY <3>1, <3>2, <3>3
  <2>2. CASE i \in 1..Len(P) /\ j - Len(P) \in 1..Len(Q) /\ R[j] = Q[j - Len(P)]
    <3>1. Len(P) \in 1..Len(P) /\ Len(P) \in 1..Len(R) /\ Len(P) < j /\ P # <<>>
      BY <2>2, <1>1
    <3>2. R[i] = P[i] /\ R[Len(P)] = P[Len(P)]
      BY <2>2, <3>1, <1>2
    <3>3. P[Len(P)].type = "report"
      BY <3>1 DEF Orderly, OfPanel, Framed
    <3>4. i # Len(P)
      BY <3>2, <3>3, <1>8 DEF Tracks
    <3>5. i < Len(P)
      BY <3>4, <2>2, <1>1
    <3>6. Starts(R[i]) /\ Starts(R[j]) => R[i].value < R[j].value
      <4>1. ASSUME Starts(R[i]), Starts(R[j]) PROVE R[i].value < R[j].value
        <5>1. R[i].value \in Nat /\ R[i].value <= top
          BY <4>1, <3>2, <2>2, <1>5
        <5>2. R[j].value \in Nat /\ top < R[j].value
          BY <4>1, <2>2, <1>6
        <5> QED
          BY <5>1, <5>2
      <4> QED
        BY <4>1
    <3> QED
      BY <3>1, <3>2, <3>3, <3>5, <3>6
  <2>3. CASE i - Len(P) \in 1..Len(Q) /\ R[i] = Q[i - Len(P)]
             /\ j - Len(P) \in 1..Len(Q) /\ R[j] = Q[j - Len(P)]
    <3>1. i - Len(P) < j - Len(P)
      BY <1>8, <1>1
    <3>2. /\ \E k \in 1..Len(Q) : i - Len(P) < k /\ k < j - Len(P) /\ Q[k].type = "report"
          /\ Starts(Q[i - Len(P)]) /\ Starts(Q[j - Len(P)])
               => Q[i - Len(P)].value < Q[j - Len(P)].value
      BY <2>3, <3>1, <1>8 DEF Orderly, OfPanel, Framed
    <3>3. PICK k \in 1..Len(Q) : i - Len(P) < k /\ k < j - Len(P) /\ Q[k].type = "report"
      BY <3>2
    <3>4. Len(P) + k \in 1..Len(R) /\ i < Len(P) + k /\ Len(P) + k < j
      BY <3>3, <1>1
    <3>5. R[Len(P) + k].type = "report"
      BY <3>3, <1>2
    <3> QED
      BY <2>3, <3>2, <3>4, <3>5
  <2>4. ~(j \in 1..Len(P) /\ i \notin 1..Len(P))
    BY <1>8, <1>1
  <2> QED
    BY <2>1, <2>2, <2>3, <2>4, <1>3
<1> HIDE DEF R
<1>9. \A i, j \in 1..Len(R) : i < j /\ Tracks(R[i]) /\ Tracks(R[j]) =>
        /\ \E k \in 1..Len(R) : i < k /\ k < j /\ R[k].type = "report"
        /\ Starts(R[i]) /\ Starts(R[j]) => R[i].value < R[j].value
  BY <1>8
<1>10. Framed(R)
  BY ONLY <1>9, Zenon DEF Framed
<1>11. OfPanel(R, slots, new)
  BY ONLY <1>7, Zenon DEF OfPanel
<1>12. Orderly(R, slots, new)
  BY ONLY <1>1, <1>4, <1>10, <1>11 DEF Orderly
<1> QED
  BY <1>12 DEF R

\* Events before others.
LEMMA CatFacts ==
  ASSUME NEW P \in Seq(TouchEvent), NEW Q \in Seq(TouchEvent)
  PROVE  /\ P \o Q \in Seq(TouchEvent) /\ Len(P) \in Nat /\ Len(Q) \in Nat
         /\ Len(P \o Q) = Len(P) + Len(Q)
         /\ \A i \in 1..Len(P) : (P \o Q)[i] = P[i]
         /\ \A i \in 1..Len(Q) : (P \o Q)[Len(P) + i] = Q[i]
OBVIOUS
LEMMA Behind ==
  ASSUME NEW e \in TouchEvent, NEW Q \in Seq(TouchEvent)
  PROVE  /\ <<e>> \o Q \in Seq(TouchEvent) /\ Len(<<e>> \o Q) = Len(Q) + 1 /\ (<<e>> \o Q)[1] = e
         /\ \A i \in 1..Len(Q) : (<<e>> \o Q)[i + 1] = Q[i]
<1>1. PICK H : H = <<e>>
  OBVIOUS
<1>2. H \in Seq(TouchEvent) /\ Len(H) = 1 /\ H[1] = e
  BY <1>1
<1>3. PICK R : R = H \o Q
  OBVIOUS
<1>4. /\ R \in Seq(TouchEvent) /\ Len(Q) \in Nat /\ Len(R) = Len(H) + Len(Q)
      /\ \A i \in 1..Len(H) : R[i] = H[i]
      /\ \A i \in 1..Len(Q) : R[Len(H) + i] = Q[i]
  BY ONLY <1>2, <1>3, CatFacts, Q \in Seq(TouchEvent)
<1>5. Len(R) = Len(Q) + 1 /\ R[1] = e
  BY ONLY <1>2, <1>4
<1>6. \A i \in 1..Len(Q) : R[i + 1] = Q[i]
  BY ONLY <1>2, <1>4
<1> QED
  BY <1>1, <1>3, <1>4, <1>5, <1>6

\* A frame is orderly.
LEMMA FrameOrderly ==
  ASSUME NEW F, NEW slots, NEW top, IsFrame(F, slots, top)
  PROVE  Orderly(F, slots, top) /\ F # <<>>
<1>1. /\ F \in Seq(TouchEvent) /\ Len(F) \in 1..5 /\ F[Len(F)].type = "report"
      /\ OfPanel(F, slots, top)
      /\ \A i, j \in 1..Len(F) : Tracks(F[i]) /\ Tracks(F[j]) => i = j
  BY DEF IsFrame
<1>2. \A i, j \in 1..Len(F) : i < j => i # j
  BY <1>1
<1>3. Framed(F)
  BY ONLY <1>1, <1>2 DEF Framed
<1> QED
  BY <1>1, <1>3 DEF Orderly

\* What is left of a frame, behind a drop, is orderly.
Lost(F, r, D) == r \in 1..Len(F) /\ D = <<Dropped>> \o SubSeq(F, r, Len(F))
LEMMA LostFrame ==
  ASSUME NEW F, NEW slots, NEW top, IsFrame(F, slots, top), NEW r, NEW D, Lost(F, r, D)
  PROVE  /\ Orderly(D, slots, top) /\ Len(D) \in 2..6 /\ D # <<>> /\ D[1].type = "dropped"
         /\ \A i \in 2..Len(D) : D[i] = F[r + i - 2] /\ r + i - 2 \in 1..Len(F)
         /\ \A i \in 2..Len(D) : D[i].type # "dropped" /\ (D[i].type = "report" <=> i = Len(D))
<1> r \in 1..Len(F) /\ D = <<Dropped>> \o SubSeq(F, r, Len(F))
  BY DEF Lost
<1>1. /\ F \in Seq(TouchEvent) /\ Len(F) \in 1..5 /\ F[Len(F)].type = "report"
      /\ OfPanel(F, slots, top)
      /\ \A i, j \in 1..Len(F) : Tracks(F[i]) /\ Tracks(F[j]) => i = j
      /\ \A i \in 1..Len(F) : F[i].type # "dropped" /\ (F[i].type = "report" => i = Len(F))
  BY DEF IsFrame
<1>2. Dropped \in TouchEvent /\ Dropped.type = "dropped"
  BY DEF Dropped, Event, TouchEvent
<1> DEFINE Q == SubSeq(F, r, Len(F))
<1>3. /\ Q \in Seq(TouchEvent) /\ Len(Q) = Len(F) - r + 1
      /\ \A i \in 1..Len(Q) : Q[i] = F[r + i - 1]
  BY <1>1
<1> HIDE DEF Q
<1>4. D = <<Dropped>> \o Q
  BY DEF Q
<1>5. /\ D \in Seq(TouchEvent) /\ Len(D) = Len(Q) + 1 /\ D[1] = Dropped
      /\ \A i \in 1..Len(Q) : D[i + 1] = Q[i]
  <2>1. Dropped \in TouchEvent /\ Q \in Seq(TouchEvent)
    BY <1>2, <1>3
  <2> QED
    BY ONLY <2>1, <1>4, Behind
<1>6. Len(D) \in 2..6 /\ Len(D) = Len(F) - r + 2
  <2>1. Len(F) \in 1..5 /\ Len(Q) = Len(F) - r + 1 /\ Len(D) = Len(Q) + 1
    BY <1>1, <1>3, <1>5
  <2>2. PICK n \in 1..5 : n = Len(F)
    BY <2>1
  <2>3. r \in 1..n
    BY <2>2
  <2>4. Len(Q) = n - r + 1 /\ Len(D) = Len(Q) + 1
    BY <2>1, <2>2
  <2>5. Len(D) = n - r + 2 /\ n - r + 2 \in 2..6
    BY ONLY <2>3, <2>4
  <2> QED
    BY ONLY <2>2, <2>5
<1>7. \A i \in 2..Len(D) : D[i] = F[r + i - 2] /\ r + i - 2 \in 1..Len(F)
  <2>1. SUFFICES ASSUME NEW i \in 2..Len(D) PROVE D[i] = F[r + i - 2] /\ r + i - 2 \in 1..Len(F)
    OBVIOUS
  <2>2. i - 1 \in 1..Len(Q) /\ (i - 1) + 1 = i /\ r + (i - 1) - 1 = r + i - 2 /\ r + i - 2 \in 1..Len(F)
    BY <1>1, <1>3, <1>6
  <2> QED
    BY <2>2, <1>3, <1>5
<1>8. \A i \in 2..Len(D) : r + i - 2 = Len(F) <=> i = Len(D)
  BY <1>1, <1>6
<1>9. \A i \in 2..Len(D) : D[i].type # "dropped" /\ (D[i].type = "report" <=> i = Len(D))
  BY <1>1, <1>7, <1>8
<1>10. \A i \in 1..Len(D) : i = 1 \/ i \in 2..Len(D)
  BY <1>6
<1>11. OfPanel(D, slots, top)
  <2>1. SUFFICES ASSUME NEW i \in 1..Len(D)
                 PROVE  /\ D[i].type = "slot" => D[i].value \in slots
                        /\ Starts(D[i]) => D[i].value <= top
    BY DEF OfPanel
  <2>2. CASE i = 1
    BY <2>2, <1>2, <1>5 DEF Starts, Tracks
  <2>3. CASE i \in 2..Len(D)
    BY <2>3, <1>1, <1>7 DEF OfPanel
  <2> QED
    BY <2>2, <2>3, <1>10
<1>12. Framed(D)
  <2>1. SUFFICES ASSUME NEW i \in 1..Len(D), NEW j \in 1..Len(D), i < j, Tracks(D[i]), Tracks(D[j])
                 PROVE  FALSE
    BY DEF Framed
  <2>2. i # 1 /\ j # 1
    BY <2>1, <1>2, <1>5 DEF Tracks
  <2>3. i \in 2..Len(D) /\ j \in 2..Len(D)
    BY <2>2, <1>10
  <2>4. r + i - 2 = r + j - 2
    BY <2>1, <2>3, <1>1, <1>7
  <2> QED
    BY <2>1, <2>4, <1>6
<1>13. D # <<>> /\ D[Len(D)].type = "report"
  <2>1. PICK k \in 2..6 : k = Len(D)
    BY <1>6
  <2>2. k \in 2..k /\ k # 0
    BY ONLY k \in 2..6
  <2>3. D[k].type = "report"
    BY ONLY <2>1, <2>2, <1>9
  <2>4. D # <<>>
    BY ONLY <2>1, <2>2
  <2> QED
    BY ONLY <2>1, <2>3, <2>4
<1>14. Orderly(D, slots, top)
  BY ONLY <1>5, <1>11, <1>12, <1>13 DEF Orderly
<1> QED
  BY ONLY <1>2, <1>5, <1>6, <1>7, <1>9, <1>13, <1>14

-----------------------------------------------------------------------------
(* Where events lead.                                                       *)

\* A view stays a view.
LEMMA AfterType == ASSUME NEW a \in View, NEW e \in TouchEvent PROVE After(a, e) \in View
<1>1. e.value \in Int
  BY DEF TouchEvent, Lifted
<1> QED
  BY <1>1 DEF After, View, Blank

\* No events, one event, the first of several, and events after events.
LEMMA EndsNil == ASSUME NEW a \in View PROVE Ends(a, <<>>, a)
<1>1. [i \in 0..0 |-> a] \in [0..Len(<<>>) -> View] /\ Len(<<>>) = 0
  OBVIOUS
<1>2. [i \in 0..0 |-> a][0] = a
  OBVIOUS
<1>3. \A i \in 1..Len(<<>>) : FALSE
  BY <1>1
<1> QED
  BY <1>1, <1>2, <1>3 DEF Ends
LEMMA EndsOne == ASSUME NEW a, NEW b, NEW e, Ends(a, <<e>>, b) PROVE b = After(a, e)
<1>1. PICK tr \in [0..Len(<<e>>) -> View] :
        tr[0] = a /\ tr[Len(<<e>>)] = b /\ \A i \in 1..Len(<<e>>) : tr[i] = After(tr[i - 1], <<e>>[i])
  BY DEF Ends
<1>2. Len(<<e>>) = 1 /\ <<e>>[1] = e /\ 1 - 1 = 0
  OBVIOUS
<1> QED
  BY <1>1, <1>2
LEMMA EndsFirst ==
  ASSUME NEW a \in View, NEW P \in Seq(TouchEvent), P # <<>>, NEW b,
         Ends(After(a, P[1]), Tail(P), b)
  PROVE  Ends(a, P, b)
<1>1. PICK tr \in [0..Len(Tail(P)) -> View] :
        /\ tr[0] = After(a, P[1]) /\ tr[Len(Tail(P))] = b
        /\ \A i \in 1..Len(Tail(P)) : tr[i] = After(tr[i - 1], Tail(P)[i])
  BY DEF Ends
<1>2. /\ Len(P) \in Nat /\ Len(P) > 0 /\ Len(Tail(P)) = Len(P) - 1
      /\ \A i \in 1..Len(Tail(P)) : Tail(P)[i] = P[i + 1]
  OBVIOUS
<1> DEFINE new == [i \in 0..Len(P) |-> IF i = 0 THEN a ELSE tr[i - 1]]
<1>3. new \in [0..Len(P) -> View]
  <2>1. \A i \in 0..Len(P) : i # 0 => i - 1 \in 0..Len(Tail(P))
    BY <1>2
  <2> QED
    BY <2>1
<1>4. new[0] = a /\ \A i \in 1..Len(P) : new[i] = tr[i - 1]
  BY <1>2
<1>5. \A i \in 1..Len(P) : i # 1 => new[i - 1] = tr[i - 2]
  <2>1. \A i \in 1..Len(P) : i # 1 => i - 1 \in 1..Len(P) /\ (i - 1) - 1 = i - 2
    BY <1>2
  <2> QED
    BY <2>1, <1>4
<1> HIDE DEF new
<1>6. new[Len(P)] = b
  BY <1>1, <1>2, <1>4
<1>7. ASSUME NEW i \in 1..Len(P) PROVE new[i] = After(new[i - 1], P[i])
  <2>1. CASE i = 1
    BY <2>1, <1>1, <1>4
  <2>2. CASE i # 1
    <3>1. i - 1 \in 1..Len(Tail(P)) /\ (i - 1) + 1 = i /\ (i - 1) - 1 = i - 2
      BY <2>2, <1>2
    <3>2. tr[i - 1] = After(tr[i - 2], P[i])
      BY <3>1, <1>1, <1>2
    <3> QED
      BY <2>2, <3>2, <1>4, <1>5
  <2> QED
    BY <2>1, <2>2
<1> QED
  BY <1>3, <1>4, <1>6, <1>7 DEF Ends
LEMMA EndsCat ==
  ASSUME NEW a, NEW P \in Seq(TouchEvent), NEW Q \in Seq(TouchEvent), NEW b, Ends(a, P \o Q, b)
  PROVE  \E c \in View : Ends(a, P, c) /\ Ends(c, Q, b)
<1> DEFINE R == P \o Q
<1>1. /\ R \in Seq(TouchEvent) /\ Len(P) \in Nat /\ Len(Q) \in Nat /\ Len(R) = Len(P) + Len(Q)
      /\ \A i \in 1..Len(P) : R[i] = P[i]
      /\ \A i \in 1..Len(Q) : R[Len(P) + i] = Q[i]
  OBVIOUS
<1>2. PICK tr \in [0..Len(R) -> View] :
        tr[0] = a /\ tr[Len(R)] = b /\ \A i \in 1..Len(R) : tr[i] = After(tr[i - 1], R[i])
  BY DEF Ends
<1> HIDE DEF R
<1> DEFINE f == [i \in 0..Len(P) |-> tr[i]]
           g == [i \in 0..Len(Q) |-> tr[Len(P) + i]]
<1>3. f \in [0..Len(P) -> View] /\ g \in [0..Len(Q) -> View] /\ tr[Len(P)] \in View
  <2>1. /\ \A i \in 0..Len(P) : i \in 0..Len(R)
        /\ \A i \in 0..Len(Q) : Len(P) + i \in 0..Len(R)
        /\ Len(P) \in 0..Len(R)
    BY <1>1
  <2> QED
    BY <2>1
<1>4. Ends(a, P, tr[Len(P)])
  <2>1. f[0] = a /\ f[Len(P)] = tr[Len(P)]
    BY <1>1, <1>2
  <2>2. ASSUME NEW i \in 1..Len(P) PROVE f[i] = After(f[i - 1], P[i])
    <3>1. i \in 1..Len(R) /\ i \in 0..Len(P) /\ i - 1 \in 0..Len(P)
      BY <1>1
    <3>2. f[i] = tr[i] /\ f[i - 1] = tr[i - 1] /\ R[i] = P[i]
      BY <3>1, <1>1
    <3> QED
      BY <3>1, <3>2, <1>2
  <2> HIDE DEF f
  <2> QED
    BY <1>3, <2>1, <2>2 DEF Ends
<1>5. Ends(tr[Len(P)], Q, b)
  <2>1. g[0] = tr[Len(P)] /\ g[Len(Q)] = b
    BY <1>1, <1>2
  <2>2. ASSUME NEW i \in 1..Len(Q) PROVE g[i] = After(g[i - 1], Q[i])
    <3>1. /\ Len(P) + i \in 1..Len(R) /\ i \in 0..Len(Q) /\ i - 1 \in 0..Len(Q)
          /\ Len(P) + (i - 1) = (Len(P) + i) - 1
      BY <1>1
    <3>2. g[i] = tr[Len(P) + i] /\ g[i - 1] = tr[Len(P) + (i - 1)] /\ R[Len(P) + i] = Q[i]
      BY <3>1, <1>1
    <3>3. tr[Len(P) + i] = After(tr[(Len(P) + i) - 1], R[Len(P) + i])
      BY <3>1, <1>2
    <3> QED
      BY <3>1, <3>2, <3>3
  <2> HIDE DEF g
  <2> QED
    BY <1>3, <2>1, <2>2 DEF Ends
<1> QED
  BY <1>3, <1>4, <1>5
LEMMA EndsNone == ASSUME NEW a, NEW b, Ends(a, <<>>, b) PROVE b = a
BY DEF Ends

\* Positions do not change a view.
LEMMA EndsHead ==
  ASSUME NEW a, NEW b, NEW Q \in Seq(TouchEvent), Len(Q) \in 1..3, Ends(a, Q, b),
         \A i \in 2..Len(Q) : Q[i].type \in {"x", "y"}
  PROVE  b = After(a, Q[1])
<1>1. PICK tr \in [0..Len(Q) -> View] :
        tr[0] = a /\ tr[Len(Q)] = b /\ \A i \in 1..Len(Q) : tr[i] = After(tr[i - 1], Q[i])
  BY DEF Ends
<1>2. PICK n \in 1..3 : n = Len(Q)
  OBVIOUS
<1>3. tr[1] = After(a, Q[1])
  <2>1. 1 \in 1..Len(Q) /\ 1 - 1 = 0
    BY <1>2
  <2> QED
    BY <2>1, <1>1
<1>4. \A i \in 2..Len(Q) : tr[i] = tr[i - 1]
  <2>1. SUFFICES ASSUME NEW i \in 2..Len(Q) PROVE tr[i] = tr[i - 1]
    OBVIOUS
  <2>2. i \in 1..Len(Q) /\ i - 1 \in 0..Len(Q)
    BY <1>2
  <2>3. tr[i] = After(tr[i - 1], Q[i]) /\ tr[i - 1] \in View
    BY <2>2, <1>1
  <2> QED
    BY <2>3 DEF After, Starts, Tracks
<1>5. CASE n = 1
  BY <1>5, <1>1, <1>2, <1>3
<1>6. CASE n = 2
  <2>1. 2 \in 2..Len(Q) /\ 2 - 1 = 1
    BY <1>2, <1>6
  <2> QED
    BY <2>1, <1>6, <1>1, <1>2, <1>3, <1>4
<1>7. CASE n = 3
  <2>1. 2 \in 2..Len(Q) /\ 2 - 1 = 1 /\ 3 \in 2..Len(Q) /\ 3 - 1 = 2
    BY <1>2, <1>7
  <2> QED
    BY <2>1, <1>7, <1>1, <1>2, <1>3, <1>4
<1> QED
  BY <1>2, <1>5, <1>6, <1>7

\* A drop and what is left of a frame leave nothing.
LEMMA EndsLost ==
  ASSUME NEW a, NEW b, NEW D, Len(D) \in 2..6, Ends(a, D, b), D[1].type = "dropped",
         \A i \in 2..Len(D) : D[i].type # "dropped" /\ (D[i].type = "report" <=> i = Len(D))
  PROVE  b = Blank(FALSE)
<1>1. PICK tr \in [0..Len(D) -> View] :
        tr[0] = a /\ tr[Len(D)] = b /\ \A i \in 1..Len(D) : tr[i] = After(tr[i - 1], D[i])
  BY DEF Ends
<1>2. PICK n \in 2..6 : n = Len(D)
  OBVIOUS
<1>3. tr[1] = Blank(TRUE)
  <2>1. 1 \in 1..Len(D)
    BY <1>2
  <2>2. tr[1] = After(tr[1 - 1], D[1])
    BY <2>1, <1>1
  <2> QED
    BY <2>2 DEF After
<1>4. \A i \in 2..n : tr[i - 1] = Blank(TRUE) => tr[i] = Blank(i # n)
  <2>1. SUFFICES ASSUME NEW i \in 2..n, tr[i - 1] = Blank(TRUE) PROVE tr[i] = Blank(i # n)
    OBVIOUS
  <2>2. i \in 1..Len(D) /\ i \in 2..Len(D)
    BY <1>2
  <2>3. tr[i] = After(Blank(TRUE), D[i])
    BY <2>1, <2>2, <1>1
  <2>4. CASE i = n
    BY <2>2, <2>3, <2>4, <1>2 DEF After, Blank
  <2>5. CASE i # n
    BY <2>2, <2>3, <2>5, <1>2 DEF After, Blank
  <2> QED
    BY <2>4, <2>5
<1>5. n > 2 => tr[2] = Blank(TRUE)
  <2>1. n > 2 => 2 \in 2..n /\ 2 - 1 = 1 /\ (2 # n) = TRUE
    OBVIOUS
  <2> QED
    BY <2>1, <1>3, <1>4
<1>6. n > 3 => tr[3] = Blank(TRUE)
  <2>1. n > 3 => 3 \in 2..n /\ 3 - 1 = 2 /\ (3 # n) = TRUE /\ n > 2
    OBVIOUS
  <2> QED
    BY <2>1, <1>5, <1>4
<1>7. n > 4 => tr[4] = Blank(TRUE)
  <2>1. n > 4 => 4 \in 2..n /\ 4 - 1 = 3 /\ (4 # n) = TRUE /\ n > 3
    OBVIOUS
  <2> QED
    BY <2>1, <1>6, <1>4
<1>8. n > 5 => tr[5] = Blank(TRUE)
  <2>1. n > 5 => 5 \in 2..n /\ 5 - 1 = 4 /\ (5 # n) = TRUE /\ n > 4
    OBVIOUS
  <2> QED
    BY <2>1, <1>7, <1>4
<1>9. tr[n - 1] = Blank(TRUE)
  <2>1. ASSUME n = 2 PROVE tr[n - 1] = Blank(TRUE)
    BY ONLY <2>1, <1>3
  <2>2. ASSUME n = 3 PROVE tr[n - 1] = Blank(TRUE)
    <3>1. n - 1 = 2 /\ n > 2
      BY ONLY <2>2
    <3>2. tr[2] = Blank(TRUE)
      BY ONLY <3>1, <1>5
    <3> QED
      BY ONLY <3>1, <3>2
  <2>3. ASSUME n = 4 PROVE tr[n - 1] = Blank(TRUE)
    <3>1. n - 1 = 3 /\ n > 3
      BY ONLY <2>3
    <3>2. tr[3] = Blank(TRUE)
      BY ONLY <3>1, <1>6
    <3> QED
      BY ONLY <3>1, <3>2
  <2>4. ASSUME n = 5 PROVE tr[n - 1] = Blank(TRUE)
    <3>1. n - 1 = 4 /\ n > 4
      BY ONLY <2>4
    <3>2. tr[4] = Blank(TRUE)
      BY ONLY <3>1, <1>7
    <3> QED
      BY ONLY <3>1, <3>2
  <2>5. ASSUME n = 6 PROVE tr[n - 1] = Blank(TRUE)
    <3>1. n - 1 = 5 /\ n > 5
      BY ONLY <2>5
    <3>2. tr[5] = Blank(TRUE)
      BY ONLY <3>1, <1>8
    <3> QED
      BY ONLY <3>1, <3>2
  <2>6. n = 2 \/ n = 3 \/ n = 4 \/ n = 5 \/ n = 6
    OBVIOUS
  <2> QED
    BY <2>1, <2>2, <2>3, <2>4, <2>5, <2>6
<1>10. n \in 2..n /\ (n # n) = FALSE
  OBVIOUS
<1> QED
  BY <1>1, <1>2, <1>4, <1>9, <1>10

\* The frames the kernel sends: perhaps a slot, a tracking event or a position,
\* positions, a report.
Built(F, S, E, slots, top) ==
  /\ S \in Seq(TouchEvent) /\ E \in Seq(TouchEvent) /\ F = S \o E \o <<Report>>
  /\ Len(S) \in 0..1 /\ Len(E) \in 1..3
  /\ \A i \in 1..Len(S) : S[i].type = "slot" /\ S[i].value \in slots
  /\ E[1].type \in {"tracking", "x", "y"} /\ (Starts(E[1]) => E[1].value <= top)
  /\ \A i \in 2..Len(E) : E[i].type \in {"x", "y"}
LEMMA FrameShape ==
  ASSUME NEW F, NEW S, NEW E, NEW slots, NEW top, Built(F, S, E, slots, top)
  PROVE  /\ IsFrame(F, slots, top)
         /\ \A i \in 1..Len(F) : Tracks(F[i]) => F[i] = E[1]
         /\ \E i \in 1..Len(F) : F[i] = E[1]
<1> /\ S \in Seq(TouchEvent) /\ E \in Seq(TouchEvent) /\ F = S \o E \o <<Report>>
    /\ Len(S) \in 0..1 /\ Len(E) \in 1..3
    /\ \A i \in 1..Len(S) : S[i].type = "slot" /\ S[i].value \in slots
    /\ E[1].type \in {"tracking", "x", "y"} /\ (Starts(E[1]) => E[1].value <= top)
    /\ \A i \in 2..Len(E) : E[i].type \in {"x", "y"}
  BY DEF Built
<1>1. PICK R : R = S \o E
  OBVIOUS
<1>2. /\ R \in Seq(TouchEvent) /\ Len(R) = Len(S) + Len(E) /\ Len(S) \in Nat /\ Len(E) \in Nat
      /\ \A i \in 1..Len(S) : R[i] = S[i]
      /\ \A i \in 1..Len(E) : R[Len(S) + i] = E[i]
  BY <1>1, CatFacts
<1>3. Report \in TouchEvent /\ Report.type = "report"
  BY DEF Report, Event, TouchEvent
<1>4. PICK Z : Z = <<Report>>
  OBVIOUS
<1>5. Z \in Seq(TouchEvent) /\ Len(Z) = 1 /\ Z[1] = Report
  BY <1>3, <1>4
<1>6. F = R \o Z
  BY <1>1, <1>4
<1>7. /\ F \in Seq(TouchEvent) /\ Len(F) = Len(R) + 1
      /\ \A i \in 1..Len(R) : F[i] = R[i]
      /\ F[Len(R) + 1] = Report
  <2>1. /\ F \in Seq(TouchEvent) /\ Len(F) = Len(R) + Len(Z) /\ Len(R) \in Nat
        /\ \A i \in 1..Len(R) : F[i] = R[i]
        /\ \A i \in 1..Len(Z) : F[Len(R) + i] = Z[i]
    BY ONLY <1>2, <1>5, <1>6, CatFacts
  <2> QED
    BY ONLY <2>1, <1>5
<1>8. PICK n \in 0..1, k \in 1..3 : n = Len(S) /\ k = Len(E)
  OBVIOUS
<1>9. Len(R) = n + k /\ Len(F) = n + k + 1
  BY <1>2, <1>7, <1>8
<1>10. \A i \in 1..n : F[i] = S[i]
  <2>1. \A i \in 1..n : i \in 1..Len(R) /\ i \in 1..Len(S)
    BY <1>8, <1>9
  <2> QED
    BY <2>1, <1>2, <1>7
<1>11. \A i \in 1..k : F[n + i] = E[i]
  <2>1. SUFFICES ASSUME NEW i \in 1..k PROVE F[n + i] = E[i]
    OBVIOUS
  <2>2. n + i \in 1..Len(R) /\ i \in 1..Len(E)
    BY <1>8, <1>9
  <2>3. R[n + i] = E[i]
    BY <2>2, <1>2, <1>8
  <2> QED
    BY <2>2, <2>3, <1>7
<1>12. \A i \in 1..Len(F) :
         \/ i \in 1..n
         \/ i = n + 1
         \/ i - n \in 2..k /\ n + (i - n) = i /\ i - n \in 1..k
         \/ i = Len(F)
  BY ONLY n \in 0..1, k \in 1..3, <1>9
<1>13. F[n + 1] = E[1] /\ n + 1 \in 1..Len(F) /\ n + 1 # Len(F)
  BY <1>8, <1>9, <1>11
<1>14. F[Len(F)].type = "report"
  BY <1>3, <1>7
<1>15. ASSUME NEW i \in 1..Len(F)
       PROVE  /\ F[i].type # "dropped" /\ (F[i].type = "report" => i = Len(F))
              /\ F[i].type = "slot" => F[i].value \in slots
              /\ Tracks(F[i]) => i = n + 1
  <2>1. CASE i \in 1..n
    BY <2>1, <1>8, <1>10 DEF Tracks
  <2>2. CASE i = n + 1
    BY <2>2, <1>13
  <2>3. CASE i - n \in 2..k /\ n + (i - n) = i /\ i - n \in 1..k
    <3>1. F[i] = E[i - n] /\ i - n \in 2..Len(E)
      BY <2>3, <1>8, <1>11
    <3> QED
      BY <3>1 DEF Tracks
  <2>4. CASE i = Len(F)
    BY <2>4, <1>14 DEF Tracks
  <2> QED
    BY <2>1, <2>2, <2>3, <2>4, <1>12
<1>16. OfPanel(F, slots, top)
  BY <1>13, <1>15 DEF OfPanel, Starts
<1>17. Len(F) \in 1..5
  <2>1. n + k + 1 \in 1..5
    BY ONLY n \in 0..1, k \in 1..3
  <2> QED
    BY ONLY <2>1, <1>9
<1>18. \A i, j \in 1..Len(F) : Tracks(F[i]) /\ Tracks(F[j]) => i = j
  BY <1>15
<1>19. \A i \in 1..Len(F) : F[i].type # "dropped" /\ (F[i].type = "report" => i = Len(F))
  BY <1>15
<1>20. IsFrame(F, slots, top)
  BY ONLY <1>7, <1>14, <1>16, <1>17, <1>18, <1>19 DEF IsFrame
<1> QED
  BY <1>13, <1>15, <1>20

\* A whole frame sets the slot and then does what its first event says.
LEMMA FrameEffect ==
  ASSUME NEW F, NEW S, NEW E, NEW slots, NEW top, Built(F, S, E, slots, top),
         NEW a \in View, ~a.desync, NEW b, Ends(a, F, b)
  PROVE  b = After(IF S = <<>> THEN a ELSE After(a, S[1]), E[1])
<1> /\ S \in Seq(TouchEvent) /\ E \in Seq(TouchEvent) /\ F = S \o E \o <<Report>>
    /\ Len(S) \in 0..1 /\ Len(E) \in 1..3
    /\ \A i \in 1..Len(S) : S[i].type = "slot" /\ S[i].value \in slots
    /\ E[1].type \in {"tracking", "x", "y"} /\ (Starts(E[1]) => E[1].value <= top)
    /\ \A i \in 2..Len(E) : E[i].type \in {"x", "y"}
  BY DEF Built
<1>1. PICK R : R = S \o E
  OBVIOUS
<1>2. R \in Seq(TouchEvent)
  BY <1>1, CatFacts
<1>3. Report \in TouchEvent /\ Report.type = "report"
  BY DEF Report, Event, TouchEvent
<1>4. <<Report>> \in Seq(TouchEvent)
  BY <1>3
<1>5. PICK c \in View : Ends(a, R, c) /\ Ends(c, <<Report>>, b)
  <2>1. Ends(a, R \o <<Report>>, b)
    BY <1>1
  <2> QED
    BY ONLY <2>1, <1>2, <1>4, EndsCat
<1>6. PICK d \in View : Ends(a, S, d) /\ Ends(d, E, c)
  <2>1. Ends(a, S \o E, c)
    BY <1>1, <1>5
  <2> QED
    BY <2>1, EndsCat
<1>7. c = After(d, E[1])
  BY <1>6, EndsHead
<1>8. d = IF S = <<>> THEN a ELSE After(a, S[1])
  <2>1. CASE S = <<>>
    BY <2>1, <1>6, EndsNone
  <2>2. CASE S # <<>>
    <3>1. Len(S) \in 1..3 /\ \A i \in 2..Len(S) : FALSE
      BY <2>2
    <3>2. d = After(a, S[1])
      BY <3>1, <1>6, EndsHead
    <3> QED
      BY <2>2, <3>2
  <2> QED
    BY <2>1, <2>2
<1>9. ~d.desync
  <2>1. CASE S = <<>>
    BY <2>1, <1>8
  <2>2. CASE S # <<>>
    <3>1. 1 \in 1..Len(S)
      BY <2>2
    <3>2. S[1].type = "slot"
      BY <3>1
    <3> QED
      BY <2>2, <3>2, <1>8 DEF After
  <2> QED
    BY <2>1, <2>2
<1>10. ~c.desync
  <2>1. E[1].type # "dropped" /\ E[1].type # "slot"
    OBVIOUS
  <2> QED
    BY ONLY <2>1, <1>7, <1>9 DEF After
<1>11. b = After(c, Report)
  BY <1>5, EndsOne
<1>12. b = c
  BY <1>3, <1>10, <1>11 DEF After, Starts, Tracks
<1> QED
  BY <1>7, <1>8, <1>12

-----------------------------------------------------------------------------
(* The steps of the machine.                                                *)

\* A machine that holds nothing is sound and tells nothing.
LEMMA CleanSound ==
  ASSUME NEW waits \in BOOLEAN, NEW w,
         w = [cur |-> {0}, active |-> <<>>, releases |-> {}, desync |-> waits]
  PROVE  /\ MachineInv(w) /\ Held(w) = {} /\ Ids(w) = {} /\ DownIds(w) = {} /\ Active(w) = {}
         /\ w.cur = {0} /\ w.releases = {} /\ w.desync = waits
<1>1. PICK f : f = <<>>
  OBVIOUS
<1>2. f \in [{} -> TouchContact]
  BY <1>1
<1>3. w = [cur |-> {0}, active |-> f, releases |-> {}, desync |-> waits]
  BY <1>1
<1>4. {0} \in SUBSET Nat /\ {} \in SUBSET Nat /\ {} \in SUBSET TouchContact
  OBVIOUS
<1>5. w \in Machine /\ Active(w) = {}
  <2>1. f \in UNION {[S -> TouchContact] : S \in SUBSET Nat}
    BY ONLY <1>2, <1>4
  <2>2. w \in Machine
    BY ONLY waits \in BOOLEAN, <1>3, <1>4, <2>1 DEF Machine
  <2>3. w.active = f /\ DOMAIN f = {}
    BY ONLY <1>2, <1>3
  <2> QED
    BY <2>2, <2>3 DEF Active
<1>6. w.cur = {0} /\ w.releases = {} /\ w.desync = waits
  BY ONLY <1>3
<1>7. Held(w) = {}
  BY <1>5, <1>6 DEF Held
<1> QED
  BY <1>5, <1>6, <1>7 DEF MachineInv, Ids, DownIds

\* The parts of a machine.
LEMMA MachineParts ==
  ASSUME NEW m, MachineInv(m)
  PROVE  /\ m = [cur |-> m.cur, active |-> m.active, releases |-> m.releases, desync |-> m.desync]
         /\ m.cur \subseteq Nat /\ Active(m) \subseteq Nat /\ m.desync \in BOOLEAN
         /\ m.active \in [Active(m) -> TouchContact] /\ m.releases \subseteq TouchContact
         /\ \A s \in Active(m) : m.active[s] \in TouchContact /\ m.active[s] \in Held(m)
         /\ Held(m) \subseteq TouchContact /\ Ids(m) \subseteq Nat
<1>1. m \in Machine
  BY DEF MachineInv
<1>2. /\ m = [cur |-> m.cur, active |-> m.active, releases |-> m.releases, desync |-> m.desync]
      /\ m.cur \subseteq Nat /\ m.desync \in BOOLEAN /\ m.releases \subseteq TouchContact
      /\ m.active \in UNION {[S -> TouchContact] : S \in SUBSET Nat}
  BY <1>1 DEF Machine
<1>3. PICK S \in SUBSET Nat : m.active \in [S -> TouchContact]
  BY <1>2
<1>4. Active(m) = S
  BY <1>3 DEF Active
<1>5. \A s \in Active(m) : m.active[s] \in TouchContact
  BY <1>3, <1>4
<1>6. Held(m) \subseteq TouchContact /\ \A s \in Active(m) : m.active[s] \in Held(m)
  BY <1>2, <1>5 DEF Held
<1>7. Ids(m) \subseteq Nat
  BY <1>6 DEF Ids, TouchContact
<1> QED
  BY <1>2, <1>3, <1>4, <1>5, <1>6, <1>7

\* handle_tracking_id: a contact that starts is a new one.
LEMMA TrackingSound ==
  ASSUME NEW m, MachineInv(m), ~m.desync, NEW slot \in Nat, m.cur = {slot},
         NEW id \in Nat \cup {Lifted}, NEW w, w = HandleTracking(m, id),
         id # Lifted => (slot \in Active(m) /\ m.active[slot].id = id) \/ id \notin Ids(m)
  PROVE  /\ MachineInv(w) /\ w.cur = m.cur /\ ~w.desync /\ DownIds(w) = DownIds(m)
         /\ Active(w) = (Active(m) \ m.cur) \cup (IF id = Lifted THEN {} ELSE m.cur)
         /\ Ids(w) \subseteq Ids(m) \cup (IF id = Lifted THEN {} ELSE {id})
<1> DEFINE old == {m.active[s] : s \in CurrentSlot(m)}
           now == IF id = Lifted THEN {} ELSE m.cur
<1>1. /\ m = [cur |-> m.cur, active |-> m.active, releases |-> m.releases, desync |-> m.desync]
      /\ Active(m) \subseteq Nat /\ m.desync = FALSE /\ m.releases \subseteq TouchContact
      /\ \A s \in Active(m) : m.active[s] \in TouchContact /\ m.active[s] \in Held(m)
  BY MachineParts
<1>2. old = IF slot \in Active(m) THEN {m.active[slot]} ELSE {}
  BY DEF CurrentSlot
<1>3. CASE \E c \in old : c.id = id
  <2>1. w = m
    BY <1>3 DEF HandleTracking
  <2>2. slot \in Active(m) /\ m.active[slot].id = id
    BY <1>2, <1>3
  <2>3. id # Lifted
    BY <2>2, <1>1 DEF TouchContact, Lifted
  <2> QED
    BY <2>1, <2>2, <2>3
<1>4. CASE ~\E c \in old : c.id = id
  <2> DEFINE S == (Active(m) \ m.cur) \cup now
             f == [s \in S |-> IF s \in now THEN NewContact(id) ELSE m.active[s]]
  <2>1. w = [cur |-> m.cur, active |-> f, releases |-> m.releases \cup old, desync |-> FALSE]
    BY <1>1, <1>4 DEF HandleTracking
  <2>2. id # Lifted => id \notin Ids(m) /\ NewContact(id) \in TouchContact
    BY <1>2, <1>4 DEF NewContact, TouchContact
  <2>3. \A s \in S : s \in now \/ (s \in Active(m) /\ s # slot)
    OBVIOUS
  <2>4. f \in [S -> TouchContact] /\ S \subseteq Nat /\ m.releases \cup old \subseteq TouchContact
    BY <1>1, <1>2, <2>2, <2>3
  <2>5. w \in Machine /\ Active(w) = S
    <3>1. m.cur \in SUBSET Nat /\ FALSE \in BOOLEAN
      OBVIOUS
    <3>2. S \in SUBSET Nat /\ f \in [S -> TouchContact] /\ m.releases \cup old \in SUBSET TouchContact
      BY <2>4
    <3> HIDE DEF S, f, old
    <3>3. f \in UNION {[T -> TouchContact] : T \in SUBSET Nat}
      BY ONLY <3>2
    <3>4. w \in Machine
      BY ONLY <2>1, <3>1, <3>2, <3>3 DEF Machine
    <3>5. w.active = f /\ DOMAIN f = S
      BY ONLY <2>1, <3>2
    <3> QED
      BY <3>4, <3>5 DEF Active
  <2>6. /\ w.cur = m.cur /\ ~w.desync /\ w.releases = m.releases \cup old
        /\ \A s \in S : w.active[s] = IF s \in now THEN NewContact(id) ELSE m.active[s]
    BY <2>1
  <2> HIDE DEF f
  <2>7. Held(w) = Held(m) \cup (IF id = Lifted THEN {} ELSE {NewContact(id)})
    <3>1. \A c \in Held(w) : c \in Held(m) \/ (id # Lifted /\ c = NewContact(id))
      BY <1>1, <1>2, <2>3, <2>5, <2>6 DEF Held
    <3>2. \A c \in Held(m) : c \in Held(w)
      <4>1. SUFFICES ASSUME NEW s \in Active(m) PROVE m.active[s] \in Held(w)
        BY <2>6 DEF Held
      <4>2. CASE s = slot
        BY <4>2, <1>2, <2>6 DEF Held
      <4>3. CASE s # slot
        <5>1. s \in S /\ s \notin now
          BY <4>3
        <5> QED
          BY <5>1, <2>5, <2>6 DEF Held
      <4> QED
        BY <4>2, <4>3
    <3>3. id # Lifted => NewContact(id) \in Held(w)
      <4>1. id # Lifted => slot \in S /\ slot \in now
        OBVIOUS
      <4> QED
        BY <4>1, <2>5, <2>6 DEF Held
    <3> HIDE DEF S, now, old
    <3> QED
      BY <3>1, <3>2, <3>3
  <2>8. NewContact(id).id = id /\ ~NewContact(id).down
    BY DEF NewContact
  <2>9. Ids(w) \subseteq Ids(m) \cup (IF id = Lifted THEN {} ELSE {id}) /\ DownIds(w) = DownIds(m)
    BY <2>7, <2>8 DEF Ids, DownIds
  <2>10. \A c \in Held(w) : c.down => Placed(c)
    BY <2>7, <2>8 DEF MachineInv
  <2>11. \A c \in Held(m) : c.id \in Ids(m)
    BY DEF Ids
  <2>12. \A s \in Active(w) : s \notin now => s \in Active(m) /\ s # slot /\ w.active[s] = m.active[s]
    BY <2>3, <2>5, <2>6
  <2>13. \A s \in Active(w) : s \in now => id # Lifted /\ s = slot /\ w.active[s].id = id
    BY <2>5, <2>6, <2>8
  <2>14. w.releases \subseteq Held(m)
    BY <1>1, <1>2, <2>6 DEF Held
  <2>15. \A r \in w.releases : \A s \in Active(w) : r.id # w.active[s].id
    <3>1. SUFFICES ASSUME NEW r \in w.releases, NEW s \in Active(w), r.id = w.active[s].id PROVE FALSE
      OBVIOUS
    <3>2. CASE s \in now
      BY <3>1, <3>2, <2>2, <2>11, <2>13, <2>14
    <3>3. CASE s \notin now
      <4>1. s \in Active(m) /\ s # slot /\ r.id = m.active[s].id
        BY <3>1, <3>3, <2>12
      <4>2. CASE r \in m.releases
        BY <4>1, <4>2 DEF MachineInv
      <4>3. CASE slot \in Active(m) /\ r = m.active[slot]
        BY <4>1, <4>3 DEF MachineInv
      <4> QED
        BY <4>2, <4>3, <1>2, <2>6
    <3> QED
      BY <3>2, <3>3
  <2>16. \A s, t \in Active(w) : w.active[s].id = w.active[t].id => s = t
    <3>1. SUFFICES ASSUME NEW s \in Active(w), NEW t \in Active(w), w.active[s].id = w.active[t].id
                   PROVE  s = t
      OBVIOUS
    <3>2. CASE s \in now /\ t \in now
      BY <3>2, <2>13
    <3>3. CASE s \in now /\ t \notin now
      BY <3>1, <3>3, <1>1, <2>2, <2>11, <2>12, <2>13
    <3>4. CASE s \notin now /\ t \in now
      BY <3>1, <3>4, <1>1, <2>2, <2>11, <2>12, <2>13
    <3>5. CASE s \notin now /\ t \notin now
      BY <3>1, <3>5, <2>12 DEF MachineInv
    <3> QED
      BY <3>2, <3>3, <3>4, <3>5
  <2> QED
    BY <2>5, <2>6, <2>9, <2>10, <2>15, <2>16 DEF MachineInv
<1> QED
  BY <1>3, <1>4

\* A machine whose active contacts were changed, but for what tells them apart.
LEMMA Recoloured ==
  ASSUME NEW m, MachineInv(m), NEW w, w \in Machine, Active(w) = Active(m),
         w.releases \subseteq m.releases, w.desync = m.desync,
         \A s \in Active(m) : w.active[s].id = m.active[s].id,
         \A s \in Active(m) : w.active[s].down => Placed(w.active[s])
  PROVE  MachineInv(w) /\ Ids(w) \subseteq Ids(m)
<1>1. m.releases \subseteq Held(m) /\ \A s \in Active(m) : m.active[s] \in Held(m)
  BY DEF Held
<1>2. \A c \in Held(w) : c \in m.releases \/ \E s \in Active(m) : c = w.active[s]
  BY DEF Held
<1>3. \A c \in Held(w) : c.down => Placed(c)
  BY <1>2 DEF MachineInv, Held
<1>4. w.desync => Held(w) = {}
  <2>1. ASSUME m.desync PROVE Held(w) = {}
    <3>1. m.releases = {} /\ Active(m) = {}
      BY <2>1, <1>1 DEF MachineInv, Held
    <3> QED
      BY <3>1, <1>2
  <2> QED
    BY <2>1
<1>5. \A r \in w.releases : \A s \in Active(w) : r.id # w.active[s].id
  BY DEF MachineInv
<1>6. \A s, t \in Active(w) : w.active[s].id = w.active[t].id => s = t
  BY DEF MachineInv
<1>7. Ids(w) \subseteq Ids(m)
  BY <1>1, <1>2 DEF Ids, Held
<1> QED
  BY <1>3, <1>4, <1>5, <1>6, <1>7 DEF MachineInv

\* update_position.
LEMMA PositionSound ==
  ASSUME NEW m, MachineInv(m), NEW axis \in {"x", "y"}, NEW w, w = UpdatePosition(m, axis)
  PROVE  /\ MachineInv(w) /\ w.cur = m.cur /\ w.desync = m.desync /\ w.releases = m.releases
         /\ Active(w) = Active(m) /\ Ids(w) \subseteq Ids(m) /\ DownIds(w) = DownIds(m)
<1> DEFINE f == [s \in Active(m) |-> IF s \in m.cur THEN [m.active[s] EXCEPT ![axis] = TRUE]
                                     ELSE m.active[s]]
<1>1. /\ m = [cur |-> m.cur, active |-> m.active, releases |-> m.releases, desync |-> m.desync]
      /\ \A s \in Active(m) : m.active[s] \in TouchContact /\ m.active[s] \in Held(m)
      /\ m.cur \in SUBSET Nat /\ Active(m) \in SUBSET Nat /\ m.desync \in BOOLEAN
      /\ m.releases \in SUBSET TouchContact
  BY MachineParts
<1>2. w = [cur |-> m.cur, active |-> f, releases |-> m.releases, desync |-> m.desync]
  BY <1>1 DEF UpdatePosition
<1>3. \A c \in TouchContact : LET d == [c EXCEPT ![axis] = TRUE]
                        IN d \in TouchContact /\ d.id = c.id /\ d.down = c.down /\ (Placed(c) => Placed(d))
  BY DEF TouchContact, Placed
<1>4. f \in [Active(m) -> TouchContact]
  BY <1>1, <1>3
<1>5. \A s \in Active(m) : /\ f[s].id = m.active[s].id /\ f[s].down = m.active[s].down
                           /\ Placed(m.active[s]) => Placed(f[s])
  BY <1>1, <1>3
<1> HIDE DEF f
<1>6. \A s \in Active(m) : f[s].down => Placed(f[s])
  BY <1>1, <1>5 DEF MachineInv
<1>7. /\ MachineInv(w) /\ Active(w) = Active(m) /\ Ids(w) \subseteq Ids(m)
      /\ \A s \in Active(m) : w.active[s] = f[s]
  <2>1. f \in UNION {[T -> TouchContact] : T \in SUBSET Nat}
    BY ONLY <1>1, <1>4
  <2>2. w \in Machine
    BY ONLY <1>1, <1>2, <2>1 DEF Machine
  <2>3. w.active = f /\ DOMAIN f = Active(m) /\ w.releases \subseteq m.releases /\ w.desync = m.desync
    BY ONLY <1>2, <1>4
  <2>4. Active(w) = Active(m)
    BY <2>3 DEF Active
  <2> QED
    BY <2>2, <2>3, <2>4, <1>5, <1>6, Recoloured
<1>8. w.cur = m.cur /\ w.desync = m.desync /\ w.releases = m.releases
  BY <1>2
<1>9. DownIds(w) = DownIds(m)
  <2>1. \A c \in Held(w) : c.down => \E d \in Held(m) : d.down /\ d.id = c.id
    BY <1>1, <1>5, <1>7, <1>8 DEF Held
  <2>2. \A c \in Held(m) : c.down => \E d \in Held(w) : d.down /\ d.id = c.id
    BY <1>1, <1>5, <1>7, <1>8 DEF Held
  <2> QED
    BY <2>1, <2>2 DEF DownIds
<1> QED
  BY <1>7, <1>8, <1>9

\* commit_frame: what it tells is what it keeps.
LEMMA CommitSound ==
  ASSUME NEW m, MachineInv(m), NEW w, w = Committed(m), NEW dev
  PROVE  /\ MachineInv(w) /\ w.cur = m.cur /\ w.desync = m.desync /\ w.releases = {}
         /\ Active(w) = Active(m) /\ Ids(w) \subseteq Ids(m)
         /\ {c \in {<<dev, i>> : i \in DownIds(m)} \ FrameOutput(m, dev).up :
               c[1] \notin FrameOutput(m, dev).resync} \cup FrameOutput(m, dev).down
              = {<<dev, i>> : i \in DownIds(w)}
<1>1. PICK out : out = FrameOutput(m, dev)
  OBVIOUS
<1>2. PICK shown : shown = {<<dev, i>> : i \in DownIds(m)}
  OBVIOUS
<1> DEFINE f == [s \in Active(m) |-> [m.active[s] EXCEPT !.down = @ \/ Placed(m.active[s])]]
<1>3. /\ m = [cur |-> m.cur, active |-> m.active, releases |-> m.releases, desync |-> m.desync]
      /\ \A s \in Active(m) : m.active[s] \in TouchContact /\ m.active[s] \in Held(m)
      /\ m.cur \in SUBSET Nat /\ Active(m) \in SUBSET Nat /\ m.desync \in BOOLEAN
      /\ m.releases \in SUBSET TouchContact
  BY MachineParts
<1>4. w = [cur |-> m.cur, active |-> f, releases |-> {}, desync |-> m.desync]
  BY <1>3 DEF Committed
<1>5. \A c \in TouchContact : LET d == [c EXCEPT !.down = @ \/ Placed(c)]
                        IN /\ d \in TouchContact /\ d.id = c.id /\ d.down = (c.down \/ Placed(c))
                           /\ Placed(d) = Placed(c)
  BY DEF TouchContact, Placed
<1>6. f \in [Active(m) -> TouchContact]
  BY <1>3, <1>5
<1>7. \A s \in Active(m) : /\ f[s].id = m.active[s].id
                           /\ f[s].down <=> m.active[s].down \/ Placed(m.active[s])
                           /\ Placed(f[s]) = Placed(m.active[s])
  BY <1>3, <1>5
<1> HIDE DEF f
<1>8. \A s \in Active(m) : (m.active[s].down => Placed(m.active[s])) /\ (f[s].down => Placed(f[s]))
  BY <1>3, <1>7 DEF MachineInv
<1>9. /\ MachineInv(w) /\ Active(w) = Active(m) /\ Ids(w) \subseteq Ids(m)
      /\ \A s \in Active(m) : w.active[s] = f[s]
  <2>1. f \in UNION {[T -> TouchContact] : T \in SUBSET Nat}
    BY ONLY <1>3, <1>6
  <2>2. w \in Machine
    BY ONLY <1>3, <1>4, <2>1 DEF Machine
  <2>3. w.active = f /\ DOMAIN f = Active(m) /\ w.releases \subseteq m.releases /\ w.desync = m.desync
    BY ONLY <1>4, <1>6
  <2>4. Active(w) = Active(m)
    BY <2>3 DEF Active
  <2> QED
    BY <2>2, <2>3, <2>4, <1>7, <1>8, Recoloured
<1>10. w.cur = m.cur /\ w.desync = m.desync /\ w.releases = {}
  BY <1>4
<1>11. DownIds(w) = {m.active[s].id : s \in {t \in Active(m) : Placed(m.active[t])}}
  <2>1. \A c \in Held(w) : \E s \in Active(m) : c = f[s]
    BY <1>9, <1>10 DEF Held
  <2>2. \A s \in Active(m) : f[s] \in Held(w)
    BY <1>9 DEF Held
  <2> QED
    BY <1>7, <1>8, <2>1, <2>2 DEF DownIds
<1>12. /\ out.resync = {} /\ out.up = {<<dev, c.id>> : c \in {r \in m.releases : Placed(r)}}
       /\ out.down = {<<dev, m.active[s].id>> :
                         s \in {t \in Active(m) : Placed(m.active[t]) /\ ~m.active[t].down}}
  BY <1>1 DEF FrameOutput
<1>13. ASSUME NEW p \in shown, p \notin out.up PROVE p \in {<<dev, i>> : i \in DownIds(w)}
  <2>1. PICK c \in Held(m) : c.down /\ p = <<dev, c.id>>
    BY <1>13, <1>2 DEF DownIds
  <2>2. Placed(c)
    BY <2>1 DEF MachineInv
  <2>3. c \notin m.releases
    BY <2>1, <2>2, <1>12, <1>13
  <2>4. PICK s \in Active(m) : c = m.active[s]
    BY <2>3 DEF Held
  <2> QED
    BY <2>1, <2>2, <2>4, <1>11
<1>14. \A p \in out.down : p \in {<<dev, i>> : i \in DownIds(w)}
  BY <1>11, <1>12
<1>15. ASSUME NEW i \in DownIds(w), <<dev, i>> \notin out.down
       PROVE  <<dev, i>> \in shown /\ <<dev, i>> \notin out.up
  <2>1. PICK s \in Active(m) : Placed(m.active[s]) /\ i = m.active[s].id
    BY <1>11, <1>15
  <2>2. m.active[s].down
    BY <2>1, <1>12, <1>15
  <2>3. <<dev, i>> \in shown
    BY <2>1, <2>2, <1>3, <1>2 DEF DownIds
  <2>4. \A r \in m.releases : r.id # i
    BY <2>1 DEF MachineInv
  <2> QED
    BY <2>3, <2>4, <1>12
<1>16. {c \in shown \ out.up : c[1] \notin out.resync} = shown \ out.up
  BY <1>12
<1>17. (shown \ out.up) \cup out.down = {<<dev, i>> : i \in DownIds(w)}
  BY <1>13, <1>14, <1>15
<1> QED
  BY <1>9, <1>10, <1>16, <1>17, <1>1, <1>2

\* rebuild_single_slot: at most the contact the panel holds, not told yet.
LEMMA RebuiltSound ==
  ASSUME PanelType(node), NEW m, NEW u, u = Rebuilt(m)
  PROVE  /\ MachineInv(u) /\ u.cur = {0} /\ ~u.desync /\ u.releases = {} /\ DownIds(u) = {}
         /\ Active(u) \subseteq {0} /\ (Active(u) # {} => Slots = {0} /\ node.held[0] # Lifted)
         /\ Slots # {0} => Ids(u) = {}
<1>1. CASE Slots # {0} \/ node.held[0] = Lifted
  <2>1. u = [cur |-> {0}, active |-> <<>>, releases |-> {}, desync |-> FALSE]
    BY <1>1 DEF Rebuilt, CleanMachine
  <2> QED
    BY <2>1, CleanSound
<1>2. CASE Slots = {0} /\ node.held[0] # Lifted
  <2>1. PICK f : f = [s \in {0} |-> [NewContact(node.held[0]) EXCEPT !.x = TRUE, !.y = TRUE]]
    OBVIOUS
  <2>2. u = [cur |-> {0}, active |-> f, releases |-> {}, desync |-> FALSE]
    BY <1>2, <2>1 DEF Rebuilt, CleanMachine
  <2>3. node.held[0] \in Nat
    BY <1>2 DEF PanelType, Slots
  <2>4. f \in [{0} -> TouchContact] /\ ~f[0].down
    BY <2>1, <2>3 DEF NewContact, TouchContact
  <2>5. u \in Machine
    <3>1. {0} \in SUBSET Nat /\ {} \in SUBSET TouchContact /\ FALSE \in BOOLEAN
      OBVIOUS
    <3>2. f \in UNION {[T -> TouchContact] : T \in SUBSET Nat}
      BY ONLY <3>1, <2>4
    <3> QED
      BY ONLY <3>1, <3>2, <2>2 DEF Machine
  <2>6. u.cur = {0} /\ u.active = f /\ u.releases = {} /\ ~u.desync /\ DOMAIN f = {0}
    BY ONLY <2>2, <2>4
  <2>7. Active(u) = {0}
    BY <2>6 DEF Active
  <2>8. Held(u) = {f[0]}
    BY <2>6, <2>7 DEF Held
  <2> QED
    BY <1>2, <2>4, <2>5, <2>6, <2>7, <2>8 DEF MachineInv, DownIds
<1> QED
  BY <1>1, <1>2

\* What the output of an event leaves of the contacts the reducer holds of a device.
Leaves(m, e, dev) ==
  LET out == Output(m, e, dev)
  IN {c \in {<<dev, i>> : i \in DownIds(m)} \ out.up : c[1] \notin out.resync} \cup out.down
\* The machine w after the event e is sound and the reducer holds what it told.
Sane(m, e, dev, w) == MachineInv(w) /\ Leaves(m, e, dev) = {<<dev, i>> : i \in DownIds(w)}

\* An event without output.
LEMMA SilentLeaves ==
  ASSUME NEW m, NEW e, NEW dev, e.type \notin {"dropped", "report"}
  PROVE  Leaves(m, e, dev) = {<<dev, i>> : i \in DownIds(m)}
<1>1. Output(m, e, dev) = [resync |-> {}, up |-> {}, down |-> {}]
  BY DEF Output, Silent
<1> QED
  BY <1>1 DEF Leaves

LEMMA StepDropped ==
  ASSUME NEW m, NEW e, NEW dev, e.type = "dropped", NEW w, w = Step(m, e)
  PROVE  /\ Sane(m, e, dev, w) /\ w.desync /\ w.cur = {0} /\ w.releases = {} /\ Active(w) = {}
         /\ Ids(w) = {}
<1>1. w = [cur |-> {0}, active |-> <<>>, releases |-> {}, desync |-> TRUE]
  <2>1. w = ResetAfterDrop(m)
    BY DEF Step
  <2> QED
    BY <2>1 DEF ResetAfterDrop, CleanMachine
<1>2. /\ MachineInv(w) /\ DownIds(w) = {} /\ Ids(w) = {} /\ Active(w) = {} /\ w.cur = {0}
      /\ w.releases = {} /\ w.desync
  BY <1>1, CleanSound
<1>3. Output(m, e, dev) = [resync |-> {dev}, up |-> {}, down |-> {}]
  BY DEF Output, DropOutput, Silent
<1>4. Leaves(m, e, dev) = {}
  BY <1>3 DEF Leaves
<1> QED
  BY <1>2, <1>4 DEF Sane

LEMMA StepRebuild ==
  ASSUME PanelType(node), NEW m, MachineInv(m), m.desync, NEW e, NEW dev, e.type = "report",
         NEW w, w = Step(m, e)
  PROVE  /\ Sane(m, e, dev, w) /\ ~w.desync /\ w.cur = {0} /\ w.releases = {}
         /\ Active(w) \subseteq {0} /\ (Active(w) # {} => Slots = {0} /\ node.held[0] # Lifted)
         /\ Slots # {0} => Ids(w) = {}
<1>1. PICK u : u = Rebuilt(m)
  OBVIOUS
<1>2. w = Committed(u)
  BY <1>1 DEF Step
<1>3. /\ MachineInv(u) /\ u.cur = {0} /\ ~u.desync /\ u.releases = {} /\ DownIds(u) = {}
      /\ Active(u) \subseteq {0} /\ (Active(u) # {} => Slots = {0} /\ node.held[0] # Lifted)
      /\ Slots # {0} => Ids(u) = {}
  BY <1>1, RebuiltSound
<1>4. Output(m, e, dev) = FrameOutput(u, dev)
  BY <1>1 DEF Output
<1>5. DownIds(m) = {}
  BY DEF MachineInv, DownIds
<1>6. /\ MachineInv(w) /\ w.cur = u.cur /\ w.desync = u.desync /\ w.releases = {}
      /\ Active(w) = Active(u) /\ Ids(w) \subseteq Ids(u)
      /\ {c \in {<<dev, i>> : i \in DownIds(u)} \ FrameOutput(u, dev).up :
             c[1] \notin FrameOutput(u, dev).resync} \cup FrameOutput(u, dev).down
           = {<<dev, i>> : i \in DownIds(w)}
  BY <1>2, <1>3, CommitSound
<1>7. Leaves(m, e, dev) = {<<dev, i>> : i \in DownIds(w)}
  BY <1>3, <1>4, <1>5, <1>6 DEF Leaves
<1> QED
  BY <1>3, <1>6, <1>7 DEF Sane

LEMMA StepIgnored ==
  ASSUME NEW m, MachineInv(m), m.desync, NEW e, NEW dev, e.type \notin {"dropped", "report"},
         NEW w, w = Step(m, e)
  PROVE  Sane(m, e, dev, w) /\ w = m
<1>1. w = m
  BY DEF Step
<1> QED
  BY <1>1, SilentLeaves DEF Sane

LEMMA StepSlot ==
  ASSUME NEW m, MachineInv(m), ~m.desync, NEW e, NEW dev, e.type = "slot",
         e.value \in Slots, e.value \in Nat, NEW w, w = Step(m, e)
  PROVE  /\ Sane(m, e, dev, w) /\ w.cur = {e.value} /\ ~w.desync /\ w.releases = m.releases
         /\ Active(w) = Active(m) /\ Ids(w) = Ids(m)
<1>1. /\ m = [cur |-> m.cur, active |-> m.active, releases |-> m.releases, desync |-> m.desync]
      /\ m.cur \subseteq Nat /\ m.desync \in BOOLEAN
  BY MachineParts
<1>2. w = [m EXCEPT !.cur = {e.value}]
  <2>1. {e.value} \cap Slots = {e.value}
    OBVIOUS
  <2> QED
    BY <2>1 DEF Step
<1>3. w = [cur |-> {e.value}, active |-> m.active, releases |-> m.releases, desync |-> m.desync]
  BY ONLY <1>1, <1>2
<1>4. w.cur = {e.value} /\ w.active = m.active /\ w.releases = m.releases /\ w.desync = m.desync
  BY ONLY <1>3
<1>5. w \in Machine
  <2>1. m \in Machine
    BY DEF MachineInv
  <2> QED
    BY <1>3, <2>1 DEF Machine
<1>6. Active(w) = Active(m) /\ Held(w) = Held(m)
  BY <1>4 DEF Active, Held
<1>7. MachineInv(w) /\ Ids(w) = Ids(m) /\ DownIds(w) = DownIds(m)
  BY <1>4, <1>5, <1>6 DEF MachineInv, Ids, DownIds
<1> QED
  BY <1>4, <1>6, <1>7, SilentLeaves DEF Sane

LEMMA StepTracking ==
  ASSUME NEW m, MachineInv(m), ~m.desync, NEW e, NEW dev, e.type = "tracking",
         NEW slot \in Nat, m.cur = {slot}, e.value \in Nat \cup {Lifted}, NEW w, w = Step(m, e),
         e.value # Lifted => (slot \in Active(m) /\ m.active[slot].id = e.value) \/ e.value \notin Ids(m)
  PROVE  /\ Sane(m, e, dev, w) /\ w.cur = m.cur /\ ~w.desync
         /\ Active(w) = (Active(m) \ m.cur) \cup (IF e.value = Lifted THEN {} ELSE m.cur)
         /\ Ids(w) \subseteq Ids(m) \cup (IF e.value = Lifted THEN {} ELSE {e.value})
<1>1. w = HandleTracking(m, e.value)
  BY DEF Step
<1> QED
  BY <1>1, TrackingSound, SilentLeaves DEF Sane

LEMMA StepPosition ==
  ASSUME NEW m, MachineInv(m), ~m.desync, NEW e, NEW dev, e.type \in {"x", "y"},
         NEW w, w = Step(m, e)
  PROVE  /\ Sane(m, e, dev, w) /\ w.cur = m.cur /\ ~w.desync /\ w.releases = m.releases
         /\ Active(w) = Active(m) /\ Ids(w) \subseteq Ids(m)
<1>1. w = UpdatePosition(m, e.type)
  BY DEF Step
<1> QED
  BY <1>1, PositionSound, SilentLeaves DEF Sane

LEMMA StepReport ==
  ASSUME NEW m, MachineInv(m), ~m.desync, NEW e, NEW dev, e.type = "report", NEW w, w = Step(m, e)
  PROVE  /\ Sane(m, e, dev, w) /\ w.cur = m.cur /\ ~w.desync /\ w.releases = {}
         /\ Active(w) = Active(m) /\ Ids(w) \subseteq Ids(m)
<1>1. w = Committed(m)
  BY DEF Step
<1>2. Output(m, e, dev) = FrameOutput(m, dev)
  BY DEF Output
<1>3. /\ MachineInv(w) /\ w.cur = m.cur /\ w.desync = m.desync /\ w.releases = {}
      /\ Active(w) = Active(m) /\ Ids(w) \subseteq Ids(m)
      /\ {c \in {<<dev, i>> : i \in DownIds(m)} \ FrameOutput(m, dev).up :
             c[1] \notin FrameOutput(m, dev).resync} \cup FrameOutput(m, dev).down
           = {<<dev, i>> : i \in DownIds(w)}
  BY <1>1, CommitSound
<1>4. Leaves(m, e, dev) = {<<dev, i>> : i \in DownIds(w)}
  BY <1>2, <1>3 DEF Leaves
<1> QED
  BY <1>3, <1>4 DEF Sane

-----------------------------------------------------------------------------
(* A step of the machine keeps what holds of the events to come.            *)

\* What the event e makes of the machine m.
Follows(m, e, w) ==
  /\ Active(w) \subseteq Slots /\ \E s \in Slots : w.cur = {s}
  /\ e.type = "report" => ~w.desync /\ w.releases = {}
  /\ w.releases # {} => Tracks(e) \/ (m.releases # {} /\ e.type # "report")
  /\ Slots # {0} => /\ \A i \in Ids(w) : i \in Ids(m) \/ (Starts(e) /\ i = e.value)
                    /\ Seen(w) = After(Seen(m), e)
  /\ Slots = {0} /\ ~w.desync /\ Active(w) # {} =>
       \/ e.type = "report" /\ node.held[0] # Lifted
       \/ Starts(e)
       \/ ~Tracks(e) /\ e.type # "dropped" /\ ~m.desync /\ Active(m) # {}

LEMMA StepBecomes ==
  ASSUME PanelType(node), NEW m, MachineInv(m), NEW e \in TouchEvent, NEW dev, NEW w, w = Step(m, e),
         Active(m) \subseteq Slots, NEW slot \in Slots, m.cur = {slot},
         e.type = "slot" => e.value \in Slots,
         Starts(e) => (slot \in Active(m) /\ m.active[slot].id = e.value) \/ e.value \notin Ids(m)
  PROVE  Sane(m, e, dev, w) /\ Follows(m, e, w)
<1>1. 0 \in Slots /\ Slots \subseteq Nat
  BY TouchConstants DEF PanelType, Panel, Slots
<1>2. /\ e.type \in {"slot", "tracking", "x", "y", "report", "dropped"}
      /\ e.value \in Nat \cup {Lifted}
  BY DEF TouchEvent
<1>3. m.desync \in BOOLEAN
  BY MachineParts
<1>4. CASE e.type = "dropped"
  <2>1. /\ Sane(m, e, dev, w) /\ w.desync /\ w.cur = {0} /\ w.releases = {} /\ Active(w) = {}
        /\ Ids(w) = {}
    BY <1>4, StepDropped
  <2>2. w.desync = TRUE
    BY <2>1 DEF Sane, MachineInv, Machine
  <2>3. Seen(w) = After(Seen(m), e)
    BY <1>4, <2>1, <2>2 DEF Seen, After, Blank
  <2> QED
    BY <1>1, <1>4, <2>1, <2>3 DEF Follows
<1>5. CASE e.type = "report" /\ m.desync
  <2>1. /\ Sane(m, e, dev, w) /\ ~w.desync /\ w.cur = {0} /\ w.releases = {}
        /\ Active(w) \subseteq {0} /\ (Active(w) # {} => Slots = {0} /\ node.held[0] # Lifted)
        /\ Slots # {0} => Ids(w) = {}
    BY <1>5, StepRebuild
  <2>2. w.desync = FALSE
    BY <2>1 DEF Sane, MachineInv, Machine
  <2>3. Slots # {0} => Seen(w) = After(Seen(m), e)
    BY <1>5, <2>1, <2>2 DEF Seen, After, Blank
  <2> QED
    BY <1>1, <1>5, <2>1, <2>3 DEF Follows
<1>6. CASE e.type \notin {"dropped", "report"} /\ m.desync
  <2>1. Sane(m, e, dev, w) /\ w = m
    BY <1>6, StepIgnored
  <2>2. Seen(w) = After(Seen(m), e)
    BY <1>6, <2>1 DEF Seen, After
  <2>3. Active(m) = {} /\ m.releases = {}
    BY <1>6, MachineParts DEF MachineInv, Held
  <2> QED
    BY <1>6, <2>1, <2>2, <2>3 DEF Follows
<1>7. CASE e.type = "slot" /\ ~m.desync
  <2>1. e.value \in Slots /\ e.value \in Nat
    BY <1>1, <1>7
  <2>2. /\ Sane(m, e, dev, w) /\ w.cur = {e.value} /\ ~w.desync /\ w.releases = m.releases
        /\ Active(w) = Active(m) /\ Ids(w) = Ids(m)
    BY <1>7, <2>1, StepSlot
  <2>3. w.desync = FALSE /\ m.desync = FALSE
    BY <1>3, <1>7, <2>2 DEF Sane, MachineInv, Machine
  <2>4. Seen(w) = After(Seen(m), e)
    BY <1>7, <2>2, <2>3 DEF Seen, After
  <2> QED
    BY <1>7, <2>1, <2>2, <2>4 DEF Follows, Tracks
<1>8. CASE e.type = "tracking" /\ ~m.desync
  <2>1. slot \in Nat /\ (e.value # Lifted => Starts(e))
    BY <1>1, <1>8 DEF Starts, Tracks
  <2>2. /\ Sane(m, e, dev, w) /\ w.cur = m.cur /\ ~w.desync
        /\ Active(w) = (Active(m) \ m.cur) \cup (IF e.value = Lifted THEN {} ELSE m.cur)
        /\ Ids(w) \subseteq Ids(m) \cup (IF e.value = Lifted THEN {} ELSE {e.value})
    BY <1>2, <1>8, <2>1, StepTracking
  <2>3. w.desync = FALSE /\ m.desync = FALSE
    BY <1>3, <1>8, <2>2 DEF Sane, MachineInv, Machine
  <2>4. Seen(w) = After(Seen(m), e)
    <3>1. CASE e.value = Lifted
      BY <1>8, <2>2, <2>3, <3>1 DEF Seen, After, Starts, Tracks
    <3>2. CASE e.value # Lifted
      <4>1. Active(w) = Active(m) \cup m.cur
        BY <2>2, <3>2
      <4> QED
        BY <1>8, <2>2, <2>3, <3>2, <4>1 DEF Seen, After, Starts, Tracks
    <3> QED
      BY <3>1, <3>2
  <2>5. Slots = {0} /\ Active(w) # {} => Starts(e)
    <3>1. ASSUME Slots = {0}, e.value = Lifted PROVE Active(w) = {}
      BY <2>2, <3>1
    <3> QED
      BY <2>1, <3>1
  <2>6. Active(w) \subseteq Slots /\ \A i \in Ids(w) : i \in Ids(m) \/ (Starts(e) /\ i = e.value)
    BY <2>1, <2>2
  <2> QED
    BY <1>8, <2>2, <2>4, <2>5, <2>6 DEF Follows, Tracks
<1>9. CASE e.type \in {"x", "y"} /\ ~m.desync
  <2>1. /\ Sane(m, e, dev, w) /\ w.cur = m.cur /\ ~w.desync /\ w.releases = m.releases
        /\ Active(w) = Active(m) /\ Ids(w) \subseteq Ids(m)
    BY <1>9, StepPosition
  <2>2. w.desync = FALSE /\ m.desync = FALSE
    BY <1>3, <1>9, <2>1 DEF Sane, MachineInv, Machine
  <2>3. Seen(w) = After(Seen(m), e)
    BY <1>9, <2>1, <2>2 DEF Seen, After, Starts, Tracks
  <2> QED
    BY <1>9, <2>1, <2>3 DEF Follows, Tracks
<1>10. CASE e.type = "report" /\ ~m.desync
  <2>1. /\ Sane(m, e, dev, w) /\ w.cur = m.cur /\ ~w.desync /\ w.releases = {}
        /\ Active(w) = Active(m) /\ Ids(w) \subseteq Ids(m)
    BY <1>10, StepReport
  <2>2. w.desync = FALSE /\ m.desync = FALSE
    BY <1>3, <1>10, <2>1 DEF Sane, MachineInv, Machine
  <2>3. Seen(w) = After(Seen(m), e)
    BY <1>10, <2>1, <2>2 DEF Seen, After, Starts, Tracks
  <2> QED
    BY <1>10, <2>1, <2>3 DEF Follows, Tracks
<1> QED
  BY <1>2, <1>4, <1>5, <1>6, <1>7, <1>8, <1>9, <1>10

\* The machine handles the first of the events to come.
LEMMA StepPending ==
  ASSUME PanelType(node), NEW m, MachineInv(m), NEW B, NEW P, NEW top \in Nat,
         PendingInv(node, m, B, P, top), B # <<>>, P # <<>>, B[1] = P[1], NEW dev, NEW w, w = Step(m, P[1])
  PROVE  Sane(m, P[1], dev, w) /\ PendingInv(node, w, Tail(B), Tail(P), top)
<1> DEFINE e == P[1]
           Q == Tail(P)
<1>1. Orderly(B, Slots, top) /\ Orderly(P, Slots, top) /\ node.slots = Slots
  BY DEF PendingInv, Slots
<1>2. Orderly(Tail(B), Slots, top)
  BY <1>1, OrderlyTail
<1>3. /\ Orderly(Q, Slots, top) /\ Q \in Seq(TouchEvent) /\ Len(P) \in Nat /\ Len(P) > 0
      /\ Len(Q) = Len(P) - 1 /\ \A i \in 1..Len(Q) : Q[i] = P[i + 1]
  BY <1>1, OrderlyTail
<1>4. P \in Seq(TouchEvent) /\ OfPanel(P, Slots, top) /\ Framed(P) /\ P[Len(P)].type = "report"
  BY <1>1 DEF Orderly
<1>5. 1 \in 1..Len(P) /\ e \in TouchEvent
  BY <1>3, <1>4
<1>6. 0 \in Slots /\ Slots \subseteq Nat
  BY TouchConstants DEF PanelType, Panel, Slots
<1>7. PICK slot \in Slots : m.cur = {slot}
  BY DEF PendingInv, Slots
<1>8. e.type = "slot" => e.value \in Slots
  BY <1>4, <1>5 DEF OfPanel
<1>9. Starts(e) => e.value \in Nat /\ e.value <= top
  BY <1>4, <1>5 DEF OfPanel, Starts, TouchEvent
<1>10. Active(m) \subseteq Slots
  BY <1>1 DEF PendingInv
<1>11. ASSUME Starts(e), ~(slot \in Active(m) /\ m.active[slot].id = e.value)
       PROVE  e.value \notin Ids(m)
  <2>1. CASE Slots # {0}
    <3>1. \A i \in Ids(m) : i < e.value
      BY <1>1, <1>5, <1>11, <2>1 DEF PendingInv
    <3>2. Ids(m) \subseteq Nat
      BY MachineParts
    <3> QED
      BY <1>9, <1>11, <3>1, <3>2
  <2>2. CASE Slots = {0}
    <3>1. m.releases = {}
      <4>1. ASSUME m.releases # {} PROVE FALSE
        <5>1. \E k \in 1..Len(P) : k < 1
          BY <4>1, <1>5, <1>11 DEF PendingInv, Starts
        <5> QED
          BY <5>1, <1>3
      <4> QED
        BY <4>1
    <3>2. slot = 0 /\ \A s \in Active(m) : s = 0
      BY <2>2, <1>7, <1>10
    <3>3. \A c \in Held(m) : slot \in Active(m) /\ c = m.active[slot]
      BY <3>1, <3>2 DEF Held
    <3> QED
      BY <1>11, <3>3 DEF Ids
  <2> QED
    BY <2>1, <2>2
<1>12. Sane(m, e, dev, w) /\ Follows(m, e, w)
  BY <1>5, <1>7, <1>8, <1>10, <1>11, StepBecomes
<1> HIDE DEF e, Q
<1>13. e = P[1] /\ Q = Tail(P)
  BY DEF e, Q
<1>14. (w.desync => Q # <<>>) /\ (w.releases # {} => Tail(B) # <<>>)
  <2>1. ASSUME Q = <<>> PROVE ~w.desync
    <3>1. Len(P) = 1
      BY <2>1, <1>3
    <3> QED
      BY <3>1, <1>4, <1>12, <1>13 DEF Follows
  <2>2. ASSUME Tail(B) = <<>> PROVE w.releases = {}
    <3>1. B \in Seq(TouchEvent) /\ B[Len(B)].type = "report"
      BY <1>1 DEF Orderly
    <3>2. Len(B) = 1
      <4>1. Len(B) \in Nat /\ Len(Tail(B)) = Len(B) - 1
        BY <1>1, OrderlyTail
      <4>2. PICK T : T = Tail(B)
        OBVIOUS
      <4>3. T = <<>>
        BY ONLY <2>2, <4>2, Zenon
      <4>4. Len(T) = 0
        BY ONLY <4>3
      <4>5. Len(Tail(B)) = 0
        BY ONLY <4>2, <4>4, Zenon
      <4> QED
        BY ONLY <4>1, <4>5
    <3> QED
      BY <3>1, <3>2, <1>12, <1>13 DEF Follows
  <2> QED
    BY <2>1, <2>2
<1>15. \A j \in 1..Len(Q) : j + 1 \in 1..Len(P) /\ 1 < j + 1
  BY <1>3
<1>16. ASSUME w.releases # {}, NEW j \in 1..Len(Q), Tracks(Q[j])
       PROVE  \E k \in 1..Len(Q) : k < j /\ Q[k].type = "report"
  <2>1. Tracks(P[j + 1])
    BY <1>3, <1>16
  <2>2. \E k \in 1..Len(P) : k # 1 /\ k < j + 1 /\ P[k].type = "report"
    <3>1. CASE Tracks(e)
      <4>1. \E k \in 1..Len(P) : 1 < k /\ k < j + 1 /\ P[k].type = "report"
        BY <3>1, <2>1, <1>4, <1>5, <1>13, <1>15 DEF Framed
      <4> QED
        BY <4>1
    <3>2. CASE m.releases # {} /\ e.type # "report"
      <4>1. \E k \in 1..Len(P) : k < j + 1 /\ P[k].type = "report"
        BY <3>2, <2>1, <1>15 DEF PendingInv
      <4> QED
        BY <4>1, <3>2, <1>13
    <3> QED
      BY <3>1, <3>2, <1>12, <1>16 DEF Follows
  <2>3. PICK k \in 1..Len(P) : k # 1 /\ k < j + 1 /\ P[k].type = "report"
    BY <2>2
  <2>4. k - 1 \in 1..Len(Q) /\ k - 1 < j /\ (k - 1) + 1 = k
    BY <2>3, <1>3
  <2>5. Q[k - 1].type = "report"
    BY <2>3, <2>4, <1>3
  <2> QED
    BY <2>4, <2>5
<1>17. ASSUME Slots # {0}, NEW i \in Ids(w)
       PROVE  i <= top /\ \A j \in 1..Len(Q) : Starts(Q[j]) => i < Q[j].value
  <2>1. CASE i \in Ids(m)
    <3>1. i <= top /\ \A j \in 1..Len(P) : Starts(P[j]) => i < P[j].value
      BY <2>1, <1>1, <1>17 DEF PendingInv
    <3> QED
      BY <3>1, <1>3, <1>15
  <2>2. CASE Starts(e) /\ i = e.value
    <3>1. ASSUME NEW j \in 1..Len(Q), Starts(Q[j]) PROVE i < Q[j].value
      <4>1. Starts(P[j + 1]) /\ Tracks(P[j + 1]) /\ Q[j] = P[j + 1]
        BY <3>1, <1>3 DEF Starts
      <4>2. Tracks(P[1]) /\ Starts(P[1])
        BY <2>2, <1>13 DEF Starts
      <4>3. P[1].value < P[j + 1].value
        BY <4>1, <4>2, <1>4, <1>5, <1>15 DEF Framed
      <4> QED
        BY <4>1, <4>3, <2>2, <1>13
    <3> QED
      BY <3>1, <2>2, <1>9
  <2> QED
    BY <2>1, <2>2, <1>12, <1>17 DEF Follows
<1>18. ASSUME Slots # {0}, NEW b, Ends(Seen(w), Q, b) PROVE Final(node, b)
  <2>1. Seen(m) \in View
    BY MachineParts DEF Seen, View
  <2>2. Seen(w) = After(Seen(m), P[1])
    BY <1>12, <1>13, <1>18 DEF Follows
  <2>3. Ends(Seen(m), P, b)
    BY <2>1, <2>2, <1>4, <1>13, <1>18, EndsFirst
  <2> QED
    BY <2>3, <1>1, <1>18 DEF PendingInv
<1>19. ASSUME Slots = {0} PROVE Alone(node, w, Q)
  <2>1. Alone(node, m, P)
    BY <1>1, <1>19 DEF PendingInv
  <2>2. ASSUME NEW t \in 0..Len(Q), Later(Q, t) PROVE Later(P, t + 1)
    <3>1. SUFFICES ASSUME NEW u \in 1..Len(P), t + 1 < u PROVE ~Tracks(P[u]) /\ P[u].type # "dropped"
      BY DEF Later
    <3>2. u - 1 \in 1..Len(Q) /\ t < u - 1 /\ (u - 1) + 1 = u
      BY <3>1, <1>3
    <3>3. Q[u - 1] = P[u]
      BY <3>2, <1>3
    <3> QED
      BY <3>2, <3>3, <2>2 DEF Later
  <2>3. ASSUME NEW t \in 1..Len(Q), Tracks(Q[t]), Later(Q, t) PROVE Q[t].value = node.held[0]
    <3>1. t \in 0..Len(Q) /\ t + 1 \in 1..Len(P) /\ Q[t] = P[t + 1]
      BY <1>3
    <3>2. Later(P, t + 1)
      BY <3>1, <2>2, <2>3
    <3> QED
      BY <3>1, <3>2, <2>1, <2>3 DEF Alone
  <2>4. ASSUME ~w.desync, Active(w) # {}, Later(Q, 0) PROVE node.held[0] # Lifted
    <3>1. Later(P, 1)
      <4>1. 0 \in 0..Len(Q) /\ 0 + 1 = 1
        BY <1>3
      <4> QED
        BY <4>1, <2>2, <2>4
    <3>2. CASE e.type = "report" /\ node.held[0] # Lifted
      BY <3>2
    <3>3. CASE Starts(e)
      <4>1. Tracks(P[1]) /\ P[1].value # Lifted
        BY <3>3, <1>13 DEF Starts
      <4> QED
        BY <4>1, <3>1, <2>1, <1>5 DEF Alone
    <3>4. CASE ~Tracks(e) /\ e.type # "dropped" /\ ~m.desync /\ Active(m) # {}
      <4>1. Later(P, 0)
        <5>1. SUFFICES ASSUME NEW u \in 1..Len(P) PROVE ~Tracks(P[u]) /\ P[u].type # "dropped"
          BY DEF Later
        <5>2. CASE u = 1
          BY <5>2, <3>4, <1>13
        <5>3. CASE u # 1
          <6>1. 1 < u
            BY <5>3, <1>3
          <6> QED
            BY <6>1, <3>1 DEF Later
        <5> QED
          BY <5>2, <5>3
      <4> QED
        BY <4>1, <3>4, <2>1 DEF Alone
    <3> QED
      BY <3>2, <3>3, <3>4, <2>4, <1>12, <1>19 DEF Follows
  <2> QED
    BY <2>3, <2>4 DEF Alone
<1>20. Active(w) \subseteq Slots /\ \E s \in Slots : w.cur = {s}
  BY <1>12 DEF Follows
<1>21. PendingInv(node, w, Tail(B), Q, top)
  BY <1>1, <1>2, <1>3, <1>14, <1>16, <1>17, <1>18, <1>19, <1>20 DEF PendingInv
<1> QED
  BY <1>12, <1>13, <1>21

-----------------------------------------------------------------------------
(* The kernel adds a frame, or drops the queue.                             *)

\* The event e of the slot turns the panel n into v; a contact gets the number new.
Fits(n, slot, e, v, top, new) ==
  /\ slot \in n.slots /\ v.slots = n.slots /\ v.cur = slot
  /\ \/ e.type \in {"x", "y"} /\ v.held = n.held /\ n.held[slot] # Lifted /\ new = top
     \/ /\ Tracks(e) /\ v.held = [n.held EXCEPT ![slot] = e.value]
        /\ (e.value = Lifted /\ new = top) \/ (e.value = new /\ new = top + 1)

\* A later contact changes nothing for events that do not know it.
LEMMA OrderlyMore ==
  ASSUME NEW P, NEW slots, NEW top \in Nat, NEW new \in Nat, top <= new, Orderly(P, slots, top)
  PROVE  Orderly(P, slots, new)
<1>1. P \in Seq(TouchEvent) /\ OfPanel(P, slots, top)
  BY DEF Orderly
<1>2. \A i \in 1..Len(P) : Starts(P[i]) => P[i].value \in Nat
  <2>1. \A i \in 1..Len(P) : P[i] \in TouchEvent
    BY <1>1
  <2> QED
    BY <2>1 DEF Starts, TouchEvent
<1>3. OfPanel(P, slots, new)
  BY <1>1, <1>2 DEF OfPanel
<1> QED
  BY <1>3 DEF Orderly

\* Events G behind a part A of what was to come.
LEMMA ExtendedPending ==
  ASSUME NEW n, NEW m, MachineInv(m), NEW B, NEW P, NEW top \in Nat, PendingInv(n, m, B, P, top),
         NEW A, Orderly(A, n.slots, top), m.releases # {} => A # <<>>,
         Len(A) <= Len(P), \A i \in 1..Len(A) : A[i] = P[i],
         NEW new \in Nat, top <= new, NEW G, Orderly(G, n.slots, new), G # <<>>,
         \A j \in 1..Len(G) : Starts(G[j]) => G[j].value = new /\ top < new,
         NEW v, v.slots = n.slots,
         n.slots # {0} => \A b : Ends(Seen(m), A \o G, b) => Final(v, b),
         n.slots = {0} => Alone(v, m, A \o G)
  PROVE  PendingInv(v, m, B, A \o G, new)
<1>1. PICK R : R = A \o G
  OBVIOUS
<1>2. Orderly(B, n.slots, new)
  BY OrderlyMore DEF PendingInv
<1>3. Orderly(R, n.slots, new)
  BY <1>1, OrderlyCat
<1>4. A \in Seq(TouchEvent) /\ G \in Seq(TouchEvent) /\ (A # <<>> => A[Len(A)].type = "report")
  BY DEF Orderly
<1>5. /\ R \in Seq(TouchEvent) /\ Len(A) \in Nat /\ Len(G) \in Nat /\ Len(R) = Len(A) + Len(G)
      /\ \A i \in 1..Len(A) : R[i] = A[i]
      /\ \A i \in 1..Len(G) : R[Len(A) + i] = G[i]
  BY ONLY <1>1, <1>4, CatFacts
<1>6. R # <<>>
  <2>1. Len(G) > 0
    BY <1>4
  <2> QED
    BY ONLY <2>1, <1>5
<1>7. P \in Seq(TouchEvent) /\ Len(P) \in Nat
  BY DEF PendingInv, Orderly
<1>8. \A j \in 1..Len(R) : \/ j \in 1..Len(A) /\ j \in 1..Len(P)
                           \/ j - Len(A) \in 1..Len(G) /\ Len(A) + (j - Len(A)) = j /\ Len(A) < j
  <2>1. Len(A) \in Nat /\ Len(G) \in Nat /\ Len(R) = Len(A) + Len(G) /\ Len(P) \in Nat /\ Len(A) <= Len(P)
    BY <1>5, <1>7
  <2> QED
    BY ONLY <2>1
<1>9. ASSUME m.releases # {}, NEW j \in 1..Len(R), Tracks(R[j])
      PROVE  \E k \in 1..Len(R) : k < j /\ R[k].type = "report"
  <2>1. CASE j \in 1..Len(A) /\ j \in 1..Len(P)
    <3>1. Tracks(P[j])
      BY <2>1, <1>5, <1>9
    <3>2. PICK k \in 1..Len(P) : k < j /\ P[k].type = "report"
      BY <2>1, <3>1, <1>9 DEF PendingInv
    <3>3. k \in 1..Len(A) /\ k \in 1..Len(R)
      BY <2>1, <3>2, <1>5, <1>7
    <3>4. R[k].type = "report"
      BY <3>2, <3>3, <1>5
    <3> QED
      BY <3>2, <3>3, <3>4
  <2>2. CASE Len(A) < j
    <3>1. A # <<>>
      BY <1>9
    <3>2. Len(A) \in 1..Len(A) /\ Len(A) \in 1..Len(R)
      BY <3>1, <1>4, <1>5
    <3>3. R[Len(A)].type = "report"
      BY <3>1, <3>2, <1>4, <1>5
    <3> QED
      BY <2>2, <3>2, <3>3
  <2> QED
    BY <2>1, <2>2, <1>8
<1>10. ASSUME n.slots # {0}, NEW i \in Ids(m)
       PROVE  i <= new /\ \A j \in 1..Len(R) : Starts(R[j]) => i < R[j].value
  <2>1. i \in Nat /\ i <= top /\ \A j \in 1..Len(P) : Starts(P[j]) => i < P[j].value
    BY <1>10, MachineParts DEF PendingInv
  <2>2. ASSUME NEW j \in 1..Len(R), Starts(R[j]) PROVE i < R[j].value
    <3>1. CASE j \in 1..Len(A) /\ j \in 1..Len(P)
      BY <3>1, <2>1, <2>2, <1>5
    <3>2. CASE j - Len(A) \in 1..Len(G) /\ Len(A) + (j - Len(A)) = j
      <4>1. R[j] = G[j - Len(A)]
        BY <3>2, <1>5
      <4>2. R[j].value = new /\ top < new
        BY <4>1, <3>2, <2>2
      <4> QED
        BY <4>2, <2>1
    <3> QED
      BY <3>1, <3>2, <1>8
  <2>3. i <= new
    BY <2>1
  <2> QED
    BY <2>2, <2>3
<1>11. /\ Active(m) \subseteq n.slots /\ (\E s \in n.slots : m.cur = {s})
       /\ (m.releases # {} => B # <<>>)
  BY DEF PendingInv
<1>12. /\ n.slots # {0} => \A b : Ends(Seen(m), R, b) => Final(v, b)
       /\ n.slots = {0} => Alone(v, m, R)
  BY <1>1
<1>13. PendingInv(v, m, B, R, new)
  BY ONLY <1>2, <1>3, <1>6, <1>9, <1>10, <1>11, <1>12, v.slots = n.slots DEF PendingInv
<1> QED
  BY <1>1, <1>13

\* The view at the end stays right through a frame.
LEMMA FinalFrame ==
  ASSUME NEW n, PanelType(n), NEW slot, NEW e \in TouchEvent, NEW v, NEW top, NEW new \in Nat,
         Fits(n, slot, e, v, top, new), NEW c \in View, Final(n, c), NEW d, NEW b, b = After(d, e),
         d = IF slot = n.cur THEN c ELSE [cur |-> {slot}, act |-> c.act, desync |-> FALSE]
  PROVE  Final(v, b)
<1>1. /\ n.slots \in SlotSets /\ n.held \in [n.slots -> Nat \cup {Lifted}] /\ n.cur \in n.slots
      /\ 0 \in n.slots /\ slot \in n.slots /\ v.slots = n.slots /\ v.cur = slot
  BY TouchConstants DEF PanelType, Panel, Fits
<1>2. /\ ~c.desync /\ c.act \subseteq n.slots
      /\ \A s \in c.act : s # 0 => n.held[s] # Lifted
      /\ c.cur = {n.cur} \/ (c.cur = {0} /\ c.act \subseteq {0})
      /\ n.slots \subseteq {0, 1} /\ 0 \in c.act =>
           n.held[0] # Lifted \/ (c.cur = {0} /\ n.cur # 0 /\ n.held[n.cur] # Lifted)
  BY DEF Final
<1>3. ~d.desync /\ d.act = c.act /\ (slot # n.cur => d.cur = {slot}) /\ (slot = n.cur => d.cur = c.cur)
  BY <1>2
<1>4. CASE e.type \in {"x", "y"} /\ v.held = n.held /\ n.held[slot] # Lifted
  <2>1. b = d
    BY <1>3, <1>4 DEF After, Starts, Tracks
  <2>2. d.cur = {slot} \/ (d.cur = {0} /\ d.act \subseteq {0})
    BY <1>2, <1>3
  <2>3. n.slots \subseteq {0, 1} /\ 0 \in d.act =>
          n.held[0] # Lifted \/ (d.cur = {0} /\ slot # 0 /\ n.held[slot] # Lifted)
    <3>1. CASE slot = n.cur
      BY <3>1, <1>2, <1>3
    <3>2. CASE slot # n.cur
      BY <3>2, <1>1, <1>2, <1>3, <1>4
    <3> QED
      BY <3>1, <3>2
  <2> QED
    BY <2>1, <2>2, <2>3, <1>1, <1>2, <1>3, <1>4 DEF Final
<1>5. CASE Tracks(e) /\ v.held = [n.held EXCEPT ![slot] = e.value]
  <2>1. /\ \A s \in n.slots : s # slot => v.held[s] = n.held[s]
        /\ v.held[slot] = e.value
    BY <1>1, <1>5
  <2>2. CASE e.value = Lifted
    <3>1. ~b.desync /\ b.cur = d.cur /\ b.act = c.act \ d.cur
      BY <1>3, <1>5, <2>2 DEF After, Starts, Tracks
    <3>2. CASE d.cur = {slot}
      <4>1. n.slots \subseteq {0, 1} /\ 0 \in b.act => n.held[0] # Lifted /\ slot # 0
        BY ONLY <3>1, <3>2, <1>1, <1>2, <1>3
      <4>2. \A s \in b.act : s # 0 => v.held[s] # Lifted
        BY <3>1, <3>2, <2>1, <1>2
      <4> QED
        BY <3>1, <3>2, <4>1, <4>2, <2>1, <1>1, <1>2 DEF Final
    <3>3. CASE d.cur = {0} /\ c.act \subseteq {0}
      <4>1. b.act = {}
        BY <3>1, <3>3
      <4> QED
        BY <3>1, <3>3, <4>1 DEF Final
    <3> QED
      BY <3>2, <3>3, <1>2, <1>3
  <2>3. CASE e.value # Lifted
    <3>1. ~b.desync /\ b.cur = d.cur /\ b.act = c.act \cup d.cur
      BY <1>3, <1>5, <2>3 DEF After, Starts, Tracks
    <3>2. CASE d.cur = {slot}
      <4>1. n.slots \subseteq {0, 1} /\ 0 \in b.act => v.held[0] # Lifted
        <5>1. CASE slot = 0
          BY <5>1, <2>1, <2>3
        <5>2. CASE slot # 0
          <6>1. ASSUME n.slots \subseteq {0, 1}, 0 \in c.act PROVE n.held[0] # Lifted
            BY <5>2, <6>1, <3>2, <1>1, <1>2, <1>3
          <6> QED
            BY <5>2, <6>1, <3>1, <3>2, <2>1, <1>1
        <5> QED
          BY <5>1, <5>2
      <4>2. \A s \in b.act : s # 0 => v.held[s] # Lifted
        BY <3>1, <3>2, <2>1, <2>3, <1>2
      <4> QED
        BY <3>1, <3>2, <4>1, <4>2, <1>1, <1>2 DEF Final
    <3>3. CASE d.cur = {0} /\ c.act \subseteq {0} /\ slot # 0
      BY <3>1, <3>3, <2>1, <2>3, <1>1 DEF Final
    <3> QED
      BY <3>2, <3>3, <1>2, <1>3
  <2> QED
    BY <2>2, <2>3
<1> QED
  BY <1>4, <1>5 DEF Fits

\* A panel of one slot: what follows the events P says what the slot holds.
LEMMA AloneSent ==
  ASSUME NEW n, PanelType(n), n.slots = {0}, NEW m, NEW slot, NEW e, NEW v, NEW top, NEW new,
         Fits(n, slot, e, v, top, new),
         NEW P \in Seq(TouchEvent), NEW G \in Seq(TouchEvent),
         \A i \in 1..Len(G) : Tracks(G[i]) => G[i] = e,
         \/ \E i \in 1..Len(G) : G[i].type = "dropped"
         \/ Alone(n, m, P) /\ \E i \in 1..Len(G) : G[i] = e
  PROVE  Alone(v, m, P \o G)
<1>1. PICK R : R = P \o G
  OBVIOUS
<1>2. /\ R \in Seq(TouchEvent) /\ Len(P) \in Nat /\ Len(G) \in Nat /\ Len(R) = Len(P) + Len(G)
      /\ \A i \in 1..Len(P) : R[i] = P[i]
      /\ \A i \in 1..Len(G) : R[Len(P) + i] = G[i]
  BY ONLY <1>1, CatFacts, P \in Seq(TouchEvent), G \in Seq(TouchEvent)
<1>3. \A t \in 1..Len(R) : t \in 1..Len(P) \/ (t - Len(P) \in 1..Len(G) /\ Len(P) + (t - Len(P)) = t)
  BY ONLY <1>2
<1>4. \A i \in 1..Len(G) : Len(P) + i \in 1..Len(R) /\ \A t \in 0..Len(P) : t < Len(P) + i
  BY ONLY <1>2
<1>5. slot = 0 /\ (Tracks(e) => v.held[0] = e.value) /\ (~Tracks(e) => v.held = n.held)
  <2>1. slot = 0 /\ n.held \in [{0} -> Nat \cup {Lifted}]
    BY DEF Fits, PanelType
  <2>2. CASE e.type \in {"x", "y"} /\ v.held = n.held
    BY <2>1, <2>2 DEF Tracks
  <2>3. CASE Tracks(e) /\ v.held = [n.held EXCEPT ![slot] = e.value]
    BY <2>1, <2>3
  <2> QED
    BY <2>1, <2>2, <2>3 DEF Fits
<1>6. ASSUME NEW t \in 0..Len(P), Later(R, t)
      PROVE  ~Tracks(e) /\ Alone(n, m, P) /\ Later(P, t)
  <2>1. \A i \in 1..Len(G) : ~Tracks(G[i]) /\ G[i].type # "dropped"
    <3>1. SUFFICES ASSUME NEW i \in 1..Len(G) PROVE ~Tracks(G[i]) /\ G[i].type # "dropped"
      OBVIOUS
    <3>2. Len(P) + i \in 1..Len(R) /\ t < Len(P) + i /\ R[Len(P) + i] = G[i]
      BY <1>2, <1>4
    <3> QED
      BY ONLY <3>2, <1>6 DEF Later
  <2>2. \A u \in 1..Len(P) : u \in 1..Len(R)
    BY ONLY <1>2
  <2>3. Later(P, t)
    BY ONLY <2>2, <1>2, <1>6 DEF Later
  <2> QED
    BY <2>1, <2>3
<1>7. ASSUME NEW t \in 1..Len(R), Tracks(R[t]), Later(R, t) PROVE R[t].value = v.held[0]
  <2>1. CASE t \in 1..Len(P)
    <3>1. t \in 0..Len(P)
      BY ONLY <2>1, <1>2
    <3>2. ~Tracks(e) /\ Alone(n, m, P) /\ Later(P, t)
      BY <3>1, <1>6, <1>7
    <3>3. R[t] = P[t]
      BY <2>1, <1>2
    <3>4. P[t].value = n.held[0]
      BY ONLY <3>2, <3>3, <2>1, <1>7 DEF Alone
    <3> QED
      BY ONLY <3>2, <3>3, <3>4, <1>5
  <2>2. CASE t - Len(P) \in 1..Len(G) /\ Len(P) + (t - Len(P)) = t
    <3>1. R[t] = G[t - Len(P)]
      BY <2>2, <1>2
    <3>2. R[t] = e
      BY <3>1, <2>2, <1>7
    <3> QED
      BY ONLY <3>2, <1>5, <1>7
  <2> QED
    BY <2>1, <2>2, <1>3
<1>8. ASSUME ~m.desync, Active(m) # {}, Later(R, 0) PROVE v.held[0] # Lifted
  <2>1. 0 \in 0..Len(P)
    BY ONLY <1>2
  <2>2. ~Tracks(e) /\ Alone(n, m, P) /\ Later(P, 0)
    BY <2>1, <1>6, <1>8
  <2> QED
    BY ONLY <2>2, <1>5, <1>8 DEF Alone
<1> QED
  BY <1>1, <1>7, <1>8 DEF Alone

\* The frame F of the events E of a slot turns the panel n into v.
Sends(n, slot, E, v, top, new, F) ==
  /\ E \in Seq(TouchEvent) /\ Len(E) \in 1..3 /\ \A i \in 2..Len(E) : E[i].type \in {"x", "y"}
  /\ Fits(n, slot, E[1], v, top, new)
  /\ F = (IF slot = n.cur THEN <<>> ELSE <<Event("slot", slot)>>) \o E \o <<Report>>

LEMMA FrameSent ==
  ASSUME NEW n, PanelType(n), NEW slot, NEW E, NEW v, NEW top \in Nat, NEW new \in Nat, NEW F,
         Sends(n, slot, E, v, top, new, F)
  PROVE  /\ E[1] \in TouchEvent /\ IsFrame(F, n.slots, new) /\ F \in Seq(TouchEvent)
         /\ \A i \in 1..Len(F) : Tracks(F[i]) => F[i] = E[1]
         /\ \E i \in 1..Len(F) : F[i] = E[1]
         /\ top <= new /\ \A i \in 1..Len(F) : Starts(F[i]) => F[i].value = new /\ top < new
         /\ \A c \in View : \A b : Final(n, c) /\ Ends(c, F, b) => Final(v, b)
<1> DEFINE S == IF slot = n.cur THEN <<>> ELSE <<Event("slot", slot)>>
<1> /\ E \in Seq(TouchEvent) /\ Len(E) \in 1..3 /\ \A i \in 2..Len(E) : E[i].type \in {"x", "y"}
    /\ Fits(n, slot, E[1], v, top, new) /\ F = S \o E \o <<Report>>
  BY DEF Sends
<1>1. 1 \in 1..Len(E)
  BY Len(E) \in 1..3
<1>2. E[1] \in TouchEvent
  BY <1>1
<1>3. slot \in n.slots /\ n.slots \subseteq Nat
  BY TouchConstants DEF PanelType, Panel, Fits
<1>4. PICK h : h = Event("slot", slot)
  OBVIOUS
<1>5. h \in TouchEvent /\ h.type = "slot" /\ h.value \in n.slots
  BY <1>3, <1>4 DEF Event, TouchEvent
<1>6. /\ S \in Seq(TouchEvent) /\ Len(S) \in 0..1
      /\ \A i \in 1..Len(S) : S[i].type = "slot" /\ S[i].value \in n.slots
      /\ (slot = n.cur => S = <<>>) /\ (slot # n.cur => S # <<>> /\ S[1] = h)
  <2>1. CASE slot = n.cur
    <3>1. S = <<>>
      BY <2>1
    <3>2. S \in Seq(TouchEvent) /\ Len(S) = 0
      BY ONLY <3>1
    <3> QED
      BY ONLY <2>1, <3>1, <3>2
  <2>2. CASE slot # n.cur
    <3>1. S = <<h>>
      BY <2>2, <1>4
    <3>2. S \in Seq(TouchEvent) /\ Len(S) = 1 /\ S[1] = h
      BY ONLY <3>1, <1>5
    <3>3. S # <<>>
      BY ONLY <3>2
    <3>4. \A i \in 1..Len(S) : S[i] = h
      BY ONLY <3>2
    <3> QED
      BY ONLY <2>2, <3>2, <3>3, <3>4, <1>5
  <2> QED
    BY <2>1, <2>2
<1> HIDE DEF S
<1>7. E[1].type \in {"tracking", "x", "y"} /\ top <= new /\ (Starts(E[1]) => E[1].value = new /\ top < new)
  <2>1. PICK e : e = E[1]
    OBVIOUS
  <2>2. Fits(n, slot, e, v, top, new)
    BY <2>1
  <2>3. new = top \/ new = top + 1
    BY ONLY <2>2 DEF Fits
  <2>4. top <= new /\ (new = top + 1 => top < new)
    BY ONLY <2>3, top \in Nat
  <2>5. e.type \in {"tracking", "x", "y"} /\ (Starts(e) => e.value = new /\ new = top + 1)
    BY ONLY <2>2 DEF Fits, Starts, Tracks
  <2> QED
    BY ONLY <2>1, <2>4, <2>5
<1>8. Starts(E[1]) => E[1].value <= new
  BY <1>7
<1>9. Built(F, S, E, n.slots, new)
  BY <1>6, <1>7, <1>8 DEF Built
<1>10. /\ IsFrame(F, n.slots, new)
       /\ \A i \in 1..Len(F) : Tracks(F[i]) => F[i] = E[1]
       /\ \E i \in 1..Len(F) : F[i] = E[1]
  BY ONLY <1>9, FrameShape
<1>11. \A i \in 1..Len(F) : Starts(F[i]) => F[i].value = new /\ top < new
  <2>1. SUFFICES ASSUME NEW i \in 1..Len(F), Starts(F[i]) PROVE F[i].value = new /\ top < new
    OBVIOUS
  <2>2. F[i] = E[1]
    BY <2>1, <1>10 DEF Starts
  <2> QED
    BY ONLY <2>1, <2>2, <1>7
<1>12. ASSUME NEW c \in View, NEW b, Final(n, c), Ends(c, F, b) PROVE Final(v, b)
  <2>1. PICK d : d = IF S = <<>> THEN c ELSE After(c, S[1])
    OBVIOUS
  <2>2. ~c.desync
    BY <1>12 DEF Final
  <2>3. b = After(d, E[1])
    BY ONLY <2>1, <2>2, <1>9, <1>12, FrameEffect
  <2>4. d = IF slot = n.cur THEN c ELSE [cur |-> {slot}, act |-> c.act, desync |-> FALSE]
    <3>1. CASE slot = n.cur
      BY ONLY <3>1, <2>1, <1>6
    <3>2. CASE slot # n.cur
      <4>1. h.type = "slot" /\ h.value = slot
        BY <1>4 DEF Event
      <4>2. After(c, h) = [cur |-> {slot}, act |-> c.act, desync |-> FALSE]
        BY ONLY <4>1, <2>2 DEF After
      <4> QED
        BY ONLY <3>2, <4>2, <2>1, <1>6
    <3> QED
      BY <3>1, <3>2
  <2>5. PICK e \in TouchEvent : e = E[1]
    BY <1>2
  <2>6. Fits(n, slot, e, v, top, new) /\ b = After(d, e)
    BY <2>3, <2>5
  <2> QED
    BY ONLY PanelType(n), <2>4, <2>6, <1>12, new \in Nat, FinalFrame
<1>13. F \in Seq(TouchEvent)
  BY <1>10 DEF IsFrame
<1> QED
  BY <1>2, <1>7, <1>10, <1>11, <1>12, <1>13

\* The queue takes the frame.
LEMMA SendKeeps ==
  ASSUME NEW n, PanelType(n), NEW m, MachineInv(m), NEW B, NEW P, NEW top \in Nat,
         PendingInv(n, m, B, P, top), m.releases # {} => P # <<>>,
         NEW slot, NEW E, NEW v, NEW new \in Nat, NEW F, Sends(n, slot, E, v, top, new, F)
  PROVE  PendingInv(v, m, B, P \o F, new)
<1>1. /\ E[1] \in TouchEvent /\ IsFrame(F, n.slots, new) /\ F \in Seq(TouchEvent)
      /\ \A i \in 1..Len(F) : Tracks(F[i]) => F[i] = E[1]
      /\ \E i \in 1..Len(F) : F[i] = E[1]
      /\ top <= new /\ \A i \in 1..Len(F) : Starts(F[i]) => F[i].value = new /\ top < new
      /\ \A c \in View : \A b : Final(n, c) /\ Ends(c, F, b) => Final(v, b)
  BY FrameSent
<1>2. Orderly(F, n.slots, new) /\ F # <<>>
  BY <1>1, FrameOrderly
<1>3. Orderly(P, n.slots, top) /\ P \in Seq(TouchEvent) /\ Len(P) \in Nat
  BY DEF PendingInv, Orderly
<1>4. v.slots = n.slots /\ Fits(n, slot, E[1], v, top, new)
  BY DEF Sends, Fits
<1>5. ASSUME n.slots # {0}, NEW b, Ends(Seen(m), P \o F, b) PROVE Final(v, b)
  <2>1. PICK c \in View : Ends(Seen(m), P, c) /\ Ends(c, F, b)
    BY ONLY <1>1, <1>3, <1>5, EndsCat
  <2>2. Final(n, c)
    BY <2>1, <1>5 DEF PendingInv
  <2> QED
    BY <2>1, <2>2, <1>1
<1>6. ASSUME n.slots = {0} PROVE Alone(v, m, P \o F)
  <2>1. Alone(n, m, P)
    BY <1>6 DEF PendingInv
  <2>2. PICK e : e = E[1]
    OBVIOUS
  <2>3. /\ Fits(n, slot, e, v, top, new) /\ (\A i \in 1..Len(F) : Tracks(F[i]) => F[i] = e)
        /\ \E i \in 1..Len(F) : F[i] = e
    BY <2>2, <1>1, <1>4
  <2> QED
    BY ONLY <2>1, <2>3, <1>1, <1>3, <1>6, PanelType(n), AloneSent
<1>7. Len(P) <= Len(P)
  BY <1>3
<1> QED
  BY <1>1, <1>2, <1>3, <1>4, <1>5, <1>6, <1>7, ExtendedPending

\* The queue is lost, and what is left of the frame is behind a drop.
LEMMA LoseKeeps ==
  ASSUME NEW n, PanelType(n), NEW m, MachineInv(m), NEW B, NEW P, NEW top \in Nat,
         PendingInv(n, m, B, P, top), Len(B) <= Len(P), \A i \in 1..Len(B) : B[i] = P[i],
         NEW slot, NEW E, NEW v, PanelType(v), NEW new \in Nat, NEW F,
         Sends(n, slot, E, v, top, new, F),
         NEW r, NEW D, Lost(F, r, D)
  PROVE  PendingInv(v, m, B, B \o D, new) /\ Len(D) \in 2..6 /\ D \in Seq(TouchEvent)
<1>1. /\ E[1] \in TouchEvent /\ IsFrame(F, n.slots, new) /\ F \in Seq(TouchEvent)
      /\ \A i \in 1..Len(F) : Tracks(F[i]) => F[i] = E[1]
      /\ \E i \in 1..Len(F) : F[i] = E[1]
      /\ top <= new /\ \A i \in 1..Len(F) : Starts(F[i]) => F[i].value = new /\ top < new
      /\ \A c \in View : \A b : Final(n, c) /\ Ends(c, F, b) => Final(v, b)
  BY ONLY PanelType(n), Sends(n, slot, E, v, top, new, F), top \in Nat, new \in Nat, FrameSent
<1>2. /\ Orderly(D, n.slots, new) /\ Len(D) \in 2..6 /\ D # <<>> /\ D[1].type = "dropped"
      /\ \A i \in 2..Len(D) : D[i] = F[r + i - 2] /\ r + i - 2 \in 1..Len(F)
      /\ \A i \in 2..Len(D) : D[i].type # "dropped" /\ (D[i].type = "report" <=> i = Len(D))
  <2>1. IsFrame(F, n.slots, new)
    BY <1>1
  <2> QED
    BY ONLY <2>1, Lost(F, r, D), LostFrame
<1>3. /\ Orderly(B, n.slots, top) /\ B \in Seq(TouchEvent) /\ (m.releases # {} => B # <<>>)
      /\ D \in Seq(TouchEvent)
  BY <1>2 DEF PendingInv, Orderly
<1>4. /\ \A i \in 1..Len(D) : Tracks(D[i]) => D[i] = E[1]
      /\ \A i \in 1..Len(D) : Starts(D[i]) => D[i].value = new /\ top < new
  <2>1. SUFFICES ASSUME NEW i \in 1..Len(D), Tracks(D[i])
                 PROVE  D[i] = E[1] /\ (Starts(D[i]) => D[i].value = new /\ top < new)
    BY DEF Starts
  <2>2. i # 1
    BY <2>1, <1>2 DEF Tracks
  <2>3. i \in 2..Len(D)
    BY ONLY <2>2, <1>2, i \in 1..Len(D)
  <2>4. D[i] = F[r + i - 2] /\ r + i - 2 \in 1..Len(F)
    BY <2>3, <1>2
  <2> QED
    BY <2>1, <2>4, <1>1
<1>5. v.slots = n.slots /\ Fits(n, slot, E[1], v, top, new)
  BY DEF Sends, Fits
<1>6. ASSUME n.slots # {0}, NEW b, Ends(Seen(m), B \o D, b) PROVE Final(v, b)
  <2>1. PICK c \in View : Ends(Seen(m), B, c) /\ Ends(c, D, b)
    BY ONLY <1>3, <1>6, EndsCat
  <2>2. b = Blank(FALSE)
    BY ONLY <2>1, <1>2, EndsLost
  <2> QED
    BY <2>2 DEF Blank, Final
<1>7. ASSUME n.slots = {0} PROVE Alone(v, m, B \o D)
  <2>1. PICK e : e = E[1]
    OBVIOUS
  <2>2. Fits(n, slot, e, v, top, new) /\ \A i \in 1..Len(D) : Tracks(D[i]) => D[i] = e
    BY <2>1, <1>4, <1>5
  <2>3. \E i \in 1..Len(D) : D[i].type = "dropped"
    <3>1. 1 \in 1..Len(D)
      BY ONLY <1>2
    <3> QED
      BY <3>1, <1>2
  <2> QED
    BY ONLY <2>2, <2>3, <1>3, <1>7, PanelType(n), AloneSent
<1>8. PendingInv(v, m, B, B \o D, new)
  BY <1>1, <1>2, <1>3, <1>4, <1>5, <1>6, <1>7, ExtendedPending
<1> QED
  BY <1>2, <1>3, <1>8

LEMMA CatAssociative ==
  ASSUME NEW P \in Seq(TouchEvent), NEW Q \in Seq(TouchEvent), NEW R \in Seq(TouchEvent)
  PROVE  (P \o Q) \o R = P \o (Q \o R)
OBVIOUS

\* The kernel queues the frame.
LEMMA QueueKeeps ==
  ASSUME NEW n, PanelType(n), NEW m, MachineInv(m), NEW B, NEW Q \in Seq(TouchEvent),
         Len(Q) <= QueueLimit, NEW top \in Nat, PendingInv(n, m, B, B \o Q, top),
         NEW slot, NEW E, NEW v, PanelType(v), NEW new \in Nat, NEW F,
         Sends(n, slot, E, v, top, new, F), NEW K, K = Queued(Q, F)
  PROVE  K \in Seq(TouchEvent) /\ Len(K) <= QueueLimit /\ PendingInv(v, m, B, B \o K, new)
<1>1. PICK P : P = B \o Q
  OBVIOUS
<1>2. PendingInv(n, m, B, P, top)
  BY <1>1
<1>3. B \in Seq(TouchEvent) /\ (m.releases # {} => B # <<>>)
  BY DEF PendingInv, Orderly
<1>4. /\ P \in Seq(TouchEvent) /\ Len(B) \in Nat /\ Len(Q) \in Nat /\ Len(P) = Len(B) + Len(Q)
      /\ \A i \in 1..Len(B) : P[i] = B[i]
  BY ONLY <1>1, <1>3, Q \in Seq(TouchEvent), CatFacts
<1>5. m.releases # {} => P # <<>>
  <2>1. B # <<>> => Len(B) > 0
    BY <1>3
  <2>2. B # <<>> => P # <<>>
    BY ONLY <2>1, <1>4
  <2> QED
    BY <2>2, <1>3
<1>6. QueueLimit \in Nat /\ QueueLimit >= 6
  BY TouchConstants
<1>7. IsFrame(F, n.slots, new) /\ F \in Seq(TouchEvent)
  BY ONLY PanelType(n), Sends(n, slot, E, v, top, new, F), top \in Nat, new \in Nat, FrameSent
<1>8. Len(F) \in 1..5
  BY <1>7 DEF IsFrame
<1>9. CASE Len(F) <= QueueLimit - Len(Q)
  <2>1. K = Q \o F
    BY <1>9 DEF Queued
  <2>2. K \in Seq(TouchEvent) /\ Len(K) = Len(Q) + Len(F)
    BY ONLY <2>1, <1>7, Q \in Seq(TouchEvent), CatFacts
  <2>3. Len(K) <= QueueLimit
    BY ONLY <2>2, <1>4, <1>6, <1>8, <1>9
  <2>4. P \o F = B \o K
    BY ONLY <2>1, <1>1, <1>3, <1>7, Q \in Seq(TouchEvent), CatAssociative
  <2>5. PendingInv(v, m, B, P \o F, new)
    BY ONLY PanelType(n), MachineInv(m), Sends(n, slot, E, v, top, new, F), top \in Nat, new \in Nat,
            <1>2, <1>5, SendKeeps
  <2> QED
    BY <2>2, <2>3, <2>4, <2>5
<1>10. CASE ~(Len(F) <= QueueLimit - Len(Q))
  <2>1. PICK r : r = QueueLimit - Len(Q) + 1
    OBVIOUS
  <2>2. r \in 1..Len(F)
    BY ONLY <2>1, <1>4, <1>6, <1>8, <1>10, Len(Q) <= QueueLimit
  <2>3. K = <<Dropped>> \o SubSeq(F, r, Len(F))
    BY <1>10, <2>1 DEF Queued
  <2>4. Lost(F, r, K)
    BY ONLY <2>2, <2>3 DEF Lost
  <2>5. Len(B) <= Len(P) /\ \A i \in 1..Len(B) : B[i] = P[i]
    BY ONLY <1>4
  <2>6. PendingInv(v, m, B, B \o K, new) /\ Len(K) \in 2..6 /\ K \in Seq(TouchEvent)
    BY ONLY PanelType(n), PanelType(v), MachineInv(m), Sends(n, slot, E, v, top, new, F),
            top \in Nat, new \in Nat, <1>2, <2>4, <2>5, LoseKeeps
  <2>7. Len(K) <= QueueLimit
    <3>1. PICK k \in 2..6 : k = Len(K)
      BY <2>6
    <3>2. k <= QueueLimit
      BY ONLY k \in 2..6, <1>6
    <3> QED
      BY <3>1, <3>2
  <2> QED
    BY <2>6, <2>7
<1> QED
  BY <1>9, <1>10

\* A frame of the panel keeps the invariant.
LEMMA SendingKeeps ==
  ASSUME InputInv, node.inode # 0, NEW slot, NEW E, KernelSends(slot, E),
         PanelType(node'), node'.inode = node.inode, lastTracking' \in Nat,
         Sends(node, slot, E, node', lastTracking, lastTracking', Frame(slot, E))
  PROVE  InputInv'
<1>1. /\ queue' = (IF Live THEN Queued(queue, Frame(slot, E)) ELSE queue)
      /\ UNCHANGED <<opened, known, batch, machine, tracked, nextId, plugs>>
  BY DEF KernelSends, Live
<1>2. /\ PanelType(node) /\ lastTracking \in Nat /\ plugs \in Nat
      /\ batch \in Seq(TouchEvent) /\ queue \in Seq(TouchEvent) /\ Len(queue) <= QueueLimit
      /\ MachineInv(machine) /\ tracked = Told(opened, machine)
  BY DEF InputInv, TypesInv
<1>3. Live' <=> Live
  BY <1>1 DEF Live
<1>4. ASSUME Live
      PROVE  /\ queue' \in Seq(TouchEvent) /\ Len(queue') <= QueueLimit
             /\ PendingInv(node', machine, batch, batch \o queue', lastTracking')
  <2>1. PICK F : F = Frame(slot, E)
    OBVIOUS
  <2>2. PICK v : v = node'
    OBVIOUS
  <2>3. PICK new \in Nat : new = lastTracking'
    OBVIOUS
  <2>4. PICK K : K = queue'
    OBVIOUS
  <2>5. K = Queued(queue, F) /\ Sends(node, slot, E, v, lastTracking, new, F) /\ PanelType(v)
    BY <1>1, <1>4, <2>1, <2>2, <2>3, <2>4
  <2>6. PendingInv(node, machine, batch, batch \o queue, lastTracking)
    BY <1>4 DEF InputInv
  <2>7. K \in Seq(TouchEvent) /\ Len(K) <= QueueLimit /\ PendingInv(v, machine, batch, batch \o K, new)
    BY ONLY <2>5, <2>6, <1>2, new \in Nat, QueueKeeps
  <2> QED
    BY <2>2, <2>3, <2>4, <2>7
<1>5. queue' \in Seq(TouchEvent) /\ Len(queue') <= QueueLimit
  BY <1>1, <1>2, <1>4
<1>6. TypesInv'
  BY <1>1, <1>5 DEF InputInv, TypesInv
<1>7. MachineInv(machine)' /\ (tracked = Told(opened, machine))' /\ (opened = {} => machine = CleanMachine)'
  BY <1>1, <1>2 DEF InputInv, MachineInv, Told
<1>8. ASSUME Live' PROVE PendingInv(node, machine, batch, batch \o queue, lastTracking)'
  <2>1. PendingInv(node', machine, batch, batch \o queue', lastTracking')
    BY <1>3, <1>4, <1>8
  <2> QED
    BY <2>1, <1>1
<1> QED
  BY <1>6, <1>7, <1>8 DEF InputInv

-----------------------------------------------------------------------------
(* The actions.                                                             *)

LEMMA DownKeeps ==
  ASSUME InputInv, NEW slot \in Slots, NEW position \in Coordinates, FingerDown(slot, position)
  PROVE  InputInv'
<1>1. PanelType(node) /\ lastTracking \in Nat
  BY DEF InputInv, TypesInv
<1>2. /\ node.inode # 0 /\ node.held[slot] = Lifted /\ lastTracking' = lastTracking + 1
      /\ node' = [node EXCEPT !.held[slot] = lastTracking', !.cur = slot]
      /\ KernelSends(slot, <<Event("tracking", lastTracking')>> \o position)
  BY DEF FingerDown
<1>3. PICK new \in Nat : new = lastTracking'
  BY <1>1, <1>2
<1>4. PICK e \in TouchEvent : e = Event("tracking", new) /\ e.type = "tracking" /\ e.value = new
  <2>1. /\ Event("tracking", new) \in TouchEvent /\ Event("tracking", new).type = "tracking"
        /\ Event("tracking", new).value = new
    BY DEF Event, TouchEvent
  <2> QED
    BY <2>1
<1>5. PICK E : E = <<e>> \o position
  OBVIOUS
<1>6. /\ position \in Seq(TouchEvent) /\ Len(position) \in 0..2
      /\ \A i \in 1..Len(position) : position[i].type \in {"x", "y"}
  <2>1. Event("x", 1) \in TouchEvent /\ Event("y", 1) \in TouchEvent
    BY DEF Event, TouchEvent
  <2>2. CASE position = <<>>
    BY <2>2
  <2>3. CASE position = <<Event("x", 1)>>
    BY <2>1, <2>3 DEF Event
  <2>4. CASE position = <<Event("x", 1), Event("y", 1)>>
    BY <2>1, <2>4 DEF Event
  <2> QED
    BY <2>2, <2>3, <2>4 DEF Coordinates
<1>7. /\ E \in Seq(TouchEvent) /\ Len(E) = Len(position) + 1 /\ E[1] = e
      /\ \A i \in 1..Len(position) : E[i + 1] = position[i]
  BY ONLY <1>5, <1>6, e \in TouchEvent, Behind
<1>8. Len(E) \in 1..3
  BY ONLY <1>6, <1>7
<1>9. \A i \in 2..Len(E) : E[i].type \in {"x", "y"}
  <2>1. SUFFICES ASSUME NEW i \in 2..Len(E) PROVE E[i].type \in {"x", "y"}
    OBVIOUS
  <2>2. i - 1 \in 1..Len(position) /\ (i - 1) + 1 = i
    BY ONLY <1>6, <1>7, i \in 2..Len(E)
  <2>3. E[i] = position[i - 1]
    BY ONLY <2>2, <1>7
  <2> QED
    BY <2>2, <2>3, <1>6
<1>10. /\ PanelType(node') /\ node'.inode = node.inode /\ node'.slots = node.slots /\ node'.cur = slot
       /\ node'.held = [node.held EXCEPT ![slot] = new]
  <2>1. node' = [node EXCEPT !.held[slot] = new, !.cur = slot]
    BY <1>2, <1>3
  <2>2. slot \in node.slots /\ slot \in Nat
    BY <1>1, TouchConstants DEF Slots, PanelType, Panel
  <2> QED
    BY <1>1, <2>1, <2>2 DEF PanelType, Panel
<1>11. Sends(node, slot, E, node', lastTracking, lastTracking', Frame(slot, E))
  <2>1. Fits(node, slot, E[1], node', lastTracking, lastTracking')
    BY <1>2, <1>3, <1>4, <1>7, <1>10 DEF Fits, Tracks, Slots
  <2> QED
    BY ONLY <2>1, <1>7, <1>8, <1>9 DEF Sends, Frame
<1>12. KernelSends(slot, E)
  BY <1>2, <1>3, <1>4, <1>5
<1>13. lastTracking' \in Nat
  BY <1>3
<1> QED
  BY ONLY InputInv, <1>2, <1>10, <1>11, <1>12, <1>13, SendingKeeps

LEMMA MovesKeeps == ASSUME InputInv, NEW slot \in Slots, FingerMoves(slot) PROVE InputInv'
<1>1. PanelType(node) /\ lastTracking \in Nat
  BY DEF InputInv, TypesInv
<1>2. /\ node.inode # 0 /\ node.held[slot] # Lifted /\ lastTracking' = lastTracking
      /\ node' = [node EXCEPT !.cur = slot] /\ KernelSends(slot, <<Event("y", 1)>>)
  BY DEF FingerMoves
<1>3. PICK e \in TouchEvent : e = Event("y", 1) /\ e.type = "y"
  <2>1. Event("y", 1) \in TouchEvent /\ Event("y", 1).type = "y"
    BY DEF Event, TouchEvent
  <2> QED
    BY <2>1
<1>4. PICK E : E = <<e>>
  OBVIOUS
<1>5. E \in Seq(TouchEvent) /\ Len(E) = 1 /\ E[1] = e
  BY ONLY <1>4, e \in TouchEvent
<1>6. Len(E) \in 1..3 /\ \A i \in 2..Len(E) : E[i].type \in {"x", "y"}
  BY ONLY <1>5
<1>7. /\ PanelType(node') /\ node'.inode = node.inode /\ node'.slots = node.slots /\ node'.cur = slot
      /\ node'.held = node.held
  <2>1. slot \in node.slots /\ slot \in Nat
    BY <1>1, TouchConstants DEF Slots, PanelType, Panel
  <2> QED
    BY <1>1, <1>2, <2>1 DEF PanelType, Panel
<1>8. Sends(node, slot, E, node', lastTracking, lastTracking', Frame(slot, E))
  <2>1. Fits(node, slot, E[1], node', lastTracking, lastTracking')
    BY <1>2, <1>3, <1>5, <1>7 DEF Fits, Slots
  <2> QED
    BY ONLY <2>1, <1>5, <1>6 DEF Sends, Frame
<1>9. KernelSends(slot, E) /\ lastTracking' \in Nat
  BY <1>1, <1>2, <1>3, <1>4
<1> QED
  BY ONLY InputInv, <1>2, <1>7, <1>8, <1>9, SendingKeeps

LEMMA UpKeeps == ASSUME InputInv, NEW slot \in Slots, FingerUp(slot) PROVE InputInv'
<1>1. PanelType(node) /\ lastTracking \in Nat
  BY DEF InputInv, TypesInv
<1>2. /\ node.inode # 0 /\ lastTracking' = lastTracking
      /\ node' = [node EXCEPT !.held[slot] = Lifted, !.cur = slot]
      /\ KernelSends(slot, <<Event("tracking", Lifted)>>)
  BY DEF FingerUp
<1>3. PICK e \in TouchEvent : e = Event("tracking", Lifted) /\ e.type = "tracking" /\ e.value = Lifted
  <2>1. /\ Event("tracking", Lifted) \in TouchEvent /\ Event("tracking", Lifted).type = "tracking"
        /\ Event("tracking", Lifted).value = Lifted
    BY DEF Event, TouchEvent
  <2> QED
    BY <2>1
<1>4. PICK E : E = <<e>>
  OBVIOUS
<1>5. E \in Seq(TouchEvent) /\ Len(E) = 1 /\ E[1] = e
  BY ONLY <1>4, e \in TouchEvent
<1>6. Len(E) \in 1..3 /\ \A i \in 2..Len(E) : E[i].type \in {"x", "y"}
  BY ONLY <1>5
<1>7. /\ PanelType(node') /\ node'.inode = node.inode /\ node'.slots = node.slots /\ node'.cur = slot
      /\ node'.held = [node.held EXCEPT ![slot] = Lifted]
  <2>1. slot \in node.slots /\ slot \in Nat
    BY <1>1, TouchConstants DEF Slots, PanelType, Panel
  <2> QED
    BY <1>1, <1>2, <2>1 DEF PanelType, Panel
<1>8. Sends(node, slot, E, node', lastTracking, lastTracking', Frame(slot, E))
  <2>1. Fits(node, slot, E[1], node', lastTracking, lastTracking')
    BY <1>2, <1>3, <1>5, <1>7 DEF Fits, Slots, Tracks
  <2> QED
    BY ONLY <2>1, <1>5, <1>6 DEF Sends, Frame
<1>9. KernelSends(slot, E) /\ lastTracking' \in Nat
  BY <1>1, <1>2, <1>3, <1>4
<1> QED
  BY ONLY InputInv, <1>2, <1>7, <1>8, <1>9, SendingKeeps

\* A device that was just opened: nothing is to come.
LEMMA FreshPending ==
  ASSUME PanelType(node), NEW top \in Nat
  PROVE  /\ PendingInv(node, CleanMachine, <<>>, <<>> \o <<>>, top)
         /\ MachineInv(CleanMachine) /\ DownIds(CleanMachine) = {}
<1>1. PICK m : m = CleanMachine
  OBVIOUS
<1>2. /\ MachineInv(m) /\ Ids(m) = {} /\ DownIds(m) = {} /\ Active(m) = {}
      /\ m.cur = {0} /\ m.releases = {} /\ m.desync = FALSE
  BY <1>1, CleanSound DEF CleanMachine
<1>3. PICK N : N = <<>>
  OBVIOUS
<1>4. N \in Seq(TouchEvent) /\ Len(N) = 0 /\ \A i \in 1..Len(N) : FALSE
  BY ONLY <1>3
<1>5. N \o N = N
  BY ONLY <1>3
<1>6. Orderly(N, node.slots, top)
  BY ONLY <1>3, <1>4 DEF Orderly, OfPanel, Framed
<1>7. 0 \in node.slots
  BY TouchConstants DEF PanelType, Panel
<1>8. ASSUME NEW b, Ends(Seen(m), N, b) PROVE Final(node, b)
  <2>1. b = Seen(m)
    BY <1>3, <1>8, EndsNone
  <2>2. ~b.desync /\ b.act = {} /\ b.cur = {0}
    BY <2>1, <1>2 DEF Seen
  <2> QED
    BY ONLY <2>2 DEF Final
<1>9. Alone(node, m, N)
  BY ONLY <1>2, <1>4 DEF Alone
<1>10. PendingInv(node, m, N, N, top)
  BY ONLY <1>2, <1>4, <1>6, <1>7, <1>8, <1>9 DEF PendingInv
<1> QED
  BY <1>1, <1>2, <1>3, <1>5, <1>10

LEMMA UnplugKeeps == ASSUME InputInv, Unplug PROVE InputInv'
<1>1. TypesInv
  BY DEF InputInv
<1>2. /\ plugs' = plugs + 1 /\ node' = [node EXCEPT !.inode = 0, !.held = [s \in Slots |-> Lifted]]
      /\ UNCHANGED <<queue, opened, batch, machine, tracked, lastTracking>>
  BY DEF Unplug
<1>3. PanelType(node') /\ node'.inode = 0
  BY <1>1, <1>2 DEF TypesInv, PanelType, Panel, Slots
<1>4. \A d \in opened : d.inode # 0
  BY <1>1 DEF TypesInv
<1>5. ~Live'
  BY <1>2, <1>3, <1>4 DEF Live
<1>6. \A d \in opened : d.inode \in Nat /\ d.inode <= plugs'
  BY <1>1, <1>2 DEF TypesInv
<1>7. plugs' \in Nat /\ \A x \in Nat : x <= plugs' => x <= plugs' + 1
  BY <1>1, <1>2 DEF TypesInv
<1>8. TypesInv'
  BY <1>1, <1>2, <1>3, <1>4, <1>6, <1>7 DEF TypesInv
<1> QED
  BY <1>2, <1>5, <1>8 DEF InputInv, MachineInv, Told

LEMMA PlugKeeps == ASSUME InputInv, Plug PROVE InputInv'
<1>1. TypesInv
  BY DEF InputInv
<1>2. PICK slots \in SlotSets :
        node' = [inode |-> plugs + 1, slots |-> slots, held |-> [s \in slots |-> Lifted], cur |-> 0]
  BY DEF Plug
<1>3. node.inode = 0 /\ UNCHANGED <<queue, opened, batch, machine, tracked, lastTracking, plugs>>
  BY DEF Plug
<1>4. PanelType(node') /\ node'.inode = plugs + 1
  BY <1>1, <1>2, TouchConstants DEF TypesInv, PanelType, Panel
<1>5. \A d \in opened : d.inode \in Nat /\ d.inode # 0 /\ d.inode <= plugs
  BY <1>1, <1>3 DEF TypesInv
<1>6. plugs \in Nat /\ \A x \in Nat : x <= plugs => x # plugs + 1 /\ x <= plugs + 1
  BY <1>1 DEF TypesInv
<1>7. ~Live'
  BY <1>3, <1>4, <1>5, <1>6 DEF Live
<1>8. TypesInv'
  BY <1>1, <1>3, <1>4, <1>5, <1>6 DEF TypesInv
<1> QED
  BY <1>3, <1>7, <1>8 DEF InputInv, MachineInv, Told

LEMMA FetchKeeps == ASSUME InputInv, Fetch PROVE InputInv'
<1>1. TypesInv
  BY DEF InputInv
<1>2. /\ batch = <<>> /\ batch' = queue /\ queue' = <<>> /\ Live
      /\ UNCHANGED <<node, opened, machine, tracked, lastTracking, plugs>>
  BY DEF Fetch, Live
<1>3. PICK P : P = queue
  OBVIOUS
<1>4. PendingInv(node, machine, <<>>, <<>> \o P, lastTracking)
  BY <1>2, <1>3 DEF InputInv
<1>5. P \in Seq(TouchEvent)
  BY <1>1, <1>3 DEF TypesInv
<1>6. <<>> \o P = P /\ P \o <<>> = P
  BY ONLY <1>5
<1>7. PendingInv(node, machine, <<>>, P, lastTracking)
  BY <1>4, <1>6
<1>8. PendingInv(node, machine, P, P, lastTracking)
  <2>1. machine.releases = {}
    BY <1>7 DEF PendingInv
  <2> QED
    BY ONLY <2>1, <1>7 DEF PendingInv
<1>9. (batch \o queue)' = P /\ batch' = P
  BY <1>2, <1>3, <1>6
<1>10. PendingInv(node, machine, batch, batch \o queue, lastTracking)'
  BY <1>2, <1>8, <1>9
<1>11. queue' \in Seq(TouchEvent) /\ Len(queue') <= QueueLimit
  <2>1. PICK N : N = <<>>
    OBVIOUS
  <2>2. N \in Seq(TouchEvent) /\ Len(N) = 0
    BY ONLY <2>1
  <2>3. Len(N) <= QueueLimit
    BY <2>2, TouchConstants
  <2> QED
    BY <2>1, <2>2, <2>3, <1>2
<1>12. TypesInv'
  BY <1>1, <1>2, <1>3, <1>5, <1>11 DEF TypesInv
<1> QED
  BY <1>2, <1>10, <1>12 DEF InputInv, MachineInv, Told

LEMMA HandleKeeps == ASSUME InputInv, HandleEvent PROVE InputInv'
<1>1. TypesInv /\ MachineInv(machine) /\ tracked = Told(opened, machine)
  BY DEF InputInv
<1>2. PICK d \in opened :
        /\ batch # <<>> /\ d.inode = node.inode
        /\ machine' = Step(machine, Head(batch))
        /\ tracked' = Delivered(Output(machine, Head(batch), d.id))
        /\ batch' = Tail(batch)
        /\ UNCHANGED <<node, queue, opened, lastTracking, plugs>>
  BY DEF HandleEvent
<1>3. Live /\ opened = {d}
  BY <1>1, <1>2 DEF Live, TypesInv
<1>4. PICK B : B = batch
  OBVIOUS
<1>5. PICK P : P = batch \o queue
  OBVIOUS
<1>6. PICK w : w = machine'
  OBVIOUS
<1>7. B \in Seq(TouchEvent) /\ queue \in Seq(TouchEvent) /\ B # <<>>
  BY <1>1, <1>2, <1>4 DEF TypesInv
<1>8. /\ P # <<>> /\ P[1] = B[1] /\ Head(B) = B[1] /\ Tail(P) = Tail(B) \o queue
      /\ Tail(B) \in Seq(TouchEvent)
  BY <1>4, <1>5, <1>7
<1>9. PendingInv(node, machine, B, P, lastTracking)
  BY <1>3, <1>4, <1>5 DEF InputInv
<1>10. w = Step(machine, P[1])
  BY <1>2, <1>4, <1>6, <1>8
<1>11. Sane(machine, P[1], d.id, w) /\ PendingInv(node, w, Tail(B), Tail(P), lastTracking)
  <2>1. PanelType(node) /\ lastTracking \in Nat
    BY <1>1 DEF TypesInv
  <2> QED
    BY ONLY <2>1, <1>1, <1>7, <1>8, <1>9, <1>10, StepPending
<1>12. PendingInv(node, machine, batch, batch \o queue, lastTracking)'
  <2>1. (batch \o queue)' = Tail(P) /\ batch' = Tail(B)
    BY <1>2, <1>4, <1>8
  <2> QED
    BY <2>1, <1>2, <1>6, <1>11
<1>13. Told(opened, machine) = {<<d.id, i>> : i \in DownIds(machine)}
  BY <1>3 DEF Told
<1>14. Told(opened', w) = {<<d.id, i>> : i \in DownIds(w)}
  BY <1>2, <1>3 DEF Told
<1>15. tracked' = Leaves(machine, P[1], d.id)
  <2>1. PICK out : out = Output(machine, P[1], d.id)
    OBVIOUS
  <2>2. tracked' = Delivered(out)
    BY <2>1, <1>2, <1>4, <1>8
  <2> QED
    BY <2>1, <2>2, <1>1, <1>13 DEF Delivered, Leaves
<1>16. MachineInv(w) /\ tracked' = Told(opened', w)
  BY <1>11, <1>14, <1>15 DEF Sane
<1>17. MachineInv(machine)' /\ (tracked = Told(opened, machine))'
  BY <1>6, <1>16 DEF MachineInv, Told
<1>18. TypesInv'
  BY <1>1, <1>2, <1>4, <1>8 DEF TypesInv
<1> QED
  BY <1>2, <1>3, <1>12, <1>17, <1>18 DEF InputInv

\* A closed or freshly opened device.
LEMMA ClearKeeps ==
  ASSUME TypesInv, UNCHANGED <<node, lastTracking>>, queue' = <<>>, batch' = <<>>,
         machine' = CleanMachine, tracked' = {}, plugs' \in Nat, plugs <= plugs',
         opened' = {} \/ \E d : opened' = {d} /\ d.inode = node.inode /\ node.inode # 0
  PROVE  InputInv'
<1>1. /\ PanelType(node) /\ lastTracking \in Nat /\ plugs \in Nat
      /\ node.inode \in Nat /\ node.inode <= plugs + 1
  BY DEF TypesInv, PanelType, Panel
<1>2. /\ PendingInv(node, CleanMachine, <<>>, <<>> \o <<>>, lastTracking)
      /\ MachineInv(CleanMachine) /\ DownIds(CleanMachine) = {}
  BY <1>1, FreshPending
<1>3. PICK N : N = <<>>
  OBVIOUS
<1>4. N \in Seq(TouchEvent) /\ Len(N) = 0
  BY ONLY <1>3
<1>5. Len(N) <= QueueLimit
  BY <1>4, TouchConstants
<1>6. node.inode <= plugs' + 1
  BY <1>1
<1>7. TypesInv'
  BY <1>1, <1>3, <1>4, <1>5, <1>6 DEF TypesInv, PanelType
<1>8. PendingInv(node, machine, batch, batch \o queue, lastTracking)'
  BY <1>2
<1>9. MachineInv(machine)' /\ (tracked = Told(opened, machine))'
  BY <1>2 DEF Told, MachineInv
<1>10. (opened = {} => machine = CleanMachine)'
  BY DEF CleanMachine
<1> QED
  BY <1>7, <1>8, <1>9, <1>10 DEF InputInv

\* Nothing is left of a closed device.
LEMMA ClosedAll == ASSUME InputInv, NEW d \in opened PROVE Closed(d) = {}
<1>1. opened = {d} /\ tracked = Told(opened, machine)
  BY DEF InputInv, TypesInv
<1> QED
  BY <1>1 DEF Closed, Told

LEMMA ReadKeeps == ASSUME InputInv, ReadFails PROVE InputInv'
<1>1. TypesInv /\ plugs \in Nat
  BY DEF InputInv, TypesInv
<1>2. PICK d \in opened : CloseDevice(d)
  BY DEF ReadFails
<1>3. UNCHANGED <<node, lastTracking>> /\ plugs' \in {plugs, plugs + 1}
  BY DEF ReadFails
<1>4. plugs' \in Nat /\ plugs <= plugs'
  BY <1>1, <1>3
<1>5. tracked' = {} /\ opened' = {} /\ queue' = <<>> /\ batch' = <<>> /\ machine' = CleanMachine
  BY <1>2, ClosedAll DEF CloseDevice
<1> QED
  BY <1>1, <1>3, <1>4, <1>5, ClearKeeps

LEMMA RemovesKeeps == ASSUME InputInv, ScanRemoves PROVE InputInv'
<1>1. TypesInv /\ plugs \in Nat
  BY DEF InputInv, TypesInv
<1>2. PICK d \in opened : CloseDevice(d)
  BY DEF ScanRemoves
<1>3. UNCHANGED <<node, lastTracking, plugs>>
  BY DEF ScanRemoves
<1>4. plugs' \in Nat /\ plugs <= plugs'
  BY <1>1, <1>3
<1>5. tracked' = {} /\ opened' = {} /\ queue' = <<>> /\ batch' = <<>> /\ machine' = CleanMachine
  BY <1>2, ClosedAll DEF CloseDevice
<1> QED
  BY <1>1, <1>3, <1>4, <1>5, ClearKeeps

LEMMA OpensKeeps == ASSUME InputInv, ScanOpens PROVE InputInv'
<1>1. TypesInv /\ plugs \in Nat
  BY DEF InputInv, TypesInv
<1>2. /\ opened = {} /\ node.inode # 0 /\ queue' = <<>> /\ batch' = <<>> /\ machine' = CleanMachine
      /\ UNCHANGED <<node, tracked, lastTracking>>
  BY DEF ScanOpens
<1>3. tracked' = {}
  BY <1>2 DEF InputInv, Told
<1>4. plugs' \in {plugs, plugs + 1}
  BY DEF ScanOpens
<1>5. plugs' \in Nat /\ plugs <= plugs'
  BY <1>1, <1>4
<1>6. opened' = {} \/ \E d : opened' = {d} /\ d.inode = node.inode
  <2>1. opened' = {[id |-> nextId, inode |-> node.inode]} \/ opened' = opened
    BY DEF ScanOpens
  <2>2. [id |-> nextId, inode |-> node.inode].inode = node.inode
    OBVIOUS
  <2> QED
    BY <2>1, <2>2, <1>2
<1> QED
  BY <1>1, <1>2, <1>3, <1>5, <1>6, ClearKeeps

LEMMA ReopenKeeps == ASSUME InputInv, ReopenSource PROVE InputInv'
<1>1. TypesInv /\ plugs \in Nat
  BY DEF InputInv, TypesInv
<1>2. /\ plugs' = plugs + 1 /\ tracked' = {} /\ opened' = {} /\ queue' = <<>> /\ batch' = <<>>
      /\ machine' = CleanMachine /\ UNCHANGED <<node, lastTracking>>
  BY DEF ReopenSource
<1>3. plugs' \in Nat /\ plugs <= plugs'
  BY <1>1, <1>2
<1> QED
  BY <1>1, <1>2, <1>3, ClearKeeps

LEMMA InputStarts == InputInit => InputInv
<1>1. SUFFICES ASSUME InputInit PROVE InputInv
  OBVIOUS
<1>2. PICK slots \in SlotSets :
        node = [inode |-> 1, slots |-> slots, held |-> [s \in slots |-> Lifted], cur |-> 0]
  BY <1>1 DEF InputInit
<1>3. /\ queue = <<>> /\ opened = {} /\ batch = <<>> /\ machine = CleanMachine /\ tracked = {}
      /\ lastTracking = 0 /\ plugs = 0
  BY <1>1 DEF InputInit
<1>4. PanelType(node) /\ node.inode = 1
  BY <1>2, TouchConstants DEF PanelType, Panel
<1>5. MachineInv(CleanMachine)
  <2>1. 0 \in Nat
    OBVIOUS
  <2> QED
    BY <2>1, <1>4, FreshPending
<1>6. PICK N : N = <<>>
  OBVIOUS
<1>7. N \in Seq(TouchEvent) /\ Len(N) = 0
  BY ONLY <1>6
<1>8. Len(N) <= QueueLimit
  BY <1>7, TouchConstants
<1>9. TypesInv
  BY <1>3, <1>4, <1>6, <1>7, <1>8 DEF TypesInv
<1> QED
  BY <1>3, <1>5, <1>9 DEF InputInv, Live, Told

LEMMA InputSteps == InputInv /\ [InputNext]_inputVars => InputInv'
<1> SUFFICES ASSUME InputInv, [InputNext]_inputVars PROVE InputInv'
  OBVIOUS
<1>1. ASSUME NEW s \in Slots, FingerMoves(s) \/ FingerUp(s) \/ \E p \in Coordinates : FingerDown(s, p)
      PROVE  InputInv'
  BY <1>1, MovesKeeps, UpKeeps, DownKeeps
<1>2. CASE UNCHANGED inputVars
  BY <1>2 DEF inputVars, InputInv, TypesInv, Live
<1> QED
  BY <1>1, <1>2, UnplugKeeps, PlugKeeps, FetchKeeps, HandleKeeps, ReadKeeps, RemovesKeeps, OpensKeeps,
     ReopenKeeps DEF InputNext

\* When every finger is up and every event handled, what the machine still holds
\* could only be in the lowest slot.
LEMMA NothingStuck == InputInv => NoStuckContact
<1>1. SUFFICES ASSUME InputInv PROVE NoStuckContact
  OBVIOUS
<1>2. TypesInv /\ MachineInv(machine) /\ tracked = Told(opened, machine)
  BY <1>1 DEF InputInv
<1>3. tracked = {<<d.id, c.id>> : d \in opened, c \in {x \in Held(machine) : x.down}}
  BY <1>2 DEF Told, DownIds
<1>4. ASSUME Drained PROVE Active(machine) \subseteq {0} /\ (Slots \subseteq {0, 1} => tracked = {})
  <2>1. CASE opened = {}
    <3>1. machine = CleanMachine
      BY <2>1, <1>1 DEF InputInv
    <3>2. Active(machine) = {}
      BY <3>1, CleanSound DEF CleanMachine
    <3> QED
      BY <2>1, <3>2, <1>3
  <2>2. CASE opened # {}
    <3>1. Live /\ queue = <<>> /\ batch = <<>> /\ \A s \in Slots : node.held[s] = Lifted
      BY <1>4, <2>2 DEF Drained, Live, Touched
    <3>2. PICK N : N = <<>>
      OBVIOUS
    <3>3. N \o N = N /\ \A i \in 1..Len(N) : FALSE
      BY ONLY <3>2
    <3>4. PendingInv(node, machine, N, N, lastTracking)
      BY <3>1, <3>2, <3>3, <1>1 DEF InputInv
    <3>5. ~machine.desync /\ machine.releases = {} /\ Active(machine) \subseteq Slots
      BY <3>2, <3>4 DEF PendingInv, Slots
    <3>6. 0 \in Slots
      BY <1>2, TouchConstants DEF TypesInv, PanelType, Panel, Slots
    <3>7. Active(machine) \subseteq {0} /\ (Slots \subseteq {0, 1} => Active(machine) = {})
      <4>1. CASE Slots = {0}
        <5>1. Later(N, 0)
          BY <3>3 DEF Later
        <5>2. Alone(node, machine, N)
          BY <4>1, <3>4 DEF PendingInv, Slots
        <5>3. Active(machine) = {}
          BY <5>1, <5>2, <3>1, <3>5, <3>6 DEF Alone
        <5> QED
          BY <5>3
      <4>2. CASE Slots # {0}
        <5>1. PICK b : b = Seen(machine)
          OBVIOUS
        <5>2. b \in View /\ b.act = Active(machine)
          BY <5>1, <1>2, MachineParts DEF Seen, View
        <5>3. Ends(b, N, b)
          BY <5>2, <3>2, EndsNil
        <5>4. Final(node, b)
          BY <4>2, <5>1, <5>3, <3>4 DEF PendingInv, Slots
        <5>5. node.cur \in Slots
          BY <1>2 DEF TypesInv, PanelType, Slots
        <5>6. \A s \in b.act : s = 0
          BY <5>4, <3>1 DEF Final, Slots
        <5>7. Slots \subseteq {0, 1} => 0 \notin b.act
          BY <5>4, <5>5, <3>1, <3>6 DEF Final, Slots
        <5> QED
          BY <5>2, <5>6, <5>7
      <4> QED
        BY <4>1, <4>2
    <3>8. Active(machine) = {} => Held(machine) = {}
      BY <3>5 DEF Held
    <3> QED
      BY <3>7, <3>8, <1>3
  <2> QED
    BY <2>1, <2>2
<1> QED
  BY <1>3, <1>4 DEF NoStuckContact

\* No contact gets stuck, whatever panels there are, however many contacts,
\* drops, replacements and failures: the reducer holds exactly what the open
\* device announced and did not finish, and once every finger is up and every
\* event handled nothing is left but, with three slots or more, the contact of
\* the lowest slot (TouchStateMachine::handle, EvdevInputSource).
THEOREM NoContactStuck == InputSpec => []NoStuckContact
<1>1. InputInit => InputInv
  BY InputStarts
<1>2. InputInv /\ [InputNext]_inputVars => InputInv'
  BY InputSteps
<1>3. InputInv => NoStuckContact
  BY NothingStuck
<1> QED
  BY <1>1, <1>2, <1>3, PTL DEF InputSpec
=============================================================================
