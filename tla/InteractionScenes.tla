-------------------------- MODULE InteractionScenes --------------------------
(***************************************************************************)
(* Boost hints and the interaction they belong to                          *)
(* (crates/uperf-daemon/src/runtime.rs, the hint set of                     *)
(* crates/uperf-core/src/policy.rs).  Touch, trigger, gesture and junk      *)
(* hints belong to the current interaction, which a frame reporter, the     *)
(* session, the display or a suspend can end before its hints expire.       *)
(* Deadlines are kept as the time left; an optional value is a set of at    *)
(* most one element.                                                        *)
(***************************************************************************)
EXTENDS Naturals, FiniteSets

CONSTANTS
  Device, Finger,      \* touch devices and the slots of each
  HintTtl,             \* time a trigger, gesture, junk, switch or wake hint lasts
  IdleSlack,           \* RENDER_IDLE_SLACK_MS
  MissLimit,           \* DEADLINE_MISS_RATE_LIMIT_MS
  MaxStimuli           \* bound on inputs and reports

ASSUME SceneConstants ==
  HintTtl \in Nat /\ IdleSlack \in Nat /\ MissLimit \in Nat /\ MaxStimuli \in Nat

VARIABLES
  contacts,            \* active_touch_contacts
  hints,               \* [Scene -> time left], 0 when not active
  hintOwner,           \* interaction_hints: [Scene -> generation], 0 when absent
  interaction,         \* [generation, ended, render, deadline, missed]
  display,             \* [blanked, session, suspended]
  stimuli

sceneVars == <<contacts, hints, hintOwner, interaction, display, stimuli>>

OwnScene == {"touch", "trigger", "gesture", "junk"}
Scene == OwnScene \cup {"switch", "wake"}
Contact == Device \X Finger
Forever == HintTtl + 1

SceneInit ==
  /\ contacts = {}
  /\ hints = [s \in Scene |-> 0]
  /\ hintOwner = [s \in Scene |-> 0]
  /\ interaction = [generation |-> 0, ended |-> FALSE, render |-> {},
                    deadline |-> {}, missed |-> {}]
  /\ display = [blanked |-> FALSE, session |-> "active", suspended |-> FALSE]
  /\ stimuli = 0

Stimulus == stimuli < MaxStimuli /\ stimuli' = stimuli + 1

-----------------------------------------------------------------------------
(* What the handlers are made of, over the pair of hints and their owners,  *)
(* together with the interaction: i = [h, o, x].                            *)

Now == [h |-> hints, o |-> hintOwner, x |-> interaction]
Becomes(i) == hints' = i.h /\ hintOwner' = i.o /\ interaction' = i.x

NoRender(x) == [x EXCEPT !.render = {}, !.deadline = {}, !.missed = {}]
ClearHints(i, scenes) ==
  [i EXCEPT !.h = [s \in Scene |-> IF s \in scenes THEN 0 ELSE i.h[s]],
            !.o = [s \in Scene |-> IF s \in scenes THEN 0 ELSE i.o[s]]]
Owned(i) == {s \in Scene : i.o[s] # 0}
OwnedBy(i, g) == {s \in Owned(i) : i.o[s] = g}

\* Mutant: the render state of the old interaction is kept.
BeginInteractionKeepsRender(i) ==
  [ClearHints(i, Owned(i)) EXCEPT !.x = [i.x EXCEPT !.generation = @ + 1, !.ended = FALSE]]
BeginInteraction(i) ==
  [ClearHints(i, Owned(i)) EXCEPT
     !.x = [NoRender(i.x) EXCEPT !.generation = @ + 1, !.ended = FALSE]]

Duration(scene) == IF scene = "touch" THEN Forever ELSE HintTtl
\* A hint of the current interaction; an interaction that never began is the first.
ActivateOwn(i, scene) ==
  LET g == IF i.x.generation = 0 THEN 1 ELSE i.x.generation
  IN [i EXCEPT !.h[scene] = Duration(scene), !.o[scene] = g, !.x.generation = g]
\* A hint that belongs to no interaction.
ActivateExternal(i, scene) == [i EXCEPT !.h[scene] = Duration(scene)]

InteractionActive == \E s \in Scene : hintOwner[s] = interaction.generation
                                      /\ hintOwner[s] # 0 /\ hints[s] > 0

\* The interaction is over: blank, lock, suspend.
EndInteraction(i) ==
  [ClearHints(i, Owned(i)) EXCEPT !.x = [NoRender(i.x) EXCEPT !.ended = TRUE]]

-----------------------------------------------------------------------------
(* Input events                                                            *)

TouchDown(c) ==
  /\ Stimulus
  /\ contacts' = contacts \cup {c}
  /\ Becomes(IF contacts = {} THEN ActivateOwn(BeginInteraction(Now), "touch") ELSE Now)
  /\ UNCHANGED display

\* Only the last known contact ends the touch.
LastReleased(kept) == contacts # {} /\ kept = {}
TouchUp(c) ==
  /\ c \in contacts
  /\ contacts' = contacts \ {c}
  /\ Becomes(LET up == ClearHints(Now, {"touch"})
             IN IF ~LastReleased(contacts') THEN Now
                ELSE IF interaction.ended THEN up ELSE ActivateOwn(up, "trigger"))
  /\ UNCHANGED <<display, stimuli>>

Gesture ==
  /\ Stimulus
  /\ Becomes(LET i == IF interaction.generation = 0 THEN BeginInteraction(Now) ELSE Now
             IN IF i.x.ended THEN i ELSE ActivateOwn(i, "gesture"))
  /\ UNCHANGED <<contacts, display>>

KeyOrPointer ==
  /\ Stimulus
  /\ Becomes(ActivateOwn(BeginInteraction(Now), "trigger"))
  /\ UNCHANGED <<contacts, display>>

\* Mutant: a lost device does not end the touch.
ResyncKeepsHint(devices) ==
  /\ contacts' = {c \in contacts : c[1] \notin devices}
  /\ contacts' # contacts
  /\ UNCHANGED <<hints, hintOwner, interaction, display, stimuli>>
\* One device, or all of them, lost its contacts.
Resync(devices) ==
  /\ contacts' = {c \in contacts : c[1] \notin devices}
  /\ contacts' # contacts
  /\ Becomes(IF LastReleased(contacts') THEN ClearHints(Now, {"touch"}) ELSE Now)
  /\ UNCHANGED <<display, stimuli>>

-----------------------------------------------------------------------------
(* Session, display and suspend                                            *)

ReduceSessionState(state) ==
  /\ Stimulus /\ state # display.session
  /\ display' = [display EXCEPT !.session = state]
  /\ Becomes(CASE state = "active" -> IF display.blanked THEN Now ELSE ActivateExternal(Now, "wake")
               [] state \in {"idle", "locked"} -> EndInteraction(Now))
  /\ UNCHANGED contacts

EnterSuspended ==
  /\ Stimulus /\ ~display.suspended
  /\ display' = [display EXCEPT !.suspended = TRUE]
  /\ contacts' = {}
  /\ Becomes(ClearHints(EndInteraction(Now), Scene))
ResumeFromSleep ==
  /\ display.suspended
  /\ display' = [display EXCEPT !.suspended = FALSE]
  /\ Becomes(ActivateExternal(Now, "wake"))
  /\ UNCHANGED <<contacts, stimuli>>

\* A workload the user selects switches the scene.
SelectWorkload ==
  /\ Stimulus /\ Becomes(ActivateExternal(Now, "switch"))
  /\ UNCHANGED <<contacts, display>>

-----------------------------------------------------------------------------
(* Reports of an authorized frame reporter                                 *)

RenderStarted ==
  /\ Stimulus /\ ~display.blanked /\ InteractionActive
  /\ Becomes([Now EXCEPT !.x = [interaction EXCEPT !.render = {interaction.generation},
                                                   !.deadline = {}]])
  /\ UNCHANGED <<contacts, display>>

RenderIdle ==
  /\ Stimulus
  /\ \E g \in interaction.render :
       Becomes([Now EXCEPT !.x =
         IF g = interaction.generation /\ InteractionActive
         THEN [interaction EXCEPT !.deadline = {[generation |-> g, left |-> IdleSlack]}]
         ELSE [interaction EXCEPT !.render = {}, !.deadline = {}]])
  /\ UNCHANGED <<contacts, display>>

DeadlineMissed ==
  /\ Stimulus /\ ~display.blanked /\ InteractionActive
  /\ \E g \in interaction.render :
       /\ g = interaction.generation
       /\ \A m \in interaction.missed : m.generation # g \/ m.left = 0
       /\ LET missed == {[generation |-> g, left |-> MissLimit]}
          IN Becomes(ActivateOwn([Now EXCEPT !.x.missed = missed], "junk"))
  /\ UNCHANGED <<contacts, display>>

DisplayBlanked ==
  /\ Stimulus /\ ~display.blanked
  /\ display' = [display EXCEPT !.blanked = TRUE]
  /\ Becomes(EndInteraction(Now))
  /\ UNCHANGED contacts
DisplayUnblanked ==
  /\ Stimulus /\ display.blanked
  /\ display' = [display EXCEPT !.blanked = FALSE]
  /\ Becomes(ActivateExternal(Now, "wake"))
  /\ UNCHANGED contacts

\* The reporter changed, expired or left: what it reported is forgotten.
ResetFrameReporter ==
  /\ display' = [display EXCEPT !.blanked = FALSE]
  /\ interaction' = NoRender(interaction)
  /\ <<display', interaction'>> # <<display, interaction>>
  /\ UNCHANGED <<contacts, hints, hintOwner, stimuli>>

-----------------------------------------------------------------------------
(* The timer                                                               *)

DropExpired(i) == [i EXCEPT !.o = [s \in Scene |-> IF i.h[s] = 0 THEN 0 ELSE i.o[s]]]
FinishRenderIdle(i) ==
  IF \E d \in i.x.deadline : d.left = 0 /\ d.generation = i.x.generation
  THEN [ClearHints(i, OwnedBy(i, i.x.generation))
          EXCEPT !.x = [NoRender(i.x) EXCEPT !.ended = TRUE]]
  ELSE IF \E d \in i.x.deadline : d.left = 0 THEN [i EXCEPT !.x = NoRender(i.x)]
  ELSE i
SceneTick ==
  /\ Becomes(FinishRenderIdle(DropExpired(Now)))
  /\ <<hints, hintOwner, interaction>>' # <<hints, hintOwner, interaction>>
  /\ UNCHANGED <<contacts, display, stimuli>>

Sooner(n) == IF n = 0 THEN 0 ELSE n - 1
SceneTime ==
  /\ hints' = [s \in Scene |-> IF hints[s] = Forever THEN Forever ELSE Sooner(hints[s])]
  /\ interaction' = [interaction EXCEPT !.deadline = {[d EXCEPT !.left = Sooner(@)] : d \in @},
                                        !.missed = {[m EXCEPT !.left = Sooner(@)] : m \in @}]
  /\ <<hints, interaction>>' # <<hints, interaction>>
  /\ UNCHANGED <<contacts, hintOwner, display, stimuli>>

SceneNext ==
  \/ \E c \in Contact : TouchDown(c) \/ TouchUp(c)
  \/ \E d \in {{v} : v \in Device} \cup {Device} : Resync(d)
  \/ Gesture \/ KeyOrPointer \/ SelectWorkload
  \/ \E state \in {"active", "idle", "locked"} : ReduceSessionState(state)
  \/ EnterSuspended \/ ResumeFromSleep
  \/ RenderStarted \/ RenderIdle \/ DeadlineMissed \/ DisplayBlanked \/ DisplayUnblanked
  \/ ResetFrameReporter \/ SceneTick \/ SceneTime

SceneSpec == SceneInit /\ [][SceneNext]_sceneVars
\* Time passes, the tick runs and a suspended machine that stays is no boost.
SceneFairness == WF_sceneVars(SceneTime) /\ WF_sceneVars(SceneTick)

-----------------------------------------------------------------------------
(* Properties                                                              *)

\* The persistent touch boost never outlives the last contact, whatever order
\* lifts, lost devices, other input, blanking and suspends come in.
TouchNeedsContact == hints["touch"] > 0 => contacts # {}
\* Every interaction hint, render and idle deadline is the current
\* interaction's: an idle deadline of an old one cannot end a newer one.
NothingOfAnOldInteraction ==
  /\ \A s \in Scene : hintOwner[s] \in {0, interaction.generation}
  /\ \A g \in interaction.render : g = interaction.generation
  /\ \A d \in interaction.deadline \cup interaction.missed : d.generation = interaction.generation
BoostHasCause == TouchNeedsContact /\ NothingOfAnOldInteraction

\* Without further input every boost ends, unless a finger stays on the screen.
BoostsEnd == <>[](contacts # {} \/ \A s \in Scene : hints[s] = 0)
=============================================================================
