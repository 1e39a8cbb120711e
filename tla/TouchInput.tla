----------------------------- MODULE TouchInput -----------------------------
(***************************************************************************)
(* From a kernel touch device to the contacts the daemon believes in       *)
(* (crates/uperf-linux/src/input.rs, the input thread of                   *)
(* crates/uperf-daemon/src/observers.rs).                                  *)
(*                                                                         *)
(* The kernel speaks the type-B multitouch protocol: a slot event only     *)
(* when the slot changes, a coordinate only when it changes, frames ended  *)
(* by a report.  A reader that is too slow loses its queue and finds a     *)
(* "dropped" event instead.  Devices come and go; a node can be replaced   *)
(* by another device between two scans.  Settings changes reopen them all. *)
(***************************************************************************)
EXTENDS Integers, Sequences

CONSTANTS
  SlotSets,        \* the slots a device may have; the lowest is 0
  MaxTracking,     \* bound on contacts
  QueueLimit,      \* events the kernel keeps for a reader
  MaxPlugs         \* bound on unplugs, reopenings and failures

\* A queue holds more than a frame: the kernel's has at least 64 places.
ASSUME TouchConstants ==
  /\ \A slots \in SlotSets : 0 \in slots /\ slots \subseteq Nat
  /\ MaxTracking \in Nat /\ MaxPlugs \in Nat /\ QueueLimit \in Nat /\ QueueLimit >= 6

VARIABLES
  node,        \* the device behind the node: [inode, slots, held, cur]; inode 0 if none
  queue,       \* the kernel's queue for the open descriptor
  opened,      \* the open device: a set of at most one [id, inode]
  known,       \* what the source remembers of the node: [ignored, failed] inodes
  batch,       \* fetched events not handled yet
  machine,     \* TouchStateMachine
  tracked,    \* contacts the reducer holds, of every device ID
  lastTracking, nextId, plugs

inputVars == <<node, queue, opened, known, batch, machine, tracked, lastTracking, nextId, plugs>>

Lifted == -1
Slots == node.slots
Touched == {s \in Slots : node.held[s] # Lifted}

-----------------------------------------------------------------------------
(* The kernel (external): frames and its bounded queue.                    *)

Event(type, value) == [type |-> type, value |-> value]
Report == Event("report", 0)
Dropped == Event("dropped", 0)

\* The first event that does not fit replaces the queue by a drop and itself.
Queued(q, frame) ==
  LET room == QueueLimit - Len(q)
  IN IF Len(frame) <= room THEN q \o frame
     ELSE <<Dropped>> \o SubSeq(frame, room + 1, Len(frame))
Frame(slot, events) ==
  (IF slot = node.cur THEN <<>> ELSE <<Event("slot", slot)>>) \o events \o <<Report>>
KernelSends(slot, events) ==
  /\ queue' = IF \E d \in opened : d.inode = node.inode
              THEN Queued(queue, Frame(slot, events)) ELSE queue
  /\ UNCHANGED <<opened, known, batch, machine, tracked, nextId, plugs>>

\* A coordinate equal to the last one of the slot is not sent.
Coordinates == {<<>>, <<Event("x", 1)>>, <<Event("x", 1), Event("y", 1)>>}
FingerDown(slot, position) ==
  /\ node.inode # 0 /\ node.held[slot] = Lifted /\ lastTracking < MaxTracking
  /\ lastTracking' = lastTracking + 1
  /\ node' = [node EXCEPT !.held[slot] = lastTracking', !.cur = slot]
  /\ KernelSends(slot, <<Event("tracking", lastTracking')>> \o position)
FingerMoves(slot) ==
  /\ node.inode # 0 /\ node.held[slot] # Lifted /\ Len(queue) < 2
  /\ node' = [node EXCEPT !.cur = slot]
  /\ KernelSends(slot, <<Event("y", 1)>>)
  /\ UNCHANGED lastTracking
FingerUp(slot) ==
  /\ node.inode # 0 /\ node.held[slot] # Lifted
  /\ node' = [node EXCEPT !.held[slot] = Lifted, !.cur = slot]
  /\ KernelSends(slot, <<Event("tracking", Lifted)>>)
  /\ UNCHANGED lastTracking

\* Unplugging, and plugging another device into the same node.
Unplug ==
  /\ node.inode # 0 /\ plugs < MaxPlugs /\ plugs' = plugs + 1
  /\ node' = [node EXCEPT !.inode = 0, !.held = [s \in Slots |-> Lifted]]
  /\ UNCHANGED <<queue, opened, known, batch, machine, tracked, lastTracking, nextId>>
Plug ==
  /\ node.inode = 0
  /\ \E slots \in SlotSets :
       node' = [inode |-> plugs + 1, slots |-> slots, held |-> [s \in slots |-> Lifted], cur |-> 0]
  /\ UNCHANGED <<queue, opened, known, batch, machine, tracked, lastTracking, nextId, plugs>>

-----------------------------------------------------------------------------
(* TouchStateMachine: [cur, active, releases, desync].  A contact is       *)
(* [id, x, y, down]; its point is known once both coordinates are.         *)

NewContact(id) == [id |-> id, x |-> FALSE, y |-> FALSE, down |-> FALSE]
CleanMachine == [cur |-> {0}, active |-> <<>>, releases |-> {}, desync |-> FALSE]
Active(m) == DOMAIN m.active
CurrentSlot(m) == m.cur \cap Active(m)

\* A contact that is lifted or replaced waits for the report.
HandleTracking(m, id) ==
  LET old == {m.active[s] : s \in CurrentSlot(m)}
      now == IF id = Lifted THEN {} ELSE m.cur
  IN IF \E c \in old : c.id = id THEN m
     ELSE [m EXCEPT !.releases = @ \cup old,
                    !.active = [s \in (Active(m) \ m.cur) \cup now |->
                                  IF s \in now THEN NewContact(id) ELSE m.active[s]]]

UpdatePosition(m, axis) ==
  [m EXCEPT !.active = [s \in Active(m) |-> IF s \in m.cur THEN [m.active[s] EXCEPT ![axis] = TRUE]
                                            ELSE m.active[s]]]

\* What one event tells the reducer: devices to forget, contacts that ended and
\* contacts that began.  A contact whose point is not known says nothing, and
\* one that ends before it was told is told and ended at once.
Silent == [resync |-> {}, up |-> {}, down |-> {}]
Placed(c) == c.x /\ c.y
FrameOutput(m, dev) ==
  [resync |-> {},
   up |-> {<<dev, c.id>> : c \in {r \in m.releases : Placed(r)}},
   down |-> {<<dev, m.active[s].id>> :
               s \in {t \in Active(m) : Placed(m.active[t]) /\ ~m.active[t].down}}]
Committed(m) ==
  [m EXCEPT !.releases = {},
            !.active = [s \in Active(m) |-> [m.active[s] EXCEPT !.down = @ \/ Placed(m.active[s])]]]

\* After a drop everything up to the next report is ignored.
ResetAfterDrop(m) == [CleanMachine EXCEPT !.desync = TRUE]
\* Mutant: a dropped device reports nothing.
DropOutputNothing(dev) == Silent
DropOutput(dev) == [Silent EXCEPT !.resync = {dev}]

\* Only a single-slot device can be rebuilt from the kernel's current state.
Rebuilt(m) ==
  IF Slots # {0} \/ node.held[0] = Lifted THEN CleanMachine
  ELSE [CleanMachine EXCEPT
          !.active = [s \in {0} |-> [NewContact(node.held[0]) EXCEPT !.x = TRUE, !.y = TRUE]]]

Step(m, e) ==
  IF e.type = "dropped" THEN ResetAfterDrop(m)
  ELSE IF m.desync THEN (IF e.type = "report" THEN Committed(Rebuilt(m)) ELSE m)
  ELSE CASE e.type = "slot" -> [m EXCEPT !.cur = {e.value} \cap Slots]
         [] e.type = "tracking" -> HandleTracking(m, e.value)
         [] e.type \in {"x", "y"} -> UpdatePosition(m, e.type)
         [] OTHER -> Committed(m)
Output(m, e, dev) ==
  CASE e.type = "dropped" -> DropOutput(dev)
    [] e.type = "report" -> FrameOutput(IF m.desync THEN Rebuilt(m) ELSE m, dev)
    [] OTHER -> Silent

-----------------------------------------------------------------------------
(* The reducer's set of contacts, behind a lossless first-in-first-out     *)
(* channel.                                                                *)
Delivered(out) == {c \in tracked \ out.up : c[1] \notin out.resync} \cup out.down

-----------------------------------------------------------------------------
(* EvdevInputSource and the thread that owns it.                           *)

Fetch ==
  \E d \in opened :
    /\ d.inode = node.inode /\ batch = <<>> /\ queue # <<>>
    /\ batch' = queue /\ queue' = <<>>
    /\ UNCHANGED <<node, opened, known, machine, tracked, lastTracking, nextId, plugs>>

HandleEvent ==
  \E d \in opened :
    /\ batch # <<>> /\ d.inode = node.inode
    /\ machine' = Step(machine, Head(batch))
    /\ tracked' = Delivered(Output(machine, Head(batch), d.id))
    /\ batch' = Tail(batch)
    /\ UNCHANGED <<node, queue, opened, known, lastTracking, nextId, plugs>>

\* Closing a touch device always resynchronises it.
Closed(d) == {c \in tracked : c[1] # d.id}
CloseDevice(d) ==
  /\ tracked' = Closed(d)
  /\ opened' = {} /\ queue' = <<>> /\ batch' = <<>> /\ machine' = CleanMachine

\* A read that fails closes the device and leaves the node to a later scan.
ReadFails ==
  \E d \in opened :
    /\ \/ d.inode # node.inode /\ UNCHANGED plugs
       \/ plugs < MaxPlugs /\ plugs' = plugs + 1
    /\ CloseDevice(d)
    /\ known' = [known EXCEPT !.failed = {d.inode}]
    /\ UNCHANGED <<node, lastTracking, nextId>>

\* A scan closes what vanished or was replaced ...
ScanRemoves ==
  \E d \in opened :
    /\ d.inode # node.inode
    /\ CloseDevice(d)
    /\ known' = [ignored |-> {}, failed |-> {}]
    /\ UNCHANGED <<node, lastTracking, nextId, plugs>>
\* ... and opens what is new, or retries what failed: the open fails, finds a
\* device it does not support, or succeeds with a fresh ID.
ScanOpens ==
  /\ opened = {} /\ node.inode # 0 /\ node.inode \notin known.ignored
  /\ \/ /\ opened' = {[id |-> nextId, inode |-> node.inode]}
        /\ nextId' = nextId + 1 /\ known' = [ignored |-> {}, failed |-> {}]
        /\ UNCHANGED plugs
     \/ /\ plugs < MaxPlugs /\ plugs' = plugs + 1
        /\ known' \in {[ignored |-> {node.inode}, failed |-> {}],
                       [ignored |-> {}, failed |-> {node.inode}]}
        /\ UNCHANGED <<opened, nextId>>
  /\ queue' = <<>> /\ batch' = <<>> /\ machine' = CleanMachine
  /\ UNCHANGED <<node, tracked, lastTracking>>

\* Settings change: every contact is dropped and a new source counts its
\* devices from one again.
ReopenSource ==
  /\ plugs < MaxPlugs /\ plugs' = plugs + 1
  /\ tracked' = {} /\ opened' = {} /\ queue' = <<>> /\ batch' = <<>>
  /\ machine' = CleanMachine /\ nextId' = 1
  /\ known' = [ignored |-> {}, failed |-> {}]
  /\ UNCHANGED <<node, lastTracking>>

-----------------------------------------------------------------------------
InputInit ==
  /\ \E slots \in SlotSets :
       node = [inode |-> 1, slots |-> slots, held |-> [s \in slots |-> Lifted], cur |-> 0]
  /\ queue = <<>> /\ opened = {} /\ known = [ignored |-> {}, failed |-> {}] /\ batch = <<>>
  /\ machine = CleanMachine /\ tracked = {}
  /\ lastTracking = 0 /\ nextId = 1 /\ plugs = 0

InputNext ==
  \/ \E s \in Slots : FingerMoves(s) \/ FingerUp(s) \/ \E p \in Coordinates : FingerDown(s, p)
  \/ Unplug \/ Plug \/ Fetch \/ HandleEvent \/ ReadFails \/ ScanRemoves \/ ScanOpens \/ ReopenSource

InputSpec == InputInit /\ [][InputNext]_inputVars

-----------------------------------------------------------------------------
\* Contacts the machine has not finished.
Held(m) == m.releases \cup {m.active[s] : s \in Active(m)}
\* Every finger is up and every event of the device was handled.
Drained ==
  Touched = {} /\ queue = <<>> /\ batch = <<>> /\ \A d \in opened : d.inode = node.inode

\* No contact gets stuck: whatever drops, replacements and reopenings happened,
\* the reducer holds exactly the contacts the open device announced and did not
\* finish - one left behind would hold the touch boost for ever.  Once every
\* finger is up and the kernel's events are handled, none is left on a device of
\* one or two slots, and on another at most the one of the lowest slot
\* (TouchStateMachine::handle, refresh_devices, poll_devices).
NoStuckContact ==
  /\ tracked = {<<d.id, c.id>> : d \in opened, c \in {x \in Held(machine) : x.down}}
  /\ Drained => Active(machine) \subseteq {0} /\ (Slots \subseteq {0, 1} => tracked = {})
=============================================================================
