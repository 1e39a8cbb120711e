-------------------------- MODULE DurableOwnership --------------------------
(***************************************************************************)
(* What the actuator promises about every resource it may change: the      *)
(* claim on a resource is durable before the resource leaves its original  *)
(* state and is dropped only after it is back there.                       *)
(***************************************************************************)
CONSTANT Resource

VARIABLES
  owned,      \* resources the durable journal of this boot claims
  dirty       \* resources that are not in their original state

vars == <<owned, dirty>>

Init == owned = {} /\ dirty = {}

\* A journal write adds claims.
Claim == \E R \in SUBSET Resource : owned' = owned \cup R /\ UNCHANGED dirty

\* One write to the machine: only an owned resource becomes dirty.
Mutate == \E r \in owned : dirty' \in {dirty \cup {r}, dirty \ {r}} /\ UNCHANGED owned

\* A journal write drops claims of clean resources.
Release == \E R \in SUBSET (owned \ dirty) : owned' = owned \ R /\ UNCHANGED dirty

\* The kernel starts over; a journal of the old boot claims nothing.
Reboot == owned' = {} /\ dirty' = {}

Next == Claim \/ Mutate \/ Release \/ Reboot

Spec == Init /\ [][Next]_vars
=============================================================================
