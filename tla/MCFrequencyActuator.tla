------------------------ MODULE MCFrequencyActuator ------------------------
(***************************************************************************)
(* A small instance of FrequencyActuator for TLC: a three-point CPU domain *)
(* and a two-point bus that are the daemon's alone, and a three-point GPU  *)
(* that another client constrains, in one of two scenes that are too large *)
(* to be taken together.                                                   *)
(***************************************************************************)
EXTENDS FrequencyActuator

Targets == {"cpu", "bus", "gpu"}
Range13 == [min |-> 1, max |-> 3]
Range12 == [min |-> 1, max |-> 2]
HwRanges == [t \in Targets |-> IF t = "bus" THEN Range12 ELSE Range13]
OppTables == [t \in Targets |-> IF t = "bus" THEN {} ELSE {1, 2, 3}]
OtherCaps == [cpu |-> {3}, bus |-> {2}, gpu |-> {1, 2, 3}]

\* "caps": the GPU alone, under another client's constraint and across a
\* reboot.  "batch": CPU and bus in one batch, no other client; the requests
\* for the CPU pin a frequency or are the full range.
VARIABLE part

InPart ==
  /\ part' = part
  /\ part = "caps" => /\ \A k \in DOMAIN order' : order'[k] = "gpu"
                      /\ {"cpu", "bus"} \subseteq registry'
  /\ part = "batch" => /\ cap' = cap /\ boot' = boot
                       /\ \A k \in DOMAIN order' : order'[k] # "gpu"
                       /\ "gpu" \in registry'
                       /\ want'["cpu"].min = want'["cpu"].max \/ want'["cpu"] = Hw["cpu"]

MCInit == Init /\ part \in {"caps", "batch"}
MCNext == Next /\ InPart
MCSpec == MCInit /\ [][MCNext]_<<vars, part>> /\ Fairness
=============================================================================
