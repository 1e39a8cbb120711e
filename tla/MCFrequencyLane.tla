-------------------------- MODULE MCFrequencyLane --------------------------
(***************************************************************************)
(* One automatic and one manual-only target of FrequencyLane, for TLC, in  *)
(* one of two scenes that are too large to be taken together.              *)
(***************************************************************************)
EXTENDS FrequencyLane

Cpu == {"cpu"}
Gpu == {"gpu"}

\* "caps": caps and plans change under a running batch, nobody else writes.
\* "fight": another controller keeps changing the one planned target.
VARIABLE part

InPart ==
  /\ part' = part
  /\ part = "caps" => externals' = 0
  /\ part = "fight" => /\ inputs' <= 1 /\ override' = override
                       /\ thermal'["gpu"] = None /\ kernel'["gpu"] = kernel["gpu"]

MCInit == Init /\ part \in {"caps", "fight"}
MCNext == Next /\ InPart
MCSpec == MCInit /\ [][MCNext]_<<vars, part>> /\ LaneFairness

\* Converges, where no other controller undoes the writes.
LaneConverges == <>[](part = "caps" => AtPlan)
=============================================================================
