----------------------------- MODULE MCDesktop -----------------------------
(***************************************************************************)
(* The desktop's side, for TLC: who may say which workload has the focus,  *)
(* the shell extension that says it, the views the GUI shows, the boosts   *)
(* an interaction causes and the touch devices that start them.  The five  *)
(* models share no state and are explored one at a time: part says which   *)
(* one runs.                                                               *)
(***************************************************************************)
EXTENDS MCFocusLeases, FocusReporter, StatusSignals, InteractionScenes, TouchInput

VARIABLE part

TouchPanels == {{0}, {0, 1}, {0, 1, 2}}

MCInit ==
  /\ part \in {"leases", "reporter", "status", "scenes", "touch"}
  /\ LeaseInit /\ ReporterInit /\ StatusInit /\ SceneInit /\ InputInit
  /\ part # "touch" => node.slots = {0}
MCNext ==
  \/ /\ part = "leases" /\ LeaseNext
     /\ UNCHANGED <<part, reporterVars, statusVars, sceneVars, inputVars>>
  \/ /\ part = "reporter" /\ ReporterNext
     /\ UNCHANGED <<part, leaseVars, statusVars, sceneVars, inputVars>>
  \/ /\ part = "status" /\ StatusNext
     /\ UNCHANGED <<part, leaseVars, reporterVars, sceneVars, inputVars>>
  \/ /\ part = "scenes" /\ SceneNext
     /\ UNCHANGED <<part, leaseVars, reporterVars, statusVars, inputVars>>
  \/ /\ part = "touch" /\ InputNext
     /\ UNCHANGED <<part, leaseVars, reporterVars, statusVars, sceneVars>>
\* The fairness of the parts, each where its part runs.
MCFairness ==
  /\ WF_leaseVars(part = "leases" /\ LeaseTime)
  /\ WF_leaseVars(part = "leases" /\ LeaseTick(FALSE))
  /\ WF_leaseVars(part = "leases" /\ Answer)
  /\ WF_reporterVars(part = "reporter" /\ RunIdle)
  /\ WF_reporterVars(part = "reporter" /\ TimerFires)
  /\ WF_reporterVars(part = "reporter" /\ CallReturns)
  /\ WF_reporterVars(part = "reporter" /\ DisplayTimerFires)
  /\ WF_reporterVars(part = "reporter" /\ QueryAnswers)
  /\ WF_reporterVars(part = "reporter" /\ NameOwnerChanges)
  /\ WF_reporterVars(part = "reporter" /\ DaemonHandles)
  /\ WF_reporterVars(part = "reporter" /\ DaemonVerifies)
  /\ WF_reporterVars(part = "reporter" /\ DaemonStarts)
  /\ WF_reporterVars(part = "reporter" /\ LeaseExpires)
  /\ WF_statusVars(part = "status" /\ Pump) /\ WF_statusVars(part = "status" /\ ClientSteps)
  /\ WF_statusVars(part = "status" /\ WindowHandles)
  /\ WF_statusVars(part = "status" /\ WindowRefreshes)
  /\ WF_sceneVars(part = "scenes" /\ SceneTime) /\ WF_sceneVars(part = "scenes" /\ SceneTick)
MCSpec ==
  /\ MCInit
  /\ [][MCNext]_<<part, leaseVars, reporterVars, statusVars, sceneVars, inputVars>>
  /\ MCFairness
=============================================================================
