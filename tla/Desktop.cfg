\* Three requests, two incarnations of a process; two events of the shell and a
\* fault; three changes and a restart of the daemon; five stimuli; two contacts
\* and one unplug, reopening or failure.
CONSTANTS
  Pid <- Pids
  Peer <- Peers
  Owner <- Owners
  PeerUid <- PeerUids
  Protected = {}
  LeaseTtl = 1
  LeaseDebounce = 1
  MaxLife = 2
  MaxSpoken = 3
  Window = {"a", "b"}
  None = "none"
  Unknown = "unknown"
  MaxShell = 2
  MaxReporterFaults = 1
  BroadcastLimit = 1
  MaxVersion = 3
  MaxRestarts = 1
  Device = {"d1", "d2"}
  Finger = {1}
  HintTtl = 2
  IdleSlack = 1
  MissLimit = 1
  MaxStimuli = 5
  SlotSets <- TouchPanels
  MaxTracking = 2
  QueueLimit = 6
  MaxPlugs = 1
SPECIFICATION MCSpec
CHECK_DEADLOCK FALSE
INVARIANTS
  BoostHasCause
  NoStuckContact
PROPERTIES
  RightfulWorkload
  LeasesRunOut
  FocusReported
  ViewsCatchUp
  
  BoostsEnd
