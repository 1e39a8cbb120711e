\* Both lanes, sleep, wake and sleep again, one reload and one failure; two sleeps
\* of the machine with lost calls; crashes and orders to the unit; saved documents,
\* reloads and rules.
CONSTANTS
  MaxJobs = 2
  MaxTransitions = 3
  MaxReload = 1
  MaxFail = 1
  Session = {"s1", "s2"}
  MaxCycles = 2
  MaxSleepFaults = 2
  MaxSwitches = 1
  MaxCrashes = 2
  MaxFailures = 2
  MaxOrders = 3
  Client = {"c1", "c2"}
  Capacity = 2
  MaxRequests = 3
  DeviceDoc <- DeviceDocs
  PolicyDoc <- PolicyDocs
  RuleDoc <- RuleDocs
  Catalog <- Profiles
  HardwareRange <- Ranges
  HardwareUnit <- Units
  ClientRule <- ClientRules
  Process = {"app", "other"}
  RuleLimit = 2
  MaxHot = 9
  RequiredProfiles = {"balance"}
  DirectoryMayGo = TRUE
  MaxSaves = 2
  MaxCalls = 2
SPECIFICATION MCSpec
CHECK_DEADLOCK FALSE
INVARIANTS
  BarriersHold
  LastTransitionWins
  SleepsRestored
  OrderlyLife
  
  
PROPERTIES
  RequestsAnswered
  
  NothingLeft
  MappingNeverChanges
  EditsAdopted
