\* One scalar attribute that others write at any moment, or two in one batch; a
\* governor of two clusters; one thermal zone; one load average.
CONSTANTS
  Target <- Two
  Value <- Values3
  Start <- StartTwo
  Kept <- Exact
  Scenes <- RaceAndBatch
  Cluster <- TwoClusters
  Opps <- Tables
  ManualOnly <- OneDevice
  Configurations <- Candidates4
  Demands <- LowOrHigh
  Loads <- OffOrBusy
  FullLoad = 2
  Estimates = {1, 5}
  Observations <- Readbacks
  Thermal = {"normal", "degraded"}
  MaxRampLatency = 10
  MaxResidency = 10
  Overridable = {2}
  RefillDivisor = 1
  Zone = {"soc"}
  Threshold <- Thresholds
  Hysteresis = 1
  Dwell = 1
  StaleAfter = 3
  MaxLag = 1
  MaxStimuli = 3
  LoadStale = 2
  HeavyDwell = 2
  MaxFaults = 3
SPECIFICATION MCSpec
CHECK_DEADLOCK FALSE
INVARIANTS
  EntriesSound
  NothingLeftBehind
  GovernorSound
  TelemetryTrusted
PROPERTIES
  ImplementsOwnership
  ThirdValueUntouched
  TelemetrySettles
  HeavyBoostEnds
