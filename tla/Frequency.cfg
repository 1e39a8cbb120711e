\* Two targets in one batch and a crash, or one target under another client's
\* constraint, a crash and a reboot.
CONSTANTS
  Target <- Targets
  Hw <- HwRanges
  Opps <- OppTables
  Caps <- OtherCaps
  MaxBatch = 2
  MaxBoot = 1
  MaxCrash = 1
SPECIFICATION MCSpec
CHECK_DEADLOCK FALSE
INVARIANTS
  DurableClaim
  JournalSound
  BatchExact
PROPERTIES
  FailuresContained
  ImplementsOwnership
  OperationsEnd
