CONSTANTS
  Target <- Targets
  Hw <- HwRanges
  Opps <- OppTables
  Caps <- OtherCaps
  MaxBatch = 2
  MaxBoot = 1
  MaxCrash = 1
SPECIFICATION MCSpec
CHECK_DEADLOCK FALSE
INVARIANT RequestNeverReversed
