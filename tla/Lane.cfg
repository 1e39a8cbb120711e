\* Caps and plans changing under a running batch with one failure, or one target
\* that another controller keeps changing.
CONSTANTS
  Automatic <- Cpu
  ManualOnly <- Gpu
  Top = 2
  MaxCorrections = 1
  EventCapacity = 1
  MaxInput = 2
  MaxFail = 1
  MaxExternal = 4
SPECIFICATION MCSpec
CHECK_DEADLOCK FALSE
INVARIANTS
  LaneSound
  RewritesBounded

  
  
