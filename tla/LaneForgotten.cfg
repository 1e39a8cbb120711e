\* An override set and cleared while the batch that claims it runs.
CONSTANTS
  Automatic <- Cpu
  ManualOnly <- Gpu
  Top = 2
  MaxCorrections = 2
  EventCapacity = 1
  MaxInput = 3
  MaxFail = 0
  MaxExternal = 0
SPECIFICATION MCSpec
CHECK_DEADLOCK FALSE
INVARIANTS
  NoForgottenTarget
