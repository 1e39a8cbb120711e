\* Two instances that take one slot in turn, or two slots in one batch, with
\* another writer and a crash; every configuration that validation accepts.
CONSTANTS
  Slot <- Slots
  Field = {cpus, weight}
  Value <- Values
  TornStore = FALSE
  Scenes <- AllScenes
  MaxCrash = 1
  Cpus = {0, 1}
  Groups <- SomeGroups
  Plans <- SomePlans
  Configs <- SomeConfigs
  Name = {"ui", "io"}
  Worker = {"worker", "other"}
  ForeignWorker = {"other"}
  Original <- Untouched
  MaxFifo = 8
  MaxWeight = 3
  MaxChanges = 3
SYMMETRY FieldSymmetry
SPECIFICATION MCSpec
CHECK_DEADLOCK FALSE
INVARIANTS
  FieldsSound
  ValidConfigIsSafe
PROPERTIES
  AdministratorWins
