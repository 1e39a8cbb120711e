\* The directory fsync of the journal fails after the rename.
CONSTANTS
  Target <- Two
  Value <- Values3
  Start <- StartTwo
  Kept <- Exact
  Scenes <- OnlyTorn
SPECIFICATION Spec
CHECK_DEADLOCK FALSE
INVARIANT NothingLeftBehind
