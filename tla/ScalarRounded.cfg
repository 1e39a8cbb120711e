\* A kernel that rounds a written value to another one of the domain.
CONSTANTS
  Target <- Two
  Value <- Values3
  Start <- StartTwo
  Kept <- Rounded
  Scenes <- OnlyAlone
SPECIFICATION Spec
CHECK_DEADLOCK FALSE
INVARIANT NothingLeftBehind
