SPECIFICATION FairSpec
CONSTANTS
  Sizes = {1, 3, 10}
  Marks = {0, 5, 6, 8}
  MinQty = 1
  CallFaults = TRUE
  MaxCrashes = 2
INVARIANT RunnerKept
INVARIANT BreakEvenHeld
INVARIANT TrailHeld
PROPERTY CloseIsNoticed
CHECK_DEADLOCK FALSE
