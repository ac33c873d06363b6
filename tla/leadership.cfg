SPECIFICATION FairSpec
CONSTANTS
  i1 = i1  i2 = i2
  NoInstance = NoInstance
  Instance = {i1, i2}
  Requested = {i1}
  Slow = {i1}
  DbFaults = TRUE
  StartFaults = TRUE
INVARIANT LaunchedOnce
PROPERTY CycleUnderLock
PROPERTY QuietAfterRelease
PROPERTY Takeover
PROPERTY FollowerDisabled
CHECK_DEADLOCK FALSE
