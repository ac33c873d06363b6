SPECIFICATION Spec
CONSTANTS
  s1 = s1
  Symbol = {s1}
  EntrySize = 10
  MaxOpen = 3
  MaxOrders = 3
  MaxPositions = 2
  Deployments <- LoopOnly
INVARIANT ClosedOnce
CHECK_DEADLOCK FALSE
