SPECIFICATION Spec
CONSTANTS
  s1 = s1
  Symbol = {s1}
  EntrySize = 10
  MaxOpen = 3
  MaxOrders = 3
  MaxPositions = 2
  Deployments <- Checked
INVARIANT TypeOK
INVARIANT RunnerKept
INVARIANT KillHolds
CHECK_DEADLOCK FALSE
