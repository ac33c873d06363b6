SPECIFICATION FairSpec
CONSTANTS
  x = x  w1 = w1  b1 = b1
  Symbol = {x}
  Delta <- MCDelta
  MaxFills = 2
  MaxDay = 2
  MaxAttempts = 2
  Syncer = {w1}
  Backfiller = {b1}
  Deployments <- MCDeployments
INVARIANT RowsTrue
PROPERTY LedgerConverges
CHECK_DEADLOCK FALSE
