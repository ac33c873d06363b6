SPECIFICATION Spec
CONSTANTS
  c1 = c1  c2 = c2  s1 = s1  s2 = s2  sx = sx  sy = sy
  NoCand = NoCand  NoSlot = NoSlot
  Cand = {c1, c2}
  Slot = {s1, s2}
  Symbol = {sx, sy}
  SymbolOf <- OwnSymbols
  Direct = {c1}
  Mirrored = {c2}
  Repriced = {c2}
  MaxActive = 2
  MaxDeliveries = 1
  MaxCrashes = 1
  DbFaults = TRUE
  GatewayErrors = TRUE
INVARIANT SlotExclusive
INVARIANT SubmitOnce
INVARIANT FailureIsDefinite
INVARIANT ExposureOwned
PROPERTY StatusFollowsTable
PROPERTY KeptLifecycle
SYMMETRY Interchangeable
