SPECIFICATION Spec
CONSTANTS
  c1 = c1  c2 = c2  s1 = s1  s2 = s2  sx = sx  sy = sy
  NoCand = NoCand  NoSlot = NoSlot
  Cand = {c1}
  Slot = {s1, s2}
  Symbol = {sx, sy}
  SymbolOf <- OwnSymbols
  Direct = {c1}
  Mirrored = {c1}
  Repriced = {}
  MaxActive = 2
  MaxDeliveries = 1
  MaxCrashes = 0
  DbFaults = FALSE
  GatewayErrors = FALSE
INVARIANT OneSlotPerCandidate
