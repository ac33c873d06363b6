CONSTANTS
    N = 3
    Signals <- MCSignals
    StopDistance <- MCStopDistance
    RiskPct = 1
    FeeBps = 6
    LeverageCap = 10
    InitialBalance = 1000
    Proc = {p1, p2}
    Request = {r1, r2}
    None = None
    Tapes <- MCTapes
    PageLimit = 2
    MaxPages = 2
    MaxSteps = 3
    MaxSyncs = 2
    MaxResets = 1
    MaxRevisions = 1
SPECIFICATION Spec
SYMMETRY Symmetry
INVARIANT TypeOK
INVARIANT CandlesInOrder
INVARIANT Deterministic
INVARIANT PerformanceAgrees
CHECK_DEADLOCK FALSE
