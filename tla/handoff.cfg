CONSTANTS
    Proc = {p1, p2}
    Candidate = {c1, c2}
    None = None
    QueueLimit = 1
    Deployments <- MCDeployments
SPECIFICATION Spec
INVARIANT TypeOK
INVARIANT SubmittedOnce
INVARIANT LiveOrderHeld
INVARIANT FilledJournaled
INVARIANT JournaledOnce
PROPERTY NoEntryOverLive
SYMMETRY Symmetry
CHECK_DEADLOCK FALSE
