SPECIFICATION FairSpec
CONSTANTS
  Symbol = {1}
  QueueLimit = 1
  MaxAge = 1
  SetupInterval = 1
  StartTick = 22
  MaxTick = 24
  MaxRestarts = 1
  MaxFaults = 1
INVARIANT TypeOK
INVARIANT UnsentIsDue
INVARIANT MirrorFollowsOffer
PROPERTY HandoffIsFresh
PROPERTY ApprovedIsDelivered
