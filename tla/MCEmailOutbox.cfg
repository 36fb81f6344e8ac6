SPECIFICATION OutboxFairSpec
CONSTANTS
  Emails = 2
  Worker = {w1, w2}
  MaxAttempts = 2
  BatchSize = 2
  LockLife = 1
  MaxWait = 1
  None = None
INVARIANTS
  DeliveriesAreAccounted
  LostOnlyWhenStale
PROPERTIES
  LatestClaimRecords
  EveryEmailEnds
