SPECIFICATION SyncFairSpec
CONSTANTS
  NPeers = 2
  OldPeer <- OldPeers
  Item <- Items
  Threshold = 1
  Quiet = 1
  StallTimeout = 2
  RetryDelay = 3
  Contention = TRUE
  MaxEvents = 1
INVARIANTS SyncTypeOK SyncedHasData
PROPERTIES SyncEnds FailureIsRetried
