SPECIFICATION FairSpec
CONSTANTS
  w1 = w1
  w2 = w2
  id1 = id1
  NoId = NoId
  ProviderTaskIds = {id1}
  Workers = {w1, w2}
  LeaseLength = 2
  Delays <- ScaledDelays
  MaxDuration = 4
  FaultsUntil = 3
  MaxTime = 8
INVARIANT PollingInv
INVARIANT OneValidClaim
INVARIANT UsageRecordedOnce
INVARIANT EndMatchesRemote
INVARIANT RecoverableIsClaimable
PROPERTY ResultNeedsLease
PROPERTY LifecycleSteps
CHECK_DEADLOCK FALSE
PROPERTY PollingEnds
