SPECIFICATION FairSpec
CONSTANTS
  w1 = w1
  w2 = w2
  id1 = id1
  NoId = NoId
  v1 = v1
  v2 = v2
  ProviderTaskIds = {id1}
  Workers = {w1, w2}
  Contents = {v1, v2}
  LeaseLength = 2
  Delays = {1}
  MaxAttempts = 2
  MaxDuration = 3
  SpoilsIn = {"PROCESSING", "SUCCEEDED"}
  FaultsUntil = 4
  MaxTime = 7
CHECK_DEADLOCK FALSE
INVARIANT DownloadInv
INVARIANT OneValidClaim
INVARIANT AttemptsAreBounded
INVARIANT PendingIsClaimable
PROPERTY LifecycleSteps
PROPERTY KeptByTheLease
PROPERTY DownloadingEnds
