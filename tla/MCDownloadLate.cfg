SPECIFICATION Spec
CONSTANTS
  w1 = w1
  w2 = w2
  id1 = id1
  NoId = NoId
  v1 = v1
  v2 = v2
  ProviderTaskIds = {id1}
  Workers = {w1, w2}
  Contents = {v1, v2}
  LeaseLength = 2
  Delays = {1}
  MaxAttempts = 2
  MaxDuration = 4
  SpoilsIn = {"PROCESSING"}
  FaultsUntil = 7
  MaxTime = 6
CHECK_DEADLOCK FALSE
SYMMETRY SlotSymmetry
INVARIANT SucceededIsServable
