SPECIFICATION FairSpec
CONSTANTS
  w1 = w1
  w2 = w2
  id1 = id1
  id2 = id2
  NoId = NoId
  HttpStatuses = {200, 400, 499, 500}
  ProviderTaskIds = {id1, id2}
  Workers = {w1, w2}
  Reconciles = TRUE
  OperatorWaits = TRUE
  Faults = {"crash", "stall", "lostJob", "database"}
  MaxFaults = 2
INVARIANT SubmissionInv
INVARIANT RequestedOnce
INVARIANT RowsAgree
INVARIANT NotCreatedIsTrue
INVARIANT ObjectKept
PROPERTY LifecycleSpec
CHECK_DEADLOCK FALSE
PROPERTY SubmittingSettles
