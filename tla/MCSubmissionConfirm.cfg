SPECIFICATION Spec
CONSTANTS
  w1 = w1
  w2 = w2
  id1 = id1
  id2 = id2
  NoId = NoId
  HttpStatuses = {200, 400, 499, 500}
  ProviderTaskIds = {id1, id2}
  Workers = {w1, w2}
  Reconciles = TRUE
  OperatorWaits = FALSE
  Faults = {}
  MaxFaults = 0
PROPERTY ConfirmationIsHeeded
CHECK_DEADLOCK FALSE
