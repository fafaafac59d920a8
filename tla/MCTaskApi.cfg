CONSTANTS
  Requests = {r1, r2, r3}
  NoTask = NoTask
  Stages = {"QUEUED", "SUBMITTING", "CANCELLED"}
  MaxFaults = 1
SPECIFICATION Spec
INVARIANTS
  ApiInv
  RepliesAgree
CHECK_DEADLOCK FALSE
PROPERTIES
  ServiceSpec
  AskedForIsStarted
