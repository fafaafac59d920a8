SPECIFICATION Spec
CONSTANTS
  h1 = h1
  h2 = h2
  h3 = h3
  id1 = id1
  id2 = id2
  NoId = NoId
  HttpStatuses = {200, 400, 499, 500}
  ProviderTaskIds = {id1, id2}
  Handlers = {h1, h2, h3}
  Reconciles = TRUE
SYMMETRY ThreadSymmetry
INVARIANT BridgeInv
INVARIANT ProviderCalledOnce
INVARIANT RepliesAreTrue
INVARIANT AnswersAgree
