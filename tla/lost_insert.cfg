SPECIFICATION Spec
CONSTANTS
  u1 = u1
  u2 = u2
  Clients = {c1}
  Users = {u1}
  Keys = {k1}
  NoKey = NoKey
  Sizes = {1, 2}
  MaxBatchVariants = 2
  SyncExpandThreshold = 1
  MaxTries = 2
  Requests <- Valids
  None = None
INVARIANT SyncAnswerMeansExpanded
