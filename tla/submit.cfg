SPECIFICATION Spec
CONSTANTS
  u1 = u1
  u2 = u2
  Clients = {c1, c2}
  Users = {u1, u2}
  Keys = {k1}
  NoKey = NoKey
  Sizes = {1, 2, 3}
  MaxBatchVariants = 2
  SyncExpandThreshold = 1
  MaxTries = 2
  Requests <- TwoUsers
  None = None
INVARIANTS IInv SameKeySameBatch OneExpanderPerBatch SyncAnswerIsComplete AnsweredIsExpanded
PROPERTY FailsOnlyByFault
SYMMETRY Symmetry
