SPECIFICATION Spec
CONSTANTS
  Specs <- TwoSpecs
  Envs = {"e1"}
  OthersDelete = FALSE
  DefaultCap = 50
  DefaultMax = 200
  RetrySteps = 2
  MaxReplicas = 1
  MaxUid = 2
  Absent = Absent
INVARIANTS QuietMeansSettled IInv
PROPERTY ReplicasLeftToKeda
