SPECIFICATION FairSpec
CONSTANTS
  Specs <- LiveSpecs
  Envs = {"e1", "e2"}
  OthersDelete = TRUE
  DefaultCap = 50
  DefaultMax = 200
  RetrySteps = 1
  MaxReplicas = 1
  MaxUid = 1
  Absent = Absent
PROPERTIES Converges NothingOutlivesItsPool
