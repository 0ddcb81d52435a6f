\* A submission that hits the cached result of a failed run.
CONSTANTS
  c1 = c1
  c2 = c2
  r1 = r1
  r2 = r2
  s1 = s1
  s2 = s2
  n1 = n1
  Sims = {s1, s2}
  Runners = {r1, r2}
  MaxAttempts = 2
  Contents = {c1, c2}
  Names = {}
  ErrOf <- Deterministic
  None = None
  NoDigest = NoDigest
  NoResult = NoResult
SPECIFICATION Spec
CHECK_DEADLOCK FALSE
SYMMETRY Symmetric
INVARIANTS SucceededMeansGood
