\* Replaceable uploads and an engine that may be cut short.
CONSTANTS
  c1 = c1
  c2 = c2
  r1 = r1
  r2 = r2
  s1 = s1
  s2 = s2
  n1 = n1
  Sims = {s1, s2}
  Runners = {r1, r2}
  MaxAttempts = 2
  Contents = {c1, c2}
  Names = {n1}
  ErrOf <- Flaky
  None = None
  NoDigest = NoDigest
  NoResult = NoResult
SPECIFICATION Spec
SYMMETRY Symmetric
INVARIANTS ResultIsOfItsInputs SucceededHasRealHash SucceededHasResult IInv
