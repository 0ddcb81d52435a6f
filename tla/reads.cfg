CONSTANTS
  s1 = s1
  r1 = r1
  r2 = r2
  u1 = u1
  u2 = u2
  k1 = k1
  k2 = k2
  f1 = f1
  f2 = f2
  c1 = c1
  c2 = c2
  Sims = {s1}
  Runners = {r1, r2}
  Users = {u1, u2}
  Keys = {k1, k2}
  MaxAttempts = 2
  Files = {f1, f2}
  Verdicts = {"clean"}
  Contents = {c1, c2}
  Owner <- OwnerOf
  KeyOwner <- KeyOwnerOf
  Named = Named
  None = None
  NoDigest = NoDigest
  NoResult = NoResult
SPECIFICATION Spec
SYMMETRY Symmetric
CONSTRAINT OneKey
INVARIANTS SucceededShowsResult WaitedStaysTrue DownloadIsWhole OnlyOwnersAreServed IInv
