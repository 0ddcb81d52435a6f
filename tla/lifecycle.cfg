\* Two Runners of one pool race for two rows of one user at cap 1.
CONSTANTS
  r1 = r1
  r2 = r2
  u1 = u1
  v1 = v1
  Sims = {1, 2}
  Users = {u1}
  Versions = {v1}
  Priorities = {0, 1}
  Runners = {r1, r2}
  Version <- OnePool
  UserCap <- CapOne
  MaxAttempts = 2
  None = None
  NoRequest = NoRequest
SPECIFICATION FairSpec
INVARIANTS TypeOK UserCapHolds AttemptsBounded IInv
PROPERTIES OnlyCurrentAttemptSettles TerminalIsFinal ImplementsQueue EventuallySettled
