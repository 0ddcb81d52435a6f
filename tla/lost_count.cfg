CONSTANTS
  N = 2
  MaxAttempts = 1
SPECIFICATION Spec
INVARIANTS CountsMatchAtRest
