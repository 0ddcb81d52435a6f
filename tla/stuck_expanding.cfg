CONSTANTS
  N = 2
  MaxAttempts = 2
SPECIFICATION FairSpec
PROPERTIES LeavesExpanding
