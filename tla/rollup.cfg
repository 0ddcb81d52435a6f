\* Two children, two attempts each.
CONSTANTS
  N = 2
  MaxAttempts = 2
SPECIFICATION FairSpec
INVARIANTS TypeOK IInv CountsNeverOverstate DoneIsExact
PROPERTIES DoneIsAbsorbing EventuallyDone ImplementsBatchRows
