SPECIFICATION FairSpec
CONSTANTS
  N = 5
  DefaultLimit = 2
  MaxLimit = 3
  Limits <- AnyLimits
  Unset = Unset
INVARIANTS TypeOK IInv PagesAreContiguous DoneBatchListsWhole
PROPERTY PassesEnd
