SPECIFICATION FairSpec
CONSTANTS
  MaxSig = 5
  Failed = {3}
  PageLimit = 1
  MaxPages = 2
  LowPages = 1
  BaseBudget = 2
  Sweeps = {w1}
  MaxUpsets = 2
INVARIANTS
  NothingSkipped
PROPERTY
  PollerCatchesUp
