SPECIFICATION Spec
CONSTANTS
  MaxSig = 6
  Failed = {3}
  PageLimit = 2
  MaxPages = 2
  LowPages = 2
  BaseBudget = 2
  Sweeps = {w1}
  MaxUpsets = 1
INVARIANTS
  PagesReachTheCursor
