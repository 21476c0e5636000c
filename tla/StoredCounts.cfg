SPECIFICATION MCSpec
CONSTANTS
  NoRow = NoRow
  IsCore = TRUE
  MaxChain = 3
  MaxAsks = 2
  MaxBoots = 2
  Sales = {s1, s2, s3}
  MaxHeld = 5
  LowCount = 2
  EveryN = 2
  Gate = 2
  MaxUpsets = 2
SYMMETRY Symmetric
\* The wallet runs empty.
CHECK_DEADLOCK FALSE
INVARIANTS
  NeverAheadOfChain
  DriftIsOneScans
  HiddenIsVerified
PROPERTIES
  SupplyNeverFalls
