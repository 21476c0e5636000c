SPECIFICATION FairSpec
CONSTANTS
  Sales = {"me_v2"}
  Mints = {"mpl_core"}
  RealClock = {"mpl_core"}
  First = "me_v2"
  Slot = "slot"
  Modes = {"off", "sales_only"}
  MaxFaults = 1
  MaxChanges = 1
  MaxRefreshes = 1
INVARIANTS EveryStreamIsHeld
PROPERTIES SilenceEnds OnePollChainRemains
CHECK_DEADLOCK FALSE
