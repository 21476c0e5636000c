SPECIFICATION FairSpec
CHECK_DEADLOCK FALSE
CONSTANTS
  w = w
  p = p
  h = h
  m = m
  Ws = {w}
  Pollers = {p}
  Hooks = {h}
  Mints = {m}
  Patient = {w, m}
  PrimaryRetries = 1
  RawpatchRetries = 0
  CooldownThresh = 2
  NegMinNulls = 2
  MaxEvents = 3
INVARIANTS InFlightIsHonest RecentMeansDelivered BestEffortMeansStored TerminalMeansStored
PROPERTIES SaleIsStored
