SPECIFICATION FairSpec
CONSTANTS
  t1 = t1
  t2 = t2
  t3 = t3
  t4 = t4
  Tasks = {t1, t2, t3, t4}
  Max = 2
INVARIANTS
  SlotsAreCounted
  NoIdleSlot
PROPERTIES
  FirstOfTheHighest
  ClosedGateStartsNothing
  HighIsServed
  ImplementsPool
