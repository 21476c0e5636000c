SPECIFICATION LedgerSpec
CONSTANTS
  k1 = k1
  k2 = k2
  k3 = k3
  g1 = g1
  g2 = g2
  Key <- MCKey
  Group <- MCGroup
  GroupOf <- MCGroupOf
  Cap = 2
  MaxCount = 2
  Faults = {"kill", "midflush", "io"}
INVARIANTS
  NoForgottenKey
  NoDoubleCount
PROPERTIES
  LedgerCatchesUp
