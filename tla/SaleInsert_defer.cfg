SPECIFICATION FairSpec
CONSTANTS
  s1 = s1
  s2 = s2
  m1 = m1
  Sale <- MCSale
  Mint <- MCMint
  MintOf <- MCMintOf
  Kinds <- MCKinds
  DeferEnabled = TRUE
  DeferMax = 1
  DbFails = TRUE
  MaxRestarts = 1
INVARIANTS
  CardsHaveRows
  StoredIsShown
PROPERTIES
  DeferralEnds
CHECK_DEADLOCK FALSE
