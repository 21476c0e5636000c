SPECIFICATION FeedSpec
CONSTANTS
  NoRow = NoRow
  Events <- AllEvents
  Threshold = 4
  BurstV60 = 2
  BurstV5M = 3
  Window60 = 0
  Window5M = 1
  Cooldown = 2
  IdleEvict = 4
  SnapshotTTL = 3
  EvictedNonNftMax = 2
  MaxObserved = 13
  Tiers <- MCTiers
  Period = 12
INVARIANTS
  NamelessIsShownByBypassOnly
  ClientsSeeTheRow
  VolumeIsActive
  Resurfaces
  EvictionIsComplete
PROPERTIES
  VolumeRowsStayActive
  QuietRowsLeaveActive
