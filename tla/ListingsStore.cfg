SPECIFICATION ListingsSpec
CONSTANTS
  Mints = {m1}
  Owners = {a, b}
  Pool = Pool
  Sources = {"ME", "MMM", "TENSOR"}
  NoListing = NoListing
  MaxMeRetries = 1
  MaxMoves = 2
  MaxFaults = 1
INVARIANTS
  SoldStaysAway
PROPERTIES
  PageConverges
