SPECIFICATION MCSpec
CONSTANTS
  Pages = {p1}
  Ips = {i1, i2}
  Conns = {k1, k2}
  NoConn = NoConn
  Sales = {s1}
  MaxClients = 2
  PerIp = 1
  MaxBackpressure = 2
  MaxBatch = 3
  ReplayMax = 1
  MaxVersion = 2
INVARIANTS
  SlotsMatchConnections
  LateTabHasThePatches
PROPERTIES
  ImplementsRowFeed
  QueueDrains
  DeadConnectionsLeave
