SPECIFICATION ServiceSpec
CONSTANTS
  i1 = i1
  i2 = i2
  c1 = c1
  None = None
  Instances <- MCInstances
  Clients <- MCClients
  MaxConnections = 1
  MaxStarts = 3
  MaxMishaps = 2
INVARIANTS OneWriter ReadyIsReachable
PROPERTIES StartsAndStops
CHECK_DEADLOCK FALSE
