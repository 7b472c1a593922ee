\* Three clients of each component; two or three keys of the caches.
SPECIFICATION KeysSpec
CONSTANTS
  c1 = c1
  c2 = c2
  c3 = c3
  k1 = k1
  k2 = k2
  k3 = k3
  Callers = {c1, c2, c3}
  Tokens = 3
  Estimate = 2
  MaxCost = 2
  MaxCalls = 2
  Deliveries = {c1, c2, c3}
  NoDelivery = NoDelivery
  LockClients = {c1, c2, c3}
  NoClient = NoClient
  LockTries = 2
  CacheKeys = {k1, k2, k3}
  CacheSize = 2
  MaxVersions = 3
SYMMETRY Symmetric
CHECK_DEADLOCK FALSE
INVARIANTS OvershootBounded BusyHoldsReservation LeaseExcludes RecencyKept WriterSideFresh
