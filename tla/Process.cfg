SPECIFICATION ProcessSpec
CONSTANTS
  BatchSize = 2
  MaxRetries = 2
  MaxEntries = 2
  MaxFlights = 3
  MaxFailures = 4
  MaxClients = 3
  MaxHealth = 2
  Readers = {r1, r2}
  MaxVersion = 3
  MaxMisses = 1
  KeyIds = {"k1", "k2", "k3"}
  KeySets <- MCKeySets
INVARIANTS
  LostOnlyToCap
  ClientsAccounted
  StableKeysServed
PROPERTIES
  EntriesArrive
  ShutdownReturns
  ShutdownEnds
CHECK_DEADLOCK FALSE
