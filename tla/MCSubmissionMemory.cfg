SPECIFICATION Spec
CONSTANTS
  Requests = {r1, r2, r3, r4}
  Keys = {k1, k2, k3}
  NoKey = NoKey
  NoRequest = NoRequest
  Durable = FALSE
  MaxKeys = 2
  JobWindow = 1
  MaxCrashes = 1
  MaxStoreErrors = 0
SYMMETRY Symmetry
PROPERTIES EvictionSparesRecent
CHECK_DEADLOCK FALSE
