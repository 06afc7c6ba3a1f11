SPECIFICATION Spec
CONSTANTS
  Requests = {r1, r2, r3}
  Blobs = {b1}
  None = None
  CatalogIds = FALSE
  MaxCrashes = 0
  MaxStoreErrors = 0
INVARIANTS HashIndexAgrees
CHECK_DEADLOCK FALSE
