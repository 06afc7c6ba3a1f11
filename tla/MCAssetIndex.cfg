SPECIFICATION Spec
CONSTANTS
  Requests = {r1, r2, r3, r4}
  Blobs = {b1, b2}
  None = None
  CatalogIds = TRUE
  MaxCrashes = 1
  MaxStoreErrors = 1
SYMMETRY Symmetry
INVARIANTS TypeOK IndexSound AnsweredAssetSurvives DeletedStaysDeleted RecordsAgree
CHECK_DEADLOCK FALSE
