SPECIFICATION FairSpec
CONSTANTS
  Requests = {r1, r2, r3}
  Keys = {k1, k2}
  NoKey = NoKey
  NoRequest = NoRequest
  Durable = TRUE
  MaxKeys = 1
  JobWindow = 1
  MaxCrashes = 1
  MaxStoreErrors = 1
PROPERTIES ImplementsContract SubmissionsEnd
CHECK_DEADLOCK FALSE
