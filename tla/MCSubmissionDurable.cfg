SPECIFICATION Spec
CONSTANTS
  Requests = {r1, r2, r3}
  Keys = {k1, k2, k3}
  NoKey = NoKey
  NoRequest = NoRequest
  Durable = TRUE
  MaxKeys = 1
  JobWindow = 1
  MaxCrashes = 2
  MaxStoreErrors = 1
SYMMETRY Symmetry
INVARIANTS TypeOK NoDoubleSubmit ClaimsProtectOpenKeys AcknowledgedJobKnown NoGhostRecord HeldKeyHasCause CapExceededOnlyByFaults
CHECK_DEADLOCK FALSE
