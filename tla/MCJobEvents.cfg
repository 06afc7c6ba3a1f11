SPECIFICATION Spec
CONSTANTS
  Jobs = {j1}
  Streams = {s1, s2}
  Outputs = {o1, o2}
  Nobody = Nobody
  MaxStreams = 1
  MaxInbox = 1
  PrepareYields = FALSE
  WsCloses = TRUE
  Chatter = TRUE
  Errors = TRUE
SYMMETRY Symmetry
INVARIANTS TypeOK CapRespected SuccessIsComplete StatusesConsistent OneVerdict
CHECK_DEADLOCK FALSE
