SPECIFICATION Spec
CONSTANTS
  Jobs = {j1}
  Streams = {s1}
  Outputs = {o1}
  Nobody = Nobody
  MaxStreams = 1
  MaxInbox = 1
  PrepareYields = FALSE
  WsCloses = FALSE
  Chatter = FALSE
  Errors = FALSE
INVARIANT ExpiredMeansGone
CHECK_DEADLOCK FALSE
