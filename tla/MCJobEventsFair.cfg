SPECIFICATION FairSpec
CONSTANTS
  Jobs = {j1}
  Streams = {s1, s2}
  Outputs = {o1}
  Nobody = Nobody
  MaxStreams = 1
  MaxInbox = 1
  PrepareYields = TRUE
  WsCloses = FALSE
  Chatter = FALSE
  Errors = TRUE
INVARIANTS SlotsCounted OutputsOnce
PROPERTY StreamsEnd
CHECK_DEADLOCK FALSE
