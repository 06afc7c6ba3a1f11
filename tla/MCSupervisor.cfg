SPECIFICATION FairSpec
CONSTANTS
  c1 = c1
  c2 = c2
  c3 = c3
  Commands = {c1, c2}
  Pids = {11, 12, 13}
  None = None
  Torn = Torn
  MaxRounds = 1
  CmdlineReadable = TRUE
INVARIANTS TypeOK ServerIsKnown
PROPERTIES MistakenOnlyAfterRace CommandsEnd
CHECK_DEADLOCK FALSE
