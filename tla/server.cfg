SPECIFICATION FairSpec
CONSTANTS
  Conns = {1, 2}
  MaxPacket = 2
  MaxRows = 1
  NetFails = TRUE
  LogFails = TRUE
  Panics = TRUE
INVARIANTS
  ReadsAreRouted
  OrphansAreBroken
  ServedIsReopened
PROPERTIES
  ThreadsComeBack
\* A directory that is refused stays refused.
CHECK_DEADLOCK FALSE
