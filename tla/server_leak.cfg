SPECIFICATION Spec
CONSTANTS
  Conns = {1, 2}
  MaxPacket = 2
  MaxRows = 1
  NetFails = TRUE
  LogFails = TRUE
  Panics = FALSE
INVARIANT
  DisconnectRollsBack
\* A directory that is refused stays refused.
CHECK_DEADLOCK FALSE
