SPECIFICATION FairSpec
CONSTANTS
  Txns = {t1, t2}
  Resources = {a, b}
  Modes <- BothModes
  Calls <- AllCalls
  OneAtATime = TRUE
  VictimAborts = TRUE
  MaxTicket = 2
INVARIANTS
  NoUndetectedDeadlock
PROPERTIES
  HoldNeverWeakens
  EveryWaitEnds
\* The system stops when every transaction has terminated.
CHECK_DEADLOCK FALSE
