SPECIFICATION Spec
CONSTANTS
  Txns = {t1, t2, t3}
  Resources = {a, b}
  Modes <- BothModes
  Calls <- StrictCalls
  OneAtATime = FALSE
  VictimAborts = FALSE
  MaxTicket = 2
SYMMETRY Symmetry
INVARIANTS
  TypeOK
  MutualExclusion
  HeadIsBlocked
  TrackedGraphAcyclic
  EdgesAreReal
PROPERTIES
  FirstClaim
\* The system stops when every transaction has terminated.
CHECK_DEADLOCK FALSE
