SPECIFICATION DbSpec
CONSTANTS
  Keys = {0, 1}
  MaxTxns = 3
  Late = {}
  BigRows = {}
  Faults = {"partial"}
INVARIANT
  CommittedSurvives
\* Out of transaction ids or row ids, or refused as corrupt, the database may rest.
CHECK_DEADLOCK FALSE
