SPECIFICATION DbSpec
CONSTANTS
  Keys = {0, 1}
  MaxTxns = 2
  Late = {}
  BigRows = {}
  Faults = {"write", "sync", "partial", "kill"}
INVARIANTS
  CleanCommitsSurvive
  IdsAreFresh
  RecoveredWhole
  RowsNeverOverwritten
  RecoveriesAgree
\* Out of transaction ids or row ids, or refused as corrupt, the database may rest.
CHECK_DEADLOCK FALSE
