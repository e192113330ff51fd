SPECIFICATION Spec
CONSTANTS
  Tables = {t, u}
  NULL = NULL
  RleShare = 2
  RleUnique = 1
  DictShare = 2
  DictUnique = 1
  FileFaults = {"open", "torn", "sync", "list"}
  Sessions = {s1}
  Values = {1}
  LogFaults = {"write", "sync"}
  PagesFail = TRUE
  MaxRows = 2
  MaxSegments = 2
  MaxTrouble = 4
SYMMETRY Symmetry
INVARIANTS
  MaterialisedIsExact
  ReplicaIsCommitted
  CapturedIsKept
  ColumnsReadBack
  
  CatalogIsWhole
\* Out of row ids and opens the system may rest.
CHECK_DEADLOCK FALSE
