SPECIFICATION DbSpec
CONSTANTS
  Keys = {0, 1}
  MaxTxns = 2
  Late = {}
  BigRows = {1}
  Faults = {"sync", "kill"}
INVARIANT
  WriterNeverCorrupts
\* Out of transaction ids or row ids, or refused as corrupt, the database may rest.
CHECK_DEADLOCK FALSE
