SPECIFICATION Spec
CONSTANTS
  Keys = {k1, k2}
  MaxTxns = 3
  Late = {1}
INVARIANTS
  StrictLocking
PROPERTIES
  StableReads
  IsSnapshotIsolated
  UsesLocksStrictly
\* The store is idle for good once MaxTxns transactions have ended.
CHECK_DEADLOCK FALSE
