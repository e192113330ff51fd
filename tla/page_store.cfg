SPECIFICATION Spec
CONSTANTS
  Capacity = 2
  PagesPerSegment = 4
  Tables = {t, u}
  Sizes = {1, 2, 3}
  PageArea = 2
  MaxRows = 3
  MaxTables = 2
  IoFails = TRUE
SYMMETRY Symmetry
INVARIANTS
  HandlesAreSafe
  NeverRefused
  ScansAreFaithful
  FlushedIsOnFile
