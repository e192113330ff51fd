SPECIFICATION Spec
CONSTANTS
  LeafMax = 1
  InternalMax = 2
  IntMax = 1
  BatchRows = 2
  Schema <- MCSchema
  RowsOf <- MCRowsOf
  Indexable <- MCIndexable
  Cost <- MCCost
  Queries <- MCQueries
  RowBudget = 4
  MaxGaps = 1
  MaxIndexes = 1
INVARIANTS
  TreesAreExact
  IndexAnswersLikeScan
  PathsAgree
  AnswersAreRelational
  BatchesAreInvisible
\* Out of budget the tables stay as they are.
CHECK_DEADLOCK FALSE
