SPECIFICATION FairSpec
CONSTANTS
  Types <- MCTypes
  Roots <- MCNested
  MaxItems = 5
  MaxIndex = 1
  FieldsInRow = FALSE
INVARIANTS GoesToItsObject LastOneCounts
PROPERTIES EndsBehindLast Termination
