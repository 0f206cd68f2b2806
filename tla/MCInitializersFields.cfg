SPECIFICATION Spec
CONSTANTS
  Types <- MCTypes
  Roots <- MCPair
  MaxItems = 4
  MaxIndex = 1
  FieldsInRow = TRUE
INVARIANT GoesToItsObject
