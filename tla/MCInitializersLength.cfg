SPECIFICATION Spec
CONSTANTS
  Types <- MCTypes
  Roots <- MCRows
  MaxItems = 4
  MaxIndex = 1
  FieldsInRow = FALSE
INVARIANT AllElements
