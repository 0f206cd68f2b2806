SPECIFICATION MCSpec
CONSTANTS
  Names <- MCNames
  Tags <- MCTags
  Labels <- MCLabels
  NoName <- MCNoName
  SourceItems <- TagItems
  Kinds <- TagKinds
  MaxItems = 5
INVARIANTS
  StateRestored
