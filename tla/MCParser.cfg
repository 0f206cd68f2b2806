SPECIFICATION MCSpec
CONSTANTS
  Names <- MCNames
  Tags <- MCTags
  Labels <- MCLabels
  NoName <- MCNoName
  SourceItems <- AllItems
  Kinds <- AllKinds
  MaxItems = 8
INVARIANTS
  TypeOK
  LocalsRecorded
  NestingAgrees
PROPERTIES
  ImplementsNameSpaces
  CompletesOwnTag
  CaseGoesToInnermostSwitch
  Termination
