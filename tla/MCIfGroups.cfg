SPECIFICATION MCSpec
CONSTANTS
  Names = {"A", "B"}
  Headers = {"guard"}
  HeaderText <- GuardText
  SourceLines <- AllLines
  Kinds <- AllKinds
  IncLimit = 2
  MaxLines = 6
INVARIANTS
  TypeOK
  GroupsNest
  ReadsAsOnePass
PROPERTIES
  ImplementsConditionals
  Termination
