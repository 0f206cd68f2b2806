SPECIFICATION MCSpec
CONSTANTS
  Names = {"f", "g", "h"}
  Headers = {"once", "plain", "loop", "guard", "twice"}
  HeaderText <- AllText
  SourceItems <- AllItems
  Defs <- AllDefs
  Prologues <- AllPrologues
  NoDef = NoDef
  NoCall = NoCall
  IncLimit = 1
  MaxLen = 7
INVARIANTS
  TypeOK
  MarksMatchHidden
  SymAssertions
  HeldSymIsCurrent
  StreamsBalanced
  IncludeDepthLimited
  ExpandsAsReference
PROPERTIES
  DirectivesSeeNothingHidden
  ImplementsActivation
  Termination
