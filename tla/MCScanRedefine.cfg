SPECIFICATION Spec
CONSTANTS
  Names = {"f", "g", "h"}
  Headers = {"once", "plain"}
  HeaderText <- DirectiveText
  SourceItems <- DirectiveItems
  Defs <- DirectiveDefs
  Prologues <- DirectiveTables
  NoDef = NoDef
  NoCall = NoCall
  IncLimit = 1
  MaxLen = 7
INVARIANTS
  UnhideAssertion
