SPECIFICATION MCSpec
CONSTANTS
  s1 = s1
  s2 = s2
  s3 = s3
  A = A
  B = B
  proc1 = proc1
  proc2 = proc2
  Length <- MCLength
  Addresses <- MCNoAddress
  Symbols <- MCTwoSymbols
  Dlls <- MCDlls
  Procedures <- MCProcedures
  Labels <- MCLabels
  PlainSizes <- MCBlocks
  LoadRegs <- MCLow
  LeaRegs <- MCHigh
  Shapes <- AllShapes
  MaxDlls = 2
  MaxProcedures = 2
  MaxLines = 3
INVARIANTS
  JumpsLand
  CallsLand
  LoadsLand
  SectionsApart
  WrittenWhereSaid
  LoaderFindsImports
CHECK_DEADLOCK FALSE
