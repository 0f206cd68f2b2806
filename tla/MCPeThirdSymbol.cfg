SPECIFICATION MCSpec
CONSTANTS
  s1 = s1
  s2 = s2
  s3 = s3
  A = A
  B = B
  proc1 = proc1
  proc2 = proc2
  Length <- MCLength
  Addresses <- MCNoAddress
  Symbols <- MCThreeSymbols
  Dlls <- MCOneDll
  Procedures <- MCOneProcedure
  Labels <- MCOneLabel
  PlainSizes <- MCBlock
  LoadRegs <- MCLow
  LeaRegs <- MCHigh
  Shapes <- ThirdSymbolShapes
  MaxDlls = 1
  MaxProcedures = 1
  MaxLines = 1
INVARIANTS
  LoadsLand
CHECK_DEADLOCK FALSE
