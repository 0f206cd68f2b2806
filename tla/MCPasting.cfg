SPECIFICATION Spec
CONSTANTS
  Args <- MCArgs
  MaxTokens = 5
  MaxCalls = 2
INVARIANTS
  TypeOK
  PastesAsC
  OwnBehindEmpty
