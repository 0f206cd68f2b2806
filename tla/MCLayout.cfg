SPECIFICATION MCSpec
CONSTANTS
  Primitives <- MCAll
  Lengths <- MCLengths
  MaxTypes = 3
  MaxMembers = 3
INVARIANTS
  TypeOK
  MembersAligned
  MembersApart
  Tight
  PositionsInOrder
