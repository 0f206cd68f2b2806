---------------------------- MODULE MCInitializers ----------------------------
(* Instances of Initializers. *)
EXTENDS Initializers

Field(t, o) == [type |-> t, off |-> o]
MCTypes == <<
  [kind |-> "scalar", size |-> 4],                                     \* 1 int
  [kind |-> "struct", size |-> 8, fields |-> <<Field(1, 0), Field(1, 4)>>],  \* 2 struct P { int x, y; }
  [kind |-> "array", size |-> 8, elem |-> 1, len |-> 2],               \* 3 int[2]
  [kind |-> "array", size |-> 16, elem |-> 2, len |-> 2],              \* 4 struct P[2]
  [kind |-> "struct", size |-> 20,                                     \* 5 struct { struct P p; int a[2]; int c; }
     fields |-> <<Field(2, 0), Field(3, 8), Field(1, 16)>>],
  [kind |-> "array", size |-> 0, elem |-> 3, len |-> 0] >>              \* 6 int[][2]

MCNested == {4, 5, 6}
MCPair == {2}
MCRows == {6}
=============================================================================
