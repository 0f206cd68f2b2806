------------------------------ MODULE MCLayout ------------------------------
(***************************************************************************)
(* Instances of Layout, of two shapes: one type with three members of any  *)
(* primitive type or arrays of them, and three types with two members,     *)
(* each inside the next.                                                   *)
(***************************************************************************)
EXTENDS Layout

MCAll == {1, 2, 4, 8, 16}
MCLengths == {0, 3}

Arrays == {ArrayOf(Primitive(s), len) : s \in MCAll, len \in MCLengths}
Shapes ==
  << [types |-> 1, most |-> 3, plain |-> Arrays \cup {Primitive(s) : s \in MCAll}],
     [types |-> 3, most |-> 2, plain |-> {Primitive(1), Primitive(8)}] >>

VARIABLE shape   \* of the program

Written ==
  /\ UNCHANGED shape
  /\ kind' # "none" => Len(types) < Shapes[shape].types
  /\ Len(members') > Len(members) =>
       LET m == members'[Len(members')]
       IN  Len(members') <= Shapes[shape].most /\ (m.sub = 0 => m \in Shapes[shape].plain)

AllLaid == kind = "none" /\ Len(types) = Shapes[shape].types /\ UNCHANGED <<vars, shape>>

MCInit == Init /\ shape \in DOMAIN Shapes
MCNext == (Next /\ Written) \/ AllLaid
MCSpec == MCInit /\ [][MCNext]_<<vars, shape>>
=============================================================================
