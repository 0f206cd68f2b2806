-------------------------------- MODULE Layout --------------------------------
(***************************************************************************)
(* The layout of structures and unions (ParseStruct3.parseFields, Type-    *)
(* SizeApplier, Aligner, CStructType): one type after another is declared, *)
(* its members are collected, each is placed behind the ones before it,    *)
(* and the positions of all members, those of anonymous members included,  *)
(* are numbered.                                                           *)
(***************************************************************************)
EXTENDS Integers, SequencesExt

CONSTANTS Primitives,   \* sizes of the types that are no structs, arrays or unions
          Lengths,      \* of arrays
          MaxTypes,     \* bound: how many structs and unions are declared
          MaxMembers    \* bound: how many members each has

Alignments == {1, 2, 4, 8, 16}

ASSUME LayoutAssumption ==
  /\ Primitives \subseteq Alignments /\ Lengths \subseteq Nat
  /\ MaxTypes \in Nat /\ MaxMembers \in Nat

VARIABLES
  types,    \* the structs and unions that are complete
  pos,      \* CStructField.pos of every member of every type
  kind,     \* what is being declared: "struct", "union", or "none"
  members,  \* the members collected so far
  laying,   \* the members are being placed
  offsets,  \* of the members placed so far
  info      \* TypeSizeApplier.Info

vars == <<types, pos, kind, members, laying, offsets, info>>

(* A member is anonymous, or has a name; it is of a type declared before   *)
(* (sub), or of another (sub = 0).                                         *)
Member == [named : BOOLEAN, sub : Nat, size : Nat, align : Alignments]
StructType == [union : BOOLEAN, members : Seq(Member), offsets : Seq(Nat),
               size : Nat, align : Alignments]

NewInfo == [max_align |-> 1, size |-> 0]

Init ==
  /\ types = <<>> /\ pos = <<>> /\ kind = "none" /\ members = <<>>
  /\ laying = FALSE /\ offsets = <<>> /\ info = NewInfo

-----------------------------------------------------------------------------
(* Aligner *)
Align(value, alignment) ==
  IF value % alignment # 0 THEN value + alignment - (value % alignment) ELSE value

(* Mutated: added instead of compared. *)
MaxAdds(a, b) == IF a < b THEN a + b ELSE a

MaxOf(a, b) == IF a < b THEN b ELSE a

(* The type of a member, which is complete: a primitive, a struct or union *)
(* declared before, or an array of either.                                 *)
Primitive(s) == [named |-> TRUE, sub |-> 0, size |-> s, align |-> s]
Declared(t, named) ==
  [named |-> named, sub |-> t, size |-> types[t].size, align |-> types[t].align]
ArrayOf(m, len) == [named |-> TRUE, sub |-> 0, size |-> len * m.size, align |-> m.align]

MemberTypes ==
  LET elements == {Primitive(s) : s \in Primitives}
                    \cup {Declared(t, TRUE) : t \in DOMAIN types}
  IN  elements \cup {ArrayOf(m, len) : m \in elements, len \in Lengths}
        \cup {Declared(t, FALSE) : t \in DOMAIN types}

-----------------------------------------------------------------------------
Begin ==
  /\ kind = "none" /\ Len(types) < MaxTypes
  /\ kind' \in {"struct", "union"}
  /\ UNCHANGED <<types, pos, members, laying, offsets, info>>

(* onefield, and a struct or union without a declarator. *)
AddMember ==
  /\ kind # "none" /\ ~laying /\ Len(members) < MaxMembers
  /\ \E m \in MemberTypes : members' = Append(members, m)
  /\ UNCHANGED <<types, pos, kind, laying, offsets, info>>

(* setFields *)
BodyEnds ==
  /\ kind # "none" /\ ~laying /\ laying' = TRUE
  /\ UNCHANGED <<types, pos, kind, members, offsets, info>>

Placing == laying /\ Len(offsets) < Len(members)
Next1 == members[Len(offsets) + 1]

(* Mutated: padding behind the member as well. *)
PlaceInStructPadded ==
  /\ Placing /\ kind = "struct"
  /\ LET off == Align(info.size, Next1.align)
     IN  /\ offsets' = Append(offsets, off)
         /\ info' = [max_align |-> MaxOf(info.max_align, Next1.align),
                     size |-> off + Align(Next1.size + 1, 2)]
  /\ UNCHANGED <<types, pos, kind, members, laying>>

(* lay_out_struct_field *)
PlaceInStruct ==
  /\ Placing /\ kind = "struct"
  /\ LET off == Align(info.size, Next1.align)
     IN  /\ offsets' = Append(offsets, off)
         /\ info' = [max_align |-> MaxOf(info.max_align, Next1.align),
                     size |-> off + Next1.size]
  /\ UNCHANGED <<types, pos, kind, members, laying>>

(* Mutated: the alignment of a union is that of its last member. *)
PlaceInUnionLast ==
  /\ Placing /\ kind = "union"
  /\ offsets' = Append(offsets, 0)
  /\ info' = [max_align |-> Next1.align, size |-> MaxOf(info.size, Next1.size)]
  /\ UNCHANGED <<types, pos, kind, members, laying>>

(* Mutated: the union is as large as its last member. *)
PlaceInUnionShort ==
  /\ Placing /\ kind = "union"
  /\ offsets' = Append(offsets, 0)
  /\ info' = [max_align |-> MaxOf(info.max_align, Next1.align), size |-> Next1.size]
  /\ UNCHANGED <<types, pos, kind, members, laying>>

(* lay_out_union_field *)
PlaceInUnion ==
  /\ Placing /\ kind = "union"
  /\ offsets' = Append(offsets, 0)
  /\ info' = [max_align |-> MaxOf(info.max_align, Next1.align),
              size |-> MaxOf(info.size, Next1.size)]
  /\ UNCHANGED <<types, pos, kind, members, laying>>

(* Mutated: the members of an anonymous member come first. *)
AllFieldsFirst(ts) ==
  LET all[t \in DOMAIN ts] ==
        FlattenSeq(Reverse([k \in DOMAIN ts[t].members |->
          LET m == ts[t].members[k]
          IN  IF m.sub # 0 /\ ~m.named THEN all[m.sub] ELSE << <<t, k>> >>]))
  IN  all

(* allfields: the members of each type, with those of anonymous members in *)
(* the place of these.  A member is the type it belongs to and its index.  *)
AllFields(ts) ==
  LET all[t \in DOMAIN ts] ==
        FlattenSeq([k \in DOMAIN ts[t].members |->
          LET m == ts[t].members[k]
          IN  IF m.sub # 0 /\ ~m.named THEN all[m.sub] ELSE << <<t, k>> >>])
  IN  all

(* The end of examine_struct_union_type. *)
Finish ==
  /\ laying /\ Len(offsets) = Len(members)
  /\ LET tp == [union |-> kind = "union", members |-> members, offsets |-> offsets,
                size |-> Align(info.size, info.max_align), align |-> info.max_align]
         ts == Append(types, tp)
         all == AllFields(ts)[Len(ts)]
     IN  /\ types' = ts
         /\ pos' = [t \in DOMAIN ts |-> [k \in DOMAIN ts[t].members |->
              IF \E i \in DOMAIN all : all[i] = <<t, k>>
              THEN (CHOOSE i \in DOMAIN all : all[i] = <<t, k>> /\
                      \A j \in DOMAIN all : all[j] = <<t, k>> => j <= i) - 1
              ELSE IF t \in DOMAIN types THEN pos[t][k] ELSE 0]]
  /\ kind' = "none" /\ members' = <<>> /\ laying' = FALSE
  /\ offsets' = <<>> /\ info' = NewInfo

Done == kind = "none" /\ Len(types) = MaxTypes /\ UNCHANGED vars

Next ==
  \/ Begin \/ AddMember \/ BodyEnds \/ PlaceInStruct \/ PlaceInUnion \/ Finish \/ Done

Spec == Init /\ [][Next]_vars

-----------------------------------------------------------------------------
TypeOK ==
  /\ types \in Seq(StructType) /\ kind \in {"struct", "union", "none"}
  /\ members \in Seq(Member) /\ laying \in BOOLEAN /\ offsets \in Seq(Nat)
  /\ info \in [max_align : Alignments, size : Nat]

(* A member lies where its type may: in a variable of the struct, and, as   *)
(* the size is a multiple of the alignment and that of every member's, in  *)
(* every element of an array of it and in every struct that has it inside. *)
MembersAligned ==
  \A t \in DOMAIN types :
    /\ types[t].size % types[t].align = 0
    /\ \A k \in DOMAIN types[t].members :
         /\ types[t].offsets[k] % types[t].members[k].align = 0
         /\ types[t].align % types[t].members[k].align = 0

(* The members of a struct do not overlap and are in the order of their    *)
(* declaration, those of a union begin where it begins, and no member      *)
(* reaches beyond the end.                                                 *)
MembersApart ==
  \A t \in DOMAIN types :
    LET tp == types[t]
    IN  /\ Len(tp.offsets) = Len(tp.members)
        /\ \A k \in DOMAIN tp.members :
             /\ tp.offsets[k] + tp.members[k].size <= tp.size
             /\ \A j \in 1..(k - 1) :
                  IF tp.union THEN tp.offsets[j] = tp.offsets[k]
                  ELSE tp.offsets[j] + tp.members[j].size <= tp.offsets[k]

(* No more is wasted than alignment asks for: a struct whose members are   *)
(* placed in declaration order cannot be smaller.                          *)
Tight ==
  \A t \in DOMAIN types :
    LET tp == types[t]
        end(k) == tp.offsets[k] + tp.members[k].size
    IN  /\ \A k \in DOMAIN tp.members :
             tp.offsets[k] <
               (IF k = 1 \/ tp.union THEN 0 ELSE end(k - 1)) + tp.members[k].align
        /\ \/ tp.size = 0
           \/ \E k \in DOMAIN tp.members : tp.size < end(k) + tp.align

(* The members of a type have different positions, in the order in which   *)
(* they are declared, though those of a type that is an anonymous member   *)
(* are counted again in each type that has it (TypeSizeApplier.java:75,    *)
(* "we need the position for designated-initializers").                    *)
PositionsInOrder ==
  \A t \in DOMAIN types :
    LET fields == {k \in DOMAIN types[t].members :
                     types[t].members[k].sub = 0 \/ types[t].members[k].named}
    IN  \A j, k \in fields : j < k => pos[t][j] < pos[t][k]
=============================================================================
