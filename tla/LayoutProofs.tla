----------------------------- MODULE LayoutProofs -----------------------------
(***************************************************************************)
(* The members of every struct and union are aligned, apart, inside, and   *)
(* no further apart than alignment asks for, and their positions follow    *)
(* their declaration, for any number of types, members and lengths of      *)
(* arrays.                                                                 *)
(***************************************************************************)
EXTENDS Layout, SequenceLemmas, TLAPS

(* What is known of the members placed so far.                             *)
PlacedAligned ==
  \A k \in DOMAIN offsets :
    /\ offsets[k] % members[k].align = 0
    /\ members[k].align <= info.max_align

PlacedApart ==
  \A k \in DOMAIN offsets :
    /\ offsets[k] + members[k].size <= info.size
    /\ kind = "union" => offsets[k] = 0
    /\ kind # "union" => \A j \in 1..(k - 1) :
         offsets[j] + members[j].size <= offsets[k]

Phases ==
  /\ Len(offsets) <= Len(members)
  /\ ~laying => offsets = <<>> /\ info = NewInfo
  /\ kind = "none" => members = <<>> /\ ~laying

IInv == TypeOK /\ Phases /\ PlacedAligned /\ PlacedApart /\ MembersAligned /\ MembersApart

(* Aligner.align: the least multiple that is not smaller. *)
LEMMA AlignUp ==
  ASSUME NEW v \in Nat, NEW a \in Alignments
  PROVE  /\ Align(v, a) \in Nat
         /\ v <= Align(v, a) /\ Align(v, a) < v + a
         /\ Align(v, a) % a = 0
<1>1. CASE a = 1 BY <1>1 DEF Align
<1>2. CASE a = 2 BY <1>2 DEF Align
<1>3. CASE a = 4 BY <1>3 DEF Align
<1>4. CASE a = 8 BY <1>4 DEF Align
<1>5. CASE a = 16 BY <1>5 DEF Align
<1> QED BY <1>1, <1>2, <1>3, <1>4, <1>5 DEF Alignments

(* The larger of two alignments is a multiple of the smaller. *)
LEMMA LargerIsMultiple ==
  ASSUME NEW a \in Alignments, NEW b \in Alignments, a <= b
  PROVE  b % a = 0
BY DEF Alignments

(* The larger of two alignments is one, and is not below either. *)
LEMMA MaxIsAlignment ==
  ASSUME NEW a \in Alignments, NEW b \in Alignments
  PROVE  /\ MaxOf(a, b) \in Alignments /\ a <= MaxOf(a, b) /\ b <= MaxOf(a, b)
BY DEF Alignments, MaxOf

(* What a member can be of has an alignment and a size. *)
LEMMA MemberTypesAreMembers ==
  ASSUME TypeOK
  PROVE  MemberTypes \subseteq Member
<1> DEFINE E == {Primitive(s) : s \in Primitives} \cup {Declared(t, TRUE) : t \in DOMAIN types}
           A == {ArrayOf(m, len) : m \in E, len \in Lengths}
           D == {Declared(t, FALSE) : t \in DOMAIN types}
<1>1. \A s \in Primitives : Primitive(s) \in Member
  BY LayoutAssumption DEF Primitive, Alignments, Member
<1>2. \A t \in DOMAIN types, n \in BOOLEAN : Declared(t, n) \in Member
  <2> TAKE t \in DOMAIN types, n \in BOOLEAN
  <2>1. types[t] \in StructType /\ t \in Nat BY DEF TypeOK
  <2>2. types[t].size \in Nat /\ types[t].align \in Alignments BY <2>1 DEF StructType
  <2> QED BY <2>1, <2>2 DEF Declared, Member
<1>3. \A e \in Member, len \in Nat : ArrayOf(e, len) \in Member
  <2> TAKE e \in Member, len \in Nat
  <2>1. len * e.size \in Nat BY DEF Member
  <2> QED BY <2>1 DEF ArrayOf, Member
<1>4. E \subseteq Member BY <1>1, <1>2
<1>5. MemberTypes = E \cup A \cup D
  BY DEF MemberTypes
<1>6. A \subseteq Member
  <2> HIDE DEF E
  <2> QED BY <1>3, <1>4, LayoutAssumption
<1>7. D \subseteq Member BY <1>2
<1> QED
  <2> HIDE DEF E, A, D
  <2> QED BY <1>4, <1>5, <1>6, <1>7

(* What is empty has its type. *)
LEMMA EmptyTypes ==
  /\ <<>> \in Seq(Member) /\ <<>> \in Seq(Nat) /\ <<>> \in Seq(StructType)
  /\ NewInfo \in [max_align : Alignments, size : Nat]
<1>1. \A S : <<>> \in Seq(S) OBVIOUS
<1>2. NewInfo \in [max_align : Alignments, size : Nat] BY DEF NewInfo, Alignments
<1> QED BY <1>1, <1>2

(* Nothing is declared at the start. *)
LEMMA InitIInv == ASSUME Init PROVE IInv
<1>1. TypeOK BY EmptyTypes DEF Init, TypeOK
<1>2. Phases BY DEF Init, Phases
<1>3. PlacedAligned /\ PlacedApart BY DEF Init, PlacedAligned, PlacedApart
<1>4. MembersAligned /\ MembersApart BY DEF Init, MembersAligned, MembersApart
<1> QED BY <1>1, <1>2, <1>3, <1>4 DEF IInv

(* A member is collected: nothing is placed yet. *)
LEMMA AddMemberIInv == ASSUME IInv, AddMember PROVE IInv'
<1>1. PICK m \in MemberTypes : members' = Append(members, m) BY DEF AddMember
<1>2. m \in Member BY <1>1, MemberTypesAreMembers DEF IInv
<1>3. offsets = <<>> BY DEF IInv, Phases, AddMember
<1>4. TypeOK' BY <1>1, <1>2 DEF IInv, TypeOK, AddMember
<1>5. Phases' BY <1>1, <1>2, <1>3 DEF IInv, TypeOK, Phases, AddMember
<1>6. PlacedAligned' /\ PlacedApart'
  BY <1>3 DEF PlacedAligned, PlacedApart, AddMember
<1>7. MembersAligned' /\ MembersApart'
  BY DEF IInv, MembersAligned, MembersApart, AddMember
<1> QED BY <1>4, <1>5, <1>6, <1>7 DEF IInv

(* A declaration begins: nothing is collected yet. *)
LEMMA BeginIInv == ASSUME IInv, Begin PROVE IInv'
<1>1. offsets = <<>> BY DEF IInv, Phases, Begin
<1>2. TypeOK' BY DEF IInv, TypeOK, Begin
<1>3. Phases' BY DEF IInv, Phases, Begin
<1>4. PlacedAligned' /\ PlacedApart' BY <1>1 DEF PlacedAligned, PlacedApart, Begin
<1>5. MembersAligned' /\ MembersApart'
  BY DEF IInv, MembersAligned, MembersApart, Begin
<1> QED BY <1>2, <1>3, <1>4, <1>5 DEF IInv

(* The last member is collected: nothing is placed yet. *)
LEMMA BodyEndsIInv == ASSUME IInv, BodyEnds PROVE IInv'
<1>1. offsets = <<>> BY DEF IInv, Phases, BodyEnds
<1>2. TypeOK' BY DEF IInv, TypeOK, BodyEnds
<1>3. Phases' BY DEF IInv, Phases, BodyEnds
<1>4. PlacedAligned' /\ PlacedApart' BY <1>1 DEF PlacedAligned, PlacedApart, BodyEnds
<1>5. MembersAligned' /\ MembersApart'
  BY DEF IInv, MembersAligned, MembersApart, BodyEnds
<1> QED BY <1>2, <1>3, <1>4, <1>5 DEF IInv

(* A member is placed: at a multiple of its alignment, behind what is there. *)
LEMMA PlaceIInv ==
  ASSUME IInv, PlaceInStruct \/ PlaceInUnion
  PROVE  IInv'
<1> DEFINE n == Len(offsets) + 1
           m == members[n]
<1>1. /\ n \in 1..Len(members) /\ m \in Member /\ kind # "none" /\ laying
      /\ n \notin DOMAIN offsets /\ n \in Nat /\ DOMAIN offsets = 1..(n - 1)
  BY DEF IInv, TypeOK, PlaceInStruct, PlaceInUnion, Placing
<1>2. PICK off \in Nat :
        /\ offsets' = Append(offsets, off)
        /\ off % m.align = 0
        /\ info' \in [max_align : Alignments, size : Nat]
        /\ m.align <= info'.max_align /\ info.max_align <= info'.max_align
        /\ off + m.size <= info'.size /\ info.size <= info'.size
        /\ kind = "union" => off = 0
        /\ kind # "union" => info.size <= off
  <2> DEFINE ma == MaxOf(info.max_align, m.align)
  <2>1. /\ info.size \in Nat /\ info.max_align \in Alignments
        /\ m.align \in Alignments /\ m.size \in Nat
    BY <1>1 DEF IInv, TypeOK, Member
  <2>2. ma \in Alignments /\ info.max_align <= ma /\ m.align <= ma
    BY <2>1, MaxIsAlignment
  <2>3. CASE PlaceInStruct
    <3> DEFINE o == Align(info.size, m.align)
    <3>1. o \in Nat /\ info.size <= o /\ o % m.align = 0 BY <2>1, AlignUp
    <3>2. /\ offsets' = Append(offsets, o) /\ kind = "struct"
          /\ info' = [max_align |-> ma, size |-> o + m.size]
      BY <2>3 DEF PlaceInStruct, Next1
    <3> HIDE DEF o, ma, m
    <3> QED BY <2>1, <2>2, <3>1, <3>2
  <2>4. CASE PlaceInUnion
    <3> DEFINE sz == MaxOf(info.size, m.size)
    <3>1. sz \in Nat /\ info.size <= sz /\ m.size <= sz BY <2>1 DEF MaxOf
    <3>2. /\ offsets' = Append(offsets, 0) /\ kind = "union"
          /\ info' = [max_align |-> ma, size |-> sz]
      BY <2>4 DEF PlaceInUnion, Next1
    <3>3. 0 % m.align = 0 BY <2>1 DEF Alignments
    <3> HIDE DEF sz, ma, m
    <3> QED BY <2>1, <2>2, <3>1, <3>2, <3>3
  <2> QED BY <2>3, <2>4
<1>3. UNCHANGED <<types, kind, members, laying>> BY DEF PlaceInStruct, PlaceInUnion
<1>4. /\ DOMAIN offsets' = 1..n /\ offsets' \in Seq(Nat) /\ Len(offsets') = n
      /\ \A k \in 1..(n - 1) : offsets'[k] = offsets[k]
      /\ offsets'[n] = off
  BY <1>2 DEF IInv, TypeOK
<1>5. TypeOK' BY <1>2, <1>3, <1>4 DEF IInv, TypeOK
<1>6. Phases' BY <1>1, <1>3, <1>4 DEF IInv, Phases
<1>7. \A k \in 1..(n - 1) : members[k] \in Member /\ offsets[k] \in Nat
  BY <1>1 DEF IInv, TypeOK
<1>8. info.size \in Nat /\ info.max_align \in Alignments BY DEF IInv, TypeOK
<1>9. PlacedAligned'
  <2> SUFFICES ASSUME NEW k \in 1..n
               PROVE  offsets'[k] % members[k].align = 0 /\ members[k].align <= info'.max_align
    BY <1>3, <1>4 DEF PlacedAligned
  <2>1. CASE k = n BY <2>1, <1>2, <1>4
  <2>2. CASE k \in 1..(n - 1)
    <3>1. offsets[k] % members[k].align = 0 /\ members[k].align <= info.max_align
      BY <2>2, <1>1 DEF IInv, PlacedAligned
    <3>2. info.max_align <= info'.max_align /\ offsets'[k] = offsets[k]
      BY <1>2, <1>4, <2>2
    <3>3. members[k].align \in Alignments BY <2>2, <1>7 DEF Member
    <3>4. info'.max_align \in Alignments BY <1>2
    <3>5. members[k].align <= info'.max_align
      BY <3>1, <3>2, <3>3, <3>4, <1>8 DEF Alignments
    <3> QED BY <3>1, <3>2, <3>5
  <2> QED BY <2>1, <2>2, <1>1
<1>10. PlacedApart'
  <2> SUFFICES ASSUME NEW k \in 1..n
               PROVE  /\ offsets'[k] + members[k].size <= info'.size
                      /\ kind = "union" => offsets'[k] = 0
                      /\ kind # "union" => \A j \in 1..(k - 1) :
                           offsets'[j] + members[j].size <= offsets'[k]
    BY <1>3, <1>4 DEF PlacedApart
  <2>1. \A j \in 1..(n - 1) : offsets[j] + members[j].size <= info.size
    BY <1>1 DEF IInv, PlacedApart
  <2>2. CASE k = n
    <3>1. \A j \in 1..(n - 1) : offsets'[j] + members[j].size <= info.size
      BY <2>1, <1>4
    <3>2. \A j \in 1..(n - 1) : offsets'[j] \in Nat /\ members[j].size \in Nat
      BY <1>4, <1>7 DEF Member
    <3>3. offsets'[k] = off BY <2>2, <1>4
    <3>4. off + members[k].size <= info'.size /\ (kind = "union" => off = 0) BY <2>2, <1>2
    <3>5. ASSUME kind # "union", NEW j \in 1..(k - 1)
          PROVE  offsets'[j] + members[j].size <= offsets'[k]
      <4>1. /\ offsets'[j] + members[j].size <= info.size
            /\ offsets'[j] \in Nat /\ members[j].size \in Nat
        BY <3>1, <3>2, <2>2
      <4>2. info.size <= off BY <3>5, <1>2
      <4> HIDE DEF n, m
      <4> QED BY <4>1, <4>2, <3>3, <1>8
    <3> HIDE DEF n, m
    <3> QED BY <3>3, <3>4, <3>5
  <2>3. CASE k \in 1..(n - 1)
    <3>1. /\ offsets[k] + members[k].size <= info.size
          /\ kind = "union" => offsets[k] = 0
          /\ kind # "union" => \A j \in 1..(k - 1) :
               offsets[j] + members[j].size <= offsets[k]
      BY <2>3, <1>1 DEF IInv, PlacedApart
    <3>2. \A j \in 1..(k - 1) : j \in 1..(n - 1) BY <2>3, <1>1
    <3>3. offsets[k] \in Nat /\ members[k].size \in Nat BY <2>3, <1>7 DEF Member
    <3>4. info.size <= info'.size /\ info'.size \in Nat BY <1>2
    <3>5. offsets'[k] = offsets[k] BY <2>3, <1>4
    <3>6. ASSUME kind # "union", NEW j \in 1..(k - 1)
          PROVE  offsets'[j] + members[j].size <= offsets'[k]
      BY <3>1, <3>2, <3>5, <3>6, <1>4
    <3>7. offsets'[k] + members[k].size <= info'.size
      BY <3>1, <3>3, <3>4, <3>5, <1>8
    <3> HIDE DEF n, m
    <3> QED BY <3>1, <3>5, <3>6, <3>7
  <2> QED BY <2>2, <2>3, <1>1
<1>11. MembersAligned' /\ MembersApart'
  BY <1>3 DEF IInv, MembersAligned, MembersApart
<1> QED BY <1>5, <1>6, <1>9, <1>10, <1>11 DEF IInv

(* The type is complete: its size becomes a multiple of its alignment. *)
LEMMA FinishIInv == ASSUME IInv, Finish PROVE IInv'
<1> DEFINE tp == [union |-> kind = "union", members |-> members, offsets |-> offsets,
                  size |-> Align(info.size, info.max_align), align |-> info.max_align]
<1>1. types' = Append(types, tp) BY DEF Finish
<1>2. /\ Len(offsets) = Len(members) /\ offsets \in Seq(Nat) /\ members \in Seq(Member)
      /\ info.size \in Nat /\ info.max_align \in Alignments /\ kind \in {"struct", "union", "none"}
      /\ types \in Seq(StructType) /\ DOMAIN offsets = DOMAIN members
  BY DEF IInv, TypeOK, Finish
<1>3. /\ tp.size \in Nat /\ info.size <= tp.size /\ tp.size % tp.align = 0
  BY <1>2, AlignUp
<1>4. tp \in StructType BY <1>2, <1>3 DEF StructType
<1>5. /\ tp.members = members /\ tp.offsets = offsets /\ tp.align = info.max_align
      /\ tp.union = (kind = "union")
  OBVIOUS
<1> HIDE DEF tp
<1>6. TypeOK'
  <2>1. types' \in Seq(StructType) BY <1>1, <1>2, <1>4
  <2>2. /\ kind' = "none" /\ members' = <<>> /\ laying' = FALSE
        /\ offsets' = <<>> /\ info' = NewInfo
    BY DEF Finish
  <2> QED BY <2>1, <2>2, EmptyTypes DEF TypeOK
<1>7. Phases' BY DEF Finish, Phases
<1>8. PlacedAligned' /\ PlacedApart' BY DEF Finish, PlacedAligned, PlacedApart
<1>9. /\ DOMAIN types' = 1..(Len(types) + 1) /\ types'[Len(types) + 1] = tp
      /\ \A t \in DOMAIN types : types'[t] = types[t]
      /\ DOMAIN types' = DOMAIN types \cup {Len(types) + 1}
  BY <1>1, <1>2, <1>4
<1>10. \A k \in DOMAIN members : members[k] \in Member /\ offsets[k] \in Nat
  BY <1>2
<1>11. MembersAligned'
  <2>1. \A k \in DOMAIN members :
          /\ tp.offsets[k] % tp.members[k].align = 0
          /\ tp.align % tp.members[k].align = 0
    <3> SUFFICES ASSUME NEW k \in DOMAIN members
                 PROVE  /\ offsets[k] % members[k].align = 0
                        /\ info.max_align % members[k].align = 0
      BY <1>5
    <3>1. offsets[k] % members[k].align = 0 /\ members[k].align <= info.max_align
      BY <1>2 DEF IInv, PlacedAligned
    <3>2. members[k].align \in Alignments BY <1>10 DEF Member
    <3> QED BY <3>1, <3>2, <1>2, LargerIsMultiple
  <2> QED BY <2>1, <1>3, <1>5, <1>9, ZenonT(40) DEF IInv, MembersAligned
<1>12. MembersApart'
  <2>1. /\ Len(tp.offsets) = Len(tp.members)
        /\ \A k \in DOMAIN tp.members :
             /\ tp.offsets[k] + tp.members[k].size <= tp.size
             /\ \A j \in 1..(k - 1) :
                  IF tp.union THEN tp.offsets[j] = tp.offsets[k]
                  ELSE tp.offsets[j] + tp.members[j].size <= tp.offsets[k]
    <3>1. Len(tp.offsets) = Len(tp.members) BY <1>2, <1>5
    <3> SUFFICES ASSUME NEW k \in DOMAIN members
                 PROVE  /\ offsets[k] + members[k].size <= tp.size
                        /\ \A j \in 1..(k - 1) :
                             IF kind = "union" THEN offsets[j] = offsets[k]
                             ELSE offsets[j] + members[j].size <= offsets[k]
      BY <1>5, <3>1
    <3>2. offsets[k] + members[k].size <= tp.size
      <4>1. offsets[k] + members[k].size <= info.size BY <1>2 DEF IInv, PlacedApart
      <4>2. members[k].size \in Nat /\ offsets[k] \in Nat BY <1>10 DEF Member
      <4> QED BY <4>1, <4>2, <1>2, <1>3
    <3>3. \A j \in 1..(k - 1) : j \in DOMAIN offsets BY <1>2
    <3> QED BY <3>2, <3>3, <1>2 DEF IInv, PlacedApart
  <2> SUFFICES ASSUME NEW t \in DOMAIN types \cup {Len(types) + 1}
               PROVE  /\ Len(types'[t].offsets) = Len(types'[t].members)
                      /\ \A k \in DOMAIN types'[t].members :
                           /\ types'[t].offsets[k] + types'[t].members[k].size <= types'[t].size
                           /\ \A j \in 1..(k - 1) :
                                IF types'[t].union
                                THEN types'[t].offsets[j] = types'[t].offsets[k]
                                ELSE types'[t].offsets[j] + types'[t].members[j].size
                                       <= types'[t].offsets[k]
    BY <1>9 DEF MembersApart
  <2>2. CASE t = Len(types) + 1
    <3>1. types'[t] = tp BY <2>2, <1>9
    <3> QED BY <2>1, <3>1
  <2>3. CASE t \in DOMAIN types
    <3>1. types'[t] = types[t] BY <2>3, <1>9
    <3> QED BY <2>3, <3>1 DEF IInv, MembersApart
  <2> QED BY <2>2, <2>3
<1> QED BY <1>6, <1>7, <1>8, <1>11, <1>12 DEF IInv

(* The invariant is about the state alone. *)
LEMMA StutterIInv == ASSUME IInv, UNCHANGED vars PROVE IInv'
BY DEF IInv, TypeOK, Phases, PlacedAligned, PlacedApart, MembersAligned, MembersApart, vars

(* The strengthened invariant holds in every state. *)
THEOREM IInvAlways == Spec => []IInv
<1>1. ASSUME IInv, [Next]_vars PROVE IInv'
  BY <1>1, BeginIInv, AddMemberIInv, BodyEndsIInv, PlaceIInv, FinishIInv, StutterIInv
     DEF Next, Done
<1> QED BY InitIInv, <1>1, PTL DEF Spec

(* Every type that is complete, and what is being laid out, has its type.  *)
THEOREM TypeCorrect == Spec => []TypeOK
BY IInvAlways, PTL DEF IInv

(* Members lie where their types may, in variables, arrays and structs     *)
(* (TypeSizeApplier, Aligner).                                             *)
THEOREM MembersAlignedAlways == Spec => []MembersAligned
BY IInvAlways, PTL DEF IInv

(* Members do not overlap, and lie inside (TypeSizeApplier).               *)
THEOREM MembersApartAlways == Spec => []MembersApart
BY IInvAlways, PTL DEF IInv
-----------------------------------------------------------------------------
(* No more than alignment asks for is wasted between the members placed so *)
(* far, and what is laid out ends where a member of it ends.               *)
PlacedTight ==
  LET end(k) == offsets[k] + members[k].size
  IN  /\ \A k \in DOMAIN offsets :
           offsets[k] < (IF k = 1 \/ kind = "union" THEN 0 ELSE end(k - 1)) + members[k].align
      /\ info.size = 0 \/ \E k \in DOMAIN offsets : info.size = end(k)
      /\ kind = "struct" => info.size = IF offsets = <<>> THEN 0 ELSE end(Len(offsets))

TightInv == PlacedTight /\ Tight

(* Where nothing is placed, nothing is wasted. *)
LEMMA NothingPlaced ==
  ASSUME offsets = <<>>, info = NewInfo
  PROVE  PlacedTight
BY DEF PlacedTight, NewInfo

(* A member is placed at the first multiple of its alignment. *)
LEMMA PlaceTight ==
  ASSUME IInv, TightInv, PlaceInStruct \/ PlaceInUnion
  PROVE  PlacedTight'
<1> DEFINE n == Len(offsets) + 1
           m == members[n]
           end(k) == offsets[k] + members[k].size
<1>1. /\ n \in 1..Len(members) /\ m \in Member
      /\ n \in Nat /\ DOMAIN offsets = 1..(n - 1) /\ offsets \in Seq(Nat)
      /\ \A k \in 1..(n - 1) : offsets[k] \in Nat /\ members[k] \in Member
  BY DEF IInv, TypeOK, PlaceInStruct, PlaceInUnion, Placing
<1>2. info.size \in Nat /\ m.align \in Alignments /\ m.size \in Nat
  BY <1>1 DEF IInv, TypeOK, Member
<1>3. /\ \A k \in 1..(n - 1) :
           offsets[k] < (IF k = 1 \/ kind = "union" THEN 0 ELSE end(k - 1)) + members[k].align
      /\ info.size = 0 \/ \E k \in 1..(n - 1) : info.size = end(k)
      /\ kind = "struct" => info.size = IF n = 1 THEN 0 ELSE end(n - 1)
  <2>1. Len(offsets) = n - 1 /\ (offsets = <<>> <=> n = 1) BY <1>1
  <2>2. /\ \A k \in 1..(n - 1) :
             offsets[k] < (IF k = 1 \/ kind = "union" THEN 0 ELSE end(k - 1)) + members[k].align
        /\ info.size = 0 \/ \E k \in 1..(n - 1) : info.size = end(k)
    BY <1>1 DEF TightInv, PlacedTight
  <2>3. kind = "struct" => info.size = IF offsets = <<>> THEN 0 ELSE end(Len(offsets))
    BY DEF TightInv, PlacedTight
  <2> HIDE DEF n, end
  <2> QED BY <2>1, <2>2, <2>3
<1>4. UNCHANGED <<kind, members>> BY DEF PlaceInStruct, PlaceInUnion
<1>5. PICK off \in Nat :
        /\ offsets' = Append(offsets, off)
        /\ off < (IF n = 1 \/ kind = "union" THEN 0 ELSE end(n - 1)) + m.align
        /\ \/ info'.size = off + m.size
           \/ info'.size = info.size
        /\ kind = "struct" => info'.size = off + m.size
  <2>1. CASE PlaceInStruct
    <3> DEFINE o == Align(info.size, m.align)
    <3>1. o \in Nat /\ o < info.size + m.align BY <1>2, AlignUp
    <3>2. /\ offsets' = Append(offsets, o) /\ kind = "struct" /\ info'.size = o + m.size
      BY <2>1 DEF PlaceInStruct, Next1
    <3>3. info.size = IF n = 1 THEN 0 ELSE end(n - 1) BY <1>3, <3>2
    <3> HIDE DEF o, m, end, n
    <3> QED BY <3>1, <3>2, <3>3
  <2>2. CASE PlaceInUnion
    <3>1. /\ offsets' = Append(offsets, 0) /\ kind = "union"
          /\ info'.size = MaxOf(info.size, m.size)
      BY <2>2 DEF PlaceInUnion, Next1
    <3>2. 0 < 0 + m.align BY <1>2 DEF Alignments
    <3>3. info'.size = 0 + m.size \/ info'.size = info.size BY <1>2, <3>1 DEF MaxOf
    <3> HIDE DEF m, end, n
    <3> QED BY <3>1, <3>2, <3>3
  <2> QED BY <2>1, <2>2
<1>6. /\ DOMAIN offsets' = 1..n /\ Len(offsets') = n /\ offsets' # <<>>
      /\ \A k \in 1..(n - 1) : offsets'[k] = offsets[k]
      /\ offsets'[n] = off
  BY <1>1, <1>5
<1> DEFINE end2(k) == offsets'[k] + members'[k].size
<1>7. /\ \A k \in 1..(n - 1) : end2(k) = end(k)
      /\ end2(n) = off + m.size
  BY <1>4, <1>6
<1>8. \A k \in 1..n :
        offsets'[k] < (IF k = 1 \/ kind' = "union" THEN 0 ELSE end2(k - 1)) + members'[k].align
  <2> SUFFICES ASSUME NEW k \in 1..n
               PROVE  offsets'[k] < (IF k = 1 \/ kind' = "union" THEN 0 ELSE end2(k - 1))
                                      + members'[k].align
    OBVIOUS
  <2>1. k # 1 => k - 1 \in 1..(n - 1) BY <1>1
  <2>2. k # 1 => end2(k - 1) = end(k - 1) BY <2>1, <1>7
  <2> HIDE DEF end, end2
  <2>3. CASE k = n
    <3>1. members'[k].align = m.align BY <2>3, <1>4
    <3> HIDE DEF m, n
    <3> QED BY <2>2, <2>3, <3>1, <1>4, <1>5, <1>6
  <2>4. CASE k \in 1..(n - 1)
    <3> HIDE DEF m, n
    <3> QED BY <2>2, <2>4, <1>3, <1>4, <1>6
  <2> QED BY <2>3, <2>4, <1>1
<1>9. info'.size = 0 \/ \E k \in 1..n : info'.size = end2(k)
  <2>1. CASE info'.size = off + m.size
    <3>1. n \in 1..n BY <1>1
    <3> HIDE DEF end, end2, m, n
    <3> QED BY <2>1, <3>1, <1>7
  <2>2. CASE info'.size = info.size /\ info.size # 0
    <3> HIDE DEF end, end2
    <3>1. PICK k \in 1..(n - 1) : info.size = end(k) BY <2>2, <1>3
    <3>2. k \in 1..n BY <1>1
    <3>3. end2(k) = end(k) BY <1>7
    <3> HIDE DEF m, n
    <3> QED BY <2>2, <3>1, <3>2, <3>3
  <2> QED BY <2>1, <2>2, <1>5
<1>10. kind' = "struct" => info'.size = end2(Len(offsets'))
  <2> HIDE DEF end, end2, m, n
  <2> QED BY <1>4, <1>5, <1>6, <1>7
<1> QED BY <1>6, <1>8, <1>9, <1>10 DEF PlacedTight

(* The type is complete: it ends less than its alignment behind a member. *)
LEMMA FinishTight ==
  ASSUME IInv, TightInv, Finish
  PROVE  Tight'
<1> DEFINE tp == [union |-> kind = "union", members |-> members, offsets |-> offsets,
                  size |-> Align(info.size, info.max_align), align |-> info.max_align]
<1>1. types' = Append(types, tp) BY DEF Finish
<1>2. /\ DOMAIN offsets = DOMAIN members
      /\ info.size \in Nat /\ info.max_align \in Alignments
      /\ types \in Seq(StructType)
  BY DEF IInv, TypeOK, Finish
<1>3. /\ DOMAIN types' = DOMAIN types \cup {Len(types) + 1}
      /\ types'[Len(types) + 1] = tp
      /\ \A t \in DOMAIN types : types'[t] = types[t]
  BY <1>1, <1>2
<1>4. \/ tp.size = 0
      \/ \E k \in DOMAIN members : tp.size < offsets[k] + members[k].size + tp.align
  <2>1. tp.size < info.size + tp.align BY <1>2, AlignUp
  <2>2. info.size = 0 => tp.size = 0 BY <1>2 DEF Align, Alignments
  <2>3. info.size = 0 \/ \E k \in DOMAIN members : info.size = offsets[k] + members[k].size
    BY <1>2 DEF TightInv, PlacedTight
  <2> HIDE DEF tp
  <2> QED BY <2>1, <2>2, <2>3
<1>5. \A k \in DOMAIN members :
        offsets[k] <
          (IF k = 1 \/ kind = "union" THEN 0 ELSE offsets[k - 1] + members[k - 1].size)
            + members[k].align
  BY <1>2 DEF TightInv, PlacedTight
<1>6. /\ tp.members = members /\ tp.offsets = offsets /\ tp.union = (kind = "union")
  OBVIOUS
<1> HIDE DEF tp
<1> SUFFICES ASSUME NEW t \in DOMAIN types'
             PROVE  LET q == types'[t]
                        end(k) == q.offsets[k] + q.members[k].size
                    IN  /\ \A k \in DOMAIN q.members :
                             q.offsets[k] <
                               (IF k = 1 \/ q.union THEN 0 ELSE end(k - 1)) + q.members[k].align
                        /\ \/ q.size = 0
                           \/ \E k \in DOMAIN q.members : q.size < end(k) + q.align
  BY DEF Tight
<1>7. CASE t = Len(types) + 1
  <2>1. types'[t] = tp BY <1>3, <1>7
  <2> QED BY <2>1, <1>4, <1>5, <1>6
<1>8. CASE t \in DOMAIN types
  <2>1. types'[t] = types[t] BY <1>3, <1>8
  <2> QED BY <2>1, <1>8 DEF TightInv, Tight
<1> QED BY <1>3, <1>7, <1>8

(* The padding of a struct is what the alignment of its members asks for,  *)
(* and no more (TypeSizeApplier, Aligner).                                 *)
THEOREM TightAlways == Spec => []Tight
<1>1. Init => TightInv
  <2> SUFFICES ASSUME Init PROVE TightInv
    OBVIOUS
  <2>1. Tight BY DEF Init, Tight
  <2>2. offsets = <<>> /\ info = NewInfo BY DEF Init
  <2>3. PlacedTight BY <2>2, NothingPlaced
  <2> QED BY <2>1, <2>3 DEF TightInv
<1>2. ASSUME IInv, TightInv, IInv', [Next]_vars PROVE TightInv'
  <2>1. CASE Begin \/ AddMember \/ BodyEnds
    <3>1. offsets' = <<>> /\ info' = NewInfo /\ types' = types
      BY <1>2, <2>1 DEF IInv, Phases, Begin, AddMember, BodyEnds
    <3>2. PlacedTight' BY <3>1 DEF PlacedTight, NewInfo
    <3>3. Tight' BY <3>1, <1>2 DEF TightInv, Tight
    <3> QED BY <3>2, <3>3 DEF TightInv
  <2>2. CASE PlaceInStruct \/ PlaceInUnion
    <3>1. PlacedTight' BY <1>2, <2>2, PlaceTight
    <3>2. types' = types BY <2>2 DEF PlaceInStruct, PlaceInUnion
    <3>3. Tight' BY <3>2, <1>2 DEF TightInv, Tight
    <3> QED BY <3>1, <3>3 DEF TightInv
  <2>3. CASE Finish
    <3>1. Tight' BY <1>2, <2>3, FinishTight
    <3>2. offsets' = <<>> /\ info' = NewInfo BY <2>3 DEF Finish
    <3>3. PlacedTight' BY <3>2 DEF PlacedTight, NewInfo
    <3> QED BY <3>1, <3>3 DEF TightInv
  <2>4. CASE UNCHANGED vars
    BY <1>2, <2>4 DEF TightInv, PlacedTight, Tight, vars
  <2> QED BY <1>2, <2>1, <2>2, <2>3, <2>4 DEF Next, Done
<1>3. TightInv => Tight BY DEF TightInv
<1> QED BY IInvAlways, <1>1, <1>2, <1>3, PTL DEF Spec

-----------------------------------------------------------------------------
(* Which elements a sequence has, and which come before which              *)

Occurs(s, x) == \E i \in 1..Len(s) : s[i] = x

(* Behind every x there is a y. *)
Chained(s, x, y) ==
  \A i \in 1..Len(s) : s[i] = x => \E j \in 1..Len(s) : i < j /\ s[j] = y

(* A sequence has both or none, and behind every x a y. *)
Paired(s, x, y) == (Occurs(s, x) <=> Occurs(s, y)) /\ Chained(s, x, y)

LEMMA OccursConcat ==
  ASSUME NEW S, NEW a \in Seq(S), NEW b \in Seq(S), NEW x
  PROVE  Occurs(a \o b, x) <=> Occurs(a, x) \/ Occurs(b, x)
<1>1. /\ Len(a \o b) = Len(a) + Len(b) /\ Len(a) \in Nat /\ Len(b) \in Nat
      /\ \A i \in 1..Len(a) : (a \o b)[i] = a[i]
      /\ \A i \in 1..Len(b) : (a \o b)[Len(a) + i] = b[i]
  BY ConcatIs
<1>2. ASSUME Occurs(a, x) PROVE Occurs(a \o b, x)
  <2>1. PICK i \in 1..Len(a) : a[i] = x BY <1>2 DEF Occurs
  <2>2. i \in 1..Len(a \o b) BY <1>1
  <2> QED BY <2>1, <2>2, <1>1 DEF Occurs
<1>3. ASSUME Occurs(b, x) PROVE Occurs(a \o b, x)
  <2>1. PICK i \in 1..Len(b) : b[i] = x BY <1>3 DEF Occurs
  <2>2. Len(a) + i \in 1..Len(a \o b) BY <1>1
  <2> QED BY <2>1, <2>2, <1>1 DEF Occurs
<1>4. ASSUME Occurs(a \o b, x) PROVE Occurs(a, x) \/ Occurs(b, x)
  <2>1. PICK i \in 1..Len(a \o b) : (a \o b)[i] = x BY <1>4 DEF Occurs
  <2>2. CASE i <= Len(a)
    <3>1. i \in 1..Len(a) BY <1>1, <2>2
    <3> QED BY <3>1, <2>1, <1>1 DEF Occurs
  <2>3. CASE i > Len(a)
    <3> DEFINE k == i - Len(a)
    <3>1. k \in 1..Len(b) /\ Len(a) + k = i BY <1>1, <2>3
    <3> HIDE DEF k
    <3>2. b[k] = x BY <3>1, <2>1, <1>1
    <3> QED BY <3>1, <3>2 DEF Occurs
  <2> QED BY <1>1, <2>2, <2>3
<1> QED BY <1>2, <1>3, <1>4

LEMMA ChainedConcat ==
  ASSUME NEW S, NEW a \in Seq(S), NEW b \in Seq(S), NEW x, NEW y,
         \/ Chained(a, x, y) /\ Chained(b, x, y)
         \/ ~Occurs(b, x) /\ Occurs(b, y)
  PROVE  Chained(a \o b, x, y)
<1>1. /\ Len(a \o b) = Len(a) + Len(b) /\ Len(a) \in Nat /\ Len(b) \in Nat
      /\ \A i \in 1..Len(a) : (a \o b)[i] = a[i]
      /\ \A i \in 1..Len(b) : (a \o b)[Len(a) + i] = b[i]
  BY ConcatIs
<1> SUFFICES ASSUME NEW i \in 1..Len(a \o b), (a \o b)[i] = x
             PROVE  \E j \in 1..Len(a \o b) : i < j /\ (a \o b)[j] = y
  BY DEF Chained
<1>2. ASSUME i <= Len(a), Occurs(b, y)
      PROVE  \E j \in 1..Len(a \o b) : i < j /\ (a \o b)[j] = y
  <2>1. PICK k \in 1..Len(b) : b[k] = y BY <1>2 DEF Occurs
  <2>2. Len(a) + k \in 1..Len(a \o b) /\ i < Len(a) + k BY <1>1, <1>2
  <2>3. (a \o b)[Len(a) + k] = y BY <1>1, <2>1
  <2> QED BY <2>2, <2>3
<1>3. ASSUME i <= Len(a), Chained(a, x, y)
      PROVE  \E j \in 1..Len(a \o b) : i < j /\ (a \o b)[j] = y
  <2>1. i \in 1..Len(a) BY <1>1, <1>3
  <2>2. a[i] = x BY <2>1, <1>1
  <2>3. PICK j \in 1..Len(a) : i < j /\ a[j] = y BY <2>1, <2>2, <1>3 DEF Chained
  <2>4. j \in 1..Len(a \o b) BY <1>1
  <2> QED BY <2>3, <2>4, <1>1
<1>4. CASE i > Len(a)
  <2> DEFINE k == i - Len(a)
  <2>1. k \in 1..Len(b) /\ Len(a) + k = i /\ k \in Nat BY <1>1, <1>4
  <2> HIDE DEF k
  <2>2. b[k] = x BY <2>1, <1>1
  <2>3. Occurs(b, x) BY <2>1, <2>2 DEF Occurs
  <2>4. PICK j \in 1..Len(b) : k < j /\ b[j] = y BY <2>1, <2>2, <2>3 DEF Chained
  <2>5. Len(a) + j \in 1..Len(a \o b) /\ i < Len(a) + j BY <2>1, <2>4, <1>1
  <2>6. (a \o b)[Len(a) + j] = y BY <2>4, <1>1
  <2> QED BY <2>5, <2>6
<1>5. CASE i <= Len(a) BY <1>2, <1>3, <1>5
<1> QED BY <1>1, <1>4, <1>5

LEMMA NeverOccurs ==
  ASSUME NEW s, NEW x, NEW y, ~Occurs(s, x)
  PROVE  Chained(s, x, y)
BY DEF Chained, Occurs

(* What is flattened has what its parts have. *)
LEMMA OccursFlat ==
  ASSUME NEW S, NEW ss \in Seq(Seq(S)), NEW x
  PROVE  Occurs(FlattenSeq(ss), x) <=> \E n \in 1..Len(ss) : Occurs(ss[n], x)
<1> DEFINE N == Len(ss)
<1>1. PICK F \in [0..N -> Seq(S)] :
        F[0] = <<>> /\ F[N] = FlattenSeq(ss) /\ Flattened(F, ss)
  BY FlattenSteps
<1>2. N \in Nat /\ \A n \in 1..N : ss[n] \in Seq(S) OBVIOUS
<1> DEFINE T == {n \in 0..N : Occurs(F[n], x) <=> \E m \in 1..n : Occurs(ss[m], x)}
<1>3. 0 \in T
  <2>1. Len(F[0]) = 0 BY <1>1
  <2>2. ~Occurs(F[0], x) BY <2>1 DEF Occurs
  <2>3. 0 \in 0..N /\ \A m \in 1..0 : FALSE BY <1>2
  <2> QED BY <2>2, <2>3
<1>4. \A n \in 0..(N - 1) : n \in T => n + 1 \in T
  <2> SUFFICES ASSUME NEW n \in 0..(N - 1), n \in T PROVE n + 1 \in T
    OBVIOUS
  <2>1. n \in 0..N /\ n + 1 \in 1..N /\ n + 1 \in 0..N /\ (n + 1) - 1 = n /\ n \in Nat BY <1>2
  <2>2. F[n + 1] = F[n] \o ss[n + 1] BY <2>1, <1>1 DEF Flattened
  <2>3. F[n] \in Seq(S) /\ ss[n + 1] \in Seq(S) BY <2>1, <1>1, <1>2
  <2>4. Occurs(F[n + 1], x) <=> Occurs(F[n], x) \/ Occurs(ss[n + 1], x)
    BY <2>2, <2>3, OccursConcat
  <2>5. \A m : m \in 1..(n + 1) <=> m \in 1..n \/ m = n + 1 BY <2>1
  <2>6. Occurs(F[n], x) <=> \E m \in 1..n : Occurs(ss[m], x) OBVIOUS
  <2>7. Occurs(F[n + 1], x) <=> \E m \in 1..(n + 1) : Occurs(ss[m], x)
    BY <2>4, <2>5, <2>6
  <2> QED BY <2>1, <2>7
<1>5. N \in T
  <2> HIDE DEF T
  <2>1. N \in 0..N BY <1>2
  <2> QED BY <2>1, <1>2, <1>3, <1>4, UpTo
<1> QED BY <1>1, <1>5

(* Pairs in every part are pairs in the whole. *)
LEMMA PairedFlat ==
  ASSUME NEW S, NEW ss \in Seq(Seq(S)), NEW x, NEW y,
         \A n \in 1..Len(ss) : Paired(ss[n], x, y)
  PROVE  Paired(FlattenSeq(ss), x, y)
<1> DEFINE N == Len(ss)
<1>1. PICK F \in [0..N -> Seq(S)] :
        F[0] = <<>> /\ F[N] = FlattenSeq(ss) /\ Flattened(F, ss)
  BY FlattenSteps
<1>2. N \in Nat /\ \A n \in 1..N : ss[n] \in Seq(S) OBVIOUS
<1> DEFINE T == {n \in 0..N : Chained(F[n], x, y)}
<1>3. 0 \in T
  <2>1. Len(F[0]) = 0 BY <1>1
  <2>2. ~Occurs(F[0], x) BY <2>1 DEF Occurs
  <2>3. 0 \in 0..N BY <1>2
  <2> QED BY <2>2, <2>3, NeverOccurs
<1>4. \A n \in 0..(N - 1) : n \in T => n + 1 \in T
  <2> SUFFICES ASSUME NEW n \in 0..(N - 1), n \in T PROVE n + 1 \in T
    OBVIOUS
  <2>1. n \in 0..N /\ n + 1 \in 1..N /\ n + 1 \in 0..N /\ (n + 1) - 1 = n /\ n \in Nat BY <1>2
  <2>2. F[n + 1] = F[n] \o ss[n + 1] BY <2>1, <1>1 DEF Flattened
  <2>3. F[n] \in Seq(S) /\ ss[n + 1] \in Seq(S) BY <2>1, <1>1, <1>2
  <2>4. Chained(F[n], x, y) /\ Chained(ss[n + 1], x, y) BY <2>1 DEF Paired
  <2>5. Chained(F[n + 1], x, y) BY <2>2, <2>3, <2>4, ChainedConcat
  <2> QED BY <2>1, <2>5
<1>5. N \in T
  <2> HIDE DEF T
  <2>1. N \in 0..N BY <1>2
  <2> QED BY <2>1, <1>2, <1>3, <1>4, UpTo
<1>6. Occurs(FlattenSeq(ss), x) <=> Occurs(FlattenSeq(ss), y) BY OccursFlat DEF Paired
<1> QED BY <1>1, <1>5, <1>6 DEF Paired

(* So are two elements that each one part has, one before the other. *)
LEMMA PartsInOrder ==
  ASSUME NEW S, NEW ss \in Seq(Seq(S)), NEW x, NEW y,
         NEW j \in 1..Len(ss), NEW k \in 1..Len(ss), j < k,
         \A n \in 1..Len(ss) : Occurs(ss[n], x) <=> n = j,
         \A n \in 1..Len(ss) : Occurs(ss[n], y) <=> n = k
  PROVE  Paired(FlattenSeq(ss), x, y)
<1> DEFINE N == Len(ss)
<1>1. PICK F \in [0..N -> Seq(S)] :
        F[0] = <<>> /\ F[N] = FlattenSeq(ss) /\ Flattened(F, ss)
  BY FlattenSteps
<1>2. N \in Nat /\ \A n \in 1..N : ss[n] \in Seq(S) OBVIOUS
<1> DEFINE T == {n \in 0..N : n >= k => Chained(F[n], x, y)}
<1>3. 0 \in T BY <1>2
<1>4. \A n \in 0..(N - 1) : n \in T => n + 1 \in T
  <2> SUFFICES ASSUME NEW n \in 0..(N - 1), n \in T, n + 1 >= k PROVE Chained(F[n + 1], x, y)
    BY <1>2
  <2>1. n \in 0..N /\ n + 1 \in 1..N /\ n + 1 \in 0..N /\ (n + 1) - 1 = n /\ n \in Nat BY <1>2
  <2>2. F[n + 1] = F[n] \o ss[n + 1] BY <2>1, <1>1 DEF Flattened
  <2>3. F[n] \in Seq(S) /\ ss[n + 1] \in Seq(S) BY <2>1, <1>1, <1>2
  <2>4. n + 1 # j BY <2>1
  <2>5. ~Occurs(ss[n + 1], x) BY <2>1, <2>4
  <2>6. CASE n + 1 = k
    <3>1. Occurs(ss[n + 1], y) BY <2>1, <2>6
    <3> QED BY <2>2, <2>3, <2>5, <3>1, ChainedConcat
  <2>7. CASE n + 1 # k
    <3>1. n >= k BY <2>1, <2>7
    <3>2. Chained(F[n], x, y) BY <3>1
    <3>3. Chained(ss[n + 1], x, y) BY <2>5, NeverOccurs
    <3> QED BY <2>2, <2>3, <3>2, <3>3, ChainedConcat
  <2> QED BY <2>6, <2>7
<1>5. N \in T
  <2> HIDE DEF T
  <2>1. N \in 0..N BY <1>2
  <2> QED BY <2>1, <1>2, <1>3, <1>4, UpTo
<1>6. Occurs(FlattenSeq(ss), x) /\ Occurs(FlattenSeq(ss), y) BY OccursFlat
<1>7. Chained(FlattenSeq(ss), x, y) BY <1>1, <1>2, <1>5
<1> QED BY <1>6, <1>7 DEF Paired


-----------------------------------------------------------------------------
(* The fields of a type                                                    *)

(* A member is one of the fields of its type, unless it is anonymous. *)
Field(m) == m.sub = 0 \/ m.named
Fields(ts, t) == {k \in DOMAIN ts[t].members : Field(ts[t].members[k])}

(* What each member contributes, when f has the fields of the types before. *)
Parts(f, ts, t) ==
  [k \in DOMAIN ts[t].members |->
     LET m == ts[t].members[k]
     IN  IF m.sub # 0 /\ ~m.named THEN f[m.sub] ELSE << <<t, k>> >>]

(* A type is declared behind those of its members. *)
Acyclic(ts) ==
  \A t \in DOMAIN ts : \A k \in DOMAIN ts[t].members : ts[t].members[k].sub < t

(* The parts of a type depend on the types before it. *)
LEMMA PartsAgree ==
  ASSUME NEW ts \in Seq(StructType), Acyclic(ts), NEW t \in DOMAIN ts, NEW f, NEW g,
         \A u \in 1..(t - 1) : f[u] = g[u]
  PROVE  Parts(f, ts, t) = Parts(g, ts, t)
<1> DEFINE mem == ts[t].members
<1>1. ts[t] \in StructType /\ t \in Nat OBVIOUS
<1>2. mem \in Seq(Member) BY <1>1 DEF StructType
<1>3. ASSUME NEW k \in DOMAIN mem, mem[k].sub # 0 PROVE f[mem[k].sub] = g[mem[k].sub]
  <2>1. mem[k] \in Member BY <1>2
  <2>2. mem[k].sub \in Nat /\ mem[k].sub < t BY <2>1 DEF Member, Acyclic
  <2>3. mem[k].sub \in 1..(t - 1) BY <1>1, <1>3, <2>2
  <2> QED BY <2>3
<1> QED BY <1>3 DEF Parts

(* The function that AllFields chooses is there. *)
LEMMA AllFieldsDefined ==
  ASSUME NEW ts \in Seq(StructType), Acyclic(ts)
  PROVE  AllFields(ts) = [t \in DOMAIN ts |-> FlattenSeq(Parts(AllFields(ts), ts, t))]
<1> DEFINE N == Len(ts)
           T == {n \in 0..N : \E f : f = [t \in 1..n |-> FlattenSeq(Parts(f, ts, t))]}
<1>1. N \in Nat /\ DOMAIN ts = 1..N OBVIOUS
<1>2. 0 \in T
  <2>1. PICK none : none = [t \in 1..0 |-> <<>>] OBVIOUS
  <2>2. \A t \in 1..0 : FALSE OBVIOUS
  <2>3. none = [t \in 1..0 |-> FlattenSeq(Parts(none, ts, t))] BY <2>1, <2>2
  <2>4. 0 \in 0..N BY <1>1
  <2> QED BY <2>3, <2>4
<1>3. ASSUME NEW n \in 0..(N - 1), n \in T PROVE n + 1 \in T
  <2>1. PICK f : f = [t \in 1..n |-> FlattenSeq(Parts(f, ts, t))] BY <1>3
  <2> DEFINE last == FlattenSeq(Parts(f, ts, n + 1))
             g == [t \in 1..(n + 1) |-> IF t = n + 1 THEN last ELSE f[t]]
  <2>2. ASSUME NEW t \in 1..(n + 1) PROVE g[t] = FlattenSeq(Parts(g, ts, t))
    <3>1. \A u \in 1..(t - 1) : f[u] = g[u] BY <1>1
    <3>2. t \in DOMAIN ts BY <1>1
    <3>3. Parts(f, ts, t) = Parts(g, ts, t)
      <4> HIDE DEF g
      <4> QED BY <3>1, <3>2, PartsAgree
    <3>4. g[t] = FlattenSeq(Parts(f, ts, t))
      <4>1. CASE t = n + 1 BY <4>1
      <4>2. CASE t # n + 1
        <5>1. t \in 1..n /\ g[t] = f[t] BY <4>2
        <5> HIDE DEF g
        <5> QED BY <5>1, <2>1
      <4> QED BY <4>1, <4>2
    <3> QED BY <3>3, <3>4
  <2>3. g = [t \in 1..(n + 1) |-> g[t]] OBVIOUS
  <2>4. n + 1 \in 0..N BY <1>1
  <2> HIDE DEF g
  <2>5. g = [t \in 1..(n + 1) |-> FlattenSeq(Parts(g, ts, t))] BY <2>2, <2>3
  <2> QED BY <2>4, <2>5
<1>4. N \in T
  <2> HIDE DEF T
  <2>1. N \in 0..N BY <1>1
  <2> QED BY <2>1, <1>1, <1>2, <1>3, UpTo
<1>5. \E f : f = [t \in DOMAIN ts |-> FlattenSeq(Parts(f, ts, t))] BY <1>1, <1>4
<1>6. AllFields(ts) = CHOOSE f : f = [t \in DOMAIN ts |-> FlattenSeq(Parts(f, ts, t))]
  BY DEF AllFields, Parts
<1> QED BY <1>5, <1>6


(* In the fields of a type are those of types up to it only; of the fields *)
(* of one type there are all or none, in their order; its own are there.   *)
FieldsInOrder(s, ts, t) ==
  /\ s \in Seq(Nat \X Nat)
  /\ \A u, k \in Nat : Occurs(s, <<u, k>>) => u <= t
  /\ \A u \in 1..t : \A j, k \in Fields(ts, u) : j < k => Paired(s, <<u, j>>, <<u, k>>)
  /\ \A k \in Fields(ts, t) : Occurs(s, <<t, k>>)

LEMMA OneOccurs ==
  ASSUME NEW x, NEW y
  PROVE  Occurs(<<x>>, y) <=> y = x
<1>1. Len(<<x>>) = 1 /\ <<x>>[1] = x OBVIOUS
<1>2. \A i \in 1..1 : i = 1 OBVIOUS
<1>3. 1 \in 1..1 OBVIOUS
<1> QED BY <1>1, <1>2, <1>3 DEF Occurs

(* If the fields of the types before are in order, so are those of a type. *)
LEMMA TypeInOrder ==
  ASSUME NEW ts \in Seq(StructType), Acyclic(ts), NEW t \in DOMAIN ts, NEW f,
         \A u \in 1..(t - 1) : FieldsInOrder(f[u], ts, u)
  PROVE  FieldsInOrder(FlattenSeq(Parts(f, ts, t)), ts, t)
<1> DEFINE mem == ts[t].members
           ss == Parts(f, ts, t)
           N == Len(mem)
<1>1. ts[t] \in StructType /\ t \in Nat /\ t >= 1 OBVIOUS
<1>2. mem \in Seq(Member) BY <1>1 DEF StructType
<1>3. N \in Nat /\ DOMAIN mem = 1..N BY <1>2
<1>4. \A k \in 1..N : mem[k] \in Member /\ mem[k].sub \in Nat /\ mem[k].sub < t
  <2> TAKE k \in 1..N
  <2>1. k \in DOMAIN mem BY <1>3
  <2>2. mem[k].sub < t BY <2>1 DEF Acyclic
  <2> HIDE DEF mem
  <2>3. mem[k] \in Member BY <1>2, <2>1
  <2> QED BY <2>2, <2>3 DEF Member
<1>5. \A k \in 1..N : k \in Fields(ts, t) => ss[k] = << <<t, k>> >>
  BY <1>3 DEF Parts, Fields, Field
<1>6. \A k \in 1..N : k \notin Fields(ts, t) =>
        ss[k] = f[mem[k].sub] /\ mem[k].sub \in 1..(t - 1)
  BY <1>1, <1>3, <1>4 DEF Parts, Fields, Field
<1>7. Fields(ts, t) \subseteq 1..N
  <2>1. Fields(ts, t) \subseteq DOMAIN mem BY DEF Fields
  <2> QED BY <2>1, <1>3
<1>8. \A u \in DOMAIN ts : Fields(ts, u) \subseteq Nat
  <2> TAKE u \in DOMAIN ts
  <2>1. ts[u] \in StructType OBVIOUS
  <2>2. ts[u].members \in Seq(Member) BY <2>1 DEF StructType
  <2>3. Fields(ts, u) \subseteq DOMAIN ts[u].members BY DEF Fields
  <2> QED BY <2>2, <2>3
<1>9. \A u \in 1..t : u \in DOMAIN ts /\ u \in Nat BY <1>1
<1>10. ss = [k \in 1..N |-> ss[k]] BY <1>3 DEF Parts
<1> HIDE DEF ss, mem, N
<1>11. \A k \in 1..N : ss[k] \in Seq(Nat \X Nat)
  <2> TAKE k \in 1..N
  <2>1. CASE k \in Fields(ts, t)
    <3>1. << <<t, k>> >> \in Seq(Nat \X Nat) BY <1>1, <1>3
    <3> QED BY <3>1, <2>1, <1>5
  <2>2. CASE k \notin Fields(ts, t) BY <2>2, <1>6 DEF FieldsInOrder
  <2> QED BY <2>1, <2>2
<1>12. ss \in Seq(Seq(Nat \X Nat)) /\ Len(ss) = N
  <2>1. ss \in [1..N -> Seq(Nat \X Nat)] BY <1>10, <1>11
  <2> QED BY <2>1, <1>3
<1>13. ASSUME NEW n \in 1..N, n \in Fields(ts, t), NEW u, NEW k
       PROVE  Occurs(ss[n], <<u, k>>) <=> u = t /\ k = n
  <2>1. ss[n] = << <<t, n>> >> BY <1>13, <1>5
  <2>2. Occurs(<< <<t, n>> >>, <<u, k>>) <=> <<u, k>> = <<t, n>> BY OneOccurs
  <2>3. <<u, k>> = <<t, n>> <=> u = t /\ k = n OBVIOUS
  <2> QED BY <2>1, <2>2, <2>3
<1>14. ASSUME NEW n \in 1..N, n \notin Fields(ts, t), NEW u \in Nat, NEW k \in Nat,
              Occurs(ss[n], <<u, k>>)
       PROVE  u <= mem[n].sub /\ u < t
  <2>1. ss[n] = f[mem[n].sub] /\ mem[n].sub \in 1..(t - 1) BY <1>14, <1>6
  <2>2. u <= mem[n].sub BY <2>1, <1>14 DEF FieldsInOrder
  <2> QED BY <2>1, <2>2, <1>1
<1> DEFINE s == FlattenSeq(ss)
<1>15. s \in Seq(Nat \X Nat)
  <2>1. PICK F \in [0..N -> Seq(Nat \X Nat)] : F[N] = s BY <1>12, FlattenSteps
  <2> QED BY <2>1, <1>3
<1>16. \A u, k \in Nat : Occurs(s, <<u, k>>) => u <= t
  <2> SUFFICES ASSUME NEW u \in Nat, NEW k \in Nat, Occurs(s, <<u, k>>) PROVE u <= t
    OBVIOUS
  <2>1. PICK n \in 1..N : Occurs(ss[n], <<u, k>>) BY <1>12, OccursFlat
  <2>2. u = t \/ u < t BY <2>1, <1>13, <1>14
  <2> QED BY <2>2, <1>1
<1>17. \A k \in Fields(ts, t) : Occurs(s, <<t, k>>)
  <2> TAKE k \in Fields(ts, t)
  <2>1. k \in 1..N BY <1>7
  <2>2. Occurs(ss[k], <<t, k>>) BY <2>1, <1>13
  <2> QED BY <2>1, <2>2, <1>12, OccursFlat
<1>18. ASSUME NEW u \in 1..t, u # t, NEW j \in Fields(ts, u), NEW k \in Fields(ts, u), j < k
       PROVE  Paired(s, <<u, j>>, <<u, k>>)
  <2>1. u \in Nat /\ j \in Nat /\ k \in Nat BY <1>8, <1>9
  <2>2. ASSUME NEW n \in 1..N PROVE Paired(ss[n], <<u, j>>, <<u, k>>)
    <3>1. CASE n \in Fields(ts, t)
      <4>1. ~Occurs(ss[n], <<u, j>>) /\ ~Occurs(ss[n], <<u, k>>) BY <3>1, <1>13, <1>18
      <4> QED BY <4>1, NeverOccurs DEF Paired
    <3>2. CASE n \notin Fields(ts, t)
      <4>1. ss[n] = f[mem[n].sub] /\ mem[n].sub \in 1..(t - 1) BY <3>2, <1>6
      <4>2. CASE u <= mem[n].sub
        <5>1. u \in 1..mem[n].sub BY <4>1, <4>2, <2>1
        <5> QED BY <4>1, <5>1, <1>18 DEF FieldsInOrder
      <4>3. CASE ~(u <= mem[n].sub)
        <5>1. ~Occurs(ss[n], <<u, j>>) /\ ~Occurs(ss[n], <<u, k>>)
          BY <3>2, <4>3, <2>1, <1>14
        <5> QED BY <5>1, NeverOccurs DEF Paired
      <4> QED BY <4>2, <4>3
    <3> QED BY <3>1, <3>2
  <2> QED BY <2>2, <1>12, PairedFlat
<1>19. ASSUME NEW j \in Fields(ts, t), NEW k \in Fields(ts, t), j < k
       PROVE  Paired(s, <<t, j>>, <<t, k>>)
  <2>1. j \in 1..N /\ k \in 1..N /\ j \in Nat /\ k \in Nat BY <1>7, <1>3
  <2>2. \A m \in Fields(ts, t) : \A n \in 1..N : Occurs(ss[n], <<t, m>>) <=> n = m
    <3> TAKE m \in Fields(ts, t)
    <3> TAKE n \in 1..N
    <3>1. m \in Nat BY <1>7
    <3>2. CASE n \in Fields(ts, t) BY <3>2, <1>13
    <3>3. CASE n \notin Fields(ts, t)
      <4>1. ~(t < t) BY <1>1
      <4> QED BY <4>1, <3>1, <3>3, <1>1, <1>14
    <3> QED BY <3>2, <3>3
  <2> QED BY <2>1, <2>2, <1>12, <1>19, PartsInOrder
<1>20. \A u \in 1..t : \A j, k \in Fields(ts, u) : j < k => Paired(s, <<u, j>>, <<u, k>>)
  BY <1>18, <1>19
<1> QED BY <1>15, <1>16, <1>17, <1>20 DEF FieldsInOrder, ss

(* So they are for every type. *)
LEMMA AllFieldsInOrder ==
  ASSUME NEW ts \in Seq(StructType), Acyclic(ts), NEW t \in DOMAIN ts
  PROVE  FieldsInOrder(AllFields(ts)[t], ts, t)
<1> DEFINE N == Len(ts)
           f == AllFields(ts)
           T == {n \in 0..N : \A u \in 1..n : FieldsInOrder(f[u], ts, u)}
<1>1. N \in Nat /\ DOMAIN ts = 1..N OBVIOUS
<1>2. f = [u \in DOMAIN ts |-> FlattenSeq(Parts(f, ts, u))] BY AllFieldsDefined
<1> HIDE DEF f
<1>3. 0 \in T BY <1>1
<1>4. ASSUME NEW n \in 0..(N - 1), n \in T PROVE n + 1 \in T
  <2>1. /\ n + 1 \in 1..N /\ n + 1 \in 0..N /\ (n + 1) - 1 = n
        /\ \A u \in 1..(n + 1) : u \in 1..n \/ u = n + 1
    BY <1>1
  <2>2. FieldsInOrder(FlattenSeq(Parts(f, ts, n + 1)), ts, n + 1)
    BY <2>1, <1>1, <1>4, TypeInOrder
  <2>3. f[n + 1] = FlattenSeq(Parts(f, ts, n + 1)) BY <2>1, <1>1, <1>2
  <2>4. \A u \in 1..(n + 1) : FieldsInOrder(f[u], ts, u) BY <2>1, <2>2, <2>3, <1>4
  <2> QED BY <2>1, <2>4
<1>5. N \in T
  <2> HIDE DEF T
  <2>1. N \in 0..N BY <1>1
  <2> QED BY <2>1, <1>1, <1>3, <1>4, UpTo
<1> QED BY <1>1, <1>5 DEF f


-----------------------------------------------------------------------------
(* The positions                                                           *)

(* Where Finish finds a field. *)
LastAt(s, x) ==
  CHOOSE i \in DOMAIN s : s[i] = x /\ \A j \in DOMAIN s : s[j] = x => j <= i

LEMMA LastIs ==
  ASSUME NEW S, NEW s \in Seq(S), NEW x, Occurs(s, x)
  PROVE  /\ LastAt(s, x) \in 1..Len(s)
         /\ \A j \in 1..Len(s) : s[j] = x => j <= LastAt(s, x)
         /\ s[LastAt(s, x)] = x
<1> DEFINE N == Len(s)
           T == {d \in 0..(N - 1) : s[N - d] = x}
<1>1. N \in Nat /\ DOMAIN s = 1..N OBVIOUS
<1> HIDE DEF N
<1>2. PICK i \in 1..N : s[i] = x BY DEF Occurs, N
<1>3. N - i \in 0..(N - 1) /\ N - (N - i) = i BY <1>1
<1>4. N - i \in T BY <1>2, <1>3
<1>5. T \subseteq Nat BY <1>1
<1>6. PICK d \in T : \A e \in T : d <= e
  <2> HIDE DEF T
  <2> QED BY <1>4, <1>5, LeastOfNaturals
<1>7. N - d \in 1..N /\ s[N - d] = x BY <1>1, <1>6
<1>8. \A j \in 1..N : s[j] = x => j <= N - d
  <2> SUFFICES ASSUME NEW j \in 1..N, s[j] = x PROVE j <= N - d
    OBVIOUS
  <2>1. N - j \in 0..(N - 1) /\ N - (N - j) = j BY <1>1
  <2>2. N - j \in T BY <2>1
  <2>3. d <= N - j BY <1>6, <2>2
  <2> QED BY <2>3, <1>1, <1>5, <1>6
<1>9. \E i0 \in DOMAIN s : s[i0] = x /\ \A j \in DOMAIN s : s[j] = x => j <= i0
  BY <1>1, <1>7, <1>8
<1>10. /\ LastAt(s, x) \in DOMAIN s /\ s[LastAt(s, x)] = x
       /\ \A j \in DOMAIN s : s[j] = x => j <= LastAt(s, x)
  BY <1>9 DEF LastAt
<1> QED BY <1>1, <1>10 DEF N

(* The last y is behind the last x. *)
LEMMA LastInOrder ==
  ASSUME NEW S, NEW s \in Seq(S), NEW x, NEW y, Paired(s, x, y), Occurs(s, x)
  PROVE  LastAt(s, x) \in Nat /\ LastAt(s, y) \in Nat /\ LastAt(s, x) < LastAt(s, y)
<1> DEFINE a == LastAt(s, x)
           b == LastAt(s, y)
<1>1. a \in 1..Len(s) /\ s[a] = x BY LastIs
<1>2. Occurs(s, y) BY DEF Paired
<1>3. b \in 1..Len(s) /\ \A j \in 1..Len(s) : s[j] = y => j <= b BY <1>2, LastIs
<1> HIDE DEF a, b
<1>4. PICK j \in 1..Len(s) : a < j /\ s[j] = y BY <1>1 DEF Paired, Chained
<1>5. j <= b /\ a \in Nat /\ b \in Nat BY <1>1, <1>3, <1>4
<1> QED BY <1>4, <1>5 DEF a, b

(* The members collected are of types that are complete. *)
SubsBefore ==
  /\ Acyclic(types)
  /\ \A k \in DOMAIN members : members[k].sub <= Len(types)

PositionsInv == SubsBefore /\ PositionsInOrder

LEMMA MemberTypesBefore ==
  ASSUME types \in Seq(StructType), NEW m \in MemberTypes
  PROVE  m.sub <= Len(types)
<1>1. Len(types) \in Nat /\ DOMAIN types = 1..Len(types) OBVIOUS
<1>2. m.sub = 0 \/ \E t \in DOMAIN types : m.sub = t
  BY DEF MemberTypes, Primitive, Declared, ArrayOf
<1> QED BY <1>1, <1>2

(* The type is complete: its fields, and those that come with its anonymous *)
(* members, are numbered in their order.                                   *)
LEMMA FinishPositions ==
  ASSUME IInv, PositionsInv, Finish
  PROVE  PositionsInv'
<1> DEFINE tp == [union |-> kind = "union", members |-> members, offsets |-> offsets,
                  size |-> Align(info.size, info.max_align), align |-> info.max_align]
           ts == Append(types, tp)
           n == Len(types) + 1
<1>1. /\ types \in Seq(StructType) /\ members \in Seq(Member) /\ offsets \in Seq(Nat)
      /\ info.size \in Nat /\ info.max_align \in Alignments
  BY DEF IInv, TypeOK
<1>2. tp \in StructType
  <2>1. Align(info.size, info.max_align) \in Nat BY <1>1, AlignUp
  <2> QED BY <1>1, <2>1 DEF StructType
<1>3. tp.members = members OBVIOUS
<1>4. types' = ts /\ members' = <<>> BY DEF Finish
<1> DEFINE all == AllFields(ts)[Len(ts)]
<1>5. pos' = [t \in DOMAIN ts |-> [k \in DOMAIN ts[t].members |->
                IF \E i \in DOMAIN all : all[i] = <<t, k>>
                THEN LastAt(all, <<t, k>>) - 1
                ELSE IF t \in DOMAIN types THEN pos[t][k] ELSE 0]]
  BY DEF Finish, LastAt
<1> HIDE DEF tp
<1>6. /\ ts \in Seq(StructType) /\ Len(ts) = n /\ n \in Nat /\ DOMAIN ts = 1..n
      /\ ts[n] = tp /\ \A t \in DOMAIN types : ts[t] = types[t]
      /\ DOMAIN types = 1..(n - 1)
  BY <1>1, <1>2
<1> HIDE DEF ts
<1>7. Acyclic(ts)
  <2> SUFFICES ASSUME NEW t \in 1..n, NEW k \in DOMAIN ts[t].members
               PROVE  ts[t].members[k].sub < t
    BY <1>6 DEF Acyclic
  <2>1. CASE t = n
    <3>1. ts[t].members = members BY <2>1, <1>3, <1>6
    <3>2. members[k] \in Member /\ members[k].sub <= Len(types)
      BY <3>1, <1>1 DEF PositionsInv, SubsBefore
    <3>3. members[k].sub \in Nat BY <3>2 DEF Member
    <3> QED BY <2>1, <3>1, <3>2, <3>3, <1>1
  <2>2. CASE t # n
    <3>1. t \in DOMAIN types BY <2>2, <1>6
    <3>2. ts[t] = types[t] BY <3>1, <1>6
    <3> QED BY <3>1, <3>2 DEF PositionsInv, SubsBefore, Acyclic
  <2> QED BY <2>1, <2>2
<1>8. SubsBefore' BY <1>4, <1>7 DEF SubsBefore
<1>9. FieldsInOrder(all, ts, n) BY <1>6, <1>7, AllFieldsInOrder
<1> HIDE DEF all, n
<1>10. all \in Seq(Nat \X Nat) /\ DOMAIN all = 1..Len(all)
  <2>1. all \in Seq(Nat \X Nat) BY <1>9 DEF FieldsInOrder
  <2> QED BY <2>1
<1>11. ASSUME NEW t \in DOMAIN ts, NEW j \in Fields(ts, t), NEW k \in Fields(ts, t), j < k
       PROVE  pos'[t][j] < pos'[t][k]
  <2>1. \A i \in Fields(ts, t) :
          pos'[t][i] = IF Occurs(all, <<t, i>>) THEN LastAt(all, <<t, i>>) - 1
                       ELSE IF t \in DOMAIN types THEN pos[t][i] ELSE 0
    BY <1>5, <1>10 DEF Occurs, Fields
  <2>2. t \in 1..n BY <1>6
  <2>3. Paired(all, <<t, j>>, <<t, k>>) BY <2>2, <1>9, <1>11 DEF FieldsInOrder
  <2>4. CASE Occurs(all, <<t, j>>)
    <3>1. Occurs(all, <<t, k>>) BY <2>3, <2>4 DEF Paired
    <3> DEFINE a == LastAt(all, <<t, j>>)
               b == LastAt(all, <<t, k>>)
    <3>2. a \in Nat /\ b \in Nat /\ a < b BY <1>10, <2>3, <2>4, LastInOrder
    <3>3. pos'[t][j] = a - 1 /\ pos'[t][k] = b - 1 BY <2>1, <2>4, <3>1
    <3> HIDE DEF a, b
    <3> QED BY <3>2, <3>3
  <2>5. CASE ~Occurs(all, <<t, j>>)
    <3>1. ~Occurs(all, <<t, k>>) BY <2>3, <2>5 DEF Paired
    <3>2. t # n BY <2>5, <1>9 DEF FieldsInOrder
    <3>3. t \in DOMAIN types BY <2>2, <3>2, <1>6
    <3>4. Fields(types, t) = Fields(ts, t) BY <3>3, <1>6 DEF Fields
    <3>5. pos[t][j] < pos[t][k]
      BY <3>3, <3>4, <1>11 DEF PositionsInv, PositionsInOrder, Fields, Field
    <3>6. pos'[t][j] = pos[t][j] /\ pos'[t][k] = pos[t][k] BY <2>1, <2>5, <3>1, <3>3
    <3> QED BY <3>5, <3>6
  <2> QED BY <2>4, <2>5
<1>12. PositionsInOrder' BY <1>4, <1>11 DEF PositionsInOrder, Fields, Field
<1> QED BY <1>8, <1>12 DEF PositionsInv

(* CStructField.pos tells the members of a type apart and follows their    *)
(* declaration, however deep they lie in anonymous members and however     *)
(* often those are numbered again (TypeSizeApplier.allfields).             *)
THEOREM PositionsAlwaysInOrder == Spec => []PositionsInOrder
<1>1. Init => PositionsInv
  BY DEF Init, PositionsInv, PositionsInOrder, SubsBefore, Acyclic
<1>2. ASSUME IInv, PositionsInv, IInv', [Next]_vars PROVE PositionsInv'
  <2>1. CASE AddMember
    <3>1. PICK m \in MemberTypes : members' = Append(members, m) BY <2>1 DEF AddMember
    <3>2. types' = types /\ pos' = pos BY <2>1 DEF AddMember
    <3>3. types \in Seq(StructType) /\ members \in Seq(Member) BY <1>2 DEF IInv, TypeOK
    <3>4. m.sub <= Len(types) BY <3>3, MemberTypesBefore
    <3>5. ASSUME NEW k \in DOMAIN members' PROVE members'[k].sub <= Len(types)
      <4>1. k \in DOMAIN members \/ k = Len(members) + 1 BY <3>1, <3>3
      <4>2. k \in DOMAIN members => members'[k] = members[k] BY <3>1, <3>3
      <4>3. k = Len(members) + 1 => members'[k] = m BY <3>1, <3>3
      <4> QED BY <4>1, <4>2, <4>3, <3>4, <1>2 DEF PositionsInv, SubsBefore
    <3> QED BY <3>2, <3>5, <1>2 DEF PositionsInv, SubsBefore, PositionsInOrder
  <2>2. CASE Finish BY <1>2, <2>2, FinishPositions
  <2>3. CASE UNCHANGED <<types, pos, members>>
    BY <1>2, <2>3 DEF PositionsInv, SubsBefore, PositionsInOrder
  <2>4. Begin \/ BodyEnds \/ PlaceInStruct \/ PlaceInUnion \/ Done \/ UNCHANGED vars
          => UNCHANGED <<types, pos, members>>
    BY DEF Begin, BodyEnds, PlaceInStruct, PlaceInUnion, Done, vars
  <2> QED BY <1>2, <2>1, <2>2, <2>3, <2>4 DEF Next
<1>3. PositionsInv => PositionsInOrder BY DEF PositionsInv
<1> QED BY IInvAlways, <1>1, <1>2, <1>3, PTL DEF Spec
=============================================================================
