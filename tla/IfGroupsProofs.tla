--------------------------- MODULE IfGroupsProofs ---------------------------
(***************************************************************************)
(* Theorems about conditional inclusion, for every set of macros and files *)
(* and every program, however long and however deeply nested.              *)
(***************************************************************************)
EXTENDS IfGroups, SequenceTheorems, FiniteSetTheorems, TLAPS

-----------------------------------------------------------------------------
(* The kind of an item says what it is.                                    *)

(* Which fields a line has (Token and T in the code).                      *)
LEMMA ItemKinds ==
  ASSUME NEW it \in Item
  PROVE  /\ it.k \notin {"sb", "se", "eof"} => it \in Line
         /\ it.k = "sb" => it = SB
         /\ it.k = "se" => it = SE
         /\ it.k = "eof" => it = Eof
         /\ it.k \in {"text", "undef", "define"} => it.n \in Names
         /\ it.k = "define" => it.v \in {"zero", "one"}
         /\ it.k = "include" => it.h \in Headers
         /\ it.k \in Openers \cup Separators
              \cup {"endif", "null", "unknown", "text", "undef", "define",
                    "include", "sb", "se", "eof"}
  BY DEF Item, Line, Marker, SB, SE, Eof, Openers, Separators

-----------------------------------------------------------------------------
(* The depth of nesting.                                                   *)

(* What is counted is finite.                                              *)
LEMMA FinitePart ==
  ASSUME NEW i \in Nat, NEW T \in SUBSET (1 .. i)
  PROVE  IsFiniteSet(T) /\ Cardinality(T) \in Nat
  <1>1. IsFiniteSet(1 .. i)
    BY FS_Interval
  <1>2. IsFiniteSet(T)
    BY <1>1, FS_Subset
  <1> QED
    BY <1>2, FS_CardinalityType

(* A depth is a number.                                                    *)
LEMMA DepthType ==
  ASSUME NEW q, NEW i \in Nat
  PROVE  DepthAt(q, i) \in Int
  <1> DEFINE A == {j \in 1 .. i : q[j].k \in Openers}
             B == {j \in 1 .. i : q[j].k = "endif"}
  <1>1. Cardinality(A) \in Nat /\ Cardinality(B) \in Nat
    BY FinitePart
  <1> QED
    BY <1>1 DEF DepthAt

(* The depth depends on the lines so far (level in PP_if2.java).           *)
LEMMA DepthSame ==
  ASSUME NEW q, NEW r, NEW i \in Nat, \A j \in 1 .. i : q[j] = r[j]
  PROVE  DepthAt(q, i) = DepthAt(r, i)
  <1>1. {j \in 1 .. i : q[j].k \in Openers} = {j \in 1 .. i : r[j].k \in Openers}
    OBVIOUS
  <1>2. {j \in 1 .. i : q[j].k = "endif"} = {j \in 1 .. i : r[j].k = "endif"}
    OBVIOUS
  <1> QED
    BY <1>1, <1>2 DEF DepthAt

Weight(it) == IF it.k \in Openers THEN 1 ELSE IF it.k = "endif" THEN -1 ELSE 0

(* One more line.                                                          *)
LEMMA CountNext ==
  ASSUME NEW i \in Nat, NEW T \in SUBSET (1 .. i + 1)
  PROVE  LET S == T \cap (1 .. i)
         IN  Cardinality(T) = Cardinality(S) + (IF i + 1 \in T THEN 1 ELSE 0)
  <1> DEFINE S == T \cap (1 .. i)
  <1>1. IsFiniteSet(S) /\ Cardinality(S) \in Nat
    <2>1. S \in SUBSET (1 .. i)
      OBVIOUS
    <2> QED
      BY <2>1, FinitePart
  <1>2. i + 1 \notin S /\ \A x \in T : x \in S \/ x = i + 1
    OBVIOUS
  <1>3. S \subseteq T
    OBVIOUS
  <1> HIDE DEF S
  <1>4. CASE i + 1 \in T
    <2>1. T = S \cup {i + 1}
      BY <1>2, <1>3, <1>4
    <2>2. Cardinality(S \cup {i + 1}) = Cardinality(S) + 1
      BY <1>1, <1>2, FS_AddElement
    <2> QED
      BY <1>4, <2>1, <2>2 DEF S
  <1>5. CASE i + 1 \notin T
    <2>1. T = S
      BY <1>2, <1>3, <1>5
    <2> QED
      BY <1>1, <1>5, <2>1 DEF S
  <1> QED
    BY <1>4, <1>5

(* The depth changes by what the next line is (PP_if2.java:296, 353).      *)
LEMMA DepthNext ==
  ASSUME NEW q, NEW i \in Nat
  PROVE  DepthAt(q, i + 1) = DepthAt(q, i) + Weight(q[i + 1])
  <1> DEFINE A == {j \in 1 .. i + 1 : q[j].k \in Openers}
             B == {j \in 1 .. i + 1 : q[j].k = "endif"}
             A0 == {j \in 1 .. i : q[j].k \in Openers}
             B0 == {j \in 1 .. i : q[j].k = "endif"}
  <1>1. A0 = A \cap (1 .. i) /\ B0 = B \cap (1 .. i)
    OBVIOUS
  <1>2. A \in SUBSET (1 .. i + 1) /\ B \in SUBSET (1 .. i + 1)
    OBVIOUS
  <1>3. i + 1 \in 1 .. i + 1
    OBVIOUS
  <1>4. /\ i + 1 \in A <=> q[i + 1].k \in Openers
        /\ i + 1 \in B <=> q[i + 1].k = "endif"
    BY <1>3
  <1>5. /\ Cardinality(A0) \in Nat /\ Cardinality(B0) \in Nat
    <2>1. A0 \in SUBSET (1 .. i) /\ B0 \in SUBSET (1 .. i)
      OBVIOUS
    <2> QED
      BY <2>1, FinitePart
  <1>6. DepthAt(q, i + 1) = Cardinality(A) - Cardinality(B)
    BY DEF DepthAt
  <1>7. DepthAt(q, i) = Cardinality(A0) - Cardinality(B0)
    BY DEF DepthAt
  <1> HIDE DEF A, B, A0, B0
  <1>8. Cardinality(A) = Cardinality(A0) + (IF q[i + 1].k \in Openers THEN 1 ELSE 0)
    BY <1>1, <1>2, <1>4, CountNext
  <1>9. Cardinality(B) = Cardinality(B0) + (IF q[i + 1].k = "endif" THEN 1 ELSE 0)
    BY <1>1, <1>2, <1>4, CountNext
  <1>10. ~(q[i + 1].k \in Openers /\ q[i + 1].k = "endif")
    BY DEF Openers
  <1> QED
    BY <1>5, <1>6, <1>7, <1>8, <1>9, <1>10 DEF Weight

(* Before the first line.                                                  *)
LEMMA DepthZero == ASSUME NEW q PROVE DepthAt(q, 0) = 0
  <1>1. {j \in 1 .. 0 : q[j].k \in Openers} = {} /\ {j \in 1 .. 0 : q[j].k = "endif"} = {}
    OBVIOUS
  <1> QED
    BY <1>1, FS_EmptySet DEF DepthAt

(* A line is put behind q.                                                 *)
LEMMA DepthAppend ==
  ASSUME NEW S, NEW q \in Seq(S), NEW it \in S
  PROVE  /\ \A j \in 0 .. Len(q) : DepthAt(Append(q, it), j) = DepthAt(q, j)
         /\ DepthAt(Append(q, it), Len(q) + 1) = DepthAt(q, Len(q)) + Weight(it)
  <1> DEFINE r == Append(q, it)
  <1>1. /\ r[Len(q) + 1] = it /\ \A j \in 1 .. Len(q) : r[j] = q[j]
        /\ Len(q) \in Nat
    BY AppendProperties, LenProperties
  <1> HIDE DEF r
  <1>2. \A j \in 0 .. Len(q) : DepthAt(r, j) = DepthAt(q, j)
    BY <1>1, DepthSame
  <1>3. DepthAt(r, Len(q) + 1) = DepthAt(r, Len(q)) + Weight(it)
    BY <1>1, DepthNext
  <1>4. DepthAt(r, Len(q) + 1) = DepthAt(q, Len(q)) + Weight(it)
    BY <1>1, <1>2, <1>3
  <1> QED
    BY <1>2, <1>4 DEF r

-----------------------------------------------------------------------------
(* The queue.                                                              *)

(* Taking an item leaves the others (Scan.java:48).                        *)
LEMMA Popped ==
  ASSUME TypeOK, pend # <<>>
  PROVE  /\ Cur \in Item /\ Cur = pend[1]
         /\ Rest \in Seq(Item) /\ Len(Rest) = Len(pend) - 1
         /\ Len(pend) \in Nat \ {0} /\ Len(Rest) \in Nat
         /\ \A i \in 1 .. Len(Rest) : Rest[i] = pend[i + 1]
  <1>1. pend \in Seq(Item)
    BY DEF TypeOK
  <1>2. Len(pend) \in Nat \ {0} /\ pend[1] \in Item
    BY <1>1, EmptySeq, ElementOfSeq
  <1> QED
    BY <1>1, <1>2, HeadTailProperties DEF Cur, Rest

(* The end of the program stays where it is until it is met.               *)
LEMMA RestEnds ==
  ASSUME TypeOK, Outline, pend # <<>>, Cur.k # "eof", Undisturbed, ended
  PROVE  Rest # <<>> /\ Rest[Len(Rest)] = Eof
  <1>1. pend[Len(pend)] = Eof
    BY DEF Outline
  <1>2. Len(pend) # 1
    BY <1>1, Popped DEF Eof
  <1>3. Len(Rest) \in 1 .. Len(Rest) /\ Len(Rest) + 1 = Len(pend)
    BY <1>2, Popped
  <1>4. Rest # <<>>
    BY <1>3, EmptySeq
  <1> QED
    BY <1>1, <1>3, <1>4, Popped

(* There is a group to add to, and adding to it leaves the others.         *)
LEMMA GroupGrows ==
  ASSUME TypeOK, groups # <<>>, NEW g \in Group, NEW gs,
         gs = [groups EXCEPT ![Len(groups)] = g]
  PROVE  /\ gs \in Seq(Group) /\ gs # <<>> /\ Len(gs) = Len(groups)
         /\ \A i \in 1 .. Len(groups) : gs[i] = IF i = Len(groups) THEN g ELSE groups[i]
  <1>1. groups \in Seq(Group) /\ Len(groups) \in Nat \ {0}
    BY EmptySeq DEF TypeOK
  <1>2. Len(groups) \in 1 .. Len(groups)
    BY <1>1
  <1>3. /\ gs \in Seq(Group) /\ Len(gs) = Len(groups)
        /\ \A i \in 1 .. Len(groups) : gs[i] = IF i = Len(groups) THEN g ELSE groups[i]
    BY <1>1, <1>2, ExceptSeq
  <1> QED
    BY <1>1, <1>3, EmptySeq

(* The group that is being collected.                                      *)
LEMMA LastGroup ==
  ASSUME TypeOK, groups # <<>>
  PROVE  /\ Len(groups) \in 1 .. Len(groups) /\ groups[Len(groups)] \in Group
         /\ DOMAIN groups = 1 .. Len(groups) /\ Len(groups) \in Nat \ {0}
  <1>1. groups \in Seq(Group) /\ Len(groups) \in Nat \ {0}
    BY EmptySeq DEF TypeOK
  <1> QED
    BY <1>1, ElementOfSeq, LenProperties

(* A line is added to the last group (PP_ifline.addToTokenlist).           *)
LEMMA LineAdded ==
  ASSUME TypeOK, groups # <<>>, pend # <<>>, AddedToGroup(Cur)
  PROVE  /\ groups' \in Seq(Group) /\ groups' # <<>> /\ Len(groups') = Len(groups)
         /\ \A i \in 1 .. Len(groups) :
              groups'[i] = IF i = Len(groups)
                           THEN [groups[i] EXCEPT !.toks = Append(@, Cur)]
                           ELSE groups[i]
         /\ pend' = Rest /\ taken' = Append(taken, Cur)
         /\ taken' \in Seq(Item) /\ pend' \in Seq(Item)
  <1> DEFINE g == [groups[Len(groups)] EXCEPT !.toks = Append(@, Cur)]
  <1>1. Cur \in Item /\ Rest \in Seq(Item)
    BY Popped
  <1>2. g \in Group
    BY <1>1, LastGroup, AppendProperties DEF Group
  <1>3. groups' = [groups EXCEPT ![Len(groups)] = g]
    BY DEF AddedToGroup
  <1> HIDE DEF g
  <1>4. /\ groups' \in Seq(Group) /\ groups' # <<>> /\ Len(groups') = Len(groups)
        /\ \A i \in 1 .. Len(groups) : groups'[i] = IF i = Len(groups) THEN g ELSE groups[i]
    BY <1>2, <1>3, GroupGrows
  <1>5. taken' = Append(taken, Cur) /\ taken' \in Seq(Item) /\ pend' = Rest
    BY <1>1, AppendProperties DEF AddedToGroup, TypeOK
  <1> QED
    BY <1>1, <1>4, <1>5, LastGroup DEF g

(* A new group is begun.                                                   *)
LEMMA GroupBegun ==
  ASSUME TypeOK, NEW ln \in Line, NEW at \in Nat \ {0}, NEW gs \in Seq(Group)
  PROVE  /\ NewGroup(ln, at) \in Group
         /\ Append(gs, NewGroup(ln, at)) \in Seq(Group)
         /\ Append(gs, NewGroup(ln, at)) # <<>>
         /\ <<NewGroup(ln, at)>> \in Seq(Group) /\ <<NewGroup(ln, at)>> # <<>>
  <1>1. NewGroup(ln, at) \in Group
    BY EmptySeq DEF NewGroup, Group
  <1>2. Append(gs, NewGroup(ln, at)) \in Seq(Group) /\ Append(gs, NewGroup(ln, at)) # <<>>
    BY <1>1, AppendProperties
  <1> QED
    BY <1>1, <1>2

-----------------------------------------------------------------------------
(* Types, and what holds of every program.                                 *)

TypeInv == TypeOK /\ Outline

(* Before the first line.                                                  *)
LEMMA InitTypes == Init => TypeInv
  <1> SUFFICES ASSUME Init PROVE TypeInv
    OBVIOUS
  <1>1. <<SB>> \in Seq(Item)
    BY DEF SB, Item, Marker
  <1> QED
    BY <1>1, EmptySeq DEF Init, TypeInv, TypeOK, Outline, Undisturbed, Values, Modes

(* An exception changes nothing else.                                      *)
LEMMA RaiseTypes ==
  ASSUME TypeInv, NEW e \in {"nesting", "incstack", "stray", "directive", "order",
                             "unterminated", "condition"}, Raise(e)
  PROVE  TypeInv'
  BY DEF TypeInv, TypeOK, Outline, Undisturbed, Raise, locals, source

(* The program is read.                                                    *)
LEMMA ReadTypes == ASSUME TypeInv, ReadLine \/ ReadEnd PROVE TypeInv'
  <1>1. CASE ReadLine
    <2>1. PICK ln \in SourceLines : pend' = <<ln>> /\ text' = Append(text, ln)
      BY <1>1 DEF ReadLine
    <2>2. ln \in Line /\ <<ln>> \in Seq(Item)
      BY LinesAssumption DEF Item
    <2>3. text' \in Seq(Line)
      BY <2>1, <2>2, AppendProperties DEF TypeInv, TypeOK
    <2> QED
      BY <1>1, <2>1, <2>2, <2>3
         DEF TypeInv, TypeOK, Outline, Undisturbed, ReadLine, NeedsSource, locals
  <1>2. CASE ReadEnd
    <2>1. <<SE, Eof>> \in Seq(Item) /\ <<SE, Eof>> # <<>>
          /\ <<SE, Eof>>[Len(<<SE, Eof>>)] = Eof
      BY DEF SE, Eof, Item, Marker
    <2> QED
      BY <1>2, <2>1
         DEF TypeInv, TypeOK, Outline, Undisturbed, ReadEnd, NeedsSource, locals
  <1> QED
    BY <1>1, <1>2

(* A file as it is pushed in front of the rest.                            *)
LEMMA IncludeTypes ==
  ASSUME NEW h \in Headers, NEW q \in Seq(Item)
  PROVE  LET r == (<<SB>> \o HeaderText[h] \o <<SE>>) \o q
         IN  /\ r \in Seq(Item) /\ r # <<>>
             /\ q # <<>> => r[Len(r)] = q[Len(q)]
  <1>1. <<SB>> \in Seq(Item) /\ <<SE>> \in Seq(Item) /\ Len(<<SB>>) = 1
    BY DEF SB, SE, Item, Marker
  <1>2. HeaderText[h] \in Seq(Item)
    BY LinesAssumption, SeqMonotonic DEF Item
  <1> DEFINE a == <<SB>> \o HeaderText[h]
             b == a \o <<SE>>
             r == b \o q
  <1>3. a \in Seq(Item) /\ Len(a) = 1 + Len(HeaderText[h])
    BY <1>1, <1>2, ConcatProperties
  <1> HIDE DEF a
  <1>4. b \in Seq(Item) /\ Len(b) = Len(a) + 1
    BY <1>1, <1>3, ConcatProperties
  <1> HIDE DEF b
  <1>5. /\ r \in Seq(Item) /\ Len(r) = Len(b) + Len(q)
        /\ \A i \in 1 .. Len(b) + Len(q) : r[i] = IF i <= Len(b) THEN b[i] ELSE q[i - Len(b)]
    BY <1>4, ConcatProperties
  <1> HIDE DEF r
  <1>6. Len(b) \in Nat \ {0} /\ Len(q) \in Nat
    BY <1>2, <1>3, <1>4, LenProperties
  <1>7. r # <<>>
    BY <1>5, <1>6, EmptySeq
  <1>8. q # <<>> => r[Len(r)] = q[Len(q)]
    <2> SUFFICES ASSUME q # <<>> PROVE r[Len(r)] = q[Len(q)]
      OBVIOUS
    <2>1. Len(q) > 0
      BY EmptySeq
    <2>2. Len(r) \in 1 .. Len(b) + Len(q) /\ ~(Len(r) <= Len(b)) /\ Len(r) - Len(b) = Len(q)
      BY <1>5, <1>6, <2>1
    <2> QED
      BY <1>5, <2>2
  <1> QED
    BY <1>5, <1>7, <1>8 DEF a, b, r

(* The Scan outside of PP_if2.                                             *)
LEMMA GetTypes ==
  ASSUME TypeInv,
         StreamBegin \/ StreamEnd \/ EmitText \/ Define \/ Include \/ NullDirective
           \/ Stray \/ StartIf
  PROVE  TypeInv'
  <1>0. /\ pend # <<>> /\ mode = "get" /\ Cur \in Item /\ Rest \in Seq(Item)
        /\ Cur.k # "eof"
    BY Popped DEF StreamBegin, StreamEnd, EmitText, Define, Include, NullDirective,
         Stray, StartIf, Running, At, TypeInv, Openers, Separators
  <1>1. Undisturbed /\ ended => Rest # <<>> /\ Rest[Len(Rest)] = Eof
    BY <1>0, RestEnds DEF TypeInv
  <1>2. CASE StreamBegin
    <2>1. CASE Raise("nesting")
      BY <2>1, RaiseTypes
    <2>2. CASE ~Raise("nesting")
      <3>1. /\ pend' = Rest /\ inc' = inc + 1
            /\ UNCHANGED <<defs, mode, locals, out, source, err, events>>
        BY <1>2, <2>2 DEF StreamBegin
      <3>2. TypeOK'
        BY <1>0, <3>1 DEF TypeInv, TypeOK, locals, source
      <3>3. Outline'
        BY <1>1, <3>1 DEF TypeInv, Outline, Undisturbed, locals, source
      <3> QED
        BY <3>2, <3>3 DEF TypeInv
    <2> QED
      BY <2>1, <2>2
  <1>3. CASE StreamEnd
    <2>1. CASE Raise("incstack")
      BY <2>1, RaiseTypes
    <2>2. CASE ~Raise("incstack")
      <3>1. /\ pend' = Rest /\ inc' = inc - 1 /\ inc # 0
            /\ UNCHANGED <<defs, mode, locals, out, source, err, events>>
        BY <1>3, <2>2 DEF StreamEnd
      <3>2. inc' \in Nat
        BY <3>1 DEF TypeInv, TypeOK
      <3>3. TypeOK'
        BY <1>0, <3>1, <3>2 DEF TypeInv, TypeOK, locals, source
      <3>4. Outline'
        BY <1>1, <3>1 DEF TypeInv, Outline, Undisturbed, locals, source
      <3> QED
        BY <3>3, <3>4 DEF TypeInv
    <2> QED
      BY <2>1, <2>2
  <1>4. CASE EmitText
    <2>1. Cur.n \in Names /\ defs[Cur.n] \in Values
      BY <1>0, <1>4, ItemKinds DEF EmitText, At, TypeInv, TypeOK
    <2>2. out' \in Seq([n : Names, v : Values])
      BY <1>4, <2>1, AppendProperties DEF EmitText, TypeInv, TypeOK
    <2> QED
      BY <1>0, <1>1, <1>4, <2>2
         DEF EmitText, TypeInv, TypeOK, Outline, Undisturbed, locals, source
  <1>5. CASE Define
    <2>1. /\ Cur.k \in {"define", "undef"} /\ Cur.n \in Names
          /\ Cur.k = "define" => Cur.v \in {"zero", "one"}
      BY <1>0, <1>5, ItemKinds DEF Define, At
    <2>2. defs' \in [Names -> Values]
      BY <1>5, <2>1 DEF Define, TypeInv, TypeOK, Values
    <2> QED
      BY <1>0, <1>1, <1>5, <2>2
         DEF Define, TypeInv, TypeOK, Outline, Undisturbed, locals, source
  <1>6. CASE Include
    <2>1. Cur.h \in Headers
      BY <1>0, <1>6, ItemKinds DEF Include, At
    <2>2. pend' = (<<SB>> \o HeaderText[Cur.h] \o <<SE>>) \o Rest
      BY <1>6 DEF Include
    <2>3. pend' \in Seq(Item) /\ pend' # <<>>
          /\ (Rest # <<>> => pend'[Len(pend')] = Rest[Len(Rest)])
      BY <1>0, <2>1, <2>2, IncludeTypes
    <2> QED
      BY <1>0, <1>1, <1>6, <2>3
         DEF Include, TypeInv, TypeOK, Outline, Undisturbed, locals, source
  <1>7. CASE NullDirective
    BY <1>0, <1>1, <1>7
       DEF NullDirective, TypeInv, TypeOK, Outline, Undisturbed, locals, source
  <1>8. CASE Stray
    BY <1>8, RaiseTypes DEF Stray
  <1>9. CASE StartIf
    <2>1. CASE Bare(Cur)
      BY <1>9, <2>1, RaiseTypes DEF StartIf
    <2>2. CASE ~Bare(Cur)
      <3>1. Cur \in Line
        BY <1>0, <1>9, ItemKinds DEF StartIf, At, Openers
      <3>2. groups' \in Seq(Group) /\ groups' # <<>> /\ taken' \in Seq(Item)
        <4>1. <<NewGroup(Cur, 1)>> \in Seq(Group) /\ <<NewGroup(Cur, 1)>> # <<>>
          BY <3>1, GroupBegun DEF TypeInv, TypeOK
        <4>2. <<Cur>> \in Seq(Item)
          BY <1>0
        <4> QED
          BY <1>9, <2>2, <4>1, <4>2 DEF StartIf
      <3>3. /\ pend' = Rest /\ mode' = "groups" /\ level' = 0 /\ open' = 1
            /\ elseSeen' = FALSE /\ next' = 1
            /\ UNCHANGED <<defs, inc, out, source, err, events>>
        BY <1>9, <2>2 DEF StartIf
      <3>4. TypeOK'
        BY <1>0, <3>2, <3>3 DEF TypeInv, TypeOK, Modes, source
      <3>5. Outline'
        BY <1>1, <3>2, <3>3 DEF TypeInv, Outline, Undisturbed, source
      <3> QED
        BY <3>4, <3>5 DEF TypeInv
    <2> QED
      BY <2>1, <2>2
  <1> QED
    BY <1>2, <1>3, <1>4, <1>5, <1>6, <1>7, <1>8, <1>9

(* The loop that collects the groups.                                      *)
LEMMA AddTypes ==
  ASSUME TypeInv, pend # <<>>, mode = "groups", Cur.k # "eof", AddedToGroup(Cur),
         level' \in Nat, open' \in Nat, open' = level' + 1
  PROVE  TypeInv'
  <1>1. /\ groups # <<>> /\ next >= 1
        /\ Undisturbed /\ ended => Rest # <<>> /\ Rest[Len(Rest)] = Eof
    BY RestEnds DEF TypeInv, Outline
  <1>2. /\ groups' \in Seq(Group) /\ groups' # <<>> /\ pend' = Rest
        /\ taken' \in Seq(Item) /\ pend' \in Seq(Item)
        /\ UNCHANGED <<defs, mode, elseSeen, next, inc, out, source, err, events>>
    BY <1>1, LineAdded DEF AddedToGroup, TypeInv
  <1>3. TypeOK'
    BY <1>2 DEF TypeInv, TypeOK, source
  <1>4. Outline'
    BY <1>1, <1>2 DEF TypeInv, Outline, Undisturbed, source
  <1> QED
    BY <1>3, <1>4 DEF TypeInv

(* A new group is begun by an #elif or an #else.                           *)
LEMMA BeginTypes ==
  ASSUME TypeInv, pend # <<>>, mode = "groups", Cur \in Line, Cur.k # "eof",
         pend' = Rest, taken' = Append(taken, Cur),
         groups' = Append(groups, NewGroup(Cur, Len(taken) + 1)),
         UNCHANGED <<defs, level, open, next, inc, out, source, err>>,
         mode' \in {"groups", "condition"}, elseSeen' \in BOOLEAN,
         events' = events \/ events' = events \cup {"bare"},
         mode' = "condition" => events' # {}
  PROVE  TypeInv'
  <1>1. /\ next >= 1 /\ open = level + 1 /\ Cur \in Item /\ Rest \in Seq(Item)
        /\ Undisturbed /\ ended => Rest # <<>> /\ Rest[Len(Rest)] = Eof
    BY RestEnds, Popped DEF TypeInv, Outline
  <1>2. Len(taken) + 1 \in Nat \ {0} /\ taken' \in Seq(Item)
    BY <1>1, AppendProperties, LenProperties DEF TypeInv, TypeOK
  <1>3. groups' \in Seq(Group) /\ groups' # <<>>
    BY <1>2, GroupBegun DEF TypeInv, TypeOK
  <1>4. TypeOK'
    BY <1>1, <1>2, <1>3 DEF TypeInv, TypeOK, Modes, source
  <1>5. Undisturbed' => Undisturbed
    BY DEF Undisturbed
  <1>6. mode' = "condition" => ~Undisturbed'
    BY DEF Undisturbed
  <1>7. Outline'
    BY <1>1, <1>3, <1>5, <1>6 DEF Outline, source
  <1> QED
    BY <1>4, <1>7 DEF TypeInv

(* The first half of the actions of the loop.                              *)
LEMMA NestedTypes ==
  ASSUME TypeInv,
         GroupNull \/ NestedIf \/ NestedSeparator \/ NestedEndif \/ GroupLine \/ GroupEof
  PROVE  TypeInv'
  <1>0. pend # <<>> /\ mode = "groups" /\ Cur \in Item /\ Rest \in Seq(Item)
    BY Popped DEF GroupNull, NestedIf, NestedSeparator, NestedEndif, GroupLine, GroupEof,
         Running, At, TypeInv
  <1>1. level \in Nat /\ open \in Nat /\ open = level + 1
    BY <1>0 DEF TypeInv, TypeOK, Outline
  <1>2. CASE GroupNull
    <2>1. Undisturbed /\ ended => Rest # <<>> /\ Rest[Len(Rest)] = Eof
      BY <1>0, <1>2, RestEnds DEF TypeInv, GroupNull, At
    <2> QED
      BY <1>0, <1>2, <2>1
         DEF GroupNull, TypeInv, TypeOK, Outline, Undisturbed, locals, source
  <1>3. CASE NestedIf
    BY <1>0, <1>1, <1>3, AddTypes DEF NestedIf, At, Openers
  <1>4. CASE NestedSeparator
    BY <1>0, <1>1, <1>4, AddTypes DEF NestedSeparator, At, Separators
  <1>5. CASE NestedEndif
    BY <1>0, <1>1, <1>5, AddTypes DEF NestedEndif, At
  <1>6. CASE GroupLine
    BY <1>0, <1>1, <1>6, AddTypes DEF GroupLine, At
  <1>7. CASE GroupEof
    <2>1. Raise("unterminated")
      BY <1>1, <1>7 DEF GroupEof
    <2> QED
      BY <2>1, RaiseTypes
  <1> QED
    BY <1>2, <1>3, <1>4, <1>5, <1>6, <1>7

(* The other half.                                                         *)
LEMMA HeadTypes ==
  ASSUME TypeInv,
         Elif \/ ConditionTakes \/ ConditionEnds \/ Else \/ Endif \/ GroupsExhausted
  PROVE  TypeInv'
  <1>1. CASE Elif
    <2>0. pend # <<>> /\ mode = "groups" /\ Cur \in Line /\ Cur.k # "eof"
      BY <1>1, Popped, ItemKinds DEF Elif, Running, At, TypeInv
    <2>1. CASE elseSeen
      BY <1>1, <2>1, RaiseTypes DEF Elif
    <2>2. CASE ~elseSeen
      <3>1. elseSeen' \in BOOLEAN
        BY <1>1, <2>2 DEF Elif, TypeInv, TypeOK
      <3>2. /\ mode' \in {"groups", "condition"}
            /\ events' = events \/ events' = events \cup {"bare"}
            /\ mode' = "condition" => events' # {}
        BY <1>1, <2>2 DEF Elif
      <3>3. /\ pend' = Rest /\ taken' = Append(taken, Cur)
            /\ groups' = Append(groups, NewGroup(Cur, Len(taken) + 1))
            /\ UNCHANGED <<defs, level, open, next, inc, out, source, err>>
        BY <1>1, <2>2 DEF Elif
      <3> QED
        BY <2>0, <3>1, <3>2, <3>3, BeginTypes
    <2> QED
      BY <2>1, <2>2
  <1>2. CASE Else
    <2>0. pend # <<>> /\ mode = "groups" /\ Cur \in Line /\ Cur.k # "eof"
      BY <1>2, Popped, ItemKinds DEF Else, Running, At, TypeInv
    <2>1. CASE elseSeen
      BY <1>2, <2>1, RaiseTypes DEF Else
    <2>2. CASE ~elseSeen
      <3>1. elseSeen' \in BOOLEAN /\ mode' \in {"groups", "condition"} /\ mode' # "condition"
            /\ events' = events
        BY <1>2, <2>0, <2>2 DEF Else
      <3>2. /\ pend' = Rest /\ taken' = Append(taken, Cur)
            /\ groups' = Append(groups, NewGroup(Cur, Len(taken) + 1))
            /\ UNCHANGED <<defs, level, open, next, inc, out, source, err>>
        BY <1>2, <2>2 DEF Else
      <3> QED
        BY <2>0, <3>1, <3>2, BeginTypes
    <2> QED
      BY <2>1, <2>2
  <1>3. CASE ConditionTakes
    <2>0. /\ pend # <<>> /\ mode = "condition" /\ Cur \in Item /\ Rest \in Seq(Item)
          /\ groups # <<>> /\ next >= 1 /\ open = level + 1 /\ ~Undisturbed
      BY <1>3, Popped DEF ConditionTakes, Running, TypeInv, Outline
    <2> DEFINE g == [groups[Len(groups)] EXCEPT !.stolen = Append(@, Cur)]
    <2>1. g \in Group
      BY <2>0, LastGroup, AppendProperties DEF Group, TypeInv
    <2>2. groups' = [groups EXCEPT ![Len(groups)] = g]
      BY <1>3 DEF ConditionTakes
    <2> HIDE DEF g
    <2>3. groups' \in Seq(Group) /\ groups' # <<>>
      BY <2>0, <2>1, <2>2, GroupGrows DEF TypeInv
    <2>4. taken' \in Seq(Item)
      BY <1>3, <2>0, AppendProperties DEF ConditionTakes, TypeInv, TypeOK
    <2>5. /\ pend' = Rest /\ mode' \in {"condition", "groups"}
          /\ UNCHANGED <<defs, level, open, elseSeen, next, inc, out, source, err, events>>
      BY <1>3 DEF ConditionTakes
    <2>6. TypeOK'
      BY <2>0, <2>3, <2>4, <2>5 DEF TypeInv, TypeOK, Modes, source
    <2>7. Outline'
      BY <2>0, <2>3, <2>5 DEF Outline, Undisturbed
    <2> QED
      BY <2>6, <2>7 DEF TypeInv
  <1>4. CASE ConditionEnds
    <2>1. TypeOK'
      BY <1>4 DEF ConditionEnds, TypeInv, TypeOK, Modes, locals, source
    <2>2. Outline'
      BY <1>4 DEF ConditionEnds, TypeInv, Outline, Undisturbed, locals, source, Running
    <2> QED
      BY <2>1, <2>2 DEF TypeInv
  <1>5. CASE Endif
    <2>0. /\ pend # <<>> /\ mode = "groups" /\ Cur \in Item /\ Rest \in Seq(Item)
          /\ Cur.k # "eof"
      BY <1>5, Popped DEF Endif, Running, At, TypeInv
    <2>1. Undisturbed /\ ended => Rest # <<>> /\ Rest[Len(Rest)] = Eof
      BY <2>0, RestEnds DEF TypeInv
    <2>2. taken' \in Seq(Item)
      BY <1>5, <2>0, AppendProperties DEF Endif, TypeInv, TypeOK
    <2>3. TypeOK'
      BY <1>5, <2>0, <2>2 DEF Endif, TypeInv, TypeOK, Modes, source
    <2>4. Outline'
      BY <1>5, <2>0, <2>1 DEF Endif, TypeInv, Outline, Undisturbed, source
    <2> QED
      BY <2>3, <2>4 DEF TypeInv
  <1>6. CASE GroupsExhausted
    <2>1. TypeOK'
      BY <1>6 DEF GroupsExhausted, TypeInv, TypeOK, Modes, locals, source
    <2>2. Outline'
      BY <1>6 DEF GroupsExhausted, TypeInv, Outline, Undisturbed, locals, source, Running
    <2> QED
      BY <2>1, <2>2 DEF TypeInv
  <1> QED
    BY <1>1, <1>2, <1>3, <1>4, <1>5, <1>6

(* PP_if2.scan returns.                                                    *)
LEMMA LeaveTypes ==
  ASSUME TypeInv, NEW q \in Seq(Item), Leave(q),
         Undisturbed /\ ended => q # <<>> /\ q[Len(q)] = Eof
  PROVE  TypeInv'
  <1>1. TypeOK'
    BY EmptySeq DEF Leave, TypeInv, TypeOK, Modes, source
  <1>2. Outline'
    BY DEF Leave, Outline, Undisturbed, source
  <1> QED
    BY <1>1, <1>2 DEF TypeInv

(* The group that is judged is one of those collected.                     *)
LEMMA JudgedGroup ==
  ASSUME TypeInv, Judging
  PROVE  /\ next \in DOMAIN groups /\ Judged \in Group /\ mode = "choose"
         /\ next \in Nat \ {0} /\ DOMAIN groups = 1 .. Len(groups) /\ Len(groups) \in Nat
  <1>1. groups \in Seq(Group) /\ next \in Nat /\ next >= 1 /\ next <= Len(groups)
        /\ mode = "choose"
    BY DEF TypeInv, TypeOK, Outline, Judging, Running
  <1>2. DOMAIN groups = 1 .. Len(groups) /\ Len(groups) \in Nat
    BY <1>1, LenProperties
  <1>3. next \in 1 .. Len(groups)
    BY <1>1, <1>2
  <1> QED
    BY <1>1, <1>2, <1>3, ElementOfSeq DEF Judged

(* A group is pushed back (pushToplevels, PP_if2.java:233).                *)
LEMMA PushedBack ==
  ASSUME NEW q \in Seq(Item), NEW r \in Seq(Item)
  PROVE  /\ q \o r \in Seq(Item)
         /\ r # <<>> => q \o r # <<>> /\ (q \o r)[Len(q \o r)] = r[Len(r)]
  <1>1. /\ q \o r \in Seq(Item) /\ Len(q \o r) = Len(q) + Len(r)
        /\ \A i \in 1 .. Len(q) + Len(r) :
             (q \o r)[i] = IF i <= Len(q) THEN q[i] ELSE r[i - Len(q)]
        /\ Len(q) \in Nat /\ Len(r) \in Nat
    BY ConcatProperties, LenProperties
  <1>2. ASSUME r # <<>> PROVE q \o r # <<>> /\ (q \o r)[Len(q \o r)] = r[Len(r)]
    <2>1. Len(r) > 0
      BY <1>2, EmptySeq
    <2>2. /\ Len(q) + Len(r) \in 1 .. Len(q) + Len(r) /\ ~(Len(q) + Len(r) <= Len(q))
          /\ Len(q) + Len(r) - Len(q) = Len(r)
      BY <1>1, <2>1
    <2>3. q \o r # <<>>
      BY <1>1, <2>1, EmptySeq
    <2> QED
      BY <1>1, <2>2, <2>3
  <1> QED
    BY <1>1, <1>2

(* The loop that judges the groups.                                        *)
LEMMA ChooseTypes ==
  ASSUME TypeInv, FaultyGroup \/ TakeGroup \/ SkipGroup \/ NoGroup
  PROVE  TypeInv'
  <1>0. /\ pend \in Seq(Item)
        /\ Undisturbed /\ ended => pend # <<>> /\ pend[Len(pend)] = Eof
    BY DEF TypeInv, TypeOK, Outline
  <1>1. CASE FaultyGroup
    BY <1>1, RaiseTypes DEF FaultyGroup
  <1>2. CASE TakeGroup
    <2>1. Judged.toks \in Seq(Item)
      BY <1>2, JudgedGroup DEF TakeGroup, Group
    <2> QED
      BY <1>0, <1>2, <2>1, PushedBack, LeaveTypes DEF TakeGroup
  <1>3. CASE SkipGroup
    <2>1. next' = next + 1 /\ next \in Nat
      BY <1>3 DEF SkipGroup, TypeInv, TypeOK
    <2>2. UNCHANGED <<defs, pend, mode, groups, level, open, elseSeen, taken, inc,
                      out, source, err, events>>
      BY <1>3 DEF SkipGroup
    <2>3. TypeOK'
      BY <2>1, <2>2 DEF TypeInv, TypeOK, source
    <2>4. next' >= 1
      BY <2>1
    <2>5. Outline'
      BY <2>2, <2>4 DEF TypeInv, Outline, Undisturbed, source
    <2> QED
      BY <2>3, <2>5 DEF TypeInv
  <1>4. CASE NoGroup
    BY <1>0, <1>4, LeaveTypes DEF NoGroup
  <1> QED
    BY <1>1, <1>2, <1>3, <1>4

(* Every step keeps the types.                                             *)
LEMMA StepTypes == TypeInv /\ [Next]_vars => TypeInv'
  <1> SUFFICES ASSUME TypeInv, [Next]_vars PROVE TypeInv'
    OBVIOUS
  <1>1. CASE Step
    BY <1>1, ReadTypes, GetTypes, NestedTypes, HeadTypes, ChooseTypes DEF Step
  <1>2. CASE UNCHANGED vars
    BY <1>2 DEF vars, locals, source, TypeInv, TypeOK, Outline, Undisturbed
  <1> QED
    BY <1>1, <1>2 DEF Next, Terminating

-----------------------------------------------------------------------------
(* What has been collected.                                                *)

(* One more line has been taken.                                           *)
LEMMA TakenGrows ==
  ASSUME TypeOK, NEW it \in Item, taken' = Append(taken, it)
  PROVE  /\ Len(taken) \in Nat /\ Len(taken') = Len(taken) + 1
         /\ taken' \in Seq(Item) /\ taken'[Len(taken) + 1] = it
         /\ \A j \in 1 .. Len(taken) : taken'[j] = taken[j]
         /\ \A j \in 0 .. Len(taken) : DepthAt(taken', j) = DepthAt(taken, j)
         /\ DepthAt(taken', Len(taken) + 1)
              = DepthAt(taken, Len(taken)) + Weight(it)
         /\ \A p \in 1 .. Len(taken) : HeadAt(p)' <=> HeadAt(p)
         /\ \A p \in {Len(taken) + 1} :
              HeadAt(p)' <=> \/ Len(taken) = 0
                             \/ it.k \in Separators /\ DepthAt(taken', p) = 1
  <1>1. taken \in Seq(Item) /\ Len(taken) \in Nat
    BY LenProperties DEF TypeOK
  <1>2. /\ Len(taken') = Len(taken) + 1
        /\ taken' \in Seq(Item) /\ taken'[Len(taken) + 1] = it
        /\ \A j \in 1 .. Len(taken) : taken'[j] = taken[j]
    BY <1>1, AppendProperties
  <1>3. /\ \A j \in 0 .. Len(taken) : DepthAt(taken', j) = DepthAt(taken, j)
        /\ DepthAt(taken', Len(taken) + 1)
             = DepthAt(taken, Len(taken)) + Weight(it)
    BY <1>1, DepthAppend
  <1>4. \A p \in 1 .. Len(taken) : HeadAt(p)' <=> HeadAt(p)
    BY <1>1, <1>2, <1>3 DEF HeadAt
  <1>5. \A p \in {Len(taken) + 1} :
          HeadAt(p)' <=> \/ Len(taken) = 0
                         \/ it.k \in Separators /\ DepthAt(taken', p) = 1
    BY <1>1, <1>2 DEF HeadAt
  <1> QED
    BY <1>1, <1>2, <1>3, <1>4, <1>5

(* A part of what was taken stays a part of it, and grows by the line.     *)
LEMMA PartGrows ==
  ASSUME TypeOK, NEW it \in Item, NEW a \in 1 .. Len(taken), NEW e \in Int,
         e <= Len(taken)
  PROVE  /\ SubSeq(Append(taken, it), a + 1, e) = SubSeq(taken, a + 1, e)
         /\ SubSeq(Append(taken, it), a + 1, Len(taken) + 1)
              = Append(SubSeq(taken, a + 1, Len(taken)), it)
         /\ SubSeq(Append(taken, it), Len(taken) + 2, Len(taken) + 1) = <<>>
  <1> DEFINE r == Append(taken, it)
             n == Len(taken)
  <1>1. taken \in Seq(Item) /\ n \in Nat /\ a \in Nat \ {0}
    BY LenProperties DEF TypeOK
  <1>2. /\ r \in Seq(Item) /\ Len(r) = n + 1 /\ r[n + 1] = it
        /\ \A j \in 1 .. n : r[j] = taken[j]
    BY <1>1, AppendProperties
  <1>3. (\A j \in 1 .. n : taken[j] \in Item) /\ \A j \in 1 .. n + 1 : r[j] \in Item
    BY <1>1, <1>2, ElementOfSeq
  <1> HIDE DEF r, n
  <1>4. SubSeq(r, a + 1, e) = SubSeq(taken, a + 1, e)
    <2> DEFINE x == SubSeq(r, a + 1, e)
               y == SubSeq(taken, a + 1, e)
    <2>1. (\A j \in a + 1 .. e : taken[j] \in Item /\ r[j] \in Item)
      BY <1>1, <1>2, <1>3 DEF n
    <2>2. /\ x \in Seq(Item) /\ Len(x) = IF a + 1 <= e THEN e - (a + 1) + 1 ELSE 0
          /\ \A j \in 1 .. e - (a + 1) + 1 : x[j] = r[a + 1 + j - 1]
      BY <1>1, <2>1, SubSeqProperties
    <2>3. /\ y \in Seq(Item) /\ Len(y) = IF a + 1 <= e THEN e - (a + 1) + 1 ELSE 0
          /\ \A j \in 1 .. e - (a + 1) + 1 : y[j] = taken[a + 1 + j - 1]
      BY <1>1, <2>1, SubSeqProperties
    <2> HIDE DEF x, y
    <2>4. \A j \in 1 .. Len(x) : x[j] = y[j]
      <3> SUFFICES ASSUME NEW j \in 1 .. Len(x) PROVE x[j] = y[j]
        OBVIOUS
      <3>1. j \in 1 .. e - (a + 1) + 1 /\ a + 1 + j - 1 \in 1 .. n
        BY <1>1, <2>2 DEF n
      <3> QED
        BY <1>2, <2>2, <2>3, <3>1
    <2>5. x = y
      BY <2>2, <2>3, <2>4, SeqEqual
    <2> QED
      BY <2>5 DEF x, y
  <1>5. SubSeq(r, a + 1, n + 1) = Append(SubSeq(taken, a + 1, n), it)
    <2> DEFINE x == SubSeq(r, a + 1, n + 1)
               y == SubSeq(taken, a + 1, n)
               z == Append(y, it)
    <2>1. /\ \A j \in a + 1 .. n + 1 : r[j] \in Item
          /\ \A j \in a + 1 .. n : taken[j] \in Item
      BY <1>1, <1>3
    <2>2. /\ x \in Seq(Item) /\ Len(x) = IF a + 1 <= n + 1 THEN n + 1 - (a + 1) + 1 ELSE 0
          /\ \A j \in 1 .. n + 1 - (a + 1) + 1 : x[j] = r[a + 1 + j - 1]
      BY <1>1, <2>1, SubSeqProperties
    <2>3. /\ y \in Seq(Item) /\ Len(y) = IF a + 1 <= n THEN n - (a + 1) + 1 ELSE 0
          /\ \A j \in 1 .. n - (a + 1) + 1 : y[j] = taken[a + 1 + j - 1]
      BY <1>1, <2>1, SubSeqProperties, SMTT(30)
    <2> HIDE DEF x, y
    <2>4. /\ z \in Seq(Item) /\ Len(z) = Len(y) + 1 /\ z[Len(y) + 1] = it
          /\ \A j \in 1 .. Len(y) : z[j] = y[j]
      BY <2>3, AppendProperties
    <2> HIDE DEF z
    <2>5. a <= n
      BY DEF n
    <2>6. Len(x) = n + 1 - a /\ Len(y) = n - a
      BY <1>1, <2>2, <2>3, <2>5
    <2>7. \A j \in 1 .. Len(x) : x[j] = z[j]
      <3> SUFFICES ASSUME NEW j \in 1 .. Len(x) PROVE x[j] = z[j]
        OBVIOUS
      <3>1. x[j] = r[a + j]
        BY <1>1, <2>2, <2>6
      <3>2. CASE j = Len(x)
        BY <1>1, <1>2, <2>4, <2>6, <3>1, <3>2
      <3>3. CASE j # Len(x)
        <4>1. j \in 1 .. Len(y) /\ a + j \in 1 .. n
          BY <1>1, <2>6, <3>3
        <4>2. y[j] = taken[a + j]
          BY <1>1, <2>3, <2>6, <4>1
        <4> QED
          BY <1>2, <2>4, <3>1, <4>1, <4>2
      <3> QED
        BY <3>2, <3>3
    <2>8. Len(x) = Len(z)
      BY <1>1, <2>4, <2>6
    <2>9. x = z
      BY <2>2, <2>4, <2>7, <2>8, SeqEqual
    <2> QED
      BY <2>9 DEF x, y, z
  <1>6. SubSeq(r, n + 2, n + 1) = <<>>
    BY <1>1, SubSeqEmpty
  <1> QED
    BY <1>4, <1>5, <1>6 DEF r, n

(* The invariant, unfolded in a state in which groups are collected.       *)
LEMMA Gathering ==
  ASSUME TypeInv, Collected, GroupsNest, Undisturbed, mode \in {"groups", "choose"}
  PROVE  /\ TakenNests /\ GroupsCut /\ ElseIsLast /\ JudgedSoFar
         /\ groups \in Seq(Group) /\ groups # <<>> /\ Len(groups) \in Nat \ {0}
         /\ DOMAIN groups = 1 .. Len(groups) /\ taken \in Seq(Item)
         /\ Len(taken) \in Nat \ {0} /\ Inside \in 1 .. Len(taken)
         /\ \A i \in 1 .. Len(groups) :
              groups[i] \in Group /\ groups[i].toks \in Seq(Item)
  <1>1. TakenNests /\ GroupsCut /\ ElseIsLast /\ JudgedSoFar
    BY DEF Collected
  <1>2. groups \in Seq(Group) /\ groups # <<>> /\ taken \in Seq(Item)
    BY DEF TypeInv, TypeOK, Outline
  <1>3. Len(groups) \in Nat \ {0} /\ DOMAIN groups = 1 .. Len(groups) /\ Len(taken) \in Nat
    BY <1>2, EmptySeq, LenProperties
  <1>4. Inside > 0
    BY <1>1 DEF TakenNests
  <1>5. Len(taken) \in Nat \ {0} /\ Inside \in 1 .. Len(taken)
    BY <1>3, <1>4 DEF Inside
  <1>6. \A i \in 1 .. Len(groups) : groups[i] \in Group
    BY <1>2, ElementOfSeq
  <1>7. \A i \in 1 .. Len(groups) : groups[i].toks \in Seq(Item)
    BY <1>6 DEF Group
  <1> QED
    BY <1>1, <1>2, <1>3, <1>5, <1>6, <1>7

(* A line is added to the last group.                                      *)
LEMMA CollectAdds ==
  ASSUME TypeInv, Collected, GroupsNest, Undisturbed, mode = "groups", pend # <<>>,
         AddedToGroup(Cur), level' = level + Weight(Cur), level' >= 0,
         Cur.k \in Separators => level > 0
  PROVE  Collected' /\ GroupsNest'
  <1> DEFINE n == Len(taken)
  <1>1. /\ TakenNests /\ GroupsCut /\ ElseIsLast /\ JudgedSoFar
        /\ groups # <<>> /\ Len(groups) \in Nat \ {0}
        /\ DOMAIN groups = 1 .. Len(groups) /\ Inside = n /\ n \in Nat \ {0}
        /\ \A i \in 1 .. Len(groups) :
             groups[i] \in Group /\ groups[i].toks \in Seq(Item)
    BY Gathering DEF Inside
  <1>2. Cur \in Item
    BY Popped DEF TypeInv
  <1>3. /\ taken' = Append(taken, Cur) /\ mode' = "groups" /\ events' = events
        /\ next' = next /\ elseSeen' = elseSeen /\ defs' = defs
    BY DEF AddedToGroup
  <1>4. /\ groups' \in Seq(Group) /\ Len(groups') = Len(groups)
        /\ \A i \in 1 .. Len(groups) :
             groups'[i] = IF i = Len(groups)
                          THEN [groups[i] EXCEPT !.toks = Append(@, Cur)]
                          ELSE groups[i]
    BY <1>1, LineAdded DEF TypeInv
  <1>5. DOMAIN groups' = 1 .. Len(groups)
    BY <1>4, LenProperties
  <1>6. \A i \in 1 .. Len(groups) :
          /\ groups'[i].at = groups[i].at /\ groups'[i].line = groups[i].line
          /\ i < Len(groups) => groups'[i].toks = groups[i].toks
          /\ i = Len(groups) => groups'[i].toks = Append(groups[i].toks, Cur)
    <2> SUFFICES ASSUME NEW i \in 1 .. Len(groups)
                 PROVE  /\ groups'[i].at = groups[i].at /\ groups'[i].line = groups[i].line
                        /\ i < Len(groups) => groups'[i].toks = groups[i].toks
                        /\ i = Len(groups) => groups'[i].toks = Append(groups[i].toks, Cur)
      OBVIOUS
    <2>1. groups[i] \in [line : Line, stolen : Seq(Item), toks : Seq(Item), at : Nat \ {0}]
      BY <1>1 DEF Group
    <2>2. CASE i = Len(groups)
      <3>1. groups'[i] = [groups[i] EXCEPT !.toks = Append(@, Cur)]
        BY <1>4, <2>2
      <3> QED
        BY <2>1, <2>2, <3>1
    <2>3. CASE i # Len(groups)
      BY <1>4, <2>3
    <2> QED
      BY <2>2, <2>3
  <1>7. /\ Len(taken') = n + 1 /\ taken'[n + 1] = Cur
        /\ \A j \in 1 .. n : taken'[j] = taken[j]
        /\ \A j \in 0 .. n : DepthAt(taken', j) = DepthAt(taken, j)
        /\ DepthAt(taken', n + 1) = DepthAt(taken, n) + Weight(Cur)
        /\ \A p \in 1 .. n : HeadAt(p)' <=> HeadAt(p)
        /\ \A p \in {n + 1} :
              HeadAt(p)' <=> \/ n = 0
                             \/ Cur.k \in Separators /\ DepthAt(taken', p) = 1
    BY <1>2, <1>3, TakenGrows DEF TypeInv
  <1>8. Inside' = n + 1 /\ level \in Nat
    BY <1>3, <1>7 DEF Inside, TypeInv, TypeOK
  <1>9. DepthAt(taken, n) = level + 1 /\ DepthAt(taken', n + 1) = level' + 1
    <2>1. DepthAt(taken, n) = level + 1
      BY <1>1 DEF TakenNests
    <2>2. Weight(Cur) \in Int
      BY DEF Weight
    <2> QED
      BY <1>7, <1>8, <2>1, <2>2
  <1>0. /\ Len(groups) \in Nat /\ 1 \in 1 .. Len(groups) /\ n \in Nat \ {0}
        /\ \A i \in 1 .. Len(groups) : i < Len(groups) \/ i = Len(groups)
    <2>1. Len(groups) \in Nat \ {0} /\ n \in Nat \ {0}
      BY <1>1
    <2> QED
      BY <2>1
  <1> HIDE DEF n
  <1>10. TakenNests'
    <2>1. taken'[1] = taken[1] /\ taken[1].k \in Openers
      BY <1>1, <1>7 DEF TakenNests
    <2>2. \A j \in 1 .. n + 1 : DepthAt(taken', j) >= 1
      BY <1>1, <1>7, <1>8, <1>9 DEF TakenNests
    <2> QED
      BY <1>1, <1>3, <1>7, <1>8, <1>9, <2>1, <2>2 DEF TakenNests
  <1>11. \A p \in {n + 1} : ~HeadAt(p)'
    <2>1. Cur.k \in Separators => Weight(Cur) = 0
      BY DEF Weight, Separators, Openers
    <2> QED
      BY <1>1, <1>7, <1>8, <1>9, <2>1
  <1>12. \A i \in 1 .. Len(groups) :
           groups'[i].toks = SubSeq(taken', groups'[i].at + 1, EndOf(i)' - 1)
    <2> SUFFICES ASSUME NEW i \in 1 .. Len(groups)
                 PROVE  groups'[i].toks = SubSeq(taken', groups'[i].at + 1, EndOf(i)' - 1)
      OBVIOUS
    <2>1. groups[i].at \in 1 .. n /\ groups[i].toks = SubSeq(taken, groups[i].at + 1, EndOf(i) - 1)
      BY <1>1 DEF GroupsCut
    <2>2. CASE i < Len(groups)
      <3>1. i + 1 \in 1 .. Len(groups)
        BY <1>1, <2>2
      <3>2. EndOf(i) = groups[i + 1].at /\ EndOf(i)' = groups[i + 1].at
        BY <1>4, <1>6, <2>2, <3>1 DEF EndOf
      <3>3. groups[i + 1].at \in 1 .. n
        BY <1>1, <3>1 DEF GroupsCut
      <3>4. EndOf(i) - 1 \in Int /\ EndOf(i) - 1 <= n
        BY <1>1, <3>2, <3>3
      <3>5. SubSeq(taken', groups[i].at + 1, EndOf(i) - 1) = SubSeq(taken, groups[i].at + 1, EndOf(i) - 1)
        BY <1>2, <1>3, <2>1, <3>4, PartGrows DEF n, TypeInv
      <3> QED
        BY <1>6, <2>1, <2>2, <3>2, <3>5
    <2>3. CASE i = Len(groups)
      <3>1. EndOf(i) - 1 = n /\ EndOf(i)' - 1 = n + 1
        BY <1>1, <1>4, <1>8, <2>3 DEF EndOf
      <3>2. n \in Int /\ n <= Len(taken)
        BY <1>1 DEF n
      <3>3. SubSeq(taken', groups[i].at + 1, n + 1)
              = Append(SubSeq(taken, groups[i].at + 1, n), Cur)
        BY <1>2, <1>3, <2>1, <3>2, PartGrows DEF n, TypeInv
      <3> QED
        BY <1>6, <2>1, <2>3, <3>1, <3>3
    <2> QED
      BY <1>0, <2>2, <2>3
  <1>13. GroupsCut'
    <2>1. groups'[1].at = 1
      BY <1>0, <1>1, <1>6 DEF GroupsCut
    <2>2. \A i \in 1 .. Len(groups) :
            /\ groups[i].at \in 1 .. n /\ HeadAt(groups[i].at)
            /\ groups[i].line = taken[groups[i].at] /\ ~Bare(groups[i].line)
      BY <1>1 DEF GroupsCut
    <2>3. \A i \in 1 .. Len(groups) :
            /\ groups'[i].at \in 1 .. n + 1
            /\ groups'[i].line = taken'[groups'[i].at] /\ ~Bare(groups'[i].line)
      BY <1>0, <1>6, <1>7, <2>2, SMTT(30)
    <2>4. \A i \in 1 .. Len(groups) : HeadAt(groups[i].at)'
      <3> SUFFICES ASSUME NEW i \in 1 .. Len(groups), NEW p \in 1 .. n,
                          p = groups'[i].at
                   PROVE  HeadAt(p)'
        BY <1>6, <2>2
      <3> QED
        BY <1>6, <1>7, <2>2
    <2>5. \A i, j \in 1 .. Len(groups) : i < j => groups'[i].at < groups'[j].at
      BY <1>1, <1>6 DEF GroupsCut
    <2>6. \A p \in 1 .. n + 1 :
            HeadAt(p)' => \E i \in 1 .. Len(groups) : groups'[i].at = p
      <3> SUFFICES ASSUME NEW p \in 1 .. n + 1, HeadAt(p)'
                   PROVE  \E i \in 1 .. Len(groups) : groups'[i].at = p
        OBVIOUS
      <3>1. p \in 1 .. n /\ HeadAt(p)
        BY <1>1, <1>7, <1>11
      <3>2. PICK i \in 1 .. Len(groups) : groups[i].at = p
        BY <1>1, <3>1 DEF GroupsCut
      <3> QED
        BY <1>6, <3>2
    <2> QED
      BY <1>5, <1>8, <1>12, <2>1, <2>3, <2>4, <2>5, <2>6 DEF GroupsCut
  <1>14. ElseIsLast'
    BY <1>1, <1>3, <1>4, <1>5, <1>6 DEF ElseIsLast
  <1>15. JudgedSoFar'
    BY <1>1, <1>3, <1>4, <1>6 DEF JudgedSoFar
  <1>16. Collected'
    BY <1>10, <1>13, <1>14, <1>15 DEF Collected
  <1>17. GroupsNest'
    <2> SUFFICES ASSUME NEW i \in 1 .. Len(groups)
                 PROVE  LET q == groups'[i].toks
                        IN /\ \A j \in 1 .. Len(q) : DepthAt(q, j) >= 0
                           /\ DepthAt(q, Len(q)) = IF i < Len(groups) THEN 0 ELSE level'
      BY <1>3, <1>4, <1>5 DEF GroupsNest
    <2> DEFINE q == groups[i].toks
    <2>1. /\ \A j \in 1 .. Len(q) : DepthAt(q, j) >= 0
          /\ DepthAt(q, Len(q)) = IF i < Len(groups) THEN 0 ELSE level
      BY <1>1 DEF GroupsNest
    <2>2. CASE i < Len(groups)
      BY <1>6, <2>1, <2>2
    <2>3. CASE i = Len(groups)
      <3> DEFINE r == Append(q, Cur)
      <3>1. q \in Seq(Item) /\ Len(q) \in Nat
        BY <1>1, LenProperties
      <3> HIDE DEF q
      <3>2. /\ \A j \in 0 .. Len(q) : DepthAt(r, j) = DepthAt(q, j)
            /\ DepthAt(r, Len(q) + 1) = DepthAt(q, Len(q)) + Weight(Cur)
            /\ Len(r) = Len(q) + 1
        BY <1>2, <3>1, DepthAppend, AppendProperties
      <3>3. groups'[i].toks = r
        BY <1>6, <2>3 DEF q
      <3> HIDE DEF r
      <3>4. DepthAt(r, Len(q) + 1) = level'
        BY <2>1, <2>3, <3>2 DEF q
      <3>5. \A j \in 1 .. Len(r) : DepthAt(r, j) >= 0
        <4> SUFFICES ASSUME NEW j \in 1 .. Len(r) PROVE DepthAt(r, j) >= 0
          OBVIOUS
        <4>1. CASE j = Len(q) + 1
          BY <3>4, <4>1
        <4>2. CASE j # Len(q) + 1
          <5>1. j \in 1 .. Len(q)
            BY <3>1, <3>2, <4>2
          <5> QED
            BY <2>1, <3>2, <5>1
        <4> QED
          BY <4>1, <4>2
      <3> QED
        BY <2>3, <3>2, <3>3, <3>4, <3>5
    <2> QED
      BY <1>0, <2>2, <2>3
  <1> QED
    BY <1>16, <1>17

(* A new group is begun by an #elif or an #else.                           *)
LEMMA CollectBegins ==
  ASSUME TypeInv, Collected, GroupsNest, Undisturbed, mode = "groups", pend # <<>>,
         level = 0, ~elseSeen, Cur.k \in Separators, Cur \in Line, ~Bare(Cur),
         taken' = Append(taken, Cur), mode' = "groups", defs' = defs,
         groups' = Append(groups, NewGroup(Cur, Len(taken) + 1)),
         level' = level, next' = next, elseSeen' = (Cur.k = "else")
  PROVE  Collected' /\ GroupsNest'
  <1> DEFINE n == Len(taken)
             m == Len(groups)
             g == NewGroup(Cur, n + 1)
  <1>1. /\ TakenNests /\ GroupsCut /\ ElseIsLast /\ JudgedSoFar
        /\ DOMAIN groups = 1 .. m /\ Inside = n
    BY Gathering DEF Inside
  <1>2. Cur \in Item
    BY Popped DEF TypeInv
  <1>3. /\ n \in Nat \ {0} /\ m \in Nat \ {0} /\ groups \in Seq(Group)
    BY Gathering
  <1>4. /\ g \in Group /\ g.at = n + 1 /\ g.line = Cur /\ g.toks = <<>>
    BY <1>3, GroupBegun DEF NewGroup, TypeInv
  <1>5. /\ groups' = Append(groups, g)
    OBVIOUS
  <1> HIDE DEF g
  <1>6. /\ groups' \in Seq(Group) /\ Len(groups') = m + 1 /\ groups'[m + 1] = g
        /\ \A i \in 1 .. m : groups'[i] = groups[i]
    BY <1>3, <1>4, <1>5, AppendProperties
  <1>7. DOMAIN groups' = 1 .. m + 1
    BY <1>6, LenProperties
  <1>8. /\ Len(taken') = n + 1 /\ taken'[n + 1] = Cur
        /\ \A j \in 1 .. n : taken'[j] = taken[j]
        /\ \A j \in 0 .. n : DepthAt(taken', j) = DepthAt(taken, j)
        /\ DepthAt(taken', n + 1) = DepthAt(taken, n) + Weight(Cur)
        /\ \A p \in 1 .. n : HeadAt(p)' <=> HeadAt(p)
        /\ \A p \in {n + 1} :
              HeadAt(p)' <=> \/ n = 0
                             \/ Cur.k \in Separators /\ DepthAt(taken', p) = 1
    BY <1>2, TakenGrows DEF TypeInv
  <1>9. Inside' = n + 1
    BY <1>8 DEF Inside
  <1>10. DepthAt(taken', n + 1) = 1
    <2>1. DepthAt(taken, n) = 1
      BY <1>1 DEF TakenNests
    <2>2. Weight(Cur) = 0
      BY DEF Weight, Separators, Openers
    <2> QED
      BY <1>8, <2>1, <2>2
  <1>0. /\ 1 \in 1 .. m /\ m + 1 \in 1 .. m + 1 /\ n + 1 \in 1 .. n + 1
        /\ \A i \in 1 .. m + 1 : i \in 1 .. m \/ i = m + 1
        /\ \A p \in 1 .. n + 1 : p \in 1 .. n \/ p = n + 1
    BY <1>3
  <1> HIDE DEF n, m
  <1>11. TakenNests'
    <2>1. taken'[1] = taken[1] /\ taken[1].k \in Openers
      BY <1>1, <1>3, <1>8 DEF TakenNests
    <2>2. \A j \in 1 .. n + 1 : DepthAt(taken', j) >= 1
      <3>1. \A j \in 1 .. n : DepthAt(taken, j) >= 1
        BY <1>1 DEF TakenNests
      <3> QED
        BY <1>0, <1>3, <1>8, <1>10, <3>1
    <2> QED
      BY <1>3, <1>8, <1>9, <1>10, <2>1, <2>2 DEF TakenNests
  <1>12. \A i \in 1 .. m : EndOf(i)' = EndOf(i) /\ EndOf(i) - 1 \in Int /\ EndOf(i) - 1 <= n
    <2> SUFFICES ASSUME NEW i \in 1 .. m
                 PROVE  EndOf(i)' = EndOf(i) /\ EndOf(i) - 1 \in Int /\ EndOf(i) - 1 <= n
      OBVIOUS
    <2>1. CASE i < m
      <3>1. i + 1 \in 1 .. m
        BY <1>3, <2>1
      <3>2. EndOf(i) = groups[i + 1].at /\ EndOf(i)' = groups[i + 1].at
        BY <1>3, <1>6, <2>1, <3>1 DEF EndOf, m
      <3>3. groups[i + 1].at \in 1 .. n
        BY <1>1, <3>1 DEF GroupsCut
      <3> QED
        BY <1>3, <3>2, <3>3
    <2>2. CASE i = m
      BY <1>1, <1>3, <1>4, <1>6, <2>2 DEF EndOf, m
    <2> QED
      BY <1>3, <2>1, <2>2
  <1>13. \A i \in {m + 1} : EndOf(i)' = n + 2
    BY <1>3, <1>6, <1>9 DEF EndOf
  <1>14. \A i \in 1 .. m :
           /\ groups[i].at \in 1 .. n /\ HeadAt(groups[i].at)
           /\ groups[i].line = taken[groups[i].at] /\ ~Bare(groups[i].line)
           /\ groups[i].toks = SubSeq(taken, groups[i].at + 1, EndOf(i) - 1)
    BY <1>1 DEF GroupsCut
  <1>15. \A i \in 1 .. m + 1 :
           groups'[i].toks = SubSeq(taken', groups'[i].at + 1, EndOf(i)' - 1)
    <2> SUFFICES ASSUME NEW i \in 1 .. m + 1
                 PROVE  groups'[i].toks = SubSeq(taken', groups'[i].at + 1, EndOf(i)' - 1)
      OBVIOUS
    <2>1. CASE i \in 1 .. m
      <3>1. SubSeq(taken', groups[i].at + 1, EndOf(i) - 1) = SubSeq(taken, groups[i].at + 1, EndOf(i) - 1)
        BY <1>2, <1>12, <1>14, <2>1, PartGrows DEF n, TypeInv
      <3> QED
        BY <1>6, <1>12, <1>14, <2>1, <3>1
    <2>2. CASE i = m + 1
      <3>2. groups'[i].toks = <<>> /\ groups'[i].at = n + 1
        BY <1>4, <1>6, <2>2
      <3>3. EndOf(i)' = n + 2
        BY <1>13, <2>2
      <3>4. SubSeq(taken', (n + 1) + 1, (n + 2) - 1) = <<>>
        <4>1. (n + 1) + 1 \in Int /\ (n + 2) - 1 \in Int /\ (n + 2) - 1 < (n + 1) + 1
          BY <1>3
        <4> QED
          BY <4>1, SubSeqEmpty
      <3>5. SubSeq(taken', groups'[i].at + 1, EndOf(i)' - 1) = <<>>
        BY <3>2, <3>3, <3>4
      <3> QED
        BY <3>2, <3>5
    <2> QED
      BY <1>0, <2>1, <2>2
  <1>16. GroupsCut'
    <2>1. groups'[1].at = 1
      BY <1>0, <1>1, <1>6 DEF GroupsCut
    <2>2. \A i \in 1 .. m + 1 :
            /\ groups'[i].at \in 1 .. n + 1
            /\ groups'[i].line = taken'[groups'[i].at] /\ ~Bare(groups'[i].line)
      <3>1. \A i \in 1 .. m :
              /\ groups'[i].at \in 1 .. n + 1
              /\ groups'[i].line = taken'[groups'[i].at] /\ ~Bare(groups'[i].line)
        BY <1>0, <1>3, <1>6, <1>8, <1>14
      <3>2. /\ groups'[m + 1].at \in 1 .. n + 1
            /\ groups'[m + 1].line = taken'[groups'[m + 1].at] /\ ~Bare(groups'[m + 1].line)
        BY <1>0, <1>4, <1>6, <1>8
      <3> QED
        BY <1>0, <3>1, <3>2
    <2>3. \A i \in 1 .. m + 1 : HeadAt(groups[i].at)'
      <3> SUFFICES ASSUME NEW i \in 1 .. m + 1, NEW p, p = groups'[i].at
                   PROVE  HeadAt(p)'
        OBVIOUS
      <3>1. CASE i \in 1 .. m
        BY <1>6, <1>8, <1>14, <3>1
      <3>2. CASE i = m + 1
        <4>1. p \in {n + 1}
          BY <1>4, <1>6, <3>2
        <4> QED
          BY <1>8, <1>10, <4>1
      <3> QED
        BY <1>0, <3>1, <3>2
    <2>4. \A i, j \in 1 .. m + 1 : i < j => groups'[i].at < groups'[j].at
      <3> SUFFICES ASSUME NEW i \in 1 .. m + 1, NEW j \in 1 .. m + 1, i < j
                   PROVE  groups'[i].at < groups'[j].at
        OBVIOUS
      <3>1. i \in 1 .. m
        BY <1>3
      <3>2. CASE j \in 1 .. m
        BY <1>1, <1>6, <3>1, <3>2 DEF GroupsCut
      <3>3. CASE j = m + 1
        BY <1>3, <1>4, <1>6, <1>14, <3>1, <3>3
      <3> QED
        BY <1>0, <3>2, <3>3
    <2>5. \A p \in 1 .. n + 1 :
            HeadAt(p)' => \E i \in 1 .. m + 1 : groups'[i].at = p
      <3> SUFFICES ASSUME NEW p \in 1 .. n + 1, HeadAt(p)'
                   PROVE  \E i \in 1 .. m + 1 : groups'[i].at = p
        OBVIOUS
      <3>1. CASE p \in 1 .. n
        <4>1. PICK i \in 1 .. m : groups[i].at = p
          BY <1>1, <1>8, <3>1 DEF GroupsCut
        <4>2. i \in 1 .. m + 1 /\ groups'[i].at = p
          BY <1>3, <1>6, <4>1
        <4> QED
          BY <4>2
      <3>2. CASE p = n + 1
        BY <1>0, <1>4, <1>6, <3>2
      <3> QED
        BY <1>0, <3>1, <3>2
    <2> QED
      BY <1>7, <1>9, <1>15, <2>1, <2>2, <2>3, <2>4, <2>5 DEF GroupsCut
  <1>17. ElseIsLast'
    <2>1. \A i \in 1 .. m : groups'[i].line.k # "else"
      BY <1>1, <1>6 DEF ElseIsLast
    <2>2. elseSeen' <=> groups'[m + 1].line.k = "else"
      BY <1>4, <1>6
    <2> QED
      BY <1>0, <1>6, <1>7, <2>1, <2>2 DEF ElseIsLast
  <1>18. JudgedSoFar'
    <2>1. next = 1
      BY <1>1 DEF JudgedSoFar
    <2> QED
      BY <1>3, <1>6, <2>1 DEF JudgedSoFar
  <1>19. Collected'
    BY <1>11, <1>16, <1>17, <1>18 DEF Collected
  <1>20. GroupsNest'
    <2> SUFFICES ASSUME NEW i \in 1 .. m + 1
                 PROVE  LET q == groups'[i].toks
                        IN /\ \A j \in 1 .. Len(q) : DepthAt(q, j) >= 0
                           /\ DepthAt(q, Len(q)) = 0
      BY <1>6, <1>7 DEF GroupsNest
    <2>1. CASE i \in 1 .. m
      BY <1>1, <1>6, <2>1 DEF GroupsNest
    <2>2. CASE i = m + 1
      BY <1>4, <1>6, <2>2, DepthZero, EmptySeq
    <2> QED
      BY <1>0, <2>1, <2>2
  <1> QED
    BY <1>19, <1>20

(* The #endif of the conditional is met.                                   *)
LEMMA CollectCloses ==
  ASSUME TypeInv, Collected, GroupsNest, Undisturbed, Endif
  PROVE  Collected' /\ GroupsNest'
  <1> DEFINE n == Len(taken)
  <1>0. /\ mode = "groups" /\ pend # <<>> /\ Cur.k = "endif" /\ level = 0
        /\ taken' = Append(taken, Cur) /\ mode' = "choose"
        /\ UNCHANGED <<defs, groups, level, elseSeen, next, events>>
    BY DEF Endif, Running, At
  <1>1. /\ TakenNests /\ GroupsCut /\ ElseIsLast /\ JudgedSoFar
        /\ DOMAIN groups = 1 .. Len(groups) /\ Inside = n
        /\ n \in Nat \ {0} /\ Len(groups) \in Nat \ {0}
    BY <1>0, Gathering DEF Inside
  <1>2. Cur \in Item
    BY <1>0, Popped DEF TypeInv
  <1>3. /\ Len(taken') = n + 1 /\ taken'[n + 1] = Cur
        /\ \A j \in 1 .. n : taken'[j] = taken[j]
        /\ \A j \in 0 .. n : DepthAt(taken', j) = DepthAt(taken, j)
        /\ DepthAt(taken', n + 1) = DepthAt(taken, n) + Weight(Cur)
        /\ \A p \in 1 .. n : HeadAt(p)' <=> HeadAt(p)
    BY <1>0, <1>2, TakenGrows DEF TypeInv
  <1>4. Inside' = n
    BY <1>0, <1>1, <1>3 DEF Inside
  <1>5. DepthAt(taken', n + 1) = 0
    <2>1. DepthAt(taken, n) = 1
      BY <1>0, <1>1 DEF TakenNests
    <2>2. Weight(Cur) = -1
      BY <1>0 DEF Weight, Openers
    <2> QED
      BY <1>3, <2>1, <2>2
  <1> HIDE DEF n
  <1>6. TakenNests'
    <2>1. taken'[1] = taken[1] /\ taken[1].k \in Openers
      BY <1>1, <1>3 DEF TakenNests
    <2>2. \A j \in 1 .. n : DepthAt(taken', j) >= 1
      BY <1>1, <1>3 DEF TakenNests
    <2> QED
      BY <1>0, <1>1, <1>3, <1>4, <1>5, <2>1, <2>2 DEF TakenNests
  <1>7. \A i \in 1 .. Len(groups) : EndOf(i)' = EndOf(i)
    BY <1>0, <1>1, <1>4 DEF EndOf
  <1>8. \A i \in 1 .. Len(groups) :
          /\ groups[i].at \in 1 .. n /\ HeadAt(groups[i].at)
          /\ groups[i].line = taken[groups[i].at] /\ ~Bare(groups[i].line)
          /\ groups[i].toks = SubSeq(taken, groups[i].at + 1, EndOf(i) - 1)
    BY <1>1 DEF GroupsCut
  <1>9. \A i \in 1 .. Len(groups) :
          groups[i].toks = SubSeq(taken', groups[i].at + 1, EndOf(i)' - 1)
    <2> SUFFICES ASSUME NEW i \in 1 .. Len(groups)
                 PROVE  groups[i].toks = SubSeq(taken', groups[i].at + 1, EndOf(i)' - 1)
      OBVIOUS
    <2>1. EndOf(i) - 1 \in Int /\ EndOf(i) - 1 <= n
      <3>1. CASE i < Len(groups)
        <4>1. i + 1 \in 1 .. Len(groups)
          BY <1>1, <3>1
        <4> QED
          BY <1>1, <1>8, <3>1, <4>1 DEF EndOf
      <3>2. CASE ~(i < Len(groups))
        BY <1>1, <3>2 DEF EndOf
      <3> QED
        BY <3>1, <3>2
    <2>2. SubSeq(taken', groups[i].at + 1, EndOf(i) - 1) = SubSeq(taken, groups[i].at + 1, EndOf(i) - 1)
      BY <1>0, <1>2, <1>8, <2>1, PartGrows DEF n, TypeInv
    <2> QED
      BY <1>7, <1>8, <2>2
  <1>10. \A i \in 1 .. Len(groups) : HeadAt(groups[i].at)'
    <2> SUFFICES ASSUME NEW i \in 1 .. Len(groups), NEW p \in 1 .. n, p = groups[i].at
                 PROVE  HeadAt(p)'
      BY <1>0, <1>8
    <2> QED
      BY <1>3, <1>8
  <1>11. GroupsCut'
    <2>1. \A i \in 1 .. Len(groups) : groups[i].line = taken'[groups[i].at]
      BY <1>3, <1>8
    <2>2. \A p \in 1 .. n : HeadAt(p)' => \E i \in 1 .. Len(groups) : groups[i].at = p
      BY <1>1, <1>3 DEF GroupsCut
    <2>3. groups[1].at = 1 /\ \A i, j \in 1 .. Len(groups) : i < j => groups[i].at < groups[j].at
      BY <1>1 DEF GroupsCut
    <2> QED
      BY <1>0, <1>1, <1>4, <1>8, <1>9, <1>10, <2>1, <2>2, <2>3 DEF GroupsCut
  <1>12. ElseIsLast' /\ JudgedSoFar'
    BY <1>0, <1>1 DEF ElseIsLast, JudgedSoFar
  <1>13. Collected'
    BY <1>6, <1>11, <1>12 DEF Collected
  <1>14. GroupsNest'
    BY <1>0, <1>1 DEF GroupsNest
  <1> QED
    BY <1>13, <1>14

(* The #if itself.                                                         *)
LEMMA CollectStarts ==
  ASSUME TypeInv, StartIf, ~Bare(Cur)
  PROVE  Collected' /\ GroupsNest'
  <1> DEFINE g == NewGroup(Cur, 1)
  <1>0. /\ Cur.k \in Openers /\ mode' = "groups" /\ groups' = <<g>>
        /\ taken' = <<Cur>> /\ level' = 0 /\ next' = 1 /\ elseSeen' = FALSE
    BY DEF StartIf, At
  <1>1. g.at = 1 /\ g.line = Cur /\ g.toks = <<>>
    BY DEF NewGroup
  <1> HIDE DEF g
  <1>2. /\ Len(groups') = 1 /\ groups'[1] = g /\ DOMAIN groups' = 1 .. 1
        /\ Len(taken') = 1 /\ taken'[1] = Cur /\ Inside' = 1
    BY <1>0 DEF Inside
  <1>3. DepthAt(taken', 1) = 1
    <2>1. DepthAt(taken', 0 + 1) = DepthAt(taken', 0) + Weight(taken'[0 + 1])
      BY DepthNext
    <2>2. DepthAt(taken', 0) = 0 /\ Weight(Cur) = 1
      BY <1>0, DepthZero DEF Weight
    <2> QED
      BY <1>2, <2>1, <2>2
  <1>4. TakenNests'
    BY <1>0, <1>2, <1>3 DEF TakenNests
  <1>5. \A i \in 1 .. 1 : EndOf(i)' = 2
    BY <1>2 DEF EndOf
  <1>7. \A i \in 1 .. 1 :
          groups'[i].toks = SubSeq(taken', groups'[i].at + 1, EndOf(i)' - 1)
    <2> SUFFICES ASSUME NEW i \in 1 .. 1
                 PROVE  groups'[i].toks = SubSeq(taken', groups'[i].at + 1, EndOf(i)' - 1)
      OBVIOUS
    <2>1. groups'[i].at = 1 /\ groups'[i].toks = <<>> /\ EndOf(i)' = 2
      BY <1>1, <1>2, <1>5
    <2>2. SubSeq(taken', groups'[i].at + 1, EndOf(i)' - 1) = <<>>
      BY <2>1, SubSeqEmpty
    <2> QED
      BY <2>1, <2>2
  <1>8. \A p \in 1 .. 1 : HeadAt(p)'
    BY DEF HeadAt
  <1>9. GroupsCut'
    <2>1. \A i \in 1 .. 1 : i = 1
      OBVIOUS
    <2>2. \A i \in 1 .. 1 : HeadAt(groups[i].at)'
      <3> SUFFICES ASSUME NEW i \in 1 .. 1, NEW p, p = groups'[i].at PROVE HeadAt(p)'
        OBVIOUS
      <3> QED
        BY <1>1, <1>2, <1>8, <2>1
    <2>3. \A i \in 1 .. 1 :
            /\ groups'[i].at \in 1 .. 1
            /\ groups'[i].line = taken'[groups'[i].at] /\ ~Bare(groups'[i].line)
            /\ groups'[i].toks = SubSeq(taken', groups'[i].at + 1, EndOf(i)' - 1)
      BY <1>1, <1>2, <1>7, <2>1
    <2>4. \A p \in 1 .. 1 : \E i \in 1 .. 1 : groups'[i].at = p
      BY <1>1, <1>2
    <2> QED
      BY <1>1, <1>2, <2>2, <2>3, <2>4 DEF GroupsCut
  <1>10. ElseIsLast' /\ JudgedSoFar'
    BY <1>0, <1>1, <1>2 DEF ElseIsLast, JudgedSoFar, Openers
  <1>11. Collected'
    BY <1>4, <1>9, <1>10 DEF Collected
  <1>12. GroupsNest'
    <2>1. Len(g.toks) = 0 /\ DepthAt(g.toks, 0) = 0
      BY <1>1, DepthZero, EmptySeq
    <2> QED
      BY <1>0, <1>2, <2>1 DEF GroupsNest
  <1> QED
    BY <1>11, <1>12

(* A group that is not wanted is passed over.                              *)
LEMMA CollectSkips ==
  ASSUME TypeInv, Collected, GroupsNest, Undisturbed, SkipGroup
  PROVE  Collected' /\ GroupsNest'
  <1>0. /\ mode = "choose" /\ next' = next + 1
        /\ UNCHANGED <<defs, mode, groups, level, elseSeen, taken, events>>
        /\ ~GroupFaulty(Judged) /\ ~GroupHolds(Judged)
    BY DEF SkipGroup, Judging, Running
  <1>1. /\ TakenNests /\ GroupsCut /\ ElseIsLast /\ JudgedSoFar
        /\ DOMAIN groups = 1 .. Len(groups)
    BY <1>0, Gathering
  <1>2. next \in 1 .. Len(groups) /\ next \in Nat /\ Len(groups) \in Nat
    BY JudgedGroup DEF SkipGroup
  <1>3. ~Faulty(groups[next].line) /\ ~Holds(groups[next].line, defs)
    <2>1. ~Bare(groups[next].line)
      BY <1>1, <1>2 DEF GroupsCut
    <2> QED
      BY <1>0, <2>1 DEF GroupFaulty, GroupHolds, Judged
  <1>4. JudgedSoFar'
    <2>1. \A i \in 1 .. next - 1 : ~Faulty(groups[i].line) /\ ~Holds(groups[i].line, defs)
      BY <1>1 DEF JudgedSoFar
    <2>2. \A i \in 1 .. next : ~Faulty(groups[i].line) /\ ~Holds(groups[i].line, defs)
      BY <1>2, <1>3, <2>1
    <2>3. next' - 1 = next /\ next' <= Len(groups) + 1
      BY <1>0, <1>2
    <2> QED
      BY <1>0, <2>2, <2>3 DEF JudgedSoFar
  <1>5. TakenNests'
    BY <1>0, <1>1 DEF TakenNests, Inside
  <1>6. GroupsCut'
    BY <1>0, <1>1 DEF GroupsCut, EndOf, Inside, HeadAt
  <1>7. ElseIsLast'
    BY <1>0, <1>1 DEF ElseIsLast
  <1>8. GroupsNest'
    BY <1>0 DEF GroupsNest, Undisturbed
  <1> QED
    BY <1>4, <1>5, <1>6, <1>7, <1>8 DEF Collected

(* A step that leaves the groups and the definitions alone.                *)
LEMMA CollectKept ==
  ASSUME Collected, GroupsNest, UNCHANGED <<mode, locals, events>>,
         UNCHANGED defs \/ mode = "get"
  PROVE  Collected' /\ GroupsNest'
  <1>1. GroupsNest'
    BY DEF GroupsNest, Undisturbed, locals
  <1>2. CASE mode = "get"
    BY <1>1, <1>2 DEF Collected
  <1>3. CASE UNCHANGED defs /\ mode # "get"
    <2>1. (TakenNests <=> TakenNests') /\ (ElseIsLast <=> ElseIsLast')
          /\ (JudgedSoFar <=> JudgedSoFar')
      BY <1>3 DEF TakenNests, Inside, ElseIsLast, JudgedSoFar, locals
    <2>2. GroupsCut <=> GroupsCut'
      BY <1>3 DEF GroupsCut, EndOf, Inside, HeadAt, locals
    <2> QED
      BY <1>1, <2>1, <2>2 DEF Collected, Undisturbed
  <1> QED
    BY <1>2, <1>3

(* What has happened has happened. *)
LEMMA EventsKept ==
  ASSUME Step
  PROVE  events \subseteq events'
  <1>1. CASE ReadLine \/ ReadEnd \/ StreamBegin \/ StreamEnd
    BY <1>1 DEF ReadLine, ReadEnd, StreamBegin, StreamEnd, Raise, Leave, AddedToGroup
  <1>2. CASE EmitText \/ Define \/ Include
    BY <1>2 DEF EmitText, Define, Include, Raise, Leave, AddedToGroup
  <1>3. CASE NullDirective \/ Stray \/ StartIf
    BY <1>3 DEF NullDirective, Stray, StartIf, Raise, Leave, AddedToGroup
  <1>4. CASE GroupNull \/ NestedIf
    BY <1>4 DEF GroupNull, NestedIf, Raise, Leave, AddedToGroup
  <1>5. CASE NestedSeparator \/ ConditionTakes \/ ConditionEnds
    BY <1>5 DEF NestedSeparator, ConditionTakes, ConditionEnds, Raise, Leave, AddedToGroup
  <1>6. CASE Elif
    BY <1>6 DEF Elif, Raise, Leave, AddedToGroup
  <1>7. CASE Else
    BY <1>7 DEF Else, Raise, Leave, AddedToGroup
  <1>8. CASE NestedEndif \/ Endif
    BY <1>8 DEF NestedEndif, Endif, Raise, Leave, AddedToGroup
  <1>9. CASE GroupLine \/ GroupEof
    BY <1>9 DEF GroupLine, GroupEof, Raise, Leave, AddedToGroup
  <1>10. CASE GroupsExhausted \/ FaultyGroup
    BY <1>10 DEF GroupsExhausted, FaultyGroup, Raise, Leave, AddedToGroup
  <1>11. CASE TakeGroup \/ SkipGroup
    BY <1>11 DEF TakeGroup, SkipGroup, Raise, Leave, AddedToGroup
  <1>12. CASE NoGroup
    BY <1>12 DEF NoGroup, Raise, Leave, AddedToGroup
  <1> QED
    BY <1>1, <1>2, <1>3, <1>4, <1>5, <1>6, <1>7, <1>8, <1>9, <1>10, <1>11, <1>12 DEF Step

(* Every step keeps what has been collected.                               *)
LEMMA StepCollects ==
  ASSUME TypeInv, Collected, GroupsNest, Step
  PROVE  Collected' /\ GroupsNest'
  <1> DEFINE Vacuous == mode' \notin {"groups", "choose"} \/ ~Undisturbed'
  <1>1. ASSUME Vacuous PROVE Collected' /\ GroupsNest'
    BY <1>1 DEF Collected, GroupsNest
  <1>2. ASSUME NEW e, Raise(e) PROVE Collected' /\ GroupsNest'
    BY <1>2, CollectKept DEF Raise
  <1>3. CASE ReadLine \/ ReadEnd \/ GroupNull
    BY <1>3, CollectKept DEF ReadLine, ReadEnd, GroupNull
  <1>4. CASE StreamBegin \/ StreamEnd \/ EmitText \/ Define \/ Include \/ NullDirective
               \/ Stray
    <2>1. mode' = "get"
      BY <1>4 DEF StreamBegin, StreamEnd, EmitText, Define, Include, NullDirective,
           Stray, Running, Raise
    <2> QED
      BY <1>1, <2>1
  <1>5. CASE StartIf
    <2>1. CASE Bare(Cur)
      BY <1>2, <1>5, <2>1 DEF StartIf
    <2>2. CASE ~Bare(Cur)
      BY <1>5, <2>2, CollectStarts
    <2> QED
      BY <2>1, <2>2
  <1>6. CASE ~Undisturbed
    <2>1. events \subseteq events'
      BY EventsKept
    <2>2. ~Undisturbed'
      BY <1>6, <2>1 DEF Undisturbed
    <2> QED
      BY <1>1, <2>2
  <1>7. CASE Undisturbed /\ (NestedIf \/ NestedSeparator \/ NestedEndif \/ GroupLine)
    <2>1. /\ mode = "groups" /\ pend # <<>> /\ AddedToGroup(Cur) /\ level \in Nat
      BY <1>7 DEF NestedIf, NestedSeparator, NestedEndif, GroupLine, Running, At,
           TypeInv, TypeOK
    <2>2. /\ level' = level + Weight(Cur) /\ level' >= 0
          /\ Cur.k \in Separators => level > 0
      BY <1>7, <2>1 DEF NestedIf, NestedSeparator, NestedEndif, GroupLine, At, Weight,
           Openers, Separators
    <2> QED
      BY <1>7, <2>1, <2>2, CollectAdds
  <1>8. CASE GroupEof
    <2>1. Raise("unterminated")
      BY <1>8 DEF GroupEof, Running, TypeInv, TypeOK, Outline
    <2> QED
      BY <1>2, <2>1
  <1>9. CASE Undisturbed /\ Elif
    <2>1. CASE elseSeen
      BY <1>2, <1>9, <2>1 DEF Elif
    <2>2. CASE Bare(Cur) /\ ~elseSeen
      BY <1>1, <1>9, <2>2 DEF Elif
    <2>3. CASE ~Bare(Cur) /\ ~elseSeen
      <3>1. /\ mode = "groups" /\ pend # <<>> /\ Cur.k = "elif" /\ level = 0
            /\ taken' = Append(taken, Cur) /\ mode' = "groups"
            /\ groups' = Append(groups, NewGroup(Cur, Len(taken) + 1))
            /\ UNCHANGED <<defs, level, next, elseSeen>>
        BY <1>9, <2>3 DEF Elif, Running, At
      <3>2. Cur \in Line /\ Cur.k \in Separators
        BY <3>1, Popped, ItemKinds DEF TypeInv, Separators
      <3>3. elseSeen' = (Cur.k = "else")
        BY <2>3, <3>1 DEF TypeInv, TypeOK
      <3> QED
        BY <1>9, <2>3, <3>1, <3>2, <3>3, CollectBegins
    <2> QED
      BY <2>1, <2>2, <2>3
  <1>10. CASE Undisturbed /\ Else
    <2>1. CASE elseSeen
      BY <1>2, <1>10, <2>1 DEF Else
    <2>2. CASE ~elseSeen
      <3>1. /\ mode = "groups" /\ pend # <<>> /\ Cur.k = "else" /\ level = 0
            /\ taken' = Append(taken, Cur) /\ mode' = "groups" /\ elseSeen' = TRUE
            /\ groups' = Append(groups, NewGroup(Cur, Len(taken) + 1))
            /\ UNCHANGED <<defs, level, next>>
        BY <1>10, <2>2 DEF Else, Running, At
      <3>2. Cur \in Line /\ Cur.k \in Separators /\ ~Bare(Cur)
        BY <3>1, Popped, ItemKinds DEF TypeInv, Separators, Bare, Openers
      <3> QED
        BY <1>10, <2>2, <3>1, <3>2, CollectBegins
    <2> QED
      BY <2>1, <2>2
  <1>11. CASE ConditionTakes \/ ConditionEnds
    BY <1>6, <1>11 DEF ConditionTakes, ConditionEnds, Running, TypeInv, Outline
  <1>12. CASE Undisturbed /\ Endif
    BY <1>12, CollectCloses
  <1>13. CASE Undisturbed /\ GroupsExhausted
    BY <1>13 DEF GroupsExhausted, Running, NeedsSource, TypeInv, Outline
  <1>14. CASE FaultyGroup
    BY <1>2, <1>14 DEF FaultyGroup
  <1>15. CASE TakeGroup \/ NoGroup
    BY <1>1, <1>15 DEF TakeGroup, NoGroup, Leave
  <1>16. CASE Undisturbed /\ SkipGroup
    BY <1>16, CollectSkips
  <1> QED
    BY <1>3, <1>4, <1>5, <1>6, <1>7, <1>8, <1>9, <1>10, <1>11, <1>12, <1>13, <1>14,
       <1>15, <1>16 DEF Step

-----------------------------------------------------------------------------
(* The inductive invariant.                                                *)

(* IInv holds throughout, whatever is read (PP_if2.java).                  *)
THEOREM Invariant == Spec => []IInv
  <1>1. Init => IInv
    <2> SUFFICES ASSUME Init PROVE IInv
      OBVIOUS
    <2>1. TypeInv
      BY InitTypes
    <2>2. Collected /\ GroupsNest
      BY DEF Init, Collected, GroupsNest
    <2> QED
      BY <2>1, <2>2 DEF TypeInv, IInv
  <1>2. IInv /\ [Next]_vars => IInv'
    <2> SUFFICES ASSUME IInv, [Next]_vars PROVE IInv'
      OBVIOUS
    <2>1. TypeInv /\ Collected /\ GroupsNest
      BY DEF IInv, TypeInv
    <2>2. TypeInv'
      BY <2>1, StepTypes
    <2>3. CASE Step
      BY <2>1, <2>2, <2>3, StepCollects DEF IInv, TypeInv
    <2>4. CASE UNCHANGED vars
      <3>1. Collected' /\ GroupsNest'
        BY <2>1, <2>4, CollectKept DEF vars
      <3> QED
        BY <2>2, <3>1 DEF IInv, TypeInv
    <2> QED
      BY <2>3, <2>4 DEF Next, Terminating
  <1> QED
    BY <1>1, <1>2, PTL DEF Spec

(* Every variable keeps its type, and so level never falls below zero and  *)
(* ifstack never below its bottom (PP_if2.java:296, 353).                  *)
THEOREM TypeCorrect == Spec => []TypeOK
  <1>1. IInv => TypeOK
    BY DEF IInv
  <1> QED
    BY <1>1, Invariant, PTL

(* Every group collected is balanced (PP_if2.java:272).                    *)
THEOREM GroupsAlwaysNest == Spec => []GroupsNest
  <1>1. IInv => GroupsNest
    BY DEF IInv
  <1> QED
    BY <1>1, Invariant, PTL

-----------------------------------------------------------------------------
(***************************************************************************)
(* PP_if2 keeps the promise of Conditionals, for every program: each step  *)
(* of IfGroups is a step of Conditionals, or leaves its variables alone.   *)
(***************************************************************************)

(* What Conditionals sees of the queue.                                    *)
Lines == taken \o pend

(* What was taken comes first, then the queue.                             *)
LEMMA InLines ==
  ASSUME TypeInv
  PROVE  /\ Lines \in Seq(Item) /\ Len(Lines) = Len(taken) + Len(pend)
         /\ Len(taken) \in Nat /\ Len(pend) \in Nat
         /\ DOMAIN Lines = 1 .. Len(taken) + Len(pend)
         /\ \A j \in 1 .. Len(taken) : Lines[j] = taken[j]
         /\ \A j \in 0 .. Len(taken) : DepthAt(Lines, j) = DepthAt(taken, j)
         /\ pend # <<>> => Lines[Len(taken) + 1] = Cur
         /\ pend # <<>> => Len(taken) + 1 \in DOMAIN Lines
         /\ taken # <<>> => Lines # <<>> /\ Lines[1] = taken[1]
         /\ mode = "get" => Lines = pend
  <1> DEFINE n == Len(taken)
             q == Lines
  <1>1. taken \in Seq(Item) /\ pend \in Seq(Item)
    BY DEF TypeInv, TypeOK
  <1>2. n \in Nat /\ Len(pend) \in Nat
    BY <1>1, LenProperties
  <1>3. /\ q \in Seq(Item) /\ Len(q) = n + Len(pend)
        /\ \A j \in 1 .. n + Len(pend) : q[j] = IF j <= n THEN taken[j] ELSE pend[j - n]
    BY <1>1, ConcatProperties DEF Lines
  <1>4. DOMAIN q = 1 .. n + Len(pend)
    BY <1>3, LenProperties
  <1> HIDE DEF n, q
  <1>5. \A j \in 1 .. n : q[j] = taken[j]
    BY <1>2, <1>3
  <1>6. \A j \in 0 .. n : DepthAt(q, j) = DepthAt(taken, j)
    BY <1>2, <1>5, DepthSame
  <1>7. pend # <<>> => q[n + 1] = Cur /\ n + 1 \in DOMAIN q
    <2> SUFFICES ASSUME pend # <<>> PROVE q[n + 1] = Cur /\ n + 1 \in DOMAIN q
      OBVIOUS
    <2>1. Len(pend) > 0
      BY <1>1, EmptySeq
    <2>2. n + 1 \in 1 .. n + Len(pend) /\ ~(n + 1 <= n) /\ (n + 1) - n = 1
      BY <1>2, <2>1
    <2> QED
      BY <1>3, <1>4, <2>2 DEF Cur
  <1>8. taken # <<>> => q # <<>> /\ q[1] = taken[1]
    <2> SUFFICES ASSUME taken # <<>> PROVE q # <<>> /\ q[1] = taken[1]
      OBVIOUS
    <2>1. n > 0
      BY <1>1, EmptySeq DEF n
    <2>2. q # <<>>
      BY <1>2, <1>3, <2>1, EmptySeq
    <2> QED
      BY <1>2, <1>5, <2>1, <2>2
  <1>9. mode = "get" => q = pend
    BY <1>1, ConcatEmptySeq DEF TypeInv, Outline, q, Lines
  <1> QED
    BY <1>2, <1>3, <1>4, <1>5, <1>6, <1>7, <1>8, <1>9 DEF n, q

(* A line that is taken does not leave what Conditionals sees.             *)
LEMMA LinesKept ==
  ASSUME TypeInv, pend # <<>>, pend' = Rest, taken' = Append(taken, Cur)
  PROVE  Lines' = Lines
  <1> DEFINE n == Len(taken)
             m == Len(pend)
             t == Append(taken, Cur)
             x == taken \o pend
             y == t \o Rest
  <1>1. /\ taken \in Seq(Item) /\ pend \in Seq(Item) /\ Rest \in Seq(Item)
        /\ Cur \in Item /\ Cur = pend[1] /\ Len(Rest) = m - 1 /\ m \in Nat \ {0}
        /\ \A i \in 1 .. m - 1 : Rest[i] = pend[i + 1]
    BY Popped DEF TypeInv, TypeOK
  <1>2. n \in Nat
    BY <1>1, LenProperties
  <1>3. /\ t \in Seq(Item) /\ Len(t) = n + 1 /\ t[n + 1] = Cur
        /\ \A i \in 1 .. n : t[i] = taken[i]
    BY <1>1, AppendProperties
  <1>4. /\ x \in Seq(Item) /\ Len(x) = n + m
        /\ \A i \in 1 .. n + m : x[i] = IF i <= n THEN taken[i] ELSE pend[i - n]
    BY <1>1, ConcatProperties
  <1> HIDE DEF t
  <1>5. /\ y \in Seq(Item) /\ Len(y) = Len(t) + Len(Rest)
        /\ \A i \in 1 .. Len(t) + Len(Rest) :
             y[i] = IF i <= Len(t) THEN t[i] ELSE Rest[i - Len(t)]
    BY <1>1, <1>3, ConcatProperties
  <1> HIDE DEF n, m, x, y
  <1>6. Len(y) = n + m /\ Len(t) + Len(Rest) = n + m
    BY <1>1, <1>2, <1>3, <1>5
  <1>7. \A i \in 1 .. n + m : x[i] = y[i]
    <2> SUFFICES ASSUME NEW i \in 1 .. n + m PROVE x[i] = y[i]
      OBVIOUS
    <2>1. CASE i <= n
      <3>1. i \in 1 .. n /\ i <= Len(t)
        BY <1>1, <1>2, <1>3, <2>1
      <3> QED
        BY <1>3, <1>4, <1>5, <1>6, <2>1, <3>1
    <2>2. CASE i = n + 1
      <3>1. i <= Len(t) /\ ~(i <= n) /\ i - n = 1
        BY <1>2, <1>3, <2>2
      <3> QED
        BY <1>1, <1>3, <1>4, <1>5, <1>6, <2>2, <3>1
    <2>3. CASE i > n + 1
      <3>1. /\ ~(i <= Len(t)) /\ ~(i <= n) /\ i - Len(t) \in 1 .. m - 1
            /\ (i - Len(t)) + 1 = i - n
        BY <1>1, <1>2, <1>3, <2>3
      <3>2. y[i] = Rest[i - Len(t)] /\ x[i] = pend[i - n]
        BY <1>4, <1>5, <1>6, <3>1
      <3> QED
        BY <1>1, <3>1, <3>2
    <2> QED
      BY <1>2, <2>1, <2>2, <2>3
  <1>8. x = y
    BY <1>4, <1>5, <1>6, <1>7, SeqEqual
  <1> QED
    BY <1>8 DEF x, y, t, Lines

(* What is behind the lines taken is the queue.                            *)
LEMMA LinesBehind ==
  ASSUME TypeInv
  PROVE  SubSeq(Lines, Len(taken) + 1, Len(Lines)) = pend
  <1> DEFINE n == Len(taken)
             m == Len(pend)
             x == Lines
             y == SubSeq(x, n + 1, Len(x))
  <1>1. taken \in Seq(Item) /\ pend \in Seq(Item) /\ n \in Nat /\ m \in Nat
    BY LenProperties DEF TypeInv, TypeOK
  <1>2. /\ x \in Seq(Item) /\ Len(x) = n + m
        /\ \A i \in 1 .. n + m : x[i] = IF i <= n THEN taken[i] ELSE pend[i - n]
    BY <1>1, ConcatProperties DEF Lines
  <1> HIDE DEF x
  <1>3. \A i \in n + 1 .. Len(x) : x[i] \in Item
    <2> SUFFICES ASSUME NEW i \in n + 1 .. Len(x) PROVE x[i] \in Item
      OBVIOUS
    <2>1. i \in 1 .. Len(x)
      BY <1>1, <1>2
    <2> QED
      BY <1>2, <2>1, ElementOfSeq
  <1> HIDE DEF n, m
  <1>4. n + 1 \in Int /\ Len(x) \in Int
    BY <1>1, <1>2
  <1>5. /\ y \in Seq(Item)
        /\ Len(y) = IF n + 1 <= Len(x) THEN Len(x) - (n + 1) + 1 ELSE 0
        /\ \A i \in 1 .. Len(x) - (n + 1) + 1 : y[i] = x[(n + 1) + i - 1]
    BY <1>3, <1>4, SubSeqProperties
  <1> HIDE DEF y
  <1>6. Len(y) = m
    BY <1>1, <1>2, <1>5
  <1>7. \A i \in 1 .. m : y[i] = pend[i]
    <2> SUFFICES ASSUME NEW i \in 1 .. m PROVE y[i] = pend[i]
      OBVIOUS
    <2>1. i \in 1 .. Len(x) - (n + 1) + 1 /\ (n + 1) + i - 1 = n + i
      BY <1>1, <1>2
    <2>2. n + i \in 1 .. n + m /\ ~(n + i <= n) /\ (n + i) - n = i
      BY <1>1
    <2> QED
      BY <1>2, <1>5, <2>1, <2>2
  <1>8. y = pend
    BY <1>1, <1>5, <1>6, <1>7, SeqEqual DEF m
  <1> QED
    BY <1>8 DEF y, x, n

-----------------------------------------------------------------------------
(* The vocabulary of Conditionals, in a state of IfGroups.                 *)

(* Both count alike (FiniteSets).                                          *)
LEMMA SameCount == \A S : Whole!Cardinality(S) = Cardinality(S)
  BY DEF Whole!Cardinality, Cardinality

(* Both speak of lines alike (CondLines).                                  *)
LEMMA SameWords ==
  /\ \A q, i : Whole!DepthAt(q, i) = DepthAt(q, i)
  /\ \A ln : (Whole!Bare(ln) <=> Bare(ln)) /\ (Whole!Faulty(ln) <=> Faulty(ln))
  /\ \A ln : Whole!Holds(ln, defs) <=> Holds(ln, defs)
  /\ Whole!Openers = Openers /\ Whole!Separators = Separators
  /\ Whole!SB = SB /\ Whole!SE = SE /\ Whole!Eof = Eof
  <1>1. Whole!Openers = Openers /\ Whole!Separators = Separators
    BY DEF Whole!Openers, Openers, Whole!Separators, Separators
  <1>2. \A q, i : Whole!DepthAt(q, i) = DepthAt(q, i)
    BY <1>1, SameCount DEF Whole!DepthAt, DepthAt
  <1>3. \A ln : (Whole!Bare(ln) <=> Bare(ln)) /\ (Whole!Faulty(ln) <=> Faulty(ln))
    BY <1>1 DEF Whole!Bare, Bare, Whole!Faulty, Faulty
  <1>4. \A ln : Whole!Holds(ln, defs) <=> Holds(ln, defs)
    BY DEF Whole!Holds, Holds
  <1>5. Whole!SB = SB /\ Whole!SE = SE /\ Whole!Eof = Eof
    BY DEF Whole!SB, SB, Whole!SE, SE, Whole!Eof, Eof
  <1> QED
    BY <1>1, <1>2, <1>3, <1>4, <1>5

(* What Conditionals says of its input, said of the lines taken.           *)
LEMMA Vocabulary ==
  ASSUME TypeInv
  PROVE  /\ \A kinds : Whole!Starts(kinds) <=> Lines # <<>> /\ Lines[1].k \in kinds
         /\ \A p : Whole!IsHead(p) <=>
                     p = 1 \/ (Lines[p].k \in Separators /\ DepthAt(Lines, p) = 1)
         /\ \A p \in 1 .. Len(taken) : Whole!IsHead(p) <=> HeadAt(p)
         /\ \A e : Whole!InsideUpTo(e) <=>
                     /\ Lines # <<>> /\ Lines[1].k \in Openers
                     /\ \A j \in 1 .. e : DepthAt(Lines, j) >= 1
         /\ Whole!Running <=> err = "none" /\ Undisturbed
  <1>1. \A kinds : Whole!Starts(kinds) <=> Lines # <<>> /\ Lines[1].k \in kinds
    BY DEF Whole!Starts, Lines
  <1>2. \A p : Whole!IsHead(p) <=>
                 p = 1 \/ (Lines[p].k \in Separators /\ DepthAt(Lines, p) = 1)
    BY SameWords DEF Whole!IsHead, Lines
  <1>3. \A p \in 1 .. Len(taken) : Whole!IsHead(p) <=> HeadAt(p)
    <2>1. \A p \in 1 .. Len(taken) :
            Lines[p] = taken[p] /\ DepthAt(Lines, p) = DepthAt(taken, p)
      BY InLines
    <2> QED
      BY <1>2, <2>1 DEF HeadAt
  <1>4. \A e : Whole!InsideUpTo(e) <=>
                 /\ Lines # <<>> /\ Lines[1].k \in Openers
                 /\ \A j \in 1 .. e : DepthAt(Lines, j) >= 1
    BY <1>1, SameWords DEF Whole!InsideUpTo, Lines
  <1>5. Whole!Running <=> err = "none" /\ Undisturbed
    BY DEF Whole!Running
  <1> QED
    BY <1>1, <1>2, <1>3, <1>4, <1>5

(* Everything taken, up to the #endif, is inside the conditional.          *)
LEMMA TakenInside ==
  ASSUME TypeInv, TakenNests, NEW e \in Int, e <= Inside
  PROVE  Whole!InsideUpTo(e)
  <1>1. /\ Inside > 0 /\ Inside \in Int /\ Inside <= Len(taken) /\ Len(taken) \in Nat
        /\ taken[1].k \in Openers /\ taken \in Seq(Item)
        /\ \A j \in 1 .. Inside : DepthAt(taken, j) >= 1
    BY LenProperties DEF TakenNests, Inside, TypeInv, TypeOK
  <1>2. taken # <<>>
    BY <1>1, EmptySeq
  <1>3. Lines # <<>> /\ Lines[1].k \in Openers
    BY <1>1, <1>2, InLines
  <1>4. \A j \in 1 .. e : DepthAt(Lines, j) >= 1
    <2> SUFFICES ASSUME NEW j \in 1 .. e PROVE DepthAt(Lines, j) >= 1
      OBVIOUS
    <2>1. j \in 1 .. Inside /\ j \in 0 .. Len(taken)
      BY <1>1
    <2> QED
      BY <1>1, <2>1, InLines
  <1> QED
    BY <1>3, <1>4, Vocabulary

(* The line that comes next is inside as well, unless it is the #endif.    *)
LEMMA NextInside ==
  ASSUME TypeInv, TakenNests, mode = "groups", pend # <<>>, Weight(Cur) = 0
  PROVE  LET p == Len(taken) + 1
         IN  /\ p \in DOMAIN Lines /\ Lines[p] = Cur /\ Whole!InsideUpTo(p)
             /\ Cur.k \in Separators /\ level = 0 => Whole!IsHead(p)
  <1> DEFINE n == Len(taken)
  <1>1. /\ n \in Nat /\ n + 1 \in DOMAIN Lines /\ Lines[n + 1] = Cur
    BY InLines
  <1>2. DepthAt(Lines, n + 1) = DepthAt(taken, n)
    <2>1. DepthAt(Lines, n + 1) = DepthAt(Lines, n) + Weight(Cur)
      BY <1>1, DepthNext
    <2>2. DepthAt(Lines, n) = DepthAt(taken, n) /\ DepthAt(taken, n) \in Int
      BY <1>1, InLines, DepthType
    <2> QED
      BY <2>1, <2>2
  <1>3. DepthAt(taken, n) = level + 1 /\ level \in Nat /\ Inside = n
    BY DEF TakenNests, Inside, TypeInv, TypeOK
  <1>4. Whole!InsideUpTo(n)
    BY <1>1, <1>3, TakenInside
  <1> HIDE DEF n
  <1>5. \A j \in 1 .. n + 1 : DepthAt(Lines, j) >= 1
    <2> SUFFICES ASSUME NEW j \in 1 .. n + 1 PROVE DepthAt(Lines, j) >= 1
      OBVIOUS
    <2>1. CASE j = n + 1
      BY <1>2, <1>3, <2>1
    <2>2. CASE j # n + 1
      <3>1. j \in 1 .. n
        BY <1>1, <2>2
      <3> QED
        BY <1>4, <3>1, Vocabulary
    <2> QED
      BY <2>1, <2>2
  <1>6. Whole!InsideUpTo(n + 1)
    BY <1>4, <1>5, Vocabulary
  <1>7. Cur.k \in Separators /\ level = 0 => Whole!IsHead(n + 1)
    BY <1>1, <1>2, <1>3, Vocabulary
  <1> QED
    BY <1>1, <1>6, <1>7 DEF n

-----------------------------------------------------------------------------
(* The steps.                                                              *)

Stutter == UNCHANGED <<Lines, defs, out, err, events>>

(* A step that changes nothing Conditionals sees.                          *)
LEMMA StutterImplements == ASSUME Stutter PROVE UNCHANGED Whole!vars
  BY DEF Stutter, Whole!vars, Lines, Undisturbed

(* An exception has the reason that Conditionals knows for it.             *)
LEMMA RaiseImplements ==
  ASSUME TypeInv, Undisturbed, err = "none", NEW e, Raise(e), Whole!Refused(e), e # "none"
  PROVE  Whole!Next
  <1>1. Whole!Running
    BY Vocabulary
  <1>2. err' = e /\ UNCHANGED <<taken, pend, defs, out, events>>
    BY DEF Raise, locals
  <1>3. Whole!Refuse
    BY <1>1, <1>2 DEF Whole!Refuse, Undisturbed
  <1> QED
    BY <1>3 DEF Whole!Next

(* When an #elif has taken a following line, nothing is promised.          *)
LEMMA BrokenImplements ==
  ASSUME ~Undisturbed, ~Undisturbed' PROVE Whole!Next
  BY DEF Whole!Next, Whole!Anything

(* The program is read.                                                    *)
LEMMA ReadImplements ==
  ASSUME TypeInv, Undisturbed, ReadLine \/ ReadEnd
  PROVE  Whole!Next
  <1>1. /\ pend = <<>> /\ err = "none" /\ taken \in Seq(Item)
        /\ UNCHANGED <<taken, defs, out, err, events>>
    BY DEF ReadLine, ReadEnd, NeedsSource, locals, TypeInv, TypeOK
  <1>2. Whole!Running
    BY <1>1, Vocabulary
  <1>3. taken \o pend = taken
    BY <1>1, ConcatEmptySeq
  <1>4. CASE ReadLine
    <2>1. PICK ln \in SourceLines : pend' = <<ln>>
      BY <1>4 DEF ReadLine
    <2>2. ln \in Item
      BY LinesAssumption DEF Item
    <2>3. (taken \o pend)' = Append(taken \o pend, ln)
      BY <1>1, <1>3, <2>1, <2>2, AppendIsConcat
    <2>4. Whole!Arrive
      BY <1>1, <1>2, <2>3 DEF Whole!Arrive, Undisturbed
    <2> QED
      BY <2>4 DEF Whole!Next
  <1>5. CASE ReadEnd
    <2>1. (taken \o pend)' = (taken \o pend) \o <<Whole!SE, Whole!Eof>>
      BY <1>1, <1>3, <1>5, SameWords DEF ReadEnd
    <2>2. Whole!Arrive
      BY <1>1, <1>2, <2>1 DEF Whole!Arrive, Undisturbed
    <2> QED
      BY <2>2 DEF Whole!Next
  <1> QED
    BY <1>4, <1>5

(* Outside of PP_if2 the queue is all that Conditionals sees.              *)
LEMMA QueueIsInput ==
  ASSUME TypeInv, TypeInv', mode = "get", taken' = taken
  PROVE  taken \o pend = pend /\ (taken \o pend)' = pend'
  <1>1. taken = <<>> /\ pend \in Seq(Item) /\ pend' \in Seq(Item)
    BY DEF TypeInv, TypeOK, Outline
  <1> QED
    BY <1>1, ConcatEmptySeq

(* The Scan outside of PP_if2.                                             *)
LEMMA GetImplements ==
  ASSUME TypeInv, TypeInv', Undisturbed,
         StreamBegin \/ StreamEnd \/ EmitText \/ Define \/ Include \/ NullDirective \/ Stray
  PROVE  Whole!Next
  <1>1. /\ mode = "get" /\ err = "none" /\ pend # <<>> /\ Cur = pend[1]
        /\ taken' = taken /\ events' = events /\ Undisturbed' = Undisturbed
    BY Popped DEF StreamBegin, StreamEnd, EmitText, Define, Include, NullDirective, Stray,
         Running, At, Raise, locals, TypeInv, Undisturbed
  <1>2. taken \o pend = pend /\ (taken \o pend)' = pend'
    BY <1>1, QueueIsInput
  <1>3. Whole!Running /\ Lines = pend
    BY <1>1, <1>2, Vocabulary DEF Lines
  <1>4. \A kinds : At(kinds) => Whole!Starts(kinds)
    BY <1>1, <1>3, Vocabulary DEF At
  <1>5. CASE StreamBegin
    <2>1. Whole!Starts({"sb"})
      BY <1>4, <1>5 DEF StreamBegin
    <2>2. CASE Raise("nesting")
      <3>1. Whole!Refused("nesting")
        BY <2>1 DEF Whole!Refused
      <3> QED
        BY <1>1, <2>2, <3>1, RaiseImplements
    <2>3. CASE ~Raise("nesting")
      <3>1. pend' = Tail(pend) /\ UNCHANGED <<defs, out, err>>
        BY <1>5, <2>3 DEF StreamBegin, Rest
      <3>2. Whole!Starts({"sb", "se"})
        BY <2>1, Vocabulary
      <3>3. Whole!PassMarker
        BY <1>1, <1>2, <1>3, <3>1, <3>2 DEF Whole!PassMarker
      <3> QED
        BY <3>3 DEF Whole!Next
    <2> QED
      BY <2>2, <2>3
  <1>6. CASE StreamEnd
    <2>1. Whole!Starts({"se"})
      BY <1>4, <1>6 DEF StreamEnd
    <2>2. CASE Raise("incstack")
      <3>1. Whole!Refused("incstack")
        BY <2>1 DEF Whole!Refused
      <3> QED
        BY <1>1, <2>2, <3>1, RaiseImplements
    <2>3. CASE ~Raise("incstack")
      <3>1. pend' = Tail(pend) /\ UNCHANGED <<defs, out, err>>
        BY <1>6, <2>3 DEF StreamEnd, Rest
      <3>2. Whole!Starts({"sb", "se"})
        BY <2>1, Vocabulary
      <3>3. Whole!PassMarker
        BY <1>1, <1>2, <1>3, <3>1, <3>2 DEF Whole!PassMarker
      <3> QED
        BY <3>3 DEF Whole!Next
    <2> QED
      BY <2>2, <2>3
  <1>7. CASE EmitText
    <2>1. /\ pend' = Tail(pend) /\ UNCHANGED <<defs, err>>
          /\ out' = Append(out, [n |-> pend[1].n, v |-> defs[pend[1].n]])
      BY <1>1, <1>7 DEF EmitText, Rest
    <2>2. Whole!Starts({"text"})
      BY <1>4, <1>7 DEF EmitText
    <2>3. Whole!Produce
      BY <1>1, <1>2, <1>3, <2>1, <2>2 DEF Whole!Produce
    <2> QED
      BY <2>3 DEF Whole!Next
  <1>8. CASE Define
    <2>1. /\ pend' = Tail(pend) /\ UNCHANGED <<out, err>>
          /\ defs' = [defs EXCEPT ![pend[1].n] =
                        IF pend[1].k = "define" THEN pend[1].v ELSE "undefined"]
      BY <1>1, <1>8 DEF Define, Rest
    <2>2. Whole!Starts({"define", "undef"})
      BY <1>4, <1>8 DEF Define
    <2>3. Whole!Assign
      BY <1>1, <1>2, <1>3, <2>1, <2>2 DEF Whole!Assign
    <2> QED
      BY <2>3 DEF Whole!Next
  <1>9. CASE Include
    <2>1. /\ pend' = (<<SB>> \o HeaderText[pend[1].h] \o <<SE>>) \o Tail(pend)
          /\ UNCHANGED <<defs, out, err>>
      BY <1>1, <1>9 DEF Include, Rest
    <2>2. Whole!Starts({"include"})
      BY <1>4, <1>9 DEF Include
    <2>3. Whole!Include
      BY <1>1, <1>2, <1>3, <2>1, <2>2, SameWords DEF Whole!Include
    <2> QED
      BY <2>3 DEF Whole!Next
  <1>10. CASE NullDirective
    <2>1. /\ pend' = Tail(pend) /\ UNCHANGED <<defs, out, err>>
          /\ pend[1].k = "null"
      BY <1>1, <1>10 DEF NullDirective, Rest, At
    <2>2. pend \in Seq(Item) /\ Tail(pend) \in Seq(Item) /\ 1 \in DOMAIN pend
      <3>1. pend \in Seq(Item) /\ Len(pend) \in Nat \ {0} /\ DOMAIN pend = 1 .. Len(pend)
        BY <1>1, Popped, LenProperties DEF TypeInv, TypeOK
      <3> QED
        BY <1>1, <3>1, HeadTailProperties
    <2>3. SubSeq(pend, 1, 1 - 1) \o SubSeq(pend, 1 + 1, Len(pend)) = Tail(pend)
      <3>1. SubSeq(pend, 1, 1 - 1) = <<>>
        BY SubSeqEmpty
      <3>2. SubSeq(pend, 1 + 1, Len(pend)) = Tail(pend)
        BY <1>1, <2>2, TailIsSubSeq
      <3> QED
        BY <2>2, <3>1, <3>2, ConcatEmptySeq
    <2>4. Whole!Vanish
      BY <1>1, <1>2, <1>3, <2>1, <2>2, <2>3 DEF Whole!Vanish
    <2> QED
      BY <2>4 DEF Whole!Next
  <1>11. CASE Stray
    <2>1. Whole!Starts(Separators \cup {"endif", "unknown"}) /\ Raise("stray")
      BY <1>4, <1>11 DEF Stray
    <2>2. Whole!Refused("stray")
      BY <2>1, SameWords DEF Whole!Refused
    <2> QED
      BY <1>1, <2>1, <2>2, RaiseImplements
  <1> QED
    BY <1>5, <1>6, <1>7, <1>8, <1>9, <1>10, <1>11

(* Lines are moved from the queue to the lines taken.                      *)
LEMMA TakingImplements ==
  ASSUME TypeInv, pend # <<>>, pend' = Rest, taken' = Append(taken, Cur),
         UNCHANGED <<defs, out, err, events>>
  PROVE  UNCHANGED Whole!vars
  BY LinesKept, StutterImplements DEF Stutter

(* The #if is met.                                                         *)
LEMMA StartImplements ==
  ASSUME TypeInv, Undisturbed, StartIf
  PROVE  Whole!Next \/ UNCHANGED Whole!vars
  <1>1. /\ mode = "get" /\ err = "none" /\ pend # <<>> /\ At(Openers) /\ taken = <<>>
        /\ Cur = pend[1] /\ Cur \in Item
    BY Popped DEF StartIf, Running, At, TypeInv, Outline
  <1>2. CASE Bare(Cur)
    <2>1. Raise("directive")
      BY <1>2 DEF StartIf
    <2>2. Lines = pend
      BY <1>1, InLines
    <2>3. Whole!Starts(Openers)
      BY <1>1, <2>2, Vocabulary DEF At
    <2>4. Whole!Refused("directive")
      BY <1>1, <1>2, <2>2, <2>3, SameWords DEF Whole!Refused, Lines
    <2> QED
      BY <1>1, <2>1, <2>4, RaiseImplements
  <1>3. CASE ~Bare(Cur)
    <2>1. /\ pend' = Rest /\ taken' = <<Cur>> /\ UNCHANGED <<defs, out, err, events>>
      BY <1>3 DEF StartIf
    <2>2. Append(taken, Cur) = <<Cur>>
      BY <1>1
    <2> QED
      BY <1>1, <2>1, <2>2, TakingImplements
  <1> QED
    BY <1>2, <1>3

(* A null directive leaves what was taken and what follows it.             *)
LEMMA NullImplements ==
  ASSUME TypeInv, Undisturbed, GroupNull
  PROVE  Whole!Next
  <1> DEFINE n == Len(taken)
             x == Lines
  <1>1. /\ err = "none" /\ pend # <<>> /\ Cur.k = "null" /\ pend' = Rest
        /\ UNCHANGED <<taken, defs, out, err, events>>
    BY DEF GroupNull, Running, At, locals
  <1>2. /\ x \in Seq(Item) /\ Len(x) = n + Len(pend) /\ n \in Nat
        /\ n + 1 \in DOMAIN x /\ x[n + 1].k = "null"
        /\ DOMAIN x = 1 .. Len(x) /\ Len(pend) \in Nat \ {0}
        /\ taken \in Seq(Item) /\ pend \in Seq(Item) /\ Len(taken) = n
    BY <1>1, InLines, Popped DEF TypeInv, TypeOK
  <1>0. /\ n \in Nat /\ Len(pend) \in Nat \ {0} /\ Len(x) = n + Len(pend)
    BY <1>2
  <1>9. Len(taken) = n /\ taken \in Seq(Item) /\ pend \in Seq(Item)
    BY <1>2
  <1> HIDE DEF n, x
  <1>3. SubSeq(x, 1, n) = taken
    <2>1. CASE n = 0
      <3>1. taken = <<>>
        BY <1>2, <2>1, EmptySeq
      <3>2. SubSeq(x, 1, 0) = <<>>
        BY SubSeqEmpty
      <3> QED
        BY <2>1, <3>1, <3>2
    <2>2. CASE n > 0
      <3>1. 1 \in 1 .. Len(taken) /\ n \in 1 .. Len(taken)
        BY <1>2, <2>2
      <3>2. SubSeq(taken \o pend, 1, n) = SubSeq(taken, 1, n)
        BY <1>2, <3>1, SubSeqOfConcat1
      <3>3. SubSeq(taken, 1, Len(taken)) = taken
        BY <1>2, SubSeqFull
      <3> QED
        BY <1>2, <3>2, <3>3 DEF Lines, x
    <2> QED
      BY <1>2, <2>1, <2>2
  <1>4. SubSeq(x, (n + 1) + 1, Len(x)) = Rest
    <2>1. Rest = SubSeq(pend, 2, Len(pend))
      BY <1>1, <1>2, TailIsSubSeq DEF Rest
    <2>2. CASE Len(pend) = 1
      <3>1. (n + 1) + 1 \in Int /\ Len(x) \in Int /\ Len(x) < (n + 1) + 1
        BY <1>2, <2>2
      <3>2. SubSeq(x, (n + 1) + 1, Len(x)) = <<>>
        BY <3>1, SubSeqEmpty
      <3>3. SubSeq(pend, 2, 1) = <<>>
        BY SubSeqEmpty
      <3> QED
        BY <2>1, <2>2, <3>2, <3>3
    <2>3. CASE Len(pend) > 1
      <3> DEFINE m == Len(pend)
      <3>1. n \in Nat /\ m \in Nat /\ m >= 2 /\ Len(x) = n + m /\ Len(taken) = n
        <4>1. n \in Nat /\ m \in Nat /\ Len(x) = n + m
          BY <1>0
        <4>2. m >= 2
          BY <1>0, <2>3
        <4>3. Len(taken) = n
          BY <1>9
        <4> QED
          BY <4>1, <4>2, <4>3
      <3> HIDE DEF m
      <3>2. /\ (n + 1) + 1 \in n + 1 .. n + m /\ n + m \in n + 1 .. n + m
            /\ ((n + 1) + 1) - n = 2 /\ (n + m) - n = m
        BY <3>1
      <3>3. SubSeq(taken \o pend, (n + 1) + 1, n + m)
              = SubSeq(pend, ((n + 1) + 1) - n, (n + m) - n)
        BY <1>9, <3>1, <3>2, SubSeqOfConcat2 DEF m
      <3> QED
        BY <2>1, <3>1, <3>2, <3>3 DEF Lines, x, m
    <2>4. \A k \in Nat \ {0} : k = 1 \/ k > 1
      OBVIOUS
    <2> QED
      BY <1>0, <2>2, <2>3, <2>4
  <1>5. (taken \o pend)' = SubSeq(x, 1, (n + 1) - 1) \o SubSeq(x, (n + 1) + 1, Len(x))
    <2>1. (n + 1) - 1 = n
      BY <1>2
    <2> QED
      BY <1>1, <1>3, <1>4, <2>1
  <1>6. Whole!Running
    BY <1>1, Vocabulary
  <1>7. Whole!Vanish
    BY <1>1, <1>2, <1>5, <1>6 DEF Whole!Vanish, x, Lines, Undisturbed
  <1> QED
    BY <1>7 DEF Whole!Next

(* Nothing but the #endif may come behind an #else.                        *)
LEMMA OrderImplements ==
  ASSUME TypeInv, Collected, GroupsNest, Undisturbed, mode = "groups", err = "none",
         pend # <<>>, Cur.k \in Separators, level = 0, elseSeen, Raise("order")
  PROVE  Whole!Next
  <1> DEFINE q == Len(taken) + 1
             p == groups[Len(groups)].at
  <1>1. /\ TakenNests /\ GroupsCut /\ ElseIsLast /\ Len(taken) \in Nat
        /\ Len(groups) \in 1 .. Len(groups) /\ DOMAIN groups = 1 .. Len(groups)
        /\ Inside = Len(taken)
    <2>1. /\ TakenNests /\ GroupsCut /\ ElseIsLast
          /\ Len(groups) \in Nat \ {0} /\ DOMAIN groups = 1 .. Len(groups)
          /\ Len(taken) \in Nat
      BY Gathering
    <2> QED
      BY <2>1 DEF Inside
  <1>2. /\ p \in 1 .. Len(taken) /\ HeadAt(p) /\ taken[p].k = "else"
    BY <1>1 DEF GroupsCut, ElseIsLast
  <1>3. Weight(Cur) = 0
    BY DEF Weight, Separators, Openers
  <1>4. /\ q \in DOMAIN Lines /\ Lines[q] = Cur /\ Whole!InsideUpTo(q) /\ Whole!IsHead(q)
    BY <1>1, <1>3, NextInside
  <1>5. p \in DOMAIN Lines /\ Lines[p].k = "else" /\ Whole!IsHead(p) /\ p < q
    <2>1. Lines[p] = taken[p] /\ DOMAIN Lines = 1 .. Len(taken) + Len(pend)
          /\ Len(pend) \in Nat
      BY <1>2, InLines
    <2>2. Whole!IsHead(p)
      BY <1>2, Vocabulary
    <2>3. p \in 1 .. Len(taken) + Len(pend) /\ p < q
      BY <1>1, <1>2, <2>1
    <2> QED
      BY <1>2, <2>1, <2>2, <2>3
  <1> HIDE DEF p, q
  <1>6. Whole!Refused("order")
    BY <1>4, <1>5, SameWords DEF Whole!Refused, Lines
  <1> QED
    BY <1>6, RaiseImplements

(* The loop that collects the groups.                                      *)
LEMMA GatherImplements ==
  ASSUME TypeInv, Collected, GroupsNest, Undisturbed,
         NestedIf \/ NestedSeparator \/ Elif \/ Else \/ NestedEndif \/ Endif
           \/ GroupLine \/ GroupEof
  PROVE  Whole!Next \/ UNCHANGED Whole!vars
  <1>1. mode = "groups" /\ err = "none" /\ pend # <<>>
    BY DEF NestedIf, NestedSeparator, Elif, Else, NestedEndif, Endif, GroupLine,
         GroupEof, Running, At
  <1>2. CASE AddedToGroup(Cur)
    BY <1>1, <1>2, TakingImplements DEF AddedToGroup
  <1>3. CASE NestedIf \/ NestedSeparator \/ NestedEndif \/ GroupLine
    BY <1>2, <1>3 DEF NestedIf, NestedSeparator, NestedEndif, GroupLine
  <1>4. CASE Endif
    BY <1>1, <1>4, TakingImplements DEF Endif
  <1>5. CASE Elif
    <2>0. Cur.k = "elif" /\ Cur.k \in Separators /\ level = 0
      BY <1>5 DEF Elif, At, Separators
    <2>1. CASE elseSeen
      BY <1>1, <1>5, <2>0, <2>1, OrderImplements DEF Elif
    <2>2. CASE ~elseSeen /\ ~Bare(Cur)
      BY <1>1, <1>5, <2>2, TakingImplements DEF Elif
    <2>3. CASE ~elseSeen /\ Bare(Cur)
      <3>1. /\ pend' = Rest /\ taken' = Append(taken, Cur) /\ events' # {}
            /\ UNCHANGED <<defs, out, err>>
        BY <1>5, <2>3 DEF Elif
      <3>2. Lines' = Lines
        BY <1>1, <3>1, LinesKept
      <3>3. TakenNests
        BY <1>1, Gathering
      <3>4. Weight(Cur) = 0
        BY <2>0 DEF Weight, Openers
      <3>5. LET p == Len(taken) + 1
            IN  p \in DOMAIN Lines /\ Lines[p] = Cur /\ Whole!InsideUpTo(p) /\ Whole!IsHead(p)
        BY <1>1, <2>0, <3>3, <3>4, NextInside
      <3>6. Whole!Running
        BY <1>1, Vocabulary
      <3>7. Whole!Break
        BY <2>3, <3>1, <3>2, <3>5, <3>6, SameWords DEF Whole!Break, Lines, Undisturbed
      <3> QED
        BY <3>7 DEF Whole!Next
    <2> QED
      BY <2>1, <2>2, <2>3
  <1>6. CASE Else
    <2>0. Cur.k \in Separators /\ level = 0
      BY <1>6 DEF Else, At, Separators
    <2>1. CASE elseSeen
      BY <1>1, <1>6, <2>0, <2>1, OrderImplements DEF Else
    <2>2. CASE ~elseSeen
      BY <1>1, <1>6, <2>2, TakingImplements DEF Else
    <2> QED
      BY <2>1, <2>2
  <1>7. CASE GroupEof
    <2>1. CASE ~Raise("unterminated")
      BY <1>2, <1>7, <2>1 DEF GroupEof
    <2>2. CASE Raise("unterminated")
      <3>1. Cur.k = "eof" /\ Cur = Eof
        BY <1>1, <1>7, Popped, ItemKinds DEF GroupEof, At, TypeInv
      <3>2. TakenNests
        BY <1>1, Gathering
      <3>3. Weight(Cur) = 0
        BY <3>1 DEF Weight, Openers
      <3>4. LET p == Len(taken) + 1
            IN  p \in DOMAIN Lines /\ Lines[p] = Cur /\ Whole!InsideUpTo(p)
        BY <1>1, <3>2, <3>3, NextInside
      <3>5. Whole!Refused("unterminated")
        BY <3>1, <3>4, SameWords DEF Whole!Refused, Lines
      <3> QED
        BY <1>1, <2>2, <3>5, RaiseImplements
    <2> QED
      BY <2>1, <2>2
  <1> QED
    BY <1>3, <1>4, <1>5, <1>6, <1>7

(* The conditional that was taken, as Conditionals sees it.                *)
LEMMA TakenWhole ==
  ASSUME TypeInv, Collected, GroupsNest, Undisturbed, mode = "choose"
  PROVE  LET e == Len(taken)
         IN  /\ Whole!Matching(e) /\ Whole!ElseLast(e) /\ Whole!After(e) = pend
             /\ e \in DOMAIN Lines /\ e \in Nat \ {0} /\ Inside = e - 1
             /\ \A i \in DOMAIN groups :
                  /\ groups[i].at \in 1 .. e - 1 /\ Whole!IsHead(groups[i].at)
                  /\ Lines[groups[i].at] = groups[i].line /\ ~Bare(groups[i].line)
             /\ \A p \in 1 .. e - 1 :
                  Whole!IsHead(p) => \E i \in DOMAIN groups : groups[i].at = p
  <1> DEFINE e == Len(taken)
  <1>1. /\ TakenNests /\ GroupsCut /\ ElseIsLast /\ e \in Nat \ {0} /\ Inside = e - 1
        /\ DOMAIN groups = 1 .. Len(groups) /\ Len(groups) \in Nat
    BY Gathering DEF Inside
  <1>2. /\ e \in DOMAIN Lines /\ \A j \in 1 .. e : Lines[j] = taken[j]
        /\ \A j \in 0 .. e : DepthAt(Lines, j) = DepthAt(taken, j)
    <2>1. DOMAIN Lines = 1 .. e + Len(pend) /\ Len(pend) \in Nat
      BY InLines
    <2> QED
      BY <1>1, <2>1, InLines
  <1>3. Whole!InsideUpTo(e - 1)
    BY <1>1, TakenInside
  <1>4. Whole!Matching(e)
    <2>1. taken[e].k = "endif" /\ DepthAt(taken, e) = 0
      BY <1>1 DEF TakenNests
    <2>2. Lines[e].k = "endif" /\ DepthAt(Lines, e) = 0
      BY <1>1, <1>2, <2>1
    <2> QED
      BY <1>2, <1>3, <2>2, SameWords DEF Whole!Matching, Lines
  <1>5. Whole!After(e) = pend
    BY LinesBehind DEF Whole!After, Lines
  <1>6. \A p \in 1 .. e : Whole!IsHead(p) <=> HeadAt(p)
    BY Vocabulary
  <1> HIDE DEF e
  <1>7. \A i \in DOMAIN groups :
          /\ groups[i].at \in 1 .. e - 1 /\ Whole!IsHead(groups[i].at)
          /\ Lines[groups[i].at] = groups[i].line /\ ~Bare(groups[i].line)
    <2> SUFFICES ASSUME NEW i \in DOMAIN groups
                 PROVE  /\ groups[i].at \in 1 .. e - 1 /\ Whole!IsHead(groups[i].at)
                        /\ Lines[groups[i].at] = groups[i].line /\ ~Bare(groups[i].line)
      OBVIOUS
    <2>1. /\ groups[i].at \in 1 .. e - 1 /\ HeadAt(groups[i].at)
          /\ taken[groups[i].at] = groups[i].line /\ ~Bare(groups[i].line)
      BY <1>1 DEF GroupsCut
    <2>2. groups[i].at \in 1 .. e
      BY <1>1, <2>1
    <2> QED
      BY <1>2, <1>6, <2>1, <2>2
  <1>8. \A p \in 1 .. e - 1 :
          Whole!IsHead(p) => \E i \in DOMAIN groups : groups[i].at = p
    <2> SUFFICES ASSUME NEW p \in 1 .. e - 1, Whole!IsHead(p)
                 PROVE  \E i \in DOMAIN groups : groups[i].at = p
      OBVIOUS
    <2>1. p \in 1 .. e
      BY <1>1
    <2>2. HeadAt(p)
      BY <1>6, <2>1
    <2> QED
      BY <1>1, <2>2 DEF GroupsCut
  <1>9. Whole!ElseLast(e)
    <2> SUFFICES ASSUME NEW p \in 1 .. e - 1, NEW q \in 1 .. e - 1,
                        Whole!IsHead(p), Whole!IsHead(q), p < q, Lines[p].k = "else"
                 PROVE  FALSE
      BY DEF Whole!ElseLast, Lines
    <2>1. PICK i \in DOMAIN groups : groups[i].at = p
      BY <1>8
    <2>2. PICK j \in DOMAIN groups : groups[j].at = q
      BY <1>8
    <2>3. i = Len(groups)
      BY <1>1, <1>7, <2>1 DEF ElseIsLast
    <2>4. i # j
      BY <1>1, <2>1, <2>2
    <2>5. j < i
      BY <1>1, <2>3, <2>4
    <2>6. groups[j].at < groups[i].at
      BY <1>1, <2>5 DEF GroupsCut
    <2> QED
      BY <1>1, <2>1, <2>2, <2>6
  <1> QED
    BY <1>1, <1>2, <1>4, <1>5, <1>7, <1>8, <1>9 DEF e

(* The groups stand in the order of their heads.                           *)
LEMMA HeadsInOrder ==
  ASSUME TypeInv, Collected, GroupsNest, Undisturbed, mode = "choose",
         NEW i \in DOMAIN groups, NEW j \in DOMAIN groups, groups[i].at < groups[j].at
  PROVE  i < j
  <1>1. /\ GroupsCut /\ DOMAIN groups = 1 .. Len(groups) /\ Len(groups) \in Nat
    BY Gathering
  <1>2. groups[i].at \in Int /\ groups[j].at \in Int
    BY TakenWhole
  <1>3. ~(j < i)
    BY <1>1, <1>2 DEF GroupsCut
  <1>4. i # j
    BY <1>2
  <1> QED
    BY <1>1, <1>3, <1>4

(* The group that is judged is the first that may be wanted.               *)
LEMMA JudgedIsNext ==
  ASSUME TypeInv, Collected, GroupsNest, Undisturbed, Judging
  PROVE  LET e == Len(taken)
             p == Judged.at
             q == EndOf(next)
         IN  /\ Whole!DecidedAt(p, e) /\ Whole!GroupEnd(p, q, e)
             /\ p \in 1 .. e - 1 /\ q \in p + 1 .. e
             /\ Lines[p] = Judged.line /\ ~Bare(Judged.line)
             /\ SubSeq(Lines, p + 1, q - 1) = Judged.toks
  <1> DEFINE e == Len(taken)
             p == Judged.at
             q == EndOf(next)
  <1>1. /\ next \in DOMAIN groups /\ mode = "choose" /\ next \in Nat
        /\ DOMAIN groups = 1 .. Len(groups) /\ Len(groups) \in Nat
    BY JudgedGroup
  <1>2. GroupsCut /\ JudgedSoFar /\ taken \in Seq(Item)
    BY <1>1, Gathering
  <1>3. /\ e \in Nat \ {0} /\ Inside = e - 1
        /\ \A i \in DOMAIN groups :
             /\ groups[i].at \in 1 .. e - 1 /\ Whole!IsHead(groups[i].at)
             /\ Lines[groups[i].at] = groups[i].line /\ ~Bare(groups[i].line)
        /\ \A j \in 1 .. e - 1 :
             Whole!IsHead(j) => \E i \in DOMAIN groups : groups[i].at = j
    BY <1>1, TakenWhole
  <1>4. p = groups[next].at
    BY DEF Judged
  <1>5. /\ p \in 1 .. e - 1 /\ Whole!IsHead(p)
        /\ Lines[p] = Judged.line /\ ~Bare(Judged.line)
    BY <1>1, <1>3 DEF Judged
  <1>6. Judged.toks = SubSeq(taken, p + 1, q - 1)
    BY <1>1, <1>2 DEF GroupsCut, Judged
  <1>7. /\ next < Len(groups) => /\ next + 1 \in DOMAIN groups
                                 /\ q = groups[next + 1].at
        /\ ~(next < Len(groups)) => q = e /\ next = Len(groups)
    BY <1>1, <1>3 DEF EndOf
  <1> HIDE DEF e, p, q
  <1>8. q \in p + 1 .. e /\ (q < e => Whole!IsHead(q))
    <2>1. CASE next < Len(groups)
      <3>1. groups[next].at < groups[next + 1].at
        BY <1>1, <1>2, <1>7, <2>1 DEF GroupsCut
      <3>2. q \in 1 .. e - 1 /\ Whole!IsHead(q) /\ p < q
        BY <1>3, <1>4, <1>7, <2>1, <3>1
      <3> QED
        BY <1>3, <1>5, <3>2
    <2>2. CASE ~(next < Len(groups))
      BY <1>3, <1>5, <1>7, <2>2
    <2> QED
      BY <2>1, <2>2
  <1>9. \A j \in 1 .. p - 1 :
          Whole!IsHead(j) => ~Holds(Lines[j], defs) /\ ~Faulty(Lines[j])
    <2> SUFFICES ASSUME NEW j \in 1 .. p - 1, Whole!IsHead(j)
                 PROVE  ~Holds(Lines[j], defs) /\ ~Faulty(Lines[j])
      OBVIOUS
    <2>1. j \in 1 .. e - 1 /\ j < p
      BY <1>3, <1>5
    <2>2. PICK i \in DOMAIN groups : groups[i].at = j
      BY <1>3, <2>1
    <2>3. i < next
      BY <1>1, <1>4, <2>1, <2>2, HeadsInOrder
    <2>4. i \in 1 .. next - 1
      BY <1>1, <2>3
    <2>5. ~Faulty(groups[i].line) /\ ~Holds(groups[i].line, defs)
      BY <1>2, <2>4 DEF JudgedSoFar
    <2> QED
      BY <1>3, <2>2, <2>5
  <1>10. Whole!DecidedAt(p, e)
    BY <1>5, <1>9, SameWords DEF Whole!DecidedAt, Lines
  <1>11. \A j \in p + 1 .. q - 1 : ~Whole!IsHead(j)
    <2> SUFFICES ASSUME NEW j \in p + 1 .. q - 1, Whole!IsHead(j) PROVE FALSE
      OBVIOUS
    <2>1. j \in 1 .. e - 1 /\ p < j /\ j < q
      BY <1>3, <1>5, <1>8
    <2>2. PICK i \in DOMAIN groups : groups[i].at = j
      BY <1>3, <2>1
    <2>3. next < i
      BY <1>1, <1>4, <2>1, <2>2, HeadsInOrder
    <2>4. next < Len(groups)
      BY <1>1, <2>3
    <2>5. i < next + 1
      BY <1>1, <1>7, <2>1, <2>2, <2>4, HeadsInOrder
    <2> QED
      BY <1>1, <2>3, <2>5
  <1>12. Whole!GroupEnd(p, q, e)
    BY <1>8, <1>11 DEF Whole!GroupEnd
  <1>13. SubSeq(Lines, p + 1, q - 1) = SubSeq(taken, p + 1, q - 1)
    <2>1. p + 1 \in Int /\ q - 1 \in Int
      BY <1>3, <1>5, <1>8
    <2>2. CASE q - 1 < p + 1
      BY <2>1, <2>2, SubSeqEmpty
    <2>3. CASE ~(q - 1 < p + 1)
      <3>1. p + 1 \in 1 .. e /\ q - 1 \in 1 .. e
        BY <1>3, <1>5, <1>8, <2>3
      <3>2. pend \in Seq(Item)
        BY DEF TypeInv, TypeOK
      <3> QED
        BY <1>2, <3>1, <3>2, SubSeqOfConcat1 DEF e, Lines
    <2> QED
      BY <2>2, <2>3
  <1> QED
    BY <1>5, <1>6, <1>8, <1>10, <1>12, <1>13 DEF e, p, q

(* The loop that judges the groups.                                        *)
LEMMA ChooseImplements ==
  ASSUME TypeInv, TypeInv', Collected, GroupsNest, Undisturbed,
         FaultyGroup \/ TakeGroup \/ SkipGroup \/ NoGroup
  PROVE  Whole!Next \/ UNCHANGED Whole!vars
  <1> DEFINE e == Len(taken)
             p == Judged.at
             q == EndOf(next)
  <1>1. mode = "choose" /\ err = "none"
    BY DEF FaultyGroup, TakeGroup, SkipGroup, NoGroup, Judging, Running
  <1>2. Whole!Running
    BY <1>1, Vocabulary
  <1>3. /\ Whole!Matching(e) /\ Whole!ElseLast(e) /\ Whole!After(e) = pend
        /\ e \in DOMAIN Lines /\ e \in Nat \ {0} /\ DOMAIN Lines = 1 .. Len(Lines)
        /\ Len(Lines) \in Nat
    BY <1>1, TakenWhole, InLines, LenProperties
  <1>4. ASSUME Judging
        PROVE  /\ Whole!DecidedAt(p, e) /\ Whole!GroupEnd(p, q, e)
               /\ p \in 1 .. e /\ q \in 1 .. e
               /\ Lines[p] = Judged.line
               /\ SubSeq(Lines, p + 1, q - 1) = Judged.toks
               /\ GroupFaulty(Judged) <=> Faulty(Lines[p])
               /\ GroupHolds(Judged) <=> Holds(Lines[p], defs)
    <2>1. /\ Whole!DecidedAt(p, e) /\ Whole!GroupEnd(p, q, e)
          /\ p \in 1 .. e - 1 /\ q \in p + 1 .. e
          /\ Lines[p] = Judged.line /\ ~Bare(Judged.line)
          /\ SubSeq(Lines, p + 1, q - 1) = Judged.toks
      BY <1>4, JudgedIsNext
    <2>2. /\ GroupFaulty(Judged) <=> Faulty(Lines[p])
          /\ GroupHolds(Judged) <=> Holds(Lines[p], defs)
      BY <2>1 DEF GroupFaulty, GroupHolds
    <2> HIDE DEF p, q, e
    <2>3. p \in 1 .. e /\ q \in 1 .. e
      BY <1>3, <2>1
    <2> QED
      BY <2>1, <2>2, <2>3
  <1>5. CASE FaultyGroup
    <2>1. Judging /\ Raise("condition") /\ GroupFaulty(Judged)
      BY <1>5 DEF FaultyGroup
    <2>2. /\ Whole!DecidedAt(p, e) /\ p \in 1 .. e /\ Faulty(Lines[p])
      BY <1>4, <2>1
    <2> HIDE DEF p, e
    <2>3. Whole!Refused("condition")
      BY <1>3, <2>2, SameWords DEF Whole!Refused, Lines
    <2> QED
      BY <1>1, <2>1, <2>3, RaiseImplements
  <1>6. ASSUME NEW r, Leave(r)
        PROVE  /\ (taken \o pend)' = r
               /\ UNCHANGED <<defs, out, err, events>>
    <2>1. taken' = <<>> /\ pend' = r /\ pend' \in Seq(Item)
      BY <1>6 DEF Leave, TypeInv, TypeOK
    <2> QED
      BY <1>6, <2>1, ConcatEmptySeq DEF Leave
  <1>7. CASE TakeGroup
    <2>1. Judging /\ ~GroupFaulty(Judged) /\ GroupHolds(Judged) /\ Leave(Judged.toks \o pend)
      BY <1>7 DEF TakeGroup
    <2>2. /\ Whole!DecidedAt(p, e) /\ Whole!GroupEnd(p, q, e)
          /\ p \in 1 .. e /\ q \in 1 .. e
          /\ ~Faulty(Lines[p]) /\ Holds(Lines[p], defs)
          /\ SubSeq(Lines, p + 1, q - 1) = Judged.toks
      BY <1>4, <2>1
    <2>3. /\ (taken \o pend)' = SubSeq(Lines, p + 1, q - 1) \o Whole!After(e)
          /\ UNCHANGED <<defs, out, err, events>>
      BY <1>3, <1>6, <2>1, <2>2
    <2> HIDE DEF p, q, e
    <2>4. Whole!Resolve
      BY <1>2, <1>3, <2>2, <2>3, SameWords DEF Whole!Resolve, Lines, Undisturbed
    <2> QED
      BY <2>4 DEF Whole!Next
  <1>8. CASE SkipGroup
    BY <1>8, StutterImplements DEF SkipGroup, Stutter, Lines
  <1>9. CASE NoGroup
    <2>1. next > Len(groups) /\ Leave(pend)
      BY <1>9 DEF NoGroup
    <2>2. (taken \o pend)' = Whole!After(e) /\ UNCHANGED <<defs, out, err, events>>
      BY <1>3, <1>6, <2>1
    <2>3. /\ JudgedSoFar /\ DOMAIN groups = 1 .. Len(groups) /\ Len(groups) \in Nat
          /\ next \in Nat
      BY <1>1, Gathering DEF TypeInv, TypeOK
    <2>4. \A j \in 1 .. e - 1 :
            Whole!IsHead(j) => ~Holds(Lines[j], defs) /\ ~Faulty(Lines[j])
      <3> SUFFICES ASSUME NEW j \in 1 .. e - 1, Whole!IsHead(j)
                   PROVE  ~Holds(Lines[j], defs) /\ ~Faulty(Lines[j])
        OBVIOUS
      <3>1. PICK i \in DOMAIN groups : groups[i].at = j
        BY <1>1, TakenWhole
      <3>2. Lines[groups[i].at] = groups[i].line
        BY <1>1, TakenWhole
      <3>3. i \in 1 .. next - 1
        BY <2>1, <2>3
      <3>4. ~Faulty(groups[i].line) /\ ~Holds(groups[i].line, defs)
        BY <2>3, <3>3 DEF JudgedSoFar
      <3> QED
        BY <3>1, <3>2, <3>4
    <2> HIDE DEF e
    <2>5. Whole!Resolve
      BY <1>2, <1>3, <2>2, <2>4, SameWords DEF Whole!Resolve, Lines, Undisturbed
    <2> QED
      BY <2>5 DEF Whole!Next
  <1> QED
    BY <1>5, <1>7, <1>8, <1>9

(* Every step of PP_if2 is one that Conditionals allows.                   *)
LEMMA StepImplements ==
  ASSUME IInv, IInv', [Next]_vars PROVE [Whole!Next]_(Whole!vars)
  <1>1. /\ TypeInv /\ TypeInv' /\ Collected /\ GroupsNest
    BY DEF IInv, TypeInv
  <1>2. CASE UNCHANGED vars
    BY <1>2, StutterImplements DEF vars, locals, Stutter, Lines
  <1>3. CASE ~Undisturbed /\ Step
    <2>1. events \subseteq events'
      BY <1>3, EventsKept
    <2>2. ~Undisturbed'
      BY <1>3, <2>1 DEF Undisturbed
    <2> QED
      BY <1>3, <2>2, BrokenImplements
  <1>4. CASE Undisturbed /\ Step
    <2>1. ~(ConditionTakes \/ ConditionEnds)
      BY <1>1, <1>4 DEF ConditionTakes, ConditionEnds, Running, TypeInv, Outline
    <2>2. ~GroupsExhausted
      BY <1>1, <1>4 DEF GroupsExhausted, Running, NeedsSource, TypeInv, Outline
    <2> QED
      BY <1>1, <1>4, <2>1, <2>2, ReadImplements, GetImplements, StartImplements,
         NullImplements, GatherImplements, ChooseImplements DEF Step
  <1> QED
    BY <1>2, <1>3, <1>4 DEF Next, Terminating

(* A conditional is replaced, as if in one step, by the first of its       *)
(* groups that is wanted, however the conditionals are nested and spread   *)
(* over files, until an #elif has nothing behind it (PP_if2.java, scan).   *)
THEOREM ConditionalsImplemented == Spec => ImplementsConditionals
  <1>1. Init => Whole!Init
    <2> SUFFICES ASSUME Init PROVE Whole!Init
      OBVIOUS
    <2>1. taken = <<>> /\ pend = <<SB>> /\ events = {}
      BY DEF Init
    <2>2. <<SB>> \in Seq(Item)
      BY DEF SB, Item, Marker
    <2>3. taken \o pend = <<SB>>
      BY <2>1, <2>2, ConcatEmptySeq
    <2> QED
      BY <2>1, <2>3, SameWords DEF Init, Whole!Init, Undisturbed
  <1>2. IInv /\ IInv' /\ [Next]_vars => [Whole!Next]_(Whole!vars)
    BY StepImplements
  <1> QED
    BY <1>1, <1>2, Invariant, PTL DEF Spec, ImplementsConditionals, Whole!Spec

=============================================================================
