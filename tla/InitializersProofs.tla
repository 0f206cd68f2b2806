-------------------------- MODULE InitializersProofs --------------------------
(***************************************************************************)
(* The calls of read_struct_inits and read_array_inits that have not       *)
(* returned are, list in braces by list in braces, the steps of a path     *)
(* through the types; behind the path is the one the language has for that *)
(* list.  So an expression goes to the object that the language gives it   *)
(* to, for all types and all lists in which the item behind a designator   *)
(* for a field has a designator too (FieldsInRow: ParseInitializer.java:98 *)
(* reads the others differently).  And an array without a length gets all  *)
(* elements up to the one that the last expression is for.                 *)
(***************************************************************************)
EXTENDS Initializers, SequenceLemmas, FiniteSetTheorems

-----------------------------------------------------------------------------
(* Sequences and their last element                                        *)

LEMMA OneLess ==
  ASSUME NEW L \in Nat, L >= 1
  PROVE  LET n == L - 1 IN n \in Nat /\ (1 <= n => n - 1 + 1 = n) /\ (~(1 <= n) => n = 0)
OBVIOUS

LEMMA FrontIs ==
  ASSUME NEW S, NEW s \in Seq(S), s # <<>>
  PROVE  /\ Len(s) \in Nat /\ Len(s) >= 1 /\ Len(Front(s)) = Len(s) - 1
         /\ Front(s) \in Seq(S) /\ \A i \in 1..(Len(s) - 1) : Front(s)[i] = s[i]
         /\ Last(s) \in S /\ Last(s) = s[Len(s)] /\ s = Append(Front(s), Last(s))
<1>1. Len(s) \in Nat /\ Len(s) >= 1 OBVIOUS
<1>2. Last(s) \in S /\ Last(s) = s[Len(s)] BY <1>1 DEF Last
<1>3. /\ Front(s) \in Seq(S) /\ Len(Front(s)) = Len(s) - 1
      /\ \A i \in 1..(Len(s) - 1) : Front(s)[i] = s[i]
  <2>1. \A i \in 1..(Len(s) - 1) : s[i] \in S BY <1>1
  <2>2. Len(s) - 1 \in Int BY <1>1
  <2> DEFINE f == SubSeq(s, 1, Len(s) - 1)
  <2>3. f \in Seq(S) BY <2>1, <2>2, SubSeqProperties
  <2>4. Len(f) = IF 1 <= Len(s) - 1 THEN (Len(s) - 1) - 1 + 1 ELSE 0
    BY <2>1, <2>2, SubSeqProperties
  <2>7. \A i \in 1..((Len(s) - 1) - 1 + 1) : f[i] = s[1 + i - 1] BY <2>1, <2>2, SubSeqProperties
  <2>5. \A i \in 1..(Len(s) - 1) : f[i] = s[i]
    <3> HIDE DEF f
    <3> TAKE i \in 1..(Len(s) - 1)
    <3>1. i \in 1..((Len(s) - 1) - 1 + 1) /\ 1 + i - 1 = i BY <1>1
    <3>2. f[i] = s[1 + i - 1] BY <2>7, <3>1, Zenon
    <3> QED BY <3>1, <3>2, Zenon
  <2> HIDE DEF f
  <2> DEFINE n == Len(s) - 1
  <2>8. n \in Nat /\ (1 <= n => n - 1 + 1 = n) /\ (~(1 <= n) => n = 0) BY <1>1, OneLess
  <2>9. Len(f) = IF 1 <= n THEN n - 1 + 1 ELSE 0 BY <2>4
  <2> HIDE DEF n
  <2>6. Len(f) = n BY <2>8, <2>9
  <2> QED BY <2>3, <2>5, <2>6 DEF f, n, Front
<1>4. s = Append(Front(s), Last(s))
  <2> DEFINE a == Append(Front(s), Last(s))
  <2>1. /\ a \in Seq(S) /\ Len(a) = (Len(s) - 1) + 1
        /\ \A i \in 1..(Len(s) - 1) : a[i] = s[i]
        /\ a[(Len(s) - 1) + 1] = s[Len(s)]
    BY <1>1, <1>2, <1>3
  <2> HIDE DEF a
  <2>2. Len(a) = Len(s) /\ \A i \in 1..Len(s) : s[i] = a[i]
    BY <1>1, <2>1
  <2>3. s = a BY <2>1, <2>2, SeqEqual
  <2> QED BY <2>3 DEF a
<1> QED BY <1>1, <1>2, <1>3, <1>4

LEMMA AppendIs ==
  ASSUME NEW S, NEW s \in Seq(S), NEW e \in S
  PROVE  /\ Append(s, e) \in Seq(S) /\ Append(s, e) # <<>>
         /\ Len(Append(s, e)) = Len(s) + 1 /\ Len(s) \in Nat
         /\ \A i \in 1..Len(s) : Append(s, e)[i] = s[i]
         /\ Append(s, e)[Len(s) + 1] = e
         /\ Front(Append(s, e)) = s /\ Last(Append(s, e)) = e
<1> DEFINE a == Append(s, e)
<1>1. /\ a \in Seq(S) /\ a # <<>> /\ Len(a) = Len(s) + 1 /\ Len(s) \in Nat
      /\ \A i \in 1..Len(s) : a[i] = s[i]
      /\ a[Len(s) + 1] = e
  OBVIOUS
<1> HIDE DEF a
<1>2. /\ Front(a) \in Seq(S) /\ Len(Front(a)) = Len(s) /\ Last(a) = e
      /\ \A i \in 1..Len(s) : Front(a)[i] = s[i]
  BY <1>1, FrontIs
<1>3. Front(a) = s BY <1>2, SeqEqual
<1> QED BY <1>1, <1>2, <1>3 DEF a

LEMMA SingleIs ==
  ASSUME NEW S, NEW e \in S
  PROVE  /\ <<e>> \in Seq(S) /\ <<e>> # <<>> /\ Len(<<e>>) = 1 /\ <<e>>[1] = e
         /\ Last(<<e>>) = e /\ Append(<<>>, e) = <<e>>
<1> DEFINE s == <<e>>
<1>1. s \in Seq(S) /\ s # <<>> /\ Len(s) = 1 /\ s[1] = e /\ Append(<<>>, e) = s OBVIOUS
<1> HIDE DEF s
<1>2. Last(s) = s[Len(s)] BY <1>1, FrontIs
<1> QED BY <1>1, <1>2 DEF s

(* The end of what stands behind something else. *)
LEMMA EndOfConcat ==
  ASSUME NEW S, NEW r \in Seq(S), NEW s \in Seq(S), s # <<>>
  PROVE  /\ r \o s # <<>> /\ r \o s \in Seq(S)
         /\ Last(r \o s) = Last(s) /\ Front(r \o s) = r \o Front(s)
<1>1. /\ Front(s) \in Seq(S) /\ Last(s) \in S /\ s = Append(Front(s), Last(s))
  BY FrontIs
<1>2. r \o Front(s) \in Seq(S) BY <1>1, ConcatIs
<1>3. r \o s = Append(r \o Front(s), Last(s))
  <2> DEFINE f == Front(s)
             e == Last(s)
  <2>1. f \in Seq(S) /\ e \in S BY <1>1
  <2> HIDE DEF f, e
  <2>2. r \o Append(f, e) = Append(r \o f, e) BY <2>1
  <2> QED BY <1>1, <2>2 DEF f, e
<1> DEFINE b == r \o Front(s)
           e == Last(s)
<1>4. b \in Seq(S) /\ e \in S /\ r \o s = Append(b, e) BY <1>1, <1>2, <1>3
<1> HIDE DEF b, e
<1>5. Append(b, e) # <<>> /\ Append(b, e) \in Seq(S) /\ Last(Append(b, e)) = e
      /\ Front(Append(b, e)) = b
  BY <1>4, AppendIs
<1> QED BY <1>4, <1>5 DEF b, e

AppendsBehind(r, s, e) == Append(r \o s, e) = r \o Append(s, e)

LEMMA AppendBehind ==
  ASSUME NEW S, NEW r \in Seq(S), NEW s \in Seq(S), NEW e \in S
  PROVE  AppendsBehind(r, s, e)
BY DEF AppendsBehind

(* A set of numbers up to n that is not empty has a greatest one. *)
LEMMA MaxIs ==
  ASSUME NEW n \in Nat, NEW S, S \subseteq 1..n, S # {}
  PROVE  Max(S) \in S /\ \A y \in S : y <= Max(S)
<1> DEFINE U == {n - x : x \in S}
<1>1. \A x \in S : n - x \in Nat /\ x \in Int OBVIOUS
<1>2. U \subseteq Nat /\ U # {} BY <1>1
<1> HIDE DEF U
<1>3. PICK u \in U : \A v \in U : u <= v BY <1>2, LeastOfNaturals
<1> USE DEF U
<1>4. PICK x \in S : u = n - x OBVIOUS
<1>5. \A y \in S : x >= y
  <2> TAKE y \in S
  <2>1. n - x <= n - y BY <1>3, <1>4
  <2> QED BY <1>1, <2>1
<1>6. Max(S) \in S /\ \A y \in S : Max(S) >= y BY <1>5 DEF Max
<1>7. \A y \in S : y <= Max(S)
  <2> TAKE y \in S
  <2> QED BY <1>1, <1>6
<1> QED BY <1>6, <1>7

-----------------------------------------------------------------------------
(* Objects and paths                                                       *)

Object == [type : DOMAIN Types, off : Nat]
(* Before the first part of an object, the last one read is part -1. *)
Index == Nat \cup {-1}
PathStep == [obj : Object, idx : Index, byName : BOOLEAN]
Paths == Seq(PathStep)
Fits(o, i) == i \in Nat /\ (Unbounded(o.type) \/ i < Count(o.type))

LEMMA PathIs ==
  ASSUME NEW p \in Paths, NEW a \in PathStep
  PROVE  /\ Append(p, a) \in Paths /\ Append(p, a) # <<>>
         /\ Last(Append(p, a)) = a /\ Front(Append(p, a)) = p
BY AppendIs DEF Paths

LEMMA TimesNat ==
  ASSUME NEW i \in Nat, NEW n \in Nat
  PROVE  i * n \in Nat
OBVIOUS

LEMMA TypeIs ==
  ASSUME NEW t \in DOMAIN Types
  PROVE  /\ t \in Nat /\ Count(t) \in Nat /\ Types[t].size \in Nat
         /\ Types[t].kind \in {"scalar", "struct", "array"}
         /\ Types[t].kind = "scalar" => Count(t) = 1
         /\ Types[t].kind = "struct" =>
              /\ Count(t) = Len(Types[t].fields) /\ Count(t) >= 1
              /\ \A i \in 1..Count(t) :
                   /\ Types[t].fields[i].type \in DOMAIN Types /\ Types[t].fields[i].type < t
                   /\ Types[t].fields[i].off \in Nat
              /\ Types[t].fields[1].off = 0
         /\ Types[t].kind = "array" => Types[t].elem \in DOMAIN Types /\ Types[t].elem < t
<1>1. PICK n \in Nat : DOMAIN Types = 1..n BY TypesAssumption
<1>2. t \in Nat /\ t \in 1..n BY <1>1
<1>3. \A u \in 1..(t - 1) : u \in DOMAIN Types /\ u < t BY <1>1, <1>2
<1>4. CASE Types[t].kind = "scalar" BY <1>2, <1>4, TypesAssumption DEF Count
<1>5. CASE Types[t].kind = "struct"
  <2>1. /\ Types[t].fields \in Seq([type : 1..(t - 1), off : Nat])
        /\ Types[t].fields # <<>> /\ Types[t].fields[1].off = 0
    BY <1>5, TypesAssumption
  <2> DEFINE fs == Types[t].fields
  <2>2. Count(t) = Len(fs) BY <1>5 DEF Count
  <2> DEFINE R == [type : 1..(t - 1), off : Nat]
  <2>7. fs \in Seq(R) /\ fs # <<>> BY <2>1
  <2> HIDE DEF fs, R
  <2>3. Len(fs) \in Nat /\ Len(fs) >= 1 BY <2>7
  <2>8. \A i \in 1..Len(fs) : fs[i] \in R BY <2>7
  <2>4. \A i \in 1..Len(fs) : fs[i] \in [type : 1..(t - 1), off : Nat] BY <2>8 DEF R
  <2>5. \A i \in 1..Len(fs) : fs[i].type \in DOMAIN Types /\ fs[i].type < t /\ fs[i].off \in Nat
    BY <1>3, <2>4
  <2>6. Types[t].size \in Nat BY TypesAssumption
  <2> QED BY <1>2, <1>5, <2>1, <2>2, <2>3, <2>5, <2>6 DEF fs
<1>6. CASE Types[t].kind = "array" BY <1>2, <1>3, <1>6, TypesAssumption DEF Count
<1> QED BY <1>4, <1>5, <1>6, TypesAssumption

LEMMA PartIs ==
  ASSUME NEW o \in Object, NEW i, Fits(o, i)
  PROVE  /\ Part(o, i) \in Object /\ Fits(o, 0)
         /\ Aggregate(o.type) => Part(o, i).type < o.type /\ Part(o, 0).off = o.off
<1> DEFINE t == o.type
<1>1. t \in DOMAIN Types /\ o.off \in Nat BY DEF Object
<1>2. i \in Nat /\ (Count(t) = 0 \/ i < Count(t)) BY DEF Fits, Unbounded
<1> HIDE DEF t
<1>3. Count(t) \in Nat BY <1>1, TypeIs
<1>4. Count(t) = 0 \/ 0 < Count(t) BY <1>3
<1>5. Fits(o, 0) BY <1>4 DEF Fits, Unbounded, t
<1>6. CASE Types[t].kind = "scalar"
  <2>1. Part(o, i) = o BY <1>6 DEF Part, t
  <2>2. ~Aggregate(t) BY <1>6 DEF Aggregate
  <2> QED BY <1>5, <2>1, <2>2 DEF t
<1>7. CASE Types[t].kind = "struct"
  <2>1. /\ Count(t) >= 1
        /\ \A k \in 1..Count(t) :
             /\ Types[t].fields[k].type \in DOMAIN Types /\ Types[t].fields[k].type < t
             /\ Types[t].fields[k].off \in Nat
        /\ Types[t].fields[1].off = 0
    BY <1>1, <1>7, TypeIs
  <2> DEFINE f == Types[t].fields[i + 1]
  <2>2. i + 1 \in 1..Count(t) BY <1>2, <1>3, <2>1
  <2>3. f.type \in DOMAIN Types /\ f.type < t /\ f.off \in Nat BY <2>1, <2>2
  <2>4. Part(o, i) = [type |-> f.type, off |-> o.off + f.off] BY <1>7 DEF Part, t
  <2>5. Part(o, 0) = [type |-> Types[t].fields[1].type, off |-> o.off + Types[t].fields[1].off]
    BY <1>7 DEF Part, t
  <2> HIDE DEF f
  <2>6. o.off + f.off \in Nat /\ o.off + Types[t].fields[1].off = o.off BY <1>1, <2>1, <2>3
  <2>7. Part(o, i) \in Object BY <2>3, <2>4, <2>6 DEF Object
  <2>8. Part(o, i).type < t /\ Part(o, 0).off = o.off BY <2>3, <2>4, <2>5, <2>6
  <2> QED BY <1>5, <2>7, <2>8 DEF t
<1>8. CASE Types[t].kind = "array"
  <2> DEFINE e == Types[t].elem
             z == Types[e].size
  <2>1. e \in DOMAIN Types /\ e < t BY <1>1, <1>8, TypeIs
  <2>2. Part(o, i) = [type |-> e, off |-> o.off + i * z] BY <1>8 DEF Part, t
  <2>3. Part(o, 0) = [type |-> e, off |-> o.off + 0 * z] BY <1>8 DEF Part, t
  <2>4. z \in Nat BY <2>1, TypeIs
  <2> HIDE DEF e, z
  <2>5. i * z \in Nat BY <1>2, <2>4, TimesNat
  <2>6. o.off + i * z \in Nat /\ o.off + 0 * z = o.off BY <1>1, <2>4, <2>5
  <2>7. Part(o, i) \in Object BY <2>1, <2>2, <2>6 DEF Object
  <2>8. Part(o, i).type < t /\ Part(o, 0).off = o.off BY <2>1, <2>2, <2>3, <2>6
  <2> QED BY <1>5, <2>7, <2>8 DEF t
<1> QED BY <1>1, <1>6, <1>7, <1>8, TypeIs

(* The step behind a, and one that a designator chose. *)
NextOf(a) == [a EXCEPT !.idx = @ + 1]
Named(a, b) == [NextOf(a) EXCEPT !.byName = b]

LEMMA AtIs ==
  ASSUME NEW o \in Object, NEW i \in Index, NEW b \in BOOLEAN
  PROVE  /\ At(o, i, b) \in PathStep
         /\ At(o, i, b).obj = o /\ At(o, i, b).idx = i /\ At(o, i, b).byName = b
<1>1. [obj |-> o, idx |-> i, byName |-> b] \in [obj : Object, idx : Index, byName : BOOLEAN]
  BY Zenon
<1> QED BY <1>1, Zenon DEF At, PathStep

LEMMA StepIs ==
  ASSUME NEW a \in PathStep
  PROVE  /\ a.obj \in Object /\ a.idx \in Index /\ a.byName \in BOOLEAN
         /\ a.idx + 1 \in Nat /\ a = At(a.obj, a.idx, a.byName)
<1>1. a.obj \in Object /\ a.idx \in Index /\ a.byName \in BOOLEAN BY Zenon DEF PathStep
<1>2. a = At(a.obj, a.idx, a.byName) BY DEF PathStep, At
<1>3. a.idx + 1 \in Nat BY <1>1 DEF Index
<1> QED BY <1>1, <1>2, <1>3

LEMMA NextIs ==
  ASSUME NEW a \in PathStep
  PROVE  /\ NextOf(a) = At(a.obj, a.idx + 1, a.byName)
         /\ NextOf(a) \in PathStep /\ NextOf(a).obj = a.obj
         /\ NextOf(a).idx = a.idx + 1 /\ NextOf(a).idx \in Nat
         /\ NextOf(a).byName = a.byName
<1>1. a.obj \in Object /\ a.idx + 1 \in Nat /\ a.byName \in BOOLEAN BY StepIs
<1>2. NextOf(a) = At(a.obj, a.idx + 1, a.byName) BY DEF PathStep, NextOf, At
<1>3. a.idx + 1 \in Index BY <1>1 DEF Index
<1>4. At(a.obj, a.idx + 1, a.byName) \in PathStep BY <1>1, <1>3, AtIs
<1>5. /\ At(a.obj, a.idx + 1, a.byName).obj = a.obj
      /\ At(a.obj, a.idx + 1, a.byName).idx = a.idx + 1
      /\ At(a.obj, a.idx + 1, a.byName).byName = a.byName
  BY Zenon DEF At
<1> QED BY <1>1, <1>2, <1>4, <1>5, Zenon

LEMMA NamedIs ==
  ASSUME NEW a \in PathStep, NEW b \in BOOLEAN
  PROVE  /\ Named(a, b) = At(a.obj, a.idx + 1, b)
         /\ Named(a, b) \in PathStep /\ Named(a, b).obj = a.obj
         /\ Named(a, b).idx = a.idx + 1 /\ Named(a, b).idx \in Nat
         /\ Named(a, b).byName = b
         /\ Room(Named(a, b)) <=> Room(NextOf(a))
<1> DEFINE n == NextOf(a)
           m == Named(a, b)
<1>1. n \in PathStep /\ n.obj = a.obj /\ n.idx = a.idx + 1 /\ n.idx \in Nat
      /\ a.obj \in Object /\ n.idx \in Index
  BY NextIs, StepIs DEF Index
<1>2. m = [n EXCEPT !.byName = b] BY DEF Named
<1> HIDE DEF n, m
<1>3. m = At(n.obj, n.idx, b) BY <1>1, <1>2 DEF PathStep, At
<1>4. m \in PathStep BY <1>1, <1>3, AtIs
<1>6. m.obj = n.obj /\ m.idx = n.idx /\ m.byName = b BY <1>3, Zenon DEF At
<1>5. Room(m) <=> Room(n) BY <1>6 DEF Room
<1> QED BY <1>1, <1>3, <1>4, <1>5, <1>6, Zenon DEF n, m

(* Where Behind goes on: k is the innermost object that has another part.  *)
TurnsAt(p, k) ==
  /\ k = 1 \/ Room(NextOf(p[k]))
  /\ \A j \in (k + 1)..Len(p) : ~Room(NextOf(p[j]))
Turned(p, k) ==
  Append(SubSeq(p, 1, k - 1), Named(p[k], \E j \in k..Len(p) : p[j].byName))

LEMMA BehindIs ==
  ASSUME NEW p \in Paths, p # <<>>
  PROVE  /\ \E k \in 1..Len(p) : TurnsAt(p, k)
         /\ \A k \in 1..Len(p) : TurnsAt(p, k) => Behind(p) = Turned(p, k)
<1> DEFINE N == Len(p)
           S == {1} \cup {j \in DOMAIN p : Room(NextOf(p[j]))}
           k == Max(S)
<1>1. N \in Nat /\ N >= 1 /\ DOMAIN p = 1..N BY DEF Paths
<1> HIDE DEF N
<1>2. S \subseteq 1..N /\ S # {} BY <1>1
<1> HIDE DEF S
<1>3. k \in S /\ \A y \in S : y <= k BY <1>1, <1>2, MaxIs
<1> DEFINE next == [j \in DOMAIN p |-> NextOf(p[j])]
<1>4. Behind(p) = Append(SubSeq(p, 1, k - 1),
                         [next[k] EXCEPT !.byName = \E j \in k..Len(p) : p[j].byName])
  <2>1. S = {1} \cup {j \in DOMAIN p : Room(next[j])} BY DEF S
  <2>2. next = [j \in DOMAIN p |-> [p[j] EXCEPT !.idx = @ + 1]] BY DEF NextOf
  <2> HIDE DEF next
  <2> QED BY <2>1, <2>2, Zenon DEF Behind
<1> HIDE DEF k
<1>5. k \in 1..N BY <1>2, <1>3
<1>6. next[k] = NextOf(p[k]) BY <1>1, <1>5
<1> HIDE DEF next
<1>7. Behind(p) = Turned(p, k) BY <1>4, <1>6 DEF Turned, Named
<1>8. TurnsAt(p, k)
  <2>1. k = 1 \/ Room(NextOf(p[k])) BY <1>3 DEF S
  <2>2. ASSUME NEW j \in (k + 1)..Len(p) PROVE ~Room(NextOf(p[j]))
    <3>1. j \in 1..N /\ ~(j <= k) BY <1>1, <1>5 DEF N
    <3>2. j \notin S BY <1>3, <3>1
    <3> QED BY <1>1, <3>1, <3>2 DEF S
  <2> QED BY <2>1, <2>2 DEF TurnsAt
<1>9. ASSUME NEW i \in 1..N, TurnsAt(p, i) PROVE i = k
  <2>1. i \in S BY <1>1, <1>9 DEF TurnsAt, S
  <2>2. i <= k BY <1>3, <2>1
  <2>3. ~(i < k)
    <3> SUFFICES ASSUME i < k PROVE FALSE
      OBVIOUS
    <3>1. k \in (i + 1)..Len(p) /\ k # 1 BY <1>1, <1>5 DEF N
    <3>2. ~Room(NextOf(p[k])) BY <1>9, <3>1 DEF TurnsAt
    <3> QED BY <1>8, <3>1, <3>2 DEF TurnsAt
  <2> QED BY <1>5, <2>2, <2>3
<1> QED BY <1>5, <1>7, <1>8, <1>9 DEF N

(* What Behind makes of a path: k is the last step that it keeps. *)
LEMMA TurnedIs ==
  ASSUME NEW p \in Paths, NEW k \in 1..Len(p)
  PROVE  /\ Len(p) \in Nat /\ k \in Nat /\ p[k] \in PathStep
         /\ SubSeq(p, 1, k - 1) \in Paths /\ Len(SubSeq(p, 1, k - 1)) = k - 1
         /\ \A i \in 1..(k - 1) : SubSeq(p, 1, k - 1)[i] = p[i]
         /\ Turned(p, k) \in Paths /\ Turned(p, k) # <<>> /\ Len(Turned(p, k)) = k
         /\ \A i \in 1..(k - 1) : Turned(p, k)[i] = p[i]
         /\ Last(Turned(p, k)) = Turned(p, k)[k] /\ Front(Turned(p, k)) = SubSeq(p, 1, k - 1)
         /\ Last(Turned(p, k)).obj = p[k].obj /\ Last(Turned(p, k)).idx = p[k].idx + 1
         /\ Last(Turned(p, k)).idx \in Nat
         /\ Last(Turned(p, k)).byName <=> \E j \in k..Len(p) : p[j].byName
         /\ Room(Last(Turned(p, k))) <=> Room(NextOf(p[k]))
<1> DEFINE b == \E j \in k..Len(p) : p[j].byName
           e == Named(p[k], b)
           f == SubSeq(p, 1, k - 1)
           n == k - 1
<1>1. Len(p) \in Nat /\ k \in Nat /\ k >= 1 /\ k <= Len(p) /\ n + 1 = k
  BY DEF Paths
<1>2. n \in Nat /\ n \in Int /\ (1 <= n => n - 1 + 1 = n) /\ (~(1 <= n) => n = 0)
  BY <1>1, OneLess
<1>3. p[k] \in PathStep /\ \A i \in 1..n : p[i] \in PathStep BY <1>1 DEF Paths
<1>4. b \in BOOLEAN OBVIOUS
<1> HIDE DEF b
<1>5. /\ e \in PathStep /\ e.obj = p[k].obj /\ e.idx = p[k].idx + 1 /\ e.idx \in Nat /\ e.byName = b
      /\ Room(e) <=> Room(NextOf(p[k]))
  BY <1>3, <1>4, NamedIs
<1>6. Turned(p, k) = Append(f, e) BY DEF Turned, b
<1> HIDE DEF e, n
<1>7. f = SubSeq(p, 1, n) BY DEF n
<1> HIDE DEF f
<1>8. f \in Seq(PathStep) /\ Len(f) = IF 1 <= n THEN n - 1 + 1 ELSE 0
  BY <1>2, <1>3, <1>7, SubSeqProperties
<1>9. Len(f) = n BY <1>2, <1>8
<1>10. \A i \in 1..(n - 1 + 1) : f[i] = p[1 + i - 1]
  BY <1>2, <1>3, <1>7, SubSeqProperties
<1>11. \A i \in 1..n : f[i] = p[i]
  <2> TAKE i \in 1..n
  <2>1. i \in 1..(n - 1 + 1) /\ 1 + i - 1 = i BY <1>2
  <2>2. f[i] = p[1 + i - 1] BY <1>10, <2>1, Zenon
  <2> QED BY <2>1, <2>2, Zenon
<1> DEFINE t == Append(f, e)
<1>12. /\ t \in Seq(PathStep) /\ t # <<>> /\ Len(t) = n + 1
       /\ \A i \in 1..n : t[i] = f[i]
       /\ t[n + 1] = e /\ Front(t) = f /\ Last(t) = e
  BY <1>5, <1>8, <1>9, AppendIs
<1> HIDE DEF t
<1>13. Turned(p, k) = t BY <1>6 DEF t
<1>14. k - 1 = n BY DEF n
<1>15. Last(t).byName <=> \E j \in k..Len(p) : p[j].byName BY <1>5, <1>12, Zenon DEF b
<1>16. /\ Last(t).obj = p[k].obj /\ Last(t).idx = p[k].idx + 1 /\ Last(t).idx \in Nat
       /\ Room(Last(t)) <=> Room(NextOf(p[k]))
  BY <1>5, <1>12
<1>17. Last(t) = t[k] BY <1>1, <1>12
<1>18. /\ SubSeq(p, 1, k - 1) = f /\ f \in Paths /\ Len(f) = k - 1
       /\ \A i \in 1..(k - 1) : f[i] = p[i]
  BY <1>7, <1>8, <1>9, <1>11, <1>14, Zenon DEF Paths
<1>19. t \in Paths /\ t # <<>> /\ Len(t) = k /\ \A i \in 1..(k - 1) : t[i] = p[i]
  BY <1>1, <1>11, <1>12, <1>14, Zenon DEF Paths
<1>20. Front(t) = SubSeq(p, 1, k - 1) BY <1>12, <1>18, Zenon
<1> QED BY <1>1, <1>3, <1>13, <1>15, <1>16, <1>17, <1>18, <1>19, <1>20, Zenon

LEMMA BehindType ==
  ASSUME NEW p \in Paths, p # <<>>
  PROVE  /\ Behind(p) \in Paths /\ Behind(p) # <<>>
         /\ Behind(p)[1].obj = p[1].obj /\ Last(Behind(p)).idx \in Nat
         /\ Last(p).byName => Last(Behind(p)).byName
         /\ ~Room(Last(Behind(p))) => Len(Behind(p)) = 1
<1>1. PICK k \in 1..Len(p) : TurnsAt(p, k) BY BehindIs
<1>2. Behind(p) = Turned(p, k) BY <1>1, BehindIs
<1>3. Len(p) \in Nat /\ k \in Nat /\ k >= 1 /\ k <= Len(p) BY DEF Paths
<1>4. Behind(p) \in Paths /\ Behind(p) # <<>> /\ Last(Behind(p)).idx \in Nat BY <1>2, TurnedIs
<1>5. Behind(p)[1].obj = p[1].obj
  <2>1. CASE k = 1
    <3>1. Last(Turned(p, k)) = Turned(p, k)[k] /\ Last(Turned(p, k)).obj = p[k].obj BY TurnedIs
    <3> QED BY <1>2, <2>1, <3>1
  <2>2. CASE k # 1
    <3>1. 1 \in 1..(k - 1) BY <1>3, <2>2
    <3>2. Turned(p, k)[1] = p[1] BY <3>1, TurnedIs
    <3> QED BY <1>2, <3>2
  <2> QED BY <2>1, <2>2
<1>6. ASSUME Last(p).byName PROVE Last(Behind(p)).byName
  <2>1. Last(p) = p[Len(p)] BY FrontIs DEF Paths
  <2>2. Len(p) \in k..Len(p) BY <1>3
  <2>3. \E j \in k..Len(p) : p[j].byName BY <1>6, <2>1, <2>2
  <2>4. Last(Turned(p, k)).byName <=> \E j \in k..Len(p) : p[j].byName BY TurnedIs
  <2> QED BY <1>2, <2>3, <2>4
<1>7. ASSUME ~Room(Last(Behind(p))) PROVE Len(Behind(p)) = 1
  <2>1. /\ Room(Last(Turned(p, k))) <=> Room(NextOf(p[k]))
        /\ Len(Turned(p, k)) = k
    BY TurnedIs
  <2>2. k = 1 BY <1>1, <1>2, <1>7, <2>1 DEF TurnsAt
  <2> QED BY <1>2, <2>1, <2>2
<1> QED BY <1>4, <1>5, <1>6, <1>7

(* The last one of a path that is not read to its end has another part. *)
LEMMA BehindRoom ==
  ASSUME NEW p \in Paths, NEW a \in PathStep, Room(NextOf(a))
  PROVE  Behind(Append(p, a)) = Append(p, NextOf(a))
<1> DEFINE s == Append(p, a)
           k == Len(p) + 1
<1>1. /\ s \in Paths /\ s # <<>> /\ Len(s) = k /\ Len(p) \in Nat /\ s[k] = a /\ Front(s) = p
  BY AppendIs DEF Paths
<1> HIDE DEF s
<1>2. k \in 1..Len(s) /\ k - 1 = Len(s) - 1 /\ ~(\E j \in (k + 1)..Len(s) : TRUE) BY <1>1
<1>3. TurnsAt(s, k) BY <1>1, <1>2 DEF TurnsAt
<1>4. Behind(s) = Turned(s, k) BY <1>1, <1>2, <1>3, BehindIs
<1>5. SubSeq(s, 1, k - 1) = p BY <1>1, <1>2 DEF Front
<1> DEFINE b == \E j \in k..Len(s) : s[j].byName
<1>6. b <=> a.byName
  <2>1. \A j \in k..Len(s) : j = k BY <1>1
  <2>2. k \in k..Len(s) BY <1>1
  <2> QED BY <1>1, <2>1, <2>2
<1>7. b \in BOOLEAN /\ a.byName \in BOOLEAN BY StepIs
<1>8. Turned(s, k) = Append(p, Named(a, b)) BY <1>1, <1>5 DEF Turned
<1> HIDE DEF b
<1>9. b = a.byName BY <1>6, <1>7, Zenon
<1>10. Named(a, a.byName) = NextOf(a)
  <2>1. Named(a, a.byName) = At(a.obj, a.idx + 1, a.byName) BY <1>7, NamedIs
  <2>2. NextOf(a) = At(a.obj, a.idx + 1, a.byName) BY DEF NextOf, PathStep, At
  <2> QED BY <2>1, <2>2
<1> QED BY <1>4, <1>8, <1>9, <1>10 DEF s

(* What has just begun has its first part next. *)
LEMMA BehindFresh ==
  ASSUME NEW p \in Paths, NEW o \in Object
  PROVE  /\ At(o, -1, FALSE) \in PathStep /\ At(o, 0, FALSE) \in PathStep
         /\ Room(At(o, 0, FALSE)) /\ Fits(o, 0) /\ NextOf(At(o, -1, FALSE)) = At(o, 0, FALSE)
         /\ Behind(Append(p, At(o, -1, FALSE))) = Append(p, At(o, 0, FALSE))
<1> DEFINE a == At(o, -1, FALSE)
           b == At(o, 0, FALSE)
<1>6. -1 \in Index /\ 0 \in Index /\ -1 + 1 = 0 BY DEF Index
<1>7. FALSE \in BOOLEAN OBVIOUS
<1>1. a \in PathStep /\ b \in PathStep BY <1>6, <1>7, AtIs
<1>8. a.obj = o /\ a.idx = -1 /\ a.byName = FALSE BY Zenon DEF At
<1>2. NextOf(a) = b
  <2>1. NextOf(a) = At(a.obj, a.idx + 1, a.byName) BY <1>1, NextIs
  <2>2. At(a.obj, a.idx + 1, a.byName) = At(o, -1 + 1, FALSE) BY <1>8, Zenon
  <2>3. At(o, -1 + 1, FALSE) = At(o, 0, FALSE) BY <1>6, Zenon
  <2> QED BY <2>1, <2>2, <2>3, Zenon
<1>3. Count(o.type) \in Nat BY TypeIs DEF Object
<1>4. Room(b) /\ Fits(o, 0) BY <1>3 DEF Room, At, Unbounded, Fits
<1> HIDE DEF a, b
<1>5. Behind(Append(p, a)) = Append(p, b) BY <1>1, <1>2, <1>4, BehindRoom
<1> QED BY <1>1, <1>2, <1>4, <1>5 DEF a, b

(* An object of which all parts are read may as well be left. *)
LEMMA BehindFront ==
  ASSUME NEW p \in Paths, p # <<>>, NEW a \in PathStep, ~Room(NextOf(a)),
         ~Last(Behind(Append(p, a))).byName
  PROVE  Behind(p) = Behind(Append(p, a))
<1> DEFINE s == Append(p, a)
           n == Len(p)
<1>1. /\ s \in Paths /\ s # <<>> /\ Len(s) = n + 1 /\ n \in Nat /\ s[n + 1] = a
      /\ \A i \in 1..n : s[i] = p[i]
  BY AppendIs DEF Paths
<1>2. n >= 1 BY <1>1 DEF Paths
<1> HIDE DEF s, n
<1>3. PICK k \in 1..Len(s) : TurnsAt(s, k) BY <1>1, BehindIs
<1>4. Behind(s) = Turned(s, k) BY <1>1, <1>3, BehindIs
<1>5. k \in 1..n
  <2>1. k # n + 1 BY <1>1, <1>2, <1>3 DEF TurnsAt
  <2> QED BY <1>1, <2>1
<1>6. TurnsAt(p, k)
  <2>1. k = 1 \/ Room(NextOf(p[k])) BY <1>1, <1>3, <1>5 DEF TurnsAt
  <2>2. ASSUME NEW j \in (k + 1)..n PROVE ~Room(NextOf(p[j]))
    <3>1. j \in 1..n /\ j \in (k + 1)..(n + 1) BY <1>1, <1>5
    <3>2. ~Room(NextOf(s[j])) BY <1>1, <1>3, <3>1 DEF TurnsAt
    <3> QED BY <1>1, <3>1, <3>2
  <2> QED BY <2>1, <2>2 DEF TurnsAt, n
<1>7. Behind(p) = Turned(p, k) BY <1>5, <1>6, BehindIs DEF n
<1> DEFINE x == SubSeq(s, 1, k - 1)
           y == SubSeq(p, 1, k - 1)
<1>8. x = y
  <2>1. /\ x \in Seq(PathStep) /\ Len(x) = k - 1 /\ \A i \in 1..(k - 1) : x[i] = s[i]
    BY <1>1, <1>3, TurnedIs DEF Paths
  <2>2. /\ y \in Seq(PathStep) /\ Len(y) = k - 1 /\ \A i \in 1..(k - 1) : y[i] = p[i]
    BY <1>5, TurnedIs DEF Paths, n
  <2>3. \A i \in 1..(k - 1) : i \in 1..n BY <1>1, <1>5
  <2> HIDE DEF x, y
  <2>4. \A i \in 1..Len(x) : x[i] = y[i] BY <1>1, <2>1, <2>2, <2>3
  <2> QED BY <2>1, <2>2, <2>4, SeqEqual
<1> HIDE DEF x, y
<1> DEFINE b == \E j \in k..Len(s) : s[j].byName
           c == \E j \in k..Len(p) : p[j].byName
<1>9. b = c
  <2>1. Last(Turned(s, k)).byName <=> b BY <1>1, <1>3, TurnedIs
  <2>2. ~b BY <1>4, <2>1 DEF s
  <2>3. \A j \in k..n : j \in k..Len(s) /\ j \in 1..n BY <1>1, <1>5
  <2>4. ~c BY <1>1, <2>2, <2>3 DEF n
  <2>5. b \in BOOLEAN /\ c \in BOOLEAN OBVIOUS
  <2> HIDE DEF b, c
  <2> QED BY <2>2, <2>4, <2>5, Zenon
<1>10. Turned(s, k) = Append(x, Named(s[k], b)) /\ Turned(p, k) = Append(y, Named(p[k], c))
  BY DEF Turned, x, y
<1> HIDE DEF b, c
<1>11. s[k] = p[k] BY <1>1, <1>5
<1> QED BY <1>4, <1>7, <1>8, <1>9, <1>10, <1>11, Zenon DEF s

-----------------------------------------------------------------------------
(* The aggregates that begin where an object begins                        *)

FirstPart(t) == Part([type |-> t, off |-> 0], 0).type
LeadingOf(f, t) == IF Aggregate(t) THEN <<t>> \o f[FirstPart(t)] ELSE <<>>

LEMMA FirstPartIs ==
  ASSUME NEW t \in DOMAIN Types, Aggregate(t)
  PROVE  FirstPart(t) \in DOMAIN Types /\ FirstPart(t) < t /\ t \in Nat /\ FirstPart(t) \in Nat
<1> DEFINE o == [type |-> t, off |-> 0]
<1>1. o \in Object /\ o.type = t BY DEF Object
<1> HIDE DEF o
<1>2. Fits(o, 0) BY <1>1, BehindFresh, EmptySeq DEF Paths
<1>3. Part(o, 0) \in Object /\ Part(o, 0).type < t BY <1>1, <1>2, PartIs
<1>4. Part(o, 0).type \in DOMAIN Types BY <1>3 DEF Object
<1>5. t \in Nat /\ Part(o, 0).type \in Nat BY <1>4, TypeIs
<1> QED BY <1>3, <1>4, <1>5 DEF FirstPart, o

(* A type is declared behind its parts: the function is there.             *)
LEMMA LeadingIs ==
  Leading = [t \in DOMAIN Types |-> LeadingOf(Leading, t)]
<1>1. PICK N \in Nat : DOMAIN Types = 1..N BY TypesAssumption
<1> DEFINE T == {n \in 0..N : \E f : f = [t \in 1..n |-> LeadingOf(f, t)]}
<1>2. 0 \in T
  <2> DEFINE none == [t \in 1..0 |-> <<>>]
  <2>1. none = [t \in 1..0 |-> LeadingOf(none, t)] OBVIOUS
  <2> HIDE DEF none
  <2>2. \E f : f = [t \in 1..0 |-> LeadingOf(f, t)] BY <2>1
  <2>3. 0 \in 0..N OBVIOUS
  <2> QED BY <2>2, <2>3
<1>3. ASSUME NEW n \in 0..(N - 1), n \in T
      PROVE  n + 1 \in T
  <2>1. PICK f : f = [t \in 1..n |-> LeadingOf(f, t)] BY <1>3
  <2> DEFINE g == [t \in 1..(n + 1) |-> IF t = n + 1 THEN LeadingOf(f, t) ELSE f[t]]
  <2>2. ASSUME NEW t \in 1..(n + 1)
        PROVE  g[t] = LeadingOf(g, t)
    <3>1. g[t] = LeadingOf(f, t)
      <4>1. CASE t = n + 1 BY <4>1
      <4>2. CASE t # n + 1
        <5>1. t \in 1..n BY <4>2
        <5>2. f[t] = LeadingOf(f, t) BY <2>1, <5>1
        <5> QED BY <4>2, <5>2
      <4> QED BY <4>1, <4>2
    <3>2. Aggregate(t) => g[FirstPart(t)] = f[FirstPart(t)]
      <4> SUFFICES ASSUME Aggregate(t) PROVE g[FirstPart(t)] = f[FirstPart(t)]
        OBVIOUS
      <4>1. t \in DOMAIN Types BY <1>1
      <4>2. FirstPart(t) \in 1..N /\ FirstPart(t) < t BY <1>1, <4>1, FirstPartIs
      <4>3. FirstPart(t) \in 1..(n + 1) /\ FirstPart(t) # n + 1 BY <4>2
      <4> QED BY <4>3
    <3> HIDE DEF g
    <3> QED BY <3>1, <3>2 DEF LeadingOf
  <2>3. g = [t \in 1..(n + 1) |-> g[t]] OBVIOUS
  <2> HIDE DEF g
  <2>4. g = [t \in 1..(n + 1) |-> LeadingOf(g, t)] BY <2>2, <2>3
  <2>5. n + 1 \in 0..N OBVIOUS
  <2> QED BY <2>4, <2>5
<1> HIDE DEF T
<1>4. N \in T BY <1>2, <1>3, UpTo
<1>5. PICK f : f = [t \in DOMAIN Types |-> LeadingOf(f, t)] BY <1>1, <1>4 DEF T
<1> DEFINE Sets(g) == g = [t \in DOMAIN Types |-> LeadingOf(g, t)]
<1>6. Leading = CHOOSE g : Sets(g) BY Zenon DEF Leading, LeadingOf, FirstPart
<1>7. Sets(f) BY <1>5
<1> HIDE DEF Sets
<1>8. Sets(Leading) BY <1>6, <1>7, Zenon
<1> QED BY <1>8 DEF Sets

LEMMA LeadingType ==
  \A t \in DOMAIN Types : Leading[t] \in Seq(DOMAIN Types)
<1>1. PICK N \in Nat : DOMAIN Types = 1..N BY TypesAssumption
<1> DEFINE T == {n \in 0..N : \A t \in 1..n : Leading[t] \in Seq(DOMAIN Types)}
<1>2. 0 \in T OBVIOUS
<1>3. ASSUME NEW n \in 0..(N - 1), n \in T
      PROVE  n + 1 \in T
  <2>1. Leading[n + 1] \in Seq(DOMAIN Types)
    <3> DEFINE t == n + 1
    <3>1. t \in DOMAIN Types BY <1>1
    <3> HIDE DEF t
    <3>2. Leading[t] = LeadingOf(Leading, t) BY <3>1, LeadingIs
    <3>3. CASE ~Aggregate(t) BY <3>2, <3>3 DEF LeadingOf, t
    <3>4. CASE Aggregate(t)
      <4>1. FirstPart(t) \in 1..N /\ FirstPart(t) < t BY <1>1, <3>1, <3>4, FirstPartIs
      <4>2. FirstPart(t) \in 1..n BY <4>1 DEF t
      <4>3. Leading[FirstPart(t)] \in Seq(DOMAIN Types) BY <1>3, <4>2
      <4> DEFINE u == Leading[FirstPart(t)]
      <4> HIDE DEF u
      <4>4. <<t>> \o u \in Seq(DOMAIN Types) BY <3>1, <4>3, ConcatIs DEF u
      <4>5. Leading[t] = <<t>> \o u BY <3>2, <3>4 DEF LeadingOf, u
      <4> QED BY <4>4, <4>5 DEF t
    <3> QED BY <3>3, <3>4
  <2>2. ASSUME NEW t \in 1..(n + 1) PROVE Leading[t] \in Seq(DOMAIN Types)
    <3>1. t \in 1..n \/ t = n + 1 OBVIOUS
    <3> QED BY <1>3, <2>1, <3>1
  <2>3. n + 1 \in 0..N OBVIOUS
  <2> QED BY <2>2, <2>3
<1> HIDE DEF T
<1>4. N \in T BY <1>2, <1>3, UpTo
<1> QED BY <1>1, <1>4 DEF T

(* The part of an object that a path comes to; Placed, when there is one.  *)
Cur(q) == Part(Last(q).obj, Last(q).idx)
HasPart(q) == Last(q).idx \in Nat /\ Room(Last(q))

LEMMA CurIs ==
  ASSUME NEW q \in Paths, q # <<>>, HasPart(q)
  PROVE  Cur(q) \in Object /\ Cur(q).type \in DOMAIN Types /\ Cur(q).off \in Nat
<1>1. Last(q) \in PathStep BY FrontIs DEF Paths
<1>2. Last(q).obj \in Object BY <1>1, StepIs
<1>3. Fits(Last(q).obj, Last(q).idx) BY DEF HasPart, Room, Fits
<1>4. Cur(q) \in Object BY <1>2, <1>3, PartIs DEF Cur
<1> QED BY <1>4 DEF Object

(* The steps of Inward that are new. *)
Steps(ts, off) == [k \in DOMAIN ts |-> At([type |-> ts[k], off |-> off], 0, FALSE)]

LEMMA StepsAre ==
  ASSUME NEW ts \in Seq(DOMAIN Types), NEW off \in Nat
  PROVE  /\ Steps(ts, off) \in Paths /\ Len(Steps(ts, off)) = Len(ts)
         /\ \A k \in 1..Len(ts) : Steps(ts, off)[k] = At([type |-> ts[k], off |-> off], 0, FALSE)
<1> DEFINE s == Steps(ts, off)
           n == Len(ts)
<1>1. n \in Nat /\ DOMAIN ts = 1..n OBVIOUS
<1>2. s = [k \in 1..n |-> At([type |-> ts[k], off |-> off], 0, FALSE)] BY <1>1 DEF Steps
<1>3. ASSUME NEW k \in 1..n PROVE At([type |-> ts[k], off |-> off], 0, FALSE) \in PathStep
  <2>1. ts[k] \in DOMAIN Types BY <1>1
  <2> DEFINE o == [type |-> ts[k], off |-> off]
  <2>2. o \in Object BY <2>1 DEF Object
  <2> HIDE DEF o
  <2>3. At(o, 0, FALSE) \in PathStep BY <2>2, BehindFresh, EmptySeq DEF Paths
  <2> QED BY <2>3 DEF o
<1> HIDE DEF n, s
<1>4. s \in [1..n -> PathStep] BY <1>2, <1>3, Zenon
<1>5. s \in Seq(PathStep) /\ Len(s) = n BY <1>1, <1>4, IsASeq, LenProperties
<1> QED BY <1>2, <1>5 DEF n, s, Paths

LEMMA StepsOfConcat ==
  ASSUME NEW t \in DOMAIN Types, NEW us \in Seq(DOMAIN Types), NEW off \in Nat
  PROVE  Steps(<<t>> \o us, off) = <<At([type |-> t, off |-> off], 0, FALSE)>> \o Steps(us, off)
<1> DEFINE ts == <<t>> \o us
           one == <<At([type |-> t, off |-> off], 0, FALSE)>>
           u == Steps(us, off)
           x == Steps(ts, off)
           y == one \o u
<1>1. /\ ts \in Seq(DOMAIN Types) /\ Len(ts) = 1 + Len(us) /\ ts[1] = t
      /\ \A k \in 1..Len(us) : ts[1 + k] = us[k]
  BY ConcatIs
<1> HIDE DEF ts
<1>2. /\ x \in Paths /\ Len(x) = 1 + Len(us)
      /\ \A k \in 1..Len(ts) : x[k] = At([type |-> ts[k], off |-> off], 0, FALSE)
  BY <1>1, StepsAre
<1>3. /\ u \in Paths /\ Len(u) = Len(us)
      /\ \A k \in 1..Len(us) : u[k] = At([type |-> us[k], off |-> off], 0, FALSE)
  BY StepsAre
<1>4. one \in Seq(PathStep) /\ Len(one) = 1 /\ one[1] = At([type |-> t, off |-> off], 0, FALSE)
  <2>1. At([type |-> t, off |-> off], 0, FALSE) \in PathStep
    <3> DEFINE o == [type |-> t, off |-> off]
    <3>1. o \in Object BY DEF Object
    <3> HIDE DEF o
    <3>2. At(o, 0, FALSE) \in PathStep BY <3>1, BehindFresh, EmptySeq DEF Paths
    <3> QED BY <3>2 DEF o
  <2> DEFINE e == At([type |-> t, off |-> off], 0, FALSE)
  <2>2. e \in PathStep /\ one = <<e>> BY <2>1
  <2> HIDE DEF e, one
  <2>3. one \in Seq(PathStep) /\ Len(one) = 1 /\ one[1] = e BY <2>2
  <2> QED BY <2>3 DEF e
<1> HIDE DEF x, one, u
<1>5. /\ y \in Seq(PathStep) /\ Len(y) = 1 + Len(us) /\ y[1] = one[1]
      /\ \A k \in 1..Len(us) : y[1 + k] = u[k]
  <2>1. u \in Seq(PathStep) /\ one \in Seq(PathStep) BY <1>3, <1>4 DEF Paths
  <2>4. y = one \o u OBVIOUS
  <2> HIDE DEF y
  <2>2. /\ y \in Seq(PathStep) /\ Len(y) = Len(one) + Len(u)
        /\ \A k \in 1..Len(one) : y[k] = one[k]
        /\ \A k \in 1..Len(u) : y[Len(one) + k] = u[k]
    BY <2>1, <2>4, ConcatIs
  <2>3. 1 \in 1..Len(one) BY <1>4
  <2> QED BY <1>3, <1>4, <2>2, <2>3
<1> HIDE DEF y
<1>6. ASSUME NEW k \in 1..Len(x) PROVE x[k] = y[k]
  <2>1. Len(us) \in Nat OBVIOUS
  <2>2. CASE k = 1
    <3>1. 1 \in 1..Len(ts) BY <1>1, <2>1
    <3>2. x[1] = At([type |-> ts[1], off |-> off], 0, FALSE) BY <1>2, <3>1, Zenon
    <3> QED BY <1>1, <1>4, <1>5, <2>2, <3>2
  <2>3. CASE k # 1
    <3> DEFINE j == k - 1
    <3>1. j \in 1..Len(us) /\ 1 + j = k /\ k \in 1..Len(ts) BY <1>1, <1>2, <2>1, <2>3
    <3> HIDE DEF j
    <3>2. x[k] = At([type |-> ts[k], off |-> off], 0, FALSE) BY <1>2, <3>1, Zenon
    <3>3. ts[k] = us[j] BY <1>1, <3>1
    <3>4. y[k] = u[j] BY <1>5, <3>1
    <3>5. u[j] = At([type |-> us[j], off |-> off], 0, FALSE) BY <1>3, <3>1, Zenon
    <3> QED BY <3>2, <3>3, <3>4, <3>5
  <2> QED BY <2>2, <2>3
<1>7. x \in Seq(PathStep) BY <1>2 DEF Paths
<1>8. x = y BY <1>2, <1>5, <1>6, <1>7, SeqEqual
<1> QED BY <1>8 DEF x, y, ts, one, u

LEMMA InwardSteps ==
  ASSUME NEW q \in Paths, q # <<>>, HasPart(q)
  PROVE  /\ Inward(q) = q \o Steps(Leading[Cur(q).type], Cur(q).off)
         /\ Leading[Cur(q).type] \in Seq(DOMAIN Types)
         /\ Steps(Leading[Cur(q).type], Cur(q).off) \in Paths
         /\ Inward(q) \in Paths /\ Inward(q) # <<>> /\ HasPart(Inward(q))
<1> DEFINE o == Cur(q)
           ts == Leading[o.type]
           s == Steps(ts, o.off)
<1>1. o.type \in DOMAIN Types /\ o.off \in Nat BY CurIs
<1>2. Inward(q) = q \o s BY DEF Inward, Cur, Steps
<1> HIDE DEF o
<1>3. ts \in Seq(DOMAIN Types) BY <1>1, LeadingType
<1> HIDE DEF ts
<1>4. /\ s \in Paths /\ Len(s) = Len(ts)
      /\ \A k \in 1..Len(ts) : s[k] = At([type |-> ts[k], off |-> o.off], 0, FALSE)
  BY <1>1, <1>3, StepsAre
<1> HIDE DEF s
<1>5. q \o s \in Paths /\ q \o s # <<>> /\ HasPart(q \o s)
  <2>1. CASE s = <<>>
    <3>1. q \o s = q BY <2>1 DEF Paths
    <3> QED BY <3>1
  <2>2. CASE s # <<>>
    <3>1. q \o s # <<>> /\ q \o s \in Seq(PathStep) /\ Last(q \o s) = Last(s)
      BY <1>4, <2>2, EndOfConcat DEF Paths
    <3>2. Last(s) = s[Len(s)] /\ Len(s) \in Nat /\ Len(s) >= 1 BY <1>4, <2>2, FrontIs DEF Paths
    <3> DEFINE p == [type |-> ts[Len(s)], off |-> o.off]
    <3>3. Len(s) \in 1..Len(ts) BY <1>4, <3>2
    <3>4. p \in Object BY <1>1, <1>3, <3>3 DEF Object
    <3>5. s[Len(s)] = At(p, 0, FALSE) BY <1>4, <3>3, Zenon
    <3> HIDE DEF p
    <3>6. Room(At(p, 0, FALSE)) BY <3>4, BehindFresh, EmptySeq DEF Paths
    <3>7. At(p, 0, FALSE).idx = 0 BY DEF At
    <3>9. Last(q \o s) = At(p, 0, FALSE) BY <3>1, <3>2, <3>5, Zenon
    <3>10. Room(Last(q \o s)) BY <3>6, <3>9, Zenon
    <3>11. Last(q \o s).idx = 0 BY <3>7, <3>9, Zenon
    <3>8. Last(q \o s).idx \in Nat /\ Room(Last(q \o s)) BY <3>10, <3>11
    <3> QED BY <3>1, <3>8 DEF HasPart, Paths
  <2> QED BY <2>1, <2>2
<1> QED BY <1>2, <1>3, <1>4, <1>5 DEF s, ts, o

LEMMA InwardScalar ==
  ASSUME NEW q \in Paths, q # <<>>, HasPart(q), ~Aggregate(Cur(q).type)
  PROVE  Inward(q) = q
<1>1. Cur(q).type \in DOMAIN Types /\ Cur(q).off \in Nat BY CurIs
<1>2. Leading[Cur(q).type] = <<>> BY <1>1, LeadingIs DEF LeadingOf
<1>3. Steps(<<>>, Cur(q).off) = <<>>
  <2>1. <<>> \in Seq(DOMAIN Types) /\ Len(<<>>) = 0 OBVIOUS
  <2>2. Steps(<<>>, Cur(q).off) \in Paths /\ Len(Steps(<<>>, Cur(q).off)) = 0
    BY <1>1, <2>1, StepsAre
  <2> QED BY <2>2, EmptySeq DEF Paths
<1>4. Inward(q) = q \o <<>> BY <1>2, <1>3, InwardSteps
<1> QED BY <1>4 DEF Paths

(* Going inward one object at a time. *)
LEMMA InwardStep ==
  ASSUME NEW q \in Paths, q # <<>>, HasPart(q), Aggregate(Cur(q).type)
  PROVE  LET r == Append(q, At(Cur(q), 0, FALSE))
         IN  r \in Paths /\ r # <<>> /\ HasPart(r) /\ Inward(r) = Inward(q)
<1> DEFINE o == Cur(q)
           a == At(o, 0, FALSE)
           r == Append(q, a)
           t == o.type
<1>1. o \in Object /\ t \in DOMAIN Types /\ o.off \in Nat BY CurIs
<1> HIDE DEF o
<1>2. a \in PathStep /\ Room(a) /\ Fits(o, 0) BY <1>1, BehindFresh
<1>3. a.obj = o /\ a.idx = 0 BY DEF At
<1> HIDE DEF a
<1>4. r \in Paths /\ r # <<>> /\ Last(r) = a /\ r = q \o <<a>>
  BY <1>2, AppendIs DEF Paths
<1> HIDE DEF r
<1>5. HasPart(r) BY <1>2, <1>3, <1>4 DEF HasPart
<1>6. Cur(r) = Part(o, 0) BY <1>3, <1>4 DEF Cur
<1>7. Part(o, 0).off = o.off BY <1>1, <1>2, PartIs DEF o
<1>8. Part(o, 0).type = FirstPart(t)
  <2> DEFINE p == [type |-> t, off |-> 0]
  <2>1. p.type = t /\ o.type = t OBVIOUS
  <2> HIDE DEF p
  <2>2. CASE Types[t].kind = "scalar" BY <2>1, <2>2 DEF Aggregate, o
  <2>3. CASE Types[t].kind = "struct"
    <3>1. Part(o, 0).type = Types[t].fields[0 + 1].type BY <2>1, <2>3 DEF Part
    <3>2. Part(p, 0).type = Types[t].fields[0 + 1].type BY <2>1, <2>3 DEF Part
    <3> QED BY <3>1, <3>2 DEF FirstPart, p
  <2>4. CASE Types[t].kind = "array"
    <3>1. Part(o, 0).type = Types[t].elem BY <2>1, <2>4 DEF Part
    <3>2. Part(p, 0).type = Types[t].elem BY <2>1, <2>4 DEF Part
    <3> QED BY <3>1, <3>2 DEF FirstPart, p
  <2> QED BY <1>1, <2>2, <2>3, <2>4, TypeIs
<1> DEFINE us == Leading[FirstPart(t)]
<1>9. Leading[t] = <<t>> \o us BY <1>1, LeadingIs DEF LeadingOf, o
<1>10. Inward(r) = r \o Steps(us, o.off) /\ us \in Seq(DOMAIN Types) /\ Steps(us, o.off) \in Paths
  BY <1>4, <1>5, <1>6, <1>7, <1>8, InwardSteps
<1>11. Inward(q) = q \o Steps(<<t>> \o us, o.off) BY <1>9, InwardSteps DEF o
<1> HIDE DEF us
<1>12. Steps(<<t>> \o us, o.off) = <<At([type |-> t, off |-> o.off], 0, FALSE)>> \o Steps(us, o.off)
  BY <1>1, <1>10, StepsOfConcat
<1>13. At([type |-> t, off |-> o.off], 0, FALSE) = a
  <2>1. o = [type |-> t, off |-> o.off] BY <1>1 DEF Object
  <2> QED BY <2>1, Zenon DEF a
<1> DEFINE s == Steps(us, o.off)
<1>14. s \in Paths BY <1>10
<1> HIDE DEF s
<1>15. q \o (<<a>> \o s) = (q \o <<a>>) \o s
  <2>1. <<a>> \in Seq(PathStep) BY <1>2
  <2> QED BY <1>14, <2>1, ConcatAssociative DEF Paths
<1>16. Inward(q) = q \o (<<a>> \o s) BY <1>11, <1>12, <1>13 DEF s
<1>17. Inward(r) = (q \o <<a>>) \o s BY <1>4, <1>10 DEF s
<1> QED BY <1>4, <1>5, <1>15, <1>16, <1>17 DEF r, a, o

-----------------------------------------------------------------------------
(* Calls that wait, and the path of each list in braces                    *)

Calls ==
  [obj : Object, brace : BOOLEAN, designated : BOOLEAN, idx : Int,
   cursor : [type : Nat, off : Nat]]

(* Call when the loop of its list goes on.                                 *)
After(c) ==
  [c EXCEPT !.cursor = NoCursor, !.designated = FALSE,
            !.idx = IF Types[c.obj.type].kind = "struct" THEN @ ELSE @ + 1]

(* A call whose last part is that of a path: behind a designator for a     *)
(* field the field is next again.                                          *)
Waiting(c, a) ==
  /\ c.obj = a.obj /\ c.cursor = NoCursor
  /\ c.idx = a.idx + (IF a.byName THEN 0 ELSE 1)

(* The calls for one list in braces and the lists without in it.           *)
Waits(s, p) ==
  /\ s \in Seq(Calls) /\ p \in Paths /\ s # <<>> /\ Len(s) = Len(p)
  /\ \A j \in 1..Len(s) : Waiting(s[j], p[j]) /\ (s[j].brace <=> j = 1)
  /\ \A j \in 1..(Len(s) - 1) : ~s[j].designated

(* The lists in braces around it; their levels go on behind the path.      *)
Outer(f, base) ==
  /\ f \in Seq(Seq(Calls)) /\ base \in Seq(Paths) /\ Len(f) = Len(base)
  /\ \A i \in 1..Len(f) :
       \E p \in Paths : Waits(f[i], p) /\ ~Last(f[i]).designated /\ base[i] = Behind(p)

LEMMA WaitsEnd ==
  ASSUME NEW s, NEW p, Waits(s, p)
  PROVE  /\ s \in Seq(Calls) /\ p \in Paths /\ s # <<>> /\ p # <<>>
         /\ Len(s) = Len(p) /\ Len(s) \in Nat /\ Len(s) >= 1
         /\ Last(s) \in Calls /\ Last(p) \in PathStep /\ p = Append(Front(p), Last(p))
         /\ Front(p) \in Paths /\ Front(s) \in Seq(Calls)
         /\ Waiting(Last(s), Last(p)) /\ (Last(s).brace <=> Len(s) = 1)
         /\ Len(s) = 1 => Front(p) = <<>> /\ Last(p) = p[1] /\ Front(s) = <<>>
<1>1. s \in Seq(Calls) /\ p \in Seq(PathStep) /\ s # <<>> /\ Len(s) = Len(p)
  BY DEF Waits, Paths
<1>2. Len(s) \in Nat /\ Len(s) >= 1 /\ p # <<>> BY <1>1
<1>3. Last(s) \in Calls /\ Last(s) = s[Len(s)] /\ Front(s) \in Seq(Calls) /\ Len(Front(s)) = Len(s) - 1
  BY <1>1, FrontIs
<1>4. /\ Last(p) \in PathStep /\ Last(p) = p[Len(p)] /\ p = Append(Front(p), Last(p))
      /\ Front(p) \in Seq(PathStep) /\ Len(Front(p)) = Len(p) - 1
  BY <1>1, <1>2, FrontIs
<1>5. Len(s) \in 1..Len(s) BY <1>2
<1>6. Waiting(s[Len(s)], p[Len(s)]) /\ (s[Len(s)].brace <=> Len(s) = 1) BY <1>5 DEF Waits
<1>7. Waiting(Last(s), Last(p)) /\ (Last(s).brace <=> Len(s) = 1) BY <1>1, <1>3, <1>4, <1>6
<1>8. Len(s) = 1 => Front(p) = <<>> /\ Last(p) = p[1] /\ Front(s) = <<>>
  BY <1>1, <1>3, <1>4, EmptySeq
<1> QED BY <1>1, <1>2, <1>3, <1>4, <1>7, <1>8 DEF Paths

LEMMA WaitsFront ==
  ASSUME NEW s, NEW p, Waits(s, p), ~Last(s).brace
  PROVE  /\ Waits(Front(s), Front(p)) /\ ~Last(Front(s)).designated
         /\ Front(p)[1] = p[1]
<1>1. /\ s \in Seq(Calls) /\ p \in Paths /\ s # <<>> /\ p # <<>>
      /\ Len(s) = Len(p) /\ Len(s) \in Nat /\ Len(s) > 1
  <2>1. /\ s \in Seq(Calls) /\ p \in Paths /\ s # <<>> /\ p # <<>>
        /\ Len(s) = Len(p) /\ Len(s) \in Nat /\ Len(s) >= 1 /\ (Last(s).brace <=> Len(s) = 1)
    BY WaitsEnd, Zenon
  <2>2. Len(s) # 1 BY <2>1, Zenon
  <2> QED BY <2>1, <2>2
<1> DEFINE n == Len(s) - 1
           x == Front(s)
           y == Front(p)
<1>2. n \in Nat /\ n >= 1 /\ Len(s) = n + 1 BY <1>1
<1>3. x \in Seq(Calls) /\ Len(x) = n /\ \A i \in 1..n : x[i] = s[i] BY <1>1, FrontIs
<1>4. y \in Paths /\ Len(y) = n /\ \A i \in 1..n : y[i] = p[i] BY <1>1, FrontIs DEF Paths
<1> HIDE DEF x, y, n
<1>5. x # <<>> BY <1>2, <1>3
<1>6. ASSUME NEW j \in 1..n PROVE Waiting(x[j], y[j]) /\ (x[j].brace <=> j = 1)
  <2>1. j \in 1..Len(s) BY <1>2
  <2>2. Waiting(s[j], p[j]) /\ (s[j].brace <=> j = 1) BY <2>1 DEF Waits
  <2> QED BY <1>3, <1>4, <2>2
<1>7. \A j \in 1..n : ~s[j].designated BY DEF Waits, n
<1>8. \A j \in 1..(n - 1) : ~x[j].designated
  <2> TAKE j \in 1..(n - 1)
  <2>1. j \in 1..n BY <1>2
  <2> QED BY <1>3, <1>7, <2>1
<1>9. Waits(x, y)
  <2>1. \A j \in 1..Len(x) : Waiting(x[j], y[j]) /\ (x[j].brace <=> j = 1)
    BY <1>3, <1>6, Zenon
  <2>2. \A j \in 1..(Len(x) - 1) : ~x[j].designated BY <1>3, <1>8
  <2>3. Len(x) = Len(y) /\ x \in Seq(Calls) /\ y \in Paths BY <1>3, <1>4
  <2> QED BY <1>5, <2>1, <2>2, <2>3, Zenon DEF Waits
<1>10. ~Last(x).designated
  <2>2. n \in 1..n BY <1>2
  <2>3. Last(x) = x[Len(x)] BY <1>3, <1>5, FrontIs
  <2>1. Last(x) = x[n] BY <1>3, <2>3
  <2> QED BY <1>3, <1>7, <2>1, <2>2
<1>11. y[1] = p[1]
  <2>1. 1 \in 1..n BY <1>2
  <2> QED BY <1>4, <2>1
<1> QED BY <1>9, <1>10, <1>11 DEF x, y

LEMMA WaitsMore ==
  ASSUME NEW s \in Seq(Calls), NEW p \in Paths,
         (s = <<>> /\ p = <<>>) \/ (Waits(s, p) /\ ~Last(s).designated),
         NEW c \in Calls, NEW a \in PathStep, Waiting(c, a), c.brace <=> s = <<>>
  PROVE  Waits(Append(s, c), Append(p, a))
<1> DEFINE x == Append(s, c)
           y == Append(p, a)
           n == Len(s)
<1>1. /\ n \in Nat /\ Len(p) = n /\ (s = <<>> <=> n = 0)
  BY DEF Waits
<1>2. /\ x \in Seq(Calls) /\ x # <<>> /\ Len(x) = n + 1 /\ x[n + 1] = c
      /\ \A i \in 1..n : x[i] = s[i]
  BY AppendIs
<1>3. /\ y \in Paths /\ Len(y) = n + 1 /\ y[n + 1] = a
      /\ \A i \in 1..n : y[i] = p[i]
  BY <1>1, AppendIs DEF Paths
<1>8. n # 0 => Last(s) = s[n] BY <1>1, FrontIs
<1> HIDE DEF x, y
<1>4. ASSUME NEW j \in 1..(n + 1) PROVE Waiting(x[j], y[j]) /\ (x[j].brace <=> j = 1)
  <2>1. CASE j = n + 1
    <3>1. (j = 1) <=> s = <<>> BY <1>1, <2>1
    <3> QED BY <1>2, <1>3, <2>1, <3>1
  <2>2. CASE j # n + 1
    <3>1. j \in 1..n /\ n # 0 BY <1>1, <2>2
    <3>2. Waits(s, p) BY <1>1, <3>1
    <3>3. Waiting(s[j], p[j]) /\ (s[j].brace <=> j = 1) BY <3>1, <3>2 DEF Waits
    <3> QED BY <1>2, <1>3, <3>1, <3>3
  <2> QED BY <2>1, <2>2
<1>5. ASSUME NEW j \in 1..n PROVE ~x[j].designated
  <2>1. n # 0 /\ Waits(s, p) /\ ~Last(s).designated BY <1>1
  <2>2. CASE j = n BY <1>2, <1>8, <2>1, <2>2
  <2>3. CASE j # n
    <3>1. j \in 1..(n - 1) BY <1>1, <2>3
    <3>2. ~s[j].designated BY <2>1, <3>1 DEF Waits
    <3> QED BY <1>2, <3>2
  <2> QED BY <2>2, <2>3
<1>6. Len(x) - 1 = n BY <1>1, <1>2
<1>7. Waits(x, y) BY <1>2, <1>3, <1>4, <1>5, <1>6 DEF Waits
<1> QED BY <1>7 DEF x, y

LEMMA WaitsNew ==
  ASSUME NEW c \in Calls, NEW a \in PathStep, Waiting(c, a), c.brace
  PROVE  Waits(<<c>>, <<a>>) /\ Last(<<c>>) = c
<1> DEFINE x == <<c>>
           y == <<a>>
<1>1. /\ x \in Seq(Calls) /\ y \in Seq(PathStep) /\ x # <<>> /\ Len(x) = 1 /\ Len(y) = 1
      /\ x[1] = c /\ y[1] = a
  OBVIOUS
<1> HIDE DEF x, y
<1>2. \A j \in 1..Len(x) : j = 1 BY <1>1
<1>3. \A j \in 1..Len(x) : Waiting(x[j], y[j]) /\ (x[j].brace <=> j = 1)
  BY <1>1, <1>2, Zenon
<1>4. \A j \in 1..(Len(x) - 1) : ~x[j].designated BY <1>1
<1>5. Waits(x, y) BY <1>1, <1>3, <1>4 DEF Waits, Paths
<1>6. Last(x) = x[Len(x)] BY <1>1, FrontIs
<1> QED BY <1>1, <1>5, <1>6 DEF x, y

(* Another one in the place of the last one. *)
LEMMA WaitsOther ==
  ASSUME NEW s, NEW p, Waits(s, p), NEW c \in Calls, NEW a \in PathStep, Waiting(c, a),
         c.brace <=> Last(s).brace
  PROVE  Waits(Append(Front(s), c), Append(Front(p), a))
<1>1. /\ Front(s) \in Seq(Calls) /\ Front(p) \in Paths /\ Len(s) = Len(p) /\ Len(s) \in Nat
      /\ Len(s) >= 1 /\ (Last(s).brace <=> Len(s) = 1) /\ Len(Front(s)) = Len(s) - 1
      /\ Len(s) = 1 => Front(s) = <<>> /\ Front(p) = <<>>
  <2>1. /\ s \in Seq(Calls) /\ s # <<>> /\ Front(s) \in Seq(Calls) /\ Front(p) \in Paths
        /\ Len(s) = Len(p) /\ Len(s) \in Nat
        /\ Len(s) >= 1 /\ (Last(s).brace <=> Len(s) = 1)
        /\ Len(s) = 1 => Front(s) = <<>> /\ Front(p) = <<>>
    BY WaitsEnd
  <2>2. Len(Front(s)) = Len(s) - 1 BY <2>1, FrontIs
  <2> QED BY <2>1, <2>2
<1>2. CASE Last(s).brace
  <2>1. Front(s) = <<>> /\ Front(p) = <<>> /\ c.brace BY <1>1, <1>2, Zenon
  <2>2. c.brace <=> Front(s) = <<>> BY <2>1, Zenon
  <2> QED BY <1>1, <2>1, <2>2, WaitsMore, Zenon
<1>3. CASE ~Last(s).brace
  <2>1. Waits(Front(s), Front(p)) /\ ~Last(Front(s)).designated BY <1>3, WaitsFront
  <2>2. Front(s) # <<>> BY <2>1 DEF Waits
  <2>3. c.brace <=> Front(s) = <<>> BY <1>3, <2>2, Zenon
  <2> QED BY <1>1, <2>1, <2>3, WaitsMore, Zenon
<1> QED BY <1>2, <1>3

LEMMA OuterNone ==
  Outer(<<>>, <<>>) /\ FlattenSeq(<<>>) = <<>>
<1>1. <<>> \in Seq(Seq(Calls)) /\ <<>> \in Seq(Paths) /\ Len(<<>>) = 0 OBVIOUS
<1>2. FlattenSeq(<<>>) = <<>>
  <2>1. <<>> \in Seq(Calls) OBVIOUS
  <2> QED BY <2>1, FlattenFew
<1> QED BY <1>1, <1>2 DEF Outer

LEMMA FlattenLast ==
  ASSUME NEW f \in Seq(Seq(Calls)), NEW s \in Seq(Calls)
  PROVE  FlattenSeq(Append(f, s)) = FlattenSeq(f) \o s /\ FlattenSeq(f) \in Seq(Calls)
<1>1. <<s>> \in Seq(Seq(Calls)) /\ Append(f, s) = f \o <<s>> OBVIOUS
<1>2. FlattenSeq(f \o <<s>>) = FlattenSeq(f) \o FlattenSeq(<<s>>) BY <1>1, FlattenConcat
<1>3. FlattenSeq(<<s>>) = s BY FlattenFew
<1> QED BY <1>1, <1>2, <1>3, FlattenIn

(* A list in braces begins in another one. *)
LEMMA OuterMore ==
  ASSUME NEW f, NEW base, Outer(f, base), NEW s, NEW p, Waits(s, p), ~Last(s).designated
  PROVE  /\ Outer(Append(f, s), Append(base, Behind(p)))
         /\ FlattenSeq(Append(f, s)) = FlattenSeq(f) \o s
         /\ FlattenSeq(f) \in Seq(Calls)
<1> DEFINE g == Append(f, s)
           b == Append(base, Behind(p))
           n == Len(f)
<1>1. s \in Seq(Calls) /\ p \in Paths /\ p # <<>> BY WaitsEnd
<1>2. f \in Seq(Seq(Calls)) /\ base \in Seq(Paths) /\ Len(base) = n /\ n \in Nat BY DEF Outer
<1>3. Behind(p) \in Paths BY <1>1, BehindType
<1>4. /\ g \in Seq(Seq(Calls)) /\ Len(g) = n + 1 /\ g[n + 1] = s
      /\ \A i \in 1..n : g[i] = f[i]
  BY <1>1, <1>2, AppendIs
<1>5. /\ b \in Seq(Paths) /\ Len(b) = n + 1 /\ b[n + 1] = Behind(p)
      /\ \A i \in 1..n : b[i] = base[i]
  BY <1>2, <1>3, AppendIs
<1> HIDE DEF g, b
<1>6. ASSUME NEW i \in 1..Len(g)
      PROVE  \E q \in Paths : Waits(g[i], q) /\ ~Last(g[i]).designated /\ b[i] = Behind(q)
  <2>1. CASE i = n + 1 BY <1>1, <1>4, <1>5, <2>1
  <2>2. CASE i # n + 1
    <3>1. i \in 1..n BY <1>2, <1>4, <2>2
    <3>2. \E q \in Paths : Waits(f[i], q) /\ ~Last(f[i]).designated /\ base[i] = Behind(q)
      BY <3>1 DEF Outer
    <3>3. g[i] = f[i] /\ b[i] = base[i] BY <1>4, <1>5, <3>1
    <3> QED BY <3>2, <3>3
  <2> QED BY <2>1, <2>2
<1>7. Outer(g, b) BY <1>4, <1>5, <1>6 DEF Outer
<1>8. FlattenSeq(g) = FlattenSeq(f) \o s /\ FlattenSeq(f) \in Seq(Calls) BY <1>1, <1>2, FlattenLast DEF g
<1> QED BY <1>7, <1>8 DEF g, b

(* The list in braces around this one goes on. *)
LEMMA OuterFront ==
  ASSUME NEW f, NEW base, Outer(f, base), f # <<>>
  PROVE  /\ Outer(Front(f), Front(base)) /\ base # <<>>
         /\ FlattenSeq(f) = FlattenSeq(Front(f)) \o Last(f)
         /\ FlattenSeq(Front(f)) \in Seq(Calls) /\ Last(f) \in Seq(Calls)
         /\ \E p \in Paths : /\ Waits(Last(f), p) /\ ~Last(Last(f)).designated
                             /\ base = Append(Front(base), Behind(p))
<1> DEFINE g == Front(f)
           b == Front(base)
           n == Len(f) - 1
<1>1. /\ f \in Seq(Seq(Calls)) /\ base \in Seq(Paths) /\ Len(base) = Len(f)
      /\ Len(f) \in Nat /\ Len(f) >= 1 /\ base # <<>>
  BY DEF Outer
<1>2. n \in Nat /\ Len(f) = n + 1 BY <1>1
<1>3. /\ g \in Seq(Seq(Calls)) /\ Len(g) = n /\ Last(f) = f[Len(f)] /\ f = Append(g, Last(f))
      /\ Last(f) \in Seq(Calls) /\ \A i \in 1..n : g[i] = f[i]
  BY <1>1, FrontIs
<1>4. /\ b \in Seq(Paths) /\ Len(b) = n /\ Last(base) = base[Len(base)] /\ base = Append(b, Last(base))
      /\ \A i \in 1..n : b[i] = base[i]
  BY <1>1, FrontIs
<1> HIDE DEF g, b, n
<1>5. ASSUME NEW i \in 1..Len(g)
      PROVE  \E q \in Paths : Waits(g[i], q) /\ ~Last(g[i]).designated /\ b[i] = Behind(q)
  <2>1. i \in 1..n /\ i \in 1..Len(f) BY <1>2, <1>3
  <2>2. \E q \in Paths : Waits(f[i], q) /\ ~Last(f[i]).designated /\ base[i] = Behind(q)
    BY <2>1 DEF Outer
  <2>3. g[i] = f[i] /\ b[i] = base[i] BY <1>3, <1>4, <2>1
  <2> QED BY <2>2, <2>3
<1>6. Outer(g, b) BY <1>3, <1>4, <1>5 DEF Outer
<1>7. FlattenSeq(Append(g, Last(f))) = FlattenSeq(g) \o Last(f) /\ FlattenSeq(g) \in Seq(Calls)
  BY <1>3, FlattenLast
<1>8. Len(f) \in 1..Len(f) BY <1>1
<1>9. \E q \in Paths : Waits(f[Len(f)], q) /\ ~Last(f[Len(f)]).designated /\ base[Len(f)] = Behind(q)
  BY <1>8 DEF Outer
<1>10. FlattenSeq(f) = FlattenSeq(g) \o Last(f) BY <1>3, <1>7, Zenon
<1>11. \E q \in Paths : Waits(Last(f), q) /\ ~Last(Last(f)).designated /\ base = Append(b, Behind(q))
  BY <1>1, <1>3, <1>4, <1>9, Zenon
<1> QED BY <1>1, <1>3, <1>6, <1>7, <1>10, <1>11, Zenon DEF g, b

-----------------------------------------------------------------------------
(* What the parser looks at, and what the language makes of it: base has   *)
(* the levels around, and q is the path before the token                   *)

Placements == [type : DOMAIN Types, off : Nat, nr : Nat]

Writes(base, q) ==
  /\ tok.kind = "expr" /\ Room(Last(q)) /\ levels = Append(base, Behind(Inward(q)))
  /\ ~designating /\ placed # <<>> /\ inits = Front(placed)
  /\ Last(placed) = [type |-> Cur(Inward(q)).type, off |-> Cur(Inward(q)).off, nr |-> Len(placed)]
Opens(base, q) ==
  /\ tok.kind = "open" /\ Room(Last(q)) /\ ~designating /\ inits = placed
  /\ levels = Append(Append(base, Behind(q)), <<At(Cur(q), 0, FALSE)>>)
Exceeds(base, q) ==
  /\ tok.kind = "expr" /\ ~Room(Last(q)) /\ ~designating /\ inits = placed
  /\ levels = Append(base, <<NextOf(q[1])>>)
Chooses(base, r, o) ==
  /\ Aggregate(o.type) /\ tok.kind = (IF Types[o.type].kind = "struct" THEN "dot" ELSE "index")
  /\ Fits(o, tok.at) /\ designating /\ inits = placed
  /\ levels = Append(base, Append(r, At(o, tok.at, Types[o.type].kind = "struct")))
Closes(base) == tok.kind = "close" /\ levels = base /\ ~designating /\ inits = placed
AtEnd == tok.kind = "end" /\ levels = <<>> /\ inits = placed

(* There are more expressions than parts.                                  *)
Over(base) ==
  /\ tok.kind = "expr" /\ ~designating /\ inits = placed
  /\ \E a \in PathStep :
       levels = Append(base, <<a>>) /\ ~Unbounded(a.obj.type) /\ a.idx > Count(a.obj.type)

LEMMA LastLevel ==
  ASSUME NEW base \in Seq(Paths), NEW q \in Paths, levels = Append(base, q)
  PROVE  /\ levels # <<>> /\ Path = q /\ Front(levels) = base
         /\ \A x \in Paths : OnPath(x) = Append(base, x)
<1>1. /\ levels \in Seq(Paths) /\ levels # <<>> /\ Last(levels) = q /\ Front(levels) = base
      /\ Len(levels) = Len(base) + 1 /\ Len(base) \in Nat
      /\ \A i \in 1..Len(base) : levels[i] = base[i]
  BY AppendIs
<1>2. ASSUME NEW x \in Paths PROVE OnPath(x) = Append(base, x)
  <2> DEFINE a == OnPath(x)
             b == Append(base, x)
             n == Len(base) + 1
  <2>1. /\ b \in Seq(Paths) /\ Len(b) = n /\ b[n] = x
        /\ \A i \in 1..Len(base) : b[i] = base[i]
    BY AppendIs
  <2>2. a = [levels EXCEPT ![n] = x] BY <1>1 DEF OnPath
  <2>3. n \in Nat /\ n \in 1..n BY <1>1
  <2>4. DOMAIN levels = 1..n /\ \A i \in 1..n : levels[i] \in Paths BY <1>1
  <2>5. /\ a \in [1..n -> Paths] /\ a[n] = x
        /\ \A i \in 1..Len(base) : a[i] = base[i]
    <3>1. a = [i \in 1..n |-> IF i = n THEN x ELSE levels[i]] BY <2>2, <2>4
    <3>2. \A i \in 1..Len(base) : i \in 1..n /\ i # n BY <1>1
    <3> HIDE DEF a, n
    <3> QED BY <1>1, <2>3, <2>4, <3>1, <3>2
  <2> HIDE DEF a, b, n
  <2>6. a \in Seq(Paths) /\ Len(a) = n BY <2>3, <2>5, IsASeq, LenProperties
  <2>7. \A i \in 1..Len(a) : a[i] = b[i]
    <3> TAKE i \in 1..Len(a)
    <3>1. i = n \/ i \in 1..Len(base) BY <1>1, <2>6 DEF n
    <3> QED BY <2>1, <2>5, <3>1
  <2>8. a = b BY <2>1, <2>6, <2>7, SeqEqual
  <2> QED BY <2>8 DEF a, b
<1> QED BY <1>1, <1>2 DEF Path

LEMMA ExpressionWrites ==
  ASSUME NEW base \in Seq(Paths), NEW q \in Paths, q # <<>>, levels = Append(base, q),
         Last(q).idx \in Nat, placed \in Seq(Placements), inits' = placed, Expression
  PROVE  /\ placed' \in Seq(Placements) /\ Writes(base, q)' /\ HasPart(q)
         /\ designating \/ FieldsInRow \/ ~Last(q).byName
<1> DEFINE i == Inward(q)
           e == [type |-> Cur(i).type, off |-> Cur(i).off, nr |-> Len(placed) + 1]
<1>1. levels # <<>> /\ Path = q /\ \A x \in Paths : OnPath(x) = Append(base, x) BY LastLevel
<1>2. Room(Last(q)) /\ (designating \/ FieldsInRow \/ ~Last(q).byName)
  BY <1>1 DEF Expression, MayFollow, HasRoom
<1>3. placed' = Append(placed, e) /\ levels' = OnPath(Behind(i))
  BY <1>1 DEF Expression, Cur
<1>4. tok'.kind = "expr" /\ designating' = FALSE BY DEF Expression, Write
<1>5. HasPart(q) BY <1>2 DEF HasPart
<1>6. i \in Paths /\ i # <<>> /\ HasPart(i) BY <1>5, InwardSteps
<1>7. Behind(i) \in Paths /\ Cur(i).type \in DOMAIN Types /\ Cur(i).off \in Nat
  BY <1>6, BehindType, CurIs
<1> HIDE DEF i
<1>8. levels' = Append(base, Behind(i)) BY <1>1, <1>3, <1>7
<1>9. Len(placed) + 1 \in Nat OBVIOUS
<1>10. e \in Placements BY <1>7, <1>9 DEF Placements
<1>11. e.type = Cur(i).type /\ e.off = Cur(i).off /\ e = [type |-> Cur(i).type, off |-> Cur(i).off, nr |-> Len(placed) + 1]
  OBVIOUS
<1> HIDE DEF e
<1>12. /\ placed' \in Seq(Placements) /\ placed' # <<>> /\ Front(placed') = placed
       /\ Last(placed') = e /\ Len(placed') = Len(placed) + 1
  BY <1>3, <1>10, AppendIs
<1>13. /\ tok'.kind = "expr" /\ Room(Last(q)) /\ levels' = Append(base, Behind(Inward(q)))
       /\ ~designating' /\ placed' # <<>> /\ inits' = Front(placed')
       /\ Last(placed') = [type |-> Cur(Inward(q)).type, off |-> Cur(Inward(q)).off, nr |-> Len(placed')]
  BY <1>2, <1>4, <1>8, <1>11, <1>12 DEF i
<1>14. Writes(base, q)' BY <1>13 DEF Writes
<1> QED BY <1>2, <1>5, <1>12, <1>14

LEMMA BraceOpens ==
  ASSUME NEW base \in Seq(Paths), NEW q \in Paths, q # <<>>, levels = Append(base, q),
         Last(q).idx \in Nat, inits' = placed, OpenBrace
  PROVE  /\ placed' = placed /\ Opens(base, q)' /\ HasPart(q)
         /\ designating \/ FieldsInRow \/ ~Last(q).byName
<1>1. levels # <<>> /\ Path = q /\ \A x \in Paths : OnPath(x) = Append(base, x) BY LastLevel
<1>2. Room(Last(q)) /\ (designating \/ FieldsInRow \/ ~Last(q).byName)
  BY <1>1 DEF OpenBrace, MayFollow, HasRoom
<1>3. levels' = Append(OnPath(Behind(q)), <<At(Cur(q), 0, FALSE)>>)
  BY <1>1 DEF OpenBrace, Cur, Current
<1>4. tok'.kind = "open" /\ designating' = FALSE /\ placed' = placed BY DEF OpenBrace, Write
<1>5. HasPart(q) BY <1>2 DEF HasPart
<1>6. Behind(q) \in Paths BY BehindType
<1>7. levels' = Append(Append(base, Behind(q)), <<At(Cur(q), 0, FALSE)>>) BY <1>1, <1>3, <1>6
<1>8. Opens(base, q)' BY <1>2, <1>4, <1>7 DEF Opens
<1> QED BY <1>2, <1>4, <1>5, <1>8

LEMMA BraceCloses ==
  ASSUME NEW base \in Seq(Paths), NEW q \in Paths, levels = Append(base, q),
         inits' = placed, CloseBrace
  PROVE  placed' = placed /\ Closes(base)' /\ ~designating
<1>1. Front(levels) = base BY LastLevel
<1>2. tok'.kind = "close" /\ designating' = designating /\ placed' = placed /\ ~designating
  BY DEF CloseBrace, Write
<1>3. levels' = base BY <1>1 DEF CloseBrace
<1> QED BY <1>2, <1>3 DEF Closes

LEMMA DesignatorChooses ==
  ASSUME NEW base \in Seq(Paths), NEW q \in Paths, q # <<>>, levels = Append(base, q),
         designating => HasPart(q), inits' = placed, Designator
  PROVE  /\ placed' = placed
         /\ designating => Chooses(base, q, Cur(q))'
         /\ ~designating => Chooses(base, <<>>, q[1].obj)'
         /\ designating \/ ~Exceeded
<1> DEFINE r == IF designating THEN q ELSE <<>>
           o == IF designating THEN Cur(q) ELSE q[1].obj
<1>1. levels # <<>> /\ Path = q /\ \A x \in Paths : OnPath(x) = Append(base, x) BY LastLevel
<1>2. r \in Paths BY DEF Paths
<1>3. o \in Object
  <2>1. CASE designating BY <2>1, CurIs
  <2>2. CASE ~designating
    <3>1. q[1] \in PathStep BY DEF Paths
    <3> QED BY <2>2, <3>1, StepIs
  <2> QED BY <2>1, <2>2
<1>4. /\ Aggregate(o.type)
      /\ \E i \in 0..(IF Unbounded(o.type) THEN MaxIndex ELSE Count(o.type) - 1) :
           /\ tok' = [kind |-> IF Types[o.type].kind = "struct" THEN "dot" ELSE "index", at |-> i]
           /\ levels' = OnPath(Append(r, At(o, i, Types[o.type].kind = "struct")))
  BY <1>1 DEF Designator, Cur, Current
<1>5. designating' = TRUE /\ placed' = placed /\ (designating \/ ~Exceeded) BY DEF Designator
<1> HIDE DEF r, o
<1>6. PICK i \in 0..(IF Unbounded(o.type) THEN MaxIndex ELSE Count(o.type) - 1) :
        /\ tok' = [kind |-> IF Types[o.type].kind = "struct" THEN "dot" ELSE "index", at |-> i]
        /\ levels' = OnPath(Append(r, At(o, i, Types[o.type].kind = "struct")))
  BY <1>4
<1>7. tok'.at = i /\ tok'.kind = IF Types[o.type].kind = "struct" THEN "dot" ELSE "index"
  BY <1>6
<1>8. Fits(o, i)
  <2>1. o.type \in DOMAIN Types BY <1>3 DEF Object
  <2>2. Count(o.type) \in Nat /\ MaxIndex \in Nat BY <2>1, TypeIs, TypesAssumption
  <2>3. i \in Nat /\ (Unbounded(o.type) \/ i < Count(o.type)) BY <2>2
  <2> QED BY <2>3 DEF Fits
<1> DEFINE b == Types[o.type].kind = "struct"
           a == At(o, i, b)
<1>9. b \in BOOLEAN OBVIOUS
<1> HIDE DEF b
<1>10. i \in Index BY <1>8 DEF Fits, Index
<1>11. a \in PathStep BY <1>3, <1>9, <1>10, AtIs
<1>12. levels' = OnPath(Append(r, a)) BY <1>6 DEF b
<1> HIDE DEF a
<1>13. Append(r, a) \in Paths BY <1>2, <1>11, PathIs
<1>14. levels' = Append(base, Append(r, a)) BY <1>1, <1>12, <1>13
<1>15. levels' = Append(base, Append(r, At(o, tok'.at, Types[o.type].kind = "struct")))
  BY <1>7, <1>14 DEF a, b
<1>16. Fits(o, tok'.at) BY <1>7, <1>8
<1>17. /\ Aggregate(o.type) /\ tok'.kind = (IF Types[o.type].kind = "struct" THEN "dot" ELSE "index")
       /\ Fits(o, tok'.at) /\ designating' /\ inits' = placed'
  BY <1>4, <1>5, <1>7, <1>16
<1>18. ASSUME designating PROVE Chooses(base, q, Cur(q))'
  <2>1. r = q /\ o = Cur(q) BY <1>18 DEF r, o
  <2> QED BY <1>15, <1>17, <2>1 DEF Chooses
<1>19. ASSUME ~designating PROVE Chooses(base, <<>>, q[1].obj)'
  <2>1. r = <<>> /\ o = q[1].obj BY <1>19 DEF r, o
  <2> QED BY <1>15, <1>17, <2>1 DEF Chooses
<1> QED BY <1>5, <1>18, <1>19

LEMMA ExcessExceeds ==
  ASSUME NEW base \in Seq(Paths), NEW q \in Paths, q # <<>>, levels = Append(base, q),
         ~designating, inits' = placed, Excess
  PROVE  /\ placed' = placed /\ Exceeds(base, q)'
         /\ FieldsInRow \/ ~Last(q).byName
<1>1. levels # <<>> /\ Path = q /\ \A x \in Paths : OnPath(x) = Append(base, x) BY LastLevel
<1>2. ~Room(Last(q)) /\ (FieldsInRow \/ ~Last(q).byName) BY <1>1 DEF Excess, HasRoom
<1>3. levels' = OnPath(<<NextOf(q[1])>>) BY <1>1 DEF Excess, NextOf
<1>4. tok'.kind = "expr" /\ designating' = designating /\ placed' = placed BY DEF Excess, Write
<1>5. q[1] \in PathStep BY DEF Paths
<1>6. NextOf(q[1]) \in PathStep BY <1>5, NextIs
<1>7. <<NextOf(q[1])>> \in Paths BY <1>6 DEF Paths
<1>8. levels' = Append(base, <<NextOf(q[1])>>) BY <1>1, <1>3, <1>7
<1>9. Exceeds(base, q)' BY <1>2, <1>4, <1>8 DEF Exceeds
<1> QED BY <1>2, <1>4, <1>9

(* What may stand where the loop of a call looks at the next token.        *)
Follows(base, q) ==
  ~Last(q).byName /\ (Writes(base, q) \/ Opens(base, q) \/ Exceeds(base, q))

LEMMA FirstToken ==
  ASSUME ~FieldsInRow, NEW base \in Seq(Paths), NEW q \in Paths, q # <<>>, levels = Append(base, q),
         Last(q).idx \in Nat, ~designating, placed \in Seq(Placements), inits' = placed, NextToken
  PROVE  /\ placed' \in Seq(Placements)
         /\ Follows(base, q)' \/ Closes(base)' \/ Chooses(base, <<>>, q[1].obj)'
<1>1. CASE Expression
  <2>1. placed' \in Seq(Placements) /\ Writes(base, q)' /\ ~Last(q).byName
    BY <1>1, ExpressionWrites
  <2> QED BY <2>1 DEF Follows
<1>2. CASE Excess
  <2>1. placed' = placed /\ Exceeds(base, q)' /\ ~Last(q).byName BY <1>2, ExcessExceeds
  <2> QED BY <2>1 DEF Follows
<1>3. CASE OpenBrace
  <2>1. placed' = placed /\ Opens(base, q)' /\ ~Last(q).byName BY <1>3, BraceOpens
  <2> QED BY <2>1 DEF Follows
<1>4. CASE CloseBrace
  <2>1. placed' = placed /\ Closes(base)' BY <1>4, BraceCloses
  <2> QED BY <2>1
<1>5. CASE Designator
  <2>1. placed' = placed /\ Chooses(base, <<>>, q[1].obj)' BY <1>5, DesignatorChooses
  <2> QED BY <2>1
<1>6. CASE EndOfSource
  <2>1. levels = <<>> BY <1>6 DEF EndOfSource
  <2> QED BY <2>1, LastLevel
<1> QED BY <1>1, <1>2, <1>3, <1>4, <1>5, <1>6 DEF NextToken

(* Behind a designator. *)
LEMMA ChosenToken ==
  ASSUME NEW base \in Seq(Paths), NEW q \in Paths, q # <<>>, levels = Append(base, q),
         HasPart(q), designating, placed \in Seq(Placements), inits' = placed, NextToken
  PROVE  /\ placed' \in Seq(Placements)
         /\ Writes(base, q)' \/ Opens(base, q)' \/ Chooses(base, q, Cur(q))'
<1>0. Last(q).idx \in Nat /\ Room(Last(q)) BY DEF HasPart
<1>1. CASE Expression
  <2>1. placed' \in Seq(Placements) /\ Writes(base, q)' BY <1>0, <1>1, ExpressionWrites
  <2> QED BY <2>1
<1>2. CASE Excess
  <2>1. Path = q BY LastLevel
  <2>2. ~Room(Last(q)) BY <1>2, <2>1 DEF Excess, HasRoom
  <2> QED BY <1>0, <2>2
<1>3. CASE OpenBrace
  <2>1. placed' = placed /\ Opens(base, q)' BY <1>0, <1>3, BraceOpens
  <2> QED BY <2>1
<1>4. CASE CloseBrace
  <2>1. ~designating BY <1>4, BraceCloses
  <2> QED BY <2>1
<1>5. CASE Designator
  <2>1. placed' = placed /\ Chooses(base, q, Cur(q))' BY <1>5, DesignatorChooses
  <2> QED BY <2>1
<1>6. CASE EndOfSource
  <2>1. levels = <<>> BY <1>6 DEF EndOfSource
  <2> QED BY <2>1, LastLevel
<1> QED BY <1>1, <1>2, <1>3, <1>4, <1>5, <1>6 DEF NextToken

(* Behind an expression too many. *)
LEMMA OverToken ==
  ASSUME NEW base \in Seq(Paths), Over(base), placed \in Seq(Placements), inits' = inits, NextToken
  PROVE  placed' = placed /\ (Over(base)' \/ Closes(base)')
<1>1. PICK a \in PathStep :
        levels = Append(base, <<a>>) /\ ~Unbounded(a.obj.type) /\ a.idx > Count(a.obj.type)
  BY DEF Over
<1> DEFINE q == <<a>>
<1>2. q \in Paths /\ q # <<>> /\ q[1] = a /\ Len(q) = 1 BY DEF Paths
<1>3. Last(q) = a BY <1>2, FrontIs DEF Paths
<1> HIDE DEF q
<1>4. levels = Append(base, q) /\ ~designating /\ inits' = placed BY <1>1 DEF Over, q
<1>5. levels # <<>> /\ Path = q BY <1>2, <1>4, LastLevel
<1>6. a.obj \in Object /\ a.idx + 1 \in Nat /\ a.idx \in Index BY StepIs
<1>7. Count(a.obj.type) \in Nat BY <1>6, TypeIs DEF Object
<1>8. ~Room(a) BY <1>1, <1>6, <1>7 DEF Room, Index
<1>9. CASE Expression BY <1>3, <1>5, <1>8, <1>9 DEF Expression, MayFollow, HasRoom
<1>10. CASE Excess
  <2>1. placed' = placed /\ Exceeds(base, q)' BY <1>2, <1>4, <1>10, ExcessExceeds
  <2>2. NextOf(a) \in PathStep /\ NextOf(a).obj = a.obj /\ NextOf(a).idx = a.idx + 1 BY NextIs
  <2>3. NextOf(a).idx > Count(NextOf(a).obj.type) /\ ~Unbounded(NextOf(a).obj.type)
    BY <1>1, <1>6, <1>7, <2>2 DEF Index
  <2>4. levels' = Append(base, <<NextOf(a)>>) BY <1>2, <2>1 DEF Exceeds
  <2>5. tok'.kind = "expr" /\ ~designating' /\ inits' = placed' BY <2>1 DEF Exceeds
  <2>6. Over(base)' BY <2>2, <2>3, <2>4, <2>5 DEF Over
  <2> QED BY <2>1, <2>6
<1>11. CASE OpenBrace BY <1>3, <1>5, <1>8, <1>11 DEF OpenBrace, MayFollow, HasRoom
<1>12. CASE CloseBrace BY <1>2, <1>4, <1>12, BraceCloses
<1>13. CASE Designator
  <2>1. ~Exceeded BY <1>2, <1>4, <1>13, DesignatorChooses
  <2>2. Exceeded BY <1>1, <1>2, <1>5 DEF Exceeded
  <2> QED BY <2>1, <2>2
<1>14. CASE EndOfSource BY <1>5, <1>14 DEF EndOfSource
<1> QED BY <1>9, <1>10, <1>11, <1>12, <1>13, <1>14 DEF NextToken

LEMMA LastToken ==
  ASSUME levels = <<>>, inits' = placed, NextToken
  PROVE  placed' = placed /\ AtEnd'
<1>1. EndOfSource
  BY DEF NextToken, Expression, Excess, OpenBrace, CloseBrace, Designator
<1>2. tok'.kind = "end" /\ levels' = levels /\ placed' = placed BY <1>1 DEF EndOfSource, Write
<1> QED BY <1>2 DEF AtEnd

-----------------------------------------------------------------------------
(* The calls and the levels agree                                          *)

LoopToken(base, p, designated) ==
  \/ Follows(base, Behind(p)) \/ Closes(base)
  \/ Chooses(base, IF designated THEN Front(p) ELSE <<>>,
             IF designated THEN Last(p).obj ELSE p[1].obj)

(* The loop of a call goes on; behind a designator for a part of a part    *)
(* the call has just begun.                                                *)
Looping(f, s, p, base) ==
  /\ Outer(f, base) /\ Waits(s, p)
  /\ Last(s).designated => Last(p).idx = -1 /\ ~Last(p).byName
  /\ LoopToken(base, p, Last(s).designated)

(* A call has a part, the one that the path comes to.                      *)
Reading(f, s, q, base) ==
  /\ Outer(f, base) /\ s \in Seq(Calls) /\ s # <<>>
  /\ Waits(Append(Front(s), After(Last(s))), q)
  /\ HasPart(q) /\ Last(s).cursor = Cur(q)
  /\ Writes(base, q) \/ Opens(base, q) \/ (Last(s).designated /\ Chooses(base, q, Cur(q)))

Skipping(f, s, p, base) ==
  Outer(f, base) /\ Waits(s, p) /\ Last(s).brace /\ (Over(base) \/ Closes(base))

Goes ==
  \/ stack = <<>> /\ AtEnd
  \/ \E f, s, p, base : stack = FlattenSeq(f) \o s /\ (Looping(f, s, p, base) \/ Reading(f, s, p, base))

Skips ==
  \E f, s, p, base : stack = FlattenSeq(f) \o s /\ Skipping(f, s, p, base)

Agree ==
  /\ phase \in {"start", "read", "skip", "done"} /\ placed \in Seq(Placements)
  /\ phase = "start" =>
       /\ stack = <<>> /\ inits = placed /\ ~designating
       /\ \E o \in Object : levels = << <<At(o, 0, FALSE)>> >>
  /\ phase = "read" => Goes
  /\ phase = "skip" => Skips
  /\ phase = "done" => inits = Sorted(placed)

LEMMA StackIs ==
  ASSUME NEW f, NEW base, Outer(f, base), NEW s \in Seq(Calls), s # <<>>, stack = FlattenSeq(f) \o s
  PROVE  /\ stack # <<>> /\ Call = Last(s) /\ Last(s) \in Calls
         /\ FlattenSeq(f) \in Seq(Calls) /\ Front(s) \in Seq(Calls)
         /\ Front(stack) = FlattenSeq(f) \o Front(s)
         /\ Front(s) = <<>> => Front(stack) = FlattenSeq(f)
         /\ \A c \in Calls : With(c) = FlattenSeq(f) \o Append(Front(s), c)
<1> DEFINE r == FlattenSeq(f)
<1>1. r \in Seq(Calls) BY FlattenIn DEF Outer
<1> HIDE DEF r
<1>2. stack = r \o s BY DEF r
<1>3. stack # <<>> /\ Last(stack) = Last(s) /\ Front(stack) = r \o Front(s)
  BY <1>1, <1>2, EndOfConcat
<1>4. Front(s) \in Seq(Calls) /\ Last(s) \in Calls BY FrontIs
<1>5. Front(s) = <<>> => Front(stack) = r BY <1>1, <1>3
<1>6. \A c \in Calls : Append(r \o Front(s), c) = r \o Append(Front(s), c)
  <2> TAKE c \in Calls
  <2>1. AppendsBehind(r, Front(s), c) BY <1>1, <1>4, AppendBehind
  <2> QED BY <2>1, Zenon DEF AppendsBehind
<1>7. \A c \in Calls : With(c) = r \o Append(Front(s), c) BY <1>3, <1>6 DEF With
<1> QED BY <1>1, <1>3, <1>4, <1>5, <1>7 DEF Call, r

LEMMA ObjectIs ==
  ASSUME NEW o \in Object
  PROVE  o \in [type : Nat, off : Nat] /\ o # NoCursor /\ o.type \in DOMAIN Types
<1>1. o.type \in DOMAIN Types /\ o.off \in Nat BY DEF Object
<1>2. o.type \in Nat /\ o.type # 0 BY <1>1, TypesAssumption
<1>3. o = [type |-> o.type, off |-> o.off] BY DEF Object
<1> QED BY <1>1, <1>2, <1>3 DEF NoCursor

LEMMA NewCallIs ==
  ASSUME NEW o \in Object, NEW b \in BOOLEAN, NEW d \in BOOLEAN
  PROVE  /\ NewCall(o, b, d) \in Calls /\ (NewCall(o, b, d).brace <=> b)
         /\ (NewCall(o, b, d).designated <=> d /\ Aggregate(o.type))
         /\ Waiting(NewCall(o, b, d), At(o, -1, FALSE))
<1> DEFINE e == d /\ Aggregate(o.type)
           c == NewCall(o, b, d)
<1>1. e \in BOOLEAN BY DEF Aggregate
<1>2. NoCursor \in [type : Nat, off : Nat] BY DEF NoCursor
<1>3. c = [obj |-> o, brace |-> b, designated |-> e, idx |-> 0, cursor |-> NoCursor]
  BY DEF NewCall
<1> HIDE DEF e, c
<1>4. 0 \in Int OBVIOUS
<1>5. c \in Calls BY <1>1, <1>2, <1>3, <1>4, Zenon DEF Calls
<1>6. c.obj = o /\ c.brace = b /\ c.designated = e /\ c.idx = 0 /\ c.cursor = NoCursor
  BY <1>3, Zenon
<1>7. Waiting(c, At(o, -1, FALSE))
  <2>1. At(o, -1, FALSE).obj = o /\ At(o, -1, FALSE).idx = -1 /\ At(o, -1, FALSE).byName = FALSE
    BY Zenon DEF At
  <2>2. 0 = -1 + (IF FALSE THEN 0 ELSE 1) OBVIOUS
  <2>3. c.idx = At(o, -1, FALSE).idx + (IF At(o, -1, FALSE).byName THEN 0 ELSE 1)
    BY <1>6, <2>1, <2>2
  <2> QED BY <1>6, <2>1, <2>3, Zenon DEF Waiting
<1>8. (c.brace <=> b) /\ (c.designated <=> e) BY <1>6, Zenon
<1> QED BY <1>5, <1>7, <1>8, Zenon DEF c, e

LEMMA CallIs ==
  ASSUME NEW c \in Calls
  PROVE  /\ c.obj \in Object /\ c.brace \in BOOLEAN /\ c.designated \in BOOLEAN /\ c.idx \in Int
         /\ c.cursor \in [type : Nat, off : Nat]
BY Zenon DEF Calls

(* A call with other values of what changes. *)
Changed(c, d, i, o) == [c EXCEPT !.cursor = o, !.idx = i, !.designated = d]

LEMMA ChangedFields ==
  ASSUME NEW c \in Calls, NEW d, NEW i, NEW o
  PROVE  Changed(c, d, i, o) =
           [obj |-> c.obj, brace |-> c.brace, designated |-> d, idx |-> i, cursor |-> o]
<1> DEFINE R(x, y, z, n, p) ==
             [obj |-> x, brace |-> y, designated |-> z, idx |-> n, cursor |-> p]
<1>1. [c EXCEPT !.cursor = o] = R(c.obj, c.brace, c.designated, c.idx, o) BY DEF Calls
<1>2. [R(c.obj, c.brace, c.designated, c.idx, o) EXCEPT !.idx = i] =
        R(c.obj, c.brace, c.designated, i, o)
  OBVIOUS
<1>3. [R(c.obj, c.brace, c.designated, i, o) EXCEPT !.designated = d] = R(c.obj, c.brace, d, i, o)
  OBVIOUS
<1>4. Changed(c, d, i, o) = [[[c EXCEPT !.cursor = o] EXCEPT !.idx = i] EXCEPT !.designated = d]
  BY DEF Changed
<1>6. R(c.obj, c.brace, d, i, o) =
        [obj |-> c.obj, brace |-> c.brace, designated |-> d, idx |-> i, cursor |-> o]
  OBVIOUS
<1> HIDE DEF R
<1>5. Changed(c, d, i, o) = R(c.obj, c.brace, d, i, o) BY <1>1, <1>2, <1>3, <1>4
<1> QED BY <1>5, <1>6

LEMMA ChangedIs ==
  ASSUME NEW c \in Calls, NEW d \in BOOLEAN, NEW i \in Int, NEW o \in [type : Nat, off : Nat]
  PROVE  /\ Changed(c, d, i, o) \in Calls /\ Changed(c, d, i, o).obj = c.obj
         /\ (Changed(c, d, i, o).brace <=> c.brace)
         /\ (Changed(c, d, i, o).designated <=> d)
         /\ Changed(c, d, i, o).idx = i /\ Changed(c, d, i, o).cursor = o
<1> DEFINE e == Changed(c, d, i, o)
<1>1. e = [obj |-> c.obj, brace |-> c.brace, designated |-> d, idx |-> i, cursor |-> o]
  BY ChangedFields
<1> HIDE DEF e
<1>2. e \in Calls BY <1>1, CallIs, Zenon DEF Calls
<1>3. e.obj = c.obj /\ e.brace = c.brace /\ e.designated = d /\ e.idx = i /\ e.cursor = o
  BY <1>1, Zenon
<1> QED BY <1>2, <1>3, Zenon DEF e

(* A call with a designated part. *)
Chose(c, i, o) == [c EXCEPT !.cursor = o, !.idx = i, !.designated = TRUE]

LEMMA ChosenIs ==
  ASSUME NEW c \in Calls, NEW i, i \in Int, NEW o \in Object
  PROVE  /\ Chose(c, i, o) \in Calls /\ Chose(c, i, o).obj = c.obj
         /\ (Chose(c, i, o).brace <=> c.brace)
         /\ Chose(c, i, o).designated /\ Chose(c, i, o).idx = i /\ Chose(c, i, o).cursor = o
<1> DEFINE d == TRUE
           e == Chose(c, i, o)
<1>0. d \in BOOLEAN /\ d /\ o \in [type : Nat, off : Nat] BY ObjectIs
<1>1. e = Changed(c, d, i, o) BY DEF Chose, Changed
<1> HIDE DEF d, e
<1>2. e = [obj |-> c.obj, brace |-> c.brace, designated |-> d, idx |-> i, cursor |-> o]
  BY <1>1, ChangedFields
<1>3. e \in Calls BY <1>0, <1>2, CallIs, Zenon DEF Calls
<1>4. e.obj = c.obj /\ e.brace = c.brace /\ e.designated = d /\ e.idx = i /\ e.cursor = o
  BY <1>2, Zenon
<1> QED BY <1>0, <1>3, <1>4, Zenon DEF e

(* A call with its next part. *)
Took(c) ==
  [c EXCEPT !.cursor = Part(c.obj, c.idx),
            !.idx = IF Types[c.obj.type].kind = "struct" THEN @ + 1 ELSE @]

LEMMA TookIs ==
  ASSUME NEW c \in Calls, Part(c.obj, c.idx) \in Object
  PROVE  /\ Took(c) \in Calls /\ Took(c).obj = c.obj /\ (Took(c).brace <=> c.brace)
         /\ (Took(c).designated <=> c.designated) /\ Took(c).cursor = Part(c.obj, c.idx)
         /\ Took(c).idx = IF Types[c.obj.type].kind = "struct" THEN c.idx + 1 ELSE c.idx
<1> DEFINE i == IF Types[c.obj.type].kind = "struct" THEN c.idx + 1 ELSE c.idx
           o == Part(c.obj, c.idx)
           e == Took(c)
           R(n, p) == [obj |-> c.obj, brace |-> c.brace, designated |-> c.designated,
                       idx |-> n, cursor |-> p]
<1>1. o \in [type : Nat, off : Nat] BY ObjectIs
<1>2. i \in Int BY CallIs
<1>3. e = [c EXCEPT !.cursor = o, !.idx = i] BY DEF Took
<1> HIDE DEF o, i, e
<1>4. [c EXCEPT !.cursor = o] = R(c.idx, o) BY DEF Calls
<1>5. [R(c.idx, o) EXCEPT !.idx = i] = R(i, o) OBVIOUS
<1>6. e = [[c EXCEPT !.cursor = o] EXCEPT !.idx = i] BY <1>3
<1>7. e = R(i, o)
  <2> HIDE DEF R
  <2> QED BY <1>4, <1>5, <1>6
<1>8. e \in Calls BY <1>1, <1>2, <1>7, CallIs, Zenon DEF Calls
<1>9. e.obj = c.obj /\ e.brace = c.brace /\ e.designated = c.designated /\ e.idx = i /\ e.cursor = o
  BY <1>7, Zenon
<1> QED BY <1>8, <1>9, Zenon DEF e, i, o

LEMMA AfterIs ==
  ASSUME NEW c \in Calls
  PROVE  /\ After(c) \in Calls /\ After(c).obj = c.obj /\ (After(c).brace <=> c.brace)
         /\ ~After(c).designated /\ After(c).cursor = NoCursor
         /\ After(c).idx = IF Types[c.obj.type].kind = "struct" THEN c.idx ELSE c.idx + 1
<1> DEFINE i == IF Types[c.obj.type].kind = "struct" THEN c.idx ELSE c.idx + 1
           d == FALSE
           e == Changed(c, d, i, NoCursor)
<1>1. i \in Int BY CallIs
<1>2. NoCursor \in [type : Nat, off : Nat] BY DEF NoCursor
<1>3. d \in BOOLEAN /\ ~d OBVIOUS
<1>4. After(c) = e BY DEF After, Changed
<1> HIDE DEF i, d
<1>5. e \in Calls /\ e.obj = c.obj /\ (e.brace <=> c.brace) /\ (e.designated <=> d)
      /\ e.idx = i /\ e.cursor = NoCursor
  BY <1>1, <1>2, <1>3, ChangedIs
<1> HIDE DEF e
<1> QED BY <1>3, <1>4, <1>5, Zenon DEF i

(* A list in braces is at its end: the one around it goes on, if there is one. *)
LEMMA ListClosed ==
  ASSUME ~FieldsInRow, NEW f, NEW base, Outer(f, base), Closes(base), placed \in Seq(Placements),
         stack' = FlattenSeq(f), inits' = inits, NextToken
  PROVE  placed' \in Seq(Placements) /\ Goes'
<1>1. levels = base /\ ~designating /\ inits' = placed BY DEF Closes
<1>2. CASE f = <<>>
  <2>1. base = <<>> BY <1>2 DEF Outer
  <2>2. placed' = placed /\ AtEnd' BY <1>1, <2>1, LastToken
  <2>3. stack' = <<>> BY <1>2, OuterNone
  <2> QED BY <2>2, <2>3 DEF Goes
<1>3. CASE f # <<>>
  <2> DEFINE g == Front(f)
             b == Front(base)
             s == Last(f)
  <2>1. Outer(g, b) /\ FlattenSeq(f) = FlattenSeq(g) \o s BY <1>3, OuterFront
  <2>2. PICK p \in Paths : Waits(s, p) /\ ~Last(s).designated /\ base = Append(b, Behind(p))
    BY <1>3, OuterFront
  <2> HIDE DEF g, b, s
  <2> DEFINE q == Behind(p)
  <2>3. p # <<>> BY <2>2, WaitsEnd
  <2>4. q \in Paths /\ q # <<>> /\ q[1].obj = p[1].obj /\ Last(q).idx \in Nat BY <2>3, BehindType
  <2>5. b \in Seq(Paths) BY <2>1 DEF Outer
  <2>6. levels = Append(b, q) BY <1>1, <2>2
  <2> HIDE DEF q
  <2>7. /\ placed' \in Seq(Placements)
        /\ Follows(b, q)' \/ Closes(b)' \/ Chooses(b, <<>>, q[1].obj)'
    BY <1>1, <2>4, <2>5, <2>6, FirstToken
  <2>8. LoopToken(b, p, Last(s).designated)'
    BY <2>2, <2>4, <2>7 DEF LoopToken, q
  <2>9. Looping(g, s, p, b)' BY <2>1, <2>2, <2>8 DEF Looping
  <2>10. stack' = FlattenSeq(g) \o s BY <2>1
  <2> QED BY <2>7, <2>9, <2>10 DEF Goes
<1> QED BY <1>2, <1>3

LEMMA ParseAgrees ==
  ASSUME ~FieldsInRow, Agree, Parse
  PROVE  Agree'
<1>1. phase = "start" /\ phase' = "read" /\ inits' = inits /\ NextToken
  BY DEF Parse
<1>2. stack' = <<NewCall(Last(Path).obj, TRUE, FALSE)>> BY DEF Parse
<1>3. inits = placed /\ ~designating /\ placed \in Seq(Placements) BY <1>1 DEF Agree
<1>4. PICK o \in Object : levels = << <<At(o, 0, FALSE)>> >> BY <1>1 DEF Agree
<1> DEFINE q == <<At(o, 0, FALSE)>>
           p == <<At(o, -1, FALSE)>>
           c == NewCall(o, TRUE, FALSE)
           s == <<c>>
<1>5. /\ At(o, -1, FALSE) \in PathStep /\ At(o, 0, FALSE) \in PathStep
      /\ Behind(Append(<<>>, At(o, -1, FALSE))) = Append(<<>>, At(o, 0, FALSE))
  <2>1. <<>> \in Paths BY DEF Paths
  <2> QED BY <2>1, BehindFresh
<1>6. At(o, 0, FALSE).obj = o /\ At(o, 0, FALSE).idx = 0 /\ At(o, -1, FALSE).obj = o
  BY Zenon DEF At
<1> DEFINE a == At(o, -1, FALSE)
           z == At(o, 0, FALSE)
<1>7. p = Append(<<>>, a) /\ q = Append(<<>>, z) OBVIOUS
<1>8. a \in PathStep /\ z \in PathStep BY <1>5
<1>9. z.obj = o /\ z.idx = 0 /\ a.obj = o BY <1>6
<1> HIDE DEF a, z
<1> HIDE DEF p, q
<1>10. q \in Paths /\ q # <<>> /\ Last(q) = z /\ q[1] = z
  <2>1. q = <<z>> BY DEF q, z
  <2>2. <<z>> \in Seq(PathStep) /\ <<z>> # <<>> /\ Last(<<z>>) = z /\ <<z>>[1] = z
    BY <1>8, SingleIs
  <2> QED BY <2>1, <2>2 DEF Paths
<1>11. Behind(p) = q BY <1>5, <1>7 DEF a, z
<1>12. Waits(s, p) /\ ~Last(s).designated
  <2>1. /\ c \in Calls /\ c.brace /\ ~c.designated /\ Waiting(c, a)
    <3>1. TRUE \in BOOLEAN /\ FALSE \in BOOLEAN OBVIOUS
    <3> QED BY <3>1, NewCallIs DEF a
  <2> HIDE DEF c, s
  <2>2. Waits(<<c>>, <<a>>) /\ Last(<<c>>) = c BY <1>8, <2>1, WaitsNew
  <2>3. p = <<a>> BY Zenon DEF p, a
  <2>4. Waits(<<c>>, p) BY <2>2, <2>3, Zenon
  <2>5. ~Last(<<c>>).designated BY <2>1, <2>2, Zenon
  <2>6. s = <<c>> BY DEF s
  <2> QED BY <2>4, <2>5, <2>6, Zenon
<1>13. Path = q /\ levels = Append(<<>>, q) /\ <<>> \in Seq(Paths)
  <2>2. levels = <<q>> BY <1>4 DEF q, z
  <2>1. <<>> \in Seq(Paths) /\ levels = Append(<<>>, q) BY <1>10, <2>2, SingleIs
  <2> QED BY <1>10, <2>1, LastLevel
<1>14. stack' = s BY <1>2, <1>9, <1>10, <1>13
<1> HIDE DEF p, q, s, c
<1>15. /\ placed' \in Seq(Placements)
       /\ Follows(<<>>, q)' \/ Closes(<<>>)' \/ Chooses(<<>>, <<>>, q[1].obj)'
  <2>1. Last(q).idx \in Nat BY <1>9, <1>10
  <2> QED BY <1>1, <1>3, <1>10, <1>13, <2>1, FirstToken
<1>16. q[1].obj = p[1].obj
  <2>1. p # <<>> /\ p \in Paths BY <1>12, WaitsEnd
  <2> QED BY <1>11, <2>1, BehindType
<1>17. LoopToken(<<>>, p, Last(s).designated)' BY <1>11, <1>12, <1>15, <1>16 DEF LoopToken
<1>18. Looping(<<>>, s, p, <<>>)' BY <1>12, <1>17, OuterNone DEF Looping
<1>19. stack' = FlattenSeq(<<>>) \o s
  <2>1. s \in Seq(Calls) BY <1>12, WaitsEnd
  <2> QED BY <1>14, <2>1, OuterNone
<1>20. Goes' BY <1>18, <1>19 DEF Goes
<1> QED BY <1>1, <1>15, <1>20 DEF Agree

-----------------------------------------------------------------------------
(* The steps                                                               *)

LEMMA SourceStays ==
  ASSUME UNCHANGED source, UNCHANGED inits
  PROVE  /\ placed' = placed /\ tok' = tok
         /\ \A base, q : Writes(base, q) => Writes(base, q)'
         /\ \A base, q : Opens(base, q) => Opens(base, q)'
         /\ \A base, q : Follows(base, q) => Follows(base, q)'
         /\ \A base : Closes(base) => Closes(base)'
         /\ \A base : Over(base) => Over(base)'
         /\ \A base, r, o : Chooses(base, r, o) => Chooses(base, r, o)'
<1>1. tok' = tok /\ levels' = levels /\ designating' = designating /\ placed' = placed /\ inits' = inits
  BY DEF source
<1>2. \A base, q : Writes(base, q) => Writes(base, q)' BY <1>1 DEF Writes
<1>3. \A base, q : Follows(base, q) => Follows(base, q)'
  BY <1>1 DEF Follows, Writes, Opens, Exceeds
<1>4. \A base : Closes(base) => Closes(base)' BY <1>1 DEF Closes
<1>5. \A base : Over(base) => Over(base)' BY <1>1 DEF Over
<1>6. \A base, r, o : Chooses(base, r, o) => Chooses(base, r, o)' BY <1>1 DEF Chooses
<1>7. \A base, q : Opens(base, q) => Opens(base, q)' BY <1>1 DEF Opens
<1> QED BY <1>1, <1>2, <1>3, <1>4, <1>5, <1>6, <1>7

(* The kind of the token says what it is.                                  *)
LEMMA KindOfToken ==
  ASSUME NEW base, NEW p, NEW d, LoopToken(base, p, d)
  PROVE  /\ tok.kind = "close" => Closes(base)
         /\ tok.kind # "close" /\ ~IsDesignator => Follows(base, Behind(p))
         /\ IsDesignator => Chooses(base, IF d THEN Front(p) ELSE <<>>,
                                    IF d THEN Last(p).obj ELSE p[1].obj)
<1> DEFINE r == IF d THEN Front(p) ELSE <<>>
           o == IF d THEN Last(p).obj ELSE p[1].obj
<1>1. Follows(base, Behind(p)) \/ Closes(base) \/ Chooses(base, r, o) BY DEF LoopToken
<1> HIDE DEF r, o
<1>2. Follows(base, Behind(p)) => tok.kind = "expr" \/ tok.kind = "open"
  BY DEF Follows, Writes, Opens, Exceeds
<1>3. Closes(base) => tok.kind = "close" BY DEF Closes
<1>4. Chooses(base, r, o) => tok.kind = "dot" \/ tok.kind = "index" BY DEF Chooses
<1>5. IsDesignator <=> tok.kind = "dot" \/ tok.kind = "index" BY DEF IsDesignator
<1>6. tok.kind = "close" => Closes(base) BY <1>1, <1>2, <1>4
<1>7. tok.kind # "close" /\ ~IsDesignator => Follows(base, Behind(p)) BY <1>1, <1>3, <1>4, <1>5
<1>8. IsDesignator => Chooses(base, r, o) BY <1>1, <1>2, <1>3, <1>5
<1> QED BY <1>6, <1>7, <1>8 DEF r, o

LEMMA ListEndsAgrees ==
  ASSUME ~FieldsInRow, NEW f, NEW s, NEW p, NEW base, Looping(f, s, p, base),
         stack = FlattenSeq(f) \o s, placed \in Seq(Placements), ListEnds
  PROVE  placed' \in Seq(Placements) /\ Goes'
<1>1. Outer(f, base) /\ Waits(s, p) /\ LoopToken(base, p, Last(s).designated) BY DEF Looping
<1>2. s \in Seq(Calls) /\ s # <<>> /\ (Last(s).brace <=> Len(s) = 1) /\ (Len(s) = 1 => Front(s) = <<>>)
  BY <1>1, WaitsEnd
<1>3. /\ Call = Last(s) /\ FlattenSeq(f) \in Seq(Calls) /\ Front(stack) = FlattenSeq(f) \o Front(s)
      /\ Front(s) = <<>> => Front(stack) = FlattenSeq(f)
  BY <1>1, <1>2, StackIs
<1>4. tok.kind = "close" /\ stack' = Front(stack) /\ Take(Last(s).brace) /\ inits' = inits
  BY <1>3 DEF ListEnds
<1>5. Closes(base) BY <1>1, <1>4, KindOfToken
<1>6. CASE Last(s).brace
  <2>1. stack' = FlattenSeq(f) BY <1>2, <1>3, <1>4, <1>6
  <2>2. NextToken BY <1>4, <1>6 DEF Take
  <2> QED BY <1>1, <1>4, <1>5, <2>1, <2>2, ListClosed
<1>7. CASE ~Last(s).brace
  <2>1. UNCHANGED source BY <1>4, <1>7 DEF Take
  <2>2. placed' = placed /\ Closes(base)' BY <1>4, <1>5, <2>1, SourceStays
  <2>3. Waits(Front(s), Front(p)) /\ ~Last(Front(s)).designated BY <1>1, <1>7, WaitsFront
  <2>4. LoopToken(base, Front(p), Last(Front(s)).designated)' BY <2>2 DEF LoopToken
  <2>5. Looping(f, Front(s), Front(p), base)' BY <1>1, <2>3, <2>4 DEF Looping
  <2>6. stack' = FlattenSeq(f) \o Front(s) BY <1>3, <1>4
  <2> QED BY <2>2, <2>5, <2>6 DEF Goes
<1> QED BY <1>6, <1>7

LEMMA LeftToOuterAgrees ==
  ASSUME NEW f, NEW s, NEW p, NEW base, Looping(f, s, p, base),
         stack = FlattenSeq(f) \o s, placed \in Seq(Placements), LeftToOuter
  PROVE  placed' \in Seq(Placements) /\ Goes'
<1>1. Outer(f, base) /\ Waits(s, p) /\ LoopToken(base, p, Last(s).designated) BY DEF Looping
<1>2. s \in Seq(Calls) /\ s # <<>> BY <1>1, WaitsEnd
<1>3. Call = Last(s) /\ Front(stack) = FlattenSeq(f) \o Front(s) BY <1>1, <1>2, StackIs
<1>4. /\ IsDesignator /\ ~Last(s).brace /\ ~Last(s).designated /\ stack' = Front(stack)
      /\ UNCHANGED source /\ UNCHANGED inits
  BY <1>3 DEF LeftToOuter, Own
<1>5. Chooses(base, <<>>, p[1].obj) BY <1>1, <1>4, KindOfToken
<1>6. Waits(Front(s), Front(p)) /\ ~Last(Front(s)).designated /\ Front(p)[1] = p[1]
  BY <1>1, <1>4, WaitsFront
<1>7. placed' = placed /\ Chooses(base, <<>>, p[1].obj)' BY <1>4, <1>5, SourceStays
<1>8. LoopToken(base, Front(p), Last(Front(s)).designated)' BY <1>6, <1>7 DEF LoopToken
<1>9. Looping(f, Front(s), Front(p), base)' BY <1>1, <1>6, <1>8 DEF Looping
<1>10. stack' = FlattenSeq(f) \o Front(s) BY <1>3, <1>4
<1> QED BY <1>7, <1>9, <1>10 DEF Goes

(* A designator that the call takes is for a part of its object. *)
LEMMA DesignatedIs ==
  ASSUME NEW f, NEW s, NEW p, NEW base, Looping(f, s, p, base),
         stack = FlattenSeq(f) \o s, Designated
  PROVE  Chooses(base, Front(p), Last(p).obj) /\ Call.obj = Last(p).obj
<1>1. Outer(f, base) /\ Waits(s, p) /\ LoopToken(base, p, Last(s).designated) BY DEF Looping
<1>2. /\ s \in Seq(Calls) /\ s # <<>> /\ (Last(s).brace <=> Len(s) = 1)
      /\ Len(s) = 1 => Front(p) = <<>> /\ Last(p) = p[1]
      /\ Waiting(Last(s), Last(p))
  BY <1>1, WaitsEnd
<1>3. Call = Last(s) /\ Call.obj = Last(p).obj BY <1>1, <1>2, StackIs DEF Waiting
<1>4. IsDesignator /\ (Last(s).brace \/ Last(s).designated)
  BY <1>3 DEF Designated, Own, Chosen, IsDesignator
<1>5. Chooses(base, IF Last(s).designated THEN Front(p) ELSE <<>>,
              IF Last(s).designated THEN Last(p).obj ELSE p[1].obj)
  BY <1>1, <1>4, KindOfToken
<1>6. CASE Last(s).designated BY <1>3, <1>5, <1>6
<1>7. CASE ~Last(s).designated
  <2>1. Front(p) = <<>> /\ Last(p) = p[1] BY <1>2, <1>4, <1>7
  <2> QED BY <1>3, <1>5, <1>7, <2>1
<1> QED BY <1>6, <1>7

LEMMA DesignatedAt ==
  ASSUME NEW f, NEW s, NEW p, NEW base, Looping(f, s, p, base),
         stack = FlattenSeq(f) \o s, placed \in Seq(Placements), Designated, NEW i, i = tok.at
  PROVE  placed' \in Seq(Placements) /\ Goes'
<1> DEFINE o == Last(p).obj
           b == Types[o.type].kind = "struct"
           a == At(o, i, b)
           q == Append(Front(p), a)
           c == Chose(Last(s), i, Part(o, i))
           t == Append(Front(s), c)
<1>1. Outer(f, base) /\ Waits(s, p) /\ LoopToken(base, p, Last(s).designated) BY DEF Looping
<1>2. /\ s \in Seq(Calls) /\ s # <<>> /\ (Last(s).brace <=> Len(s) = 1) /\ Last(s) \in Calls
      /\ Len(s) = 1 => Front(p) = <<>> /\ Last(p) = p[1]
      /\ Waiting(Last(s), Last(p)) /\ Last(p) \in PathStep /\ Front(p) \in Paths
      /\ Front(s) \in Seq(Calls)
  BY <1>1, WaitsEnd
<1>3. /\ Call = Last(s) /\ \A e \in Calls : With(e) = FlattenSeq(f) \o Append(Front(s), e)
  BY <1>1, <1>2, StackIs
<1>4. Last(s).obj = o BY <1>2 DEF Waiting
<1>5. stack' = With(c) /\ NextToken /\ inits' = inits
  BY <1>3, <1>4 DEF Designated, Chose
<1>6. Chooses(base, Front(p), o) BY DesignatedIs
<1>7. Fits(o, i) /\ designating /\ inits = placed /\ levels = Append(base, q)
  BY <1>6 DEF Chooses
<1>8. o \in Object /\ i \in Nat /\ i \in Index /\ b \in BOOLEAN /\ i \in Int
  <2>1. o \in Object BY <1>2, StepIs
  <2>2. i \in Nat BY <1>7 DEF Fits
  <2> QED BY <2>1, <2>2 DEF Index
<1>9. Part(o, i) \in Object /\ Part(o, i) \in [type : Nat, off : Nat]
  BY <1>7, <1>8, PartIs, ObjectIs
<1>10. a \in PathStep BY <1>8, AtIs
<1>11. a.obj = o /\ a.idx = i /\ a.byName = b BY Zenon DEF At
<1>12. /\ c \in Calls /\ c.obj = Last(s).obj /\ (c.brace <=> Last(s).brace) /\ c.designated
       /\ c.idx = i /\ c.cursor = Part(o, i)
  <2>1. Last(s) \in Calls /\ Part(o, i) \in Object /\ i \in Int BY <1>2, <1>8, <1>9
  <2> HIDE DEF a, q, t, o, b
  <2> QED BY <2>1, ChosenIs
<1> HIDE DEF c, a
<1>13. /\ After(c) \in Calls /\ After(c).obj = c.obj /\ (After(c).brace <=> c.brace)
       /\ After(c).cursor = NoCursor
       /\ After(c).idx = IF Types[c.obj.type].kind = "struct" THEN c.idx ELSE c.idx + 1
  BY <1>12, AfterIs
<1>14. Waiting(After(c), a)
  <2>1. After(c).idx = IF b THEN i ELSE i + 1 BY <1>4, <1>12, <1>13
  <2>2. After(c).idx = i + (IF b THEN 0 ELSE 1) BY <1>8, <2>1
  <2>3. After(c).idx = a.idx + (IF a.byName THEN 0 ELSE 1)
    <3> HIDE DEF b
    <3> QED BY <1>11, <2>2
  <2>4. After(c).obj = a.obj BY <1>4, <1>11, <1>12, <1>13
  <2> QED BY <1>13, <2>3, <2>4 DEF Waiting
<1> HIDE DEF b, o
<1>15. After(c).brace <=> Last(s).brace BY <1>12, <1>13, Zenon
<1>16. Waits(Append(Front(s), After(c)), q)
  BY <1>1, <1>10, <1>13, <1>14, <1>15, WaitsOther
<1>17. t \in Seq(Calls) /\ t # <<>> /\ Last(t) = c /\ Front(t) = Front(s)
  BY <1>2, <1>12, AppendIs
<1>18. q \in Paths /\ q # <<>> /\ Last(q) = a BY <1>2, <1>10, PathIs
<1> HIDE DEF q, t
<1>19. HasPart(q)
  <2>1. Room(a) BY <1>7, <1>11 DEF Room, Fits
  <2> QED BY <1>8, <1>11, <1>18, <2>1 DEF HasPart
<1>20. Cur(q) = Part(o, i) BY <1>11, <1>18 DEF Cur
<1>21. base \in Seq(Paths) BY <1>1 DEF Outer
<1>22. /\ placed' \in Seq(Placements)
       /\ Writes(base, q)' \/ Opens(base, q)' \/ Chooses(base, q, Cur(q))'
  BY <1>5, <1>7, <1>18, <1>19, <1>21, ChosenToken
<1>23. Last(t).designated BY <1>8, <1>12, <1>17, Zenon
<1>24. Waits(Append(Front(t), After(Last(t))), q) /\ Last(t).cursor = Cur(q)
  BY <1>12, <1>16, <1>17, <1>20
<1>25. Reading(f, t, q, base)' BY <1>1, <1>17, <1>19, <1>22, <1>23, <1>24 DEF Reading
<1>26. stack' = FlattenSeq(f) \o t BY <1>3, <1>5, <1>12 DEF t
<1> QED BY <1>22, <1>25, <1>26 DEF Goes

LEMMA DesignatedAgrees ==
  ASSUME NEW f, NEW s, NEW p, NEW base, Looping(f, s, p, base),
         stack = FlattenSeq(f) \o s, placed \in Seq(Placements), Designated
  PROVE  placed' \in Seq(Placements) /\ Goes'
<1>1. PICK i : i = tok.at OBVIOUS
<1> QED BY <1>1, DesignatedAt

(* A token that is not for a designator of the call. *)
LEMMA UndesignatedIs ==
  ASSUME NEW f, NEW s, NEW p, NEW base, Looping(f, s, p, base),
         stack = FlattenSeq(f) \o s, Undesignated
  PROVE  /\ Follows(base, Behind(p)) /\ ~Last(p).byName
         /\ Last(s).idx = Last(p).idx + 1 /\ Last(s).obj = Last(p).obj
         /\ NextOf(Last(p)) \in PathStep /\ NextOf(Last(p)).idx = Last(s).idx
         /\ NextOf(Last(p)).obj = Last(s).obj /\ ~NextOf(Last(p)).byName
         /\ Last(s).idx \in Nat
         /\ Exhausted <=> ~Room(NextOf(Last(p)))
<1>1. Outer(f, base) /\ Waits(s, p) /\ LoopToken(base, p, Last(s).designated) BY DEF Looping
<1>2. /\ s \in Seq(Calls) /\ s # <<>> /\ (Last(s).brace <=> Len(s) = 1) /\ Last(s) \in Calls
      /\ Len(s) = 1 => Front(p) = <<>> /\ Last(p) = p[1]
      /\ Waiting(Last(s), Last(p)) /\ Last(p) \in PathStep /\ p \in Paths /\ p # <<>>
  BY <1>1, WaitsEnd
<1>3. Call = Last(s) BY <1>1, <1>2, StackIs
<1>4. /\ tok.kind # "close" /\ ~Chosen
      /\ IsDesignator => Last(s).brace \/ Last(s).designated
  BY <1>3 DEF Undesignated, Own
<1>5. ~IsDesignator
  <2> SUFFICES ASSUME IsDesignator PROVE FALSE
    OBVIOUS
  <2>1. Chooses(base, IF Last(s).designated THEN Front(p) ELSE <<>>,
                IF Last(s).designated THEN Last(p).obj ELSE p[1].obj)
    BY <1>1, KindOfToken
  <2>2. PICK r : Chooses(base, r, Last(p).obj)
    <3>1. CASE Last(s).designated BY <2>1, <3>1
    <3>2. CASE ~Last(s).designated
      <4>1. Last(p) = p[1] BY <1>2, <1>4, <3>2
      <4> QED BY <2>1, <3>2, <4>1
    <3> QED BY <3>1, <3>2
  <2>3. tok.kind = (IF Types[Last(p).obj.type].kind = "struct" THEN "dot" ELSE "index")
    BY <2>2 DEF Chooses
  <2>4. Call.obj = Last(p).obj BY <1>2, <1>3 DEF Waiting
  <2>5. Chosen BY <2>3, <2>4 DEF Chosen, IsStruct
  <2> QED BY <1>4, <2>5
<1>6. Follows(base, Behind(p)) BY <1>1, <1>4, <1>5, KindOfToken
<1>7. ~Last(p).byName
  <2>1. ~Last(Behind(p)).byName BY <1>6 DEF Follows
  <2>2. Last(p).byName => Last(Behind(p)).byName BY <1>2, BehindType
  <2> QED BY <2>1, <2>2, Zenon
<1>8. Last(s).idx = Last(p).idx + 1 /\ Last(s).obj = Last(p).obj
  BY <1>2, <1>7 DEF Waiting
<1> DEFINE n == NextOf(Last(p))
           a == Last(p)
<1>9. n \in PathStep /\ n.obj = a.obj /\ n.idx = a.idx + 1 /\ n.idx \in Nat /\ n.byName = a.byName
  BY <1>2, NextIs
<1> HIDE DEF n
<1>10. a.obj \in Object /\ Count(a.obj.type) \in Nat
  <2>1. a.obj \in Object BY <1>2, StepIs
  <2> QED BY <2>1, ObjectIs, TypeIs
<1>11. Exhausted <=> /\ ~Last(s).designated /\ ~Unbounded(a.obj.type)
                     /\ Last(s).idx >= Count(a.obj.type)
  BY <1>3, <1>8 DEF Exhausted
<1>12. Room(n) <=> Unbounded(a.obj.type) \/ Last(s).idx < Count(a.obj.type)
  BY <1>8, <1>9 DEF Room
<1>13. Last(s).designated => Unbounded(a.obj.type) \/ Last(s).idx < Count(a.obj.type)
  <2> SUFFICES ASSUME Last(s).designated
               PROVE  Unbounded(a.obj.type) \/ Last(s).idx < Count(a.obj.type)
    OBVIOUS
  <2>1. a.idx = -1 BY DEF Looping
  <2>2. Last(s).idx = 0 BY <1>8, <2>1
  <2> QED BY <1>10, <2>2 DEF Unbounded
<1>14. Exhausted <=> ~Room(n)
  <2>1. Last(s).idx \in Nat BY <1>8, <1>9
  <2>2. Last(s).idx >= Count(a.obj.type) <=> ~(Last(s).idx < Count(a.obj.type)) BY <1>10, <2>1
  <2> QED BY <1>11, <1>12, <1>13, <2>2, Zenon
<1>15. ~n.byName BY <1>7, <1>9, Zenon
<1> QED BY <1>6, <1>7, <1>8, <1>9, <1>14, <1>15 DEF n, a

LEMMA NextPartAgrees ==
  ASSUME NEW f, NEW s, NEW p, NEW base, Looping(f, s, p, base),
         stack = FlattenSeq(f) \o s, placed \in Seq(Placements), NextPart
  PROVE  placed' \in Seq(Placements) /\ Goes'
<1> DEFINE a == NextOf(Last(p))
           q == Append(Front(p), a)
           x == Last(s)
           c == Took(x)
           t == Append(Front(s), c)
<1>1. Outer(f, base) /\ Waits(s, p) BY DEF Looping
<1>2. /\ s \in Seq(Calls) /\ s # <<>> /\ x \in Calls /\ Last(p) \in PathStep
      /\ Front(p) \in Paths /\ Front(s) \in Seq(Calls) /\ p = Append(Front(p), Last(p))
  BY <1>1, WaitsEnd
<1>3. /\ Call = x /\ \A e \in Calls : With(e) = FlattenSeq(f) \o Append(Front(s), e)
  BY <1>1, <1>2, StackIs
<1>4. /\ Undesignated /\ ~Exhausted /\ stack' = With(c) /\ UNCHANGED source /\ UNCHANGED inits
  BY <1>3 DEF NextPart, Took, IsStruct
<1>5. /\ Follows(base, Behind(p)) /\ a \in PathStep /\ a.idx = x.idx /\ a.obj = x.obj /\ ~a.byName
      /\ x.idx \in Nat /\ (Exhausted <=> ~Room(a))
  BY <1>4, UndesignatedIs
<1> HIDE DEF a, c
<1>6. Room(a) BY <1>4, <1>5, Zenon
<1>7. Behind(p) = q
  <2>1. Room(NextOf(Last(p))) BY <1>6 DEF a
  <2>2. Behind(Append(Front(p), Last(p))) = Append(Front(p), NextOf(Last(p)))
    BY <1>2, <2>1, BehindRoom
  <2> QED BY <1>2, <2>2 DEF a
<1>8. q \in Paths /\ q # <<>> /\ Last(q) = a /\ Front(q) = Front(p)
  BY <1>2, <1>5, PathIs
<1> HIDE DEF q
<1>9. Writes(base, q) \/ Opens(base, q) BY <1>5, <1>6, <1>7, <1>8 DEF Follows, Exceeds
<1>10. HasPart(q) BY <1>5, <1>6, <1>8 DEF HasPart
<1>11. Cur(q) \in Object /\ Cur(q) = Part(x.obj, x.idx)
  <2>1. Cur(q) = Part(x.obj, x.idx) BY <1>5, <1>8 DEF Cur
  <2> QED BY <1>8, <1>10, <2>1, CurIs
<1> HIDE DEF x
<1>12. /\ c \in Calls /\ c.obj = x.obj /\ (c.brace <=> x.brace) /\ c.cursor = Cur(q)
       /\ c.idx = IF Types[x.obj.type].kind = "struct" THEN x.idx + 1 ELSE x.idx
  <2>1. Part(x.obj, x.idx) \in Object BY <1>11
  <2>2. /\ Took(x) \in Calls /\ Took(x).obj = x.obj /\ (Took(x).brace <=> x.brace)
        /\ Took(x).cursor = Part(x.obj, x.idx)
        /\ Took(x).idx = IF Types[x.obj.type].kind = "struct" THEN x.idx + 1 ELSE x.idx
    BY <1>2, <2>1, TookIs
  <2> QED BY <1>11, <2>2 DEF c
<1>13. /\ After(c) \in Calls /\ After(c).obj = x.obj /\ (After(c).brace <=> x.brace)
       /\ After(c).cursor = NoCursor /\ After(c).idx = x.idx + 1
  <2>1. /\ After(c) \in Calls /\ After(c).obj = c.obj /\ (After(c).brace <=> c.brace)
        /\ After(c).cursor = NoCursor
        /\ After(c).idx = IF Types[c.obj.type].kind = "struct" THEN c.idx ELSE c.idx + 1
    BY <1>12, AfterIs
  <2>2. After(c).idx = x.idx + 1 BY <1>12, <2>1
  <2> QED BY <1>12, <2>1, <2>2, Zenon
<1>14. Waiting(After(c), a) BY <1>5, <1>13 DEF Waiting
<1>15. Waits(Append(Front(s), After(c)), q)
  <2>1. After(c) \in Calls /\ (After(c).brace <=> Last(s).brace) BY <1>13 DEF x
  <2>2. Waits(s, p) /\ a \in PathStep BY <1>1, <1>5
  <2>3. Waits(Append(Front(s), After(c)), Append(Front(p), a)) BY <1>14, <2>1, <2>2, WaitsOther
  <2> QED BY <2>3 DEF q
<1>16. t \in Seq(Calls) /\ t # <<>> /\ Last(t) = c /\ Front(t) = Front(s)
  <2>1. Front(s) \in Seq(Calls) /\ c \in Calls BY <1>2, <1>12
  <2> QED BY <2>1, AppendIs
<1>17. stack' = FlattenSeq(f) \o t BY <1>3, <1>4, <1>12
<1> HIDE DEF t
<1>18. placed' = placed /\ (Writes(base, q)' \/ Opens(base, q)') BY <1>4, <1>9, SourceStays
<1>19. Waits(Append(Front(t), After(Last(t))), q) /\ Last(t).cursor = Cur(q)
  BY <1>12, <1>15, <1>16
<1>20. Reading(f, t, q, base)' BY <1>1, <1>10, <1>16, <1>18, <1>19 DEF Reading
<1> QED BY <1>17, <1>18, <1>20 DEF Goes

LEMMA LastWasReadAgrees ==
  ASSUME NEW f, NEW s, NEW p, NEW base, Looping(f, s, p, base),
         stack = FlattenSeq(f) \o s, placed \in Seq(Placements), LastWasRead
  PROVE  /\ placed' \in Seq(Placements)
         /\ (phase' = "skip" /\ Skips') \/ (phase' = phase /\ Goes')
<1> DEFINE a == NextOf(Last(p))
           q == Behind(p)
<1>1. Outer(f, base) /\ Waits(s, p) BY DEF Looping
<1>2. /\ s \in Seq(Calls) /\ s # <<>> /\ Last(p) \in PathStep /\ p \in Paths /\ p # <<>>
      /\ Front(p) \in Paths /\ p = Append(Front(p), Last(p))
      /\ (Last(s).brace <=> Len(s) = 1) /\ Len(s) = Len(p)
      /\ Len(s) = 1 => Last(p) = p[1]
  BY <1>1, WaitsEnd
<1>3. Call = Last(s) /\ Front(stack) = FlattenSeq(f) \o Front(s) BY <1>1, <1>2, StackIs
<1>4. Undesignated /\ Exhausted /\ UNCHANGED source /\ UNCHANGED inits BY DEF LastWasRead
<1>5. Follows(base, q) /\ ~Room(a) BY <1>4, UndesignatedIs, Zenon
<1>6. CASE Last(s).brace
  <2>1. phase' = "skip" /\ stack' = stack BY <1>3, <1>6 DEF LastWasRead
  <2>2. Len(p) = 1 /\ Last(p) = p[1] BY <1>2, <1>6
  <2>3. PICK k \in 1..Len(p) : TurnsAt(p, k) BY <1>2, BehindIs
  <2>4. q = Turned(p, k) BY <1>2, <2>3, BehindIs
  <2>5. ~Room(Last(q))
    <3>1. Room(Last(Turned(p, k))) <=> Room(NextOf(p[k])) BY <1>2, <2>3, TurnedIs
    <3>2. k = 1 BY <2>2
    <3> QED BY <1>5, <2>2, <2>4, <3>1, <3>2, Zenon
  <2>6. /\ q \in Paths /\ q # <<>> /\ Last(q).idx \in Nat /\ Len(q) = 1
    BY <1>2, <2>5, BehindType
  <2> HIDE DEF q
  <2>7. Last(q) = q[1] /\ q[1] \in PathStep
    <3>1. q \in Seq(PathStep) BY <2>6 DEF Paths
    <3>2. Last(q) = q[Len(q)] /\ Last(q) \in PathStep BY <2>6, <3>1, FrontIs
    <3> QED BY <2>6, <3>2
  <2>8. Exceeds(base, q) BY <1>5, <2>5 DEF Follows, Writes, Opens
  <2> DEFINE e == q[1]
             n == NextOf(e)
  <2>9. n \in PathStep /\ n.obj = e.obj /\ n.idx = e.idx + 1 BY <2>7, NextIs
  <2>10. e.obj \in Object /\ e.idx \in Nat BY <2>6, <2>7, StepIs
  <2>11. Count(e.obj.type) \in Nat BY <2>10, ObjectIs, TypeIs
  <2>12. ~Unbounded(e.obj.type) /\ ~(e.idx < Count(e.obj.type)) BY <2>5, <2>7 DEF Room
  <2>13. levels = Append(base, <<n>>) BY <2>8 DEF Exceeds
  <2> HIDE DEF n
  <2>14. ~Unbounded(n.obj.type) /\ n.idx > Count(n.obj.type) BY <2>9, <2>10, <2>11, <2>12
  <2>15. Over(base) BY <2>8, <2>9, <2>13, <2>14 DEF Over, Exceeds
  <2>16. placed' = placed /\ Over(base)' BY <1>4, <2>15, SourceStays
  <2>17. Skipping(f, s, p, base)' BY <1>1, <1>6, <2>16 DEF Skipping
  <2> QED BY <2>1, <2>16, <2>17 DEF Skips
<1>7. CASE ~Last(s).brace
  <2>1. phase' = phase /\ stack' = FlattenSeq(f) \o Front(s) BY <1>3, <1>7 DEF LastWasRead
  <2>2. Waits(Front(s), Front(p)) /\ ~Last(Front(s)).designated BY <1>1, <1>7, WaitsFront
  <2>3. Front(p) # <<>> BY <2>2, WaitsEnd
  <2>4. ~Last(q).byName BY <1>5 DEF Follows
  <2>5. Behind(Front(p)) = q
    <3> DEFINE y == Front(p)
               z == Last(p)
    <3>1. y \in Paths /\ y # <<>> /\ z \in PathStep /\ ~Room(NextOf(z)) /\ p = Append(y, z)
      BY <1>2, <1>5, <2>3
    <3> HIDE DEF y, z
    <3>2. ~Last(Behind(Append(y, z))).byName BY <2>4, <3>1, Zenon
    <3>3. Behind(y) = Behind(Append(y, z)) BY <3>1, <3>2, BehindFront
    <3> QED BY <3>1, <3>3 DEF y
  <2>6. placed' = placed /\ Follows(base, q)' BY <1>4, <1>5, SourceStays
  <2>7. LoopToken(base, Front(p), Last(Front(s)).designated)' BY <2>5, <2>6 DEF LoopToken
  <2>8. Looping(f, Front(s), Front(p), base)' BY <1>1, <2>2, <2>7 DEF Looping
  <2>9. Goes' BY <2>1, <2>8 DEF Goes
  <2> QED BY <2>1, <2>6, <2>9
<1> QED BY <1>6, <1>7

LEMMA SkipAgrees ==
  ASSUME ~FieldsInRow, Skips, placed \in Seq(Placements), Skip
  PROVE  /\ placed' \in Seq(Placements)
         /\ (phase' = "skip" /\ Skips') \/ (phase' = "read" /\ Goes')
<1>1. PICK f, s, p, base : stack = FlattenSeq(f) \o s /\ Skipping(f, s, p, base) BY DEF Skips
<1>2. /\ Outer(f, base) /\ Waits(s, p) /\ Last(s).brace /\ (Over(base) \/ Closes(base))
  BY <1>1 DEF Skipping
<1>3. /\ s \in Seq(Calls) /\ s # <<>> /\ (Last(s).brace <=> Len(s) = 1)
      /\ (Len(s) = 1 => Front(s) = <<>>)
  BY <1>2, WaitsEnd
<1>4. Front(stack) = FlattenSeq(f)
  <2>1. Front(s) = <<>> => Front(stack) = FlattenSeq(f) BY <1>1, <1>2, <1>3, StackIs
  <2> QED BY <1>2, <1>3, <2>1
<1>5. NextToken /\ inits' = inits BY DEF Skip
<1>6. CASE Closes(base)
  <2>1. phase' = "read" /\ stack' = FlattenSeq(f) BY <1>4, <1>6 DEF Skip, Closes
  <2> QED BY <1>2, <1>5, <1>6, <2>1, ListClosed
<1>7. CASE Over(base)
  <2>1. phase' = "skip" /\ stack' = stack BY <1>7 DEF Skip, Over
  <2>2. base \in Seq(Paths) BY <1>2 DEF Outer
  <2>3. placed' = placed /\ (Over(base)' \/ Closes(base)') BY <1>5, <1>7, <2>2, OverToken
  <2>4. Skipping(f, s, p, base)' BY <1>2, <2>3 DEF Skipping
  <2> QED BY <1>1, <2>1, <2>3, <2>4 DEF Skips
<1> QED BY <1>2, <1>6, <1>7

(* What a call that has a part is. *)
LEMMA ReadingIs ==
  ASSUME NEW f, NEW s, NEW q, NEW base, Reading(f, s, q, base), stack = FlattenSeq(f) \o s
  PROVE  LET t == Append(Front(s), After(Last(s)))
         IN  /\ Outer(f, base) /\ base \in Seq(Paths) /\ FlattenSeq(f) \in Seq(Calls)
             /\ s \in Seq(Calls) /\ s # <<>> /\ Last(s) \in Calls /\ stack # <<>>
             /\ Waits(t, q) /\ Last(t) = After(Last(s)) /\ ~Last(t).designated
             /\ t \in Seq(Calls) /\ t # <<>> /\ q \in Paths /\ q # <<>>
             /\ Call = Last(s) /\ Last(s).cursor = Cur(q) /\ Cur(q) \in Object
             /\ Last(s).designated \in BOOLEAN
             /\ With(Continued) = FlattenSeq(f) \o t
             /\ Last(stack).cursor # NoCursor
             /\ \A c \in Calls : AppendsBehind(FlattenSeq(f), t, c)
<1> DEFINE x == Last(s)
           e == After(x)
           t == Append(Front(s), e)
<1>1. /\ Outer(f, base) /\ s \in Seq(Calls) /\ s # <<>> /\ Waits(t, q) /\ HasPart(q)
      /\ x.cursor = Cur(q)
  BY DEF Reading
<1>2. x \in Calls /\ Front(s) \in Seq(Calls) BY <1>1, FrontIs
<1>3. e \in Calls /\ ~e.designated BY <1>2, AfterIs, Zenon
<1>4. /\ stack # <<>> /\ Call = x /\ FlattenSeq(f) \in Seq(Calls)
      /\ \A c \in Calls : With(c) = FlattenSeq(f) \o Append(Front(s), c)
  BY <1>1, StackIs
<1>5. Continued = e BY <1>4 DEF Continued, After, IsStruct
<1> HIDE DEF e
<1>6. t \in Seq(Calls) /\ t # <<>> /\ Last(t) = e BY <1>2, <1>3, AppendIs
<1>7. q \in Paths /\ q # <<>> BY <1>1, WaitsEnd
<1>8. Cur(q) \in Object BY <1>1, <1>7, CurIs
<1>9. With(Continued) = FlattenSeq(f) \o t BY <1>3, <1>4, <1>5
<1>10. Last(stack).cursor # NoCursor BY <1>1, <1>4, <1>8, ObjectIs DEF Call
<1>11. base \in Seq(Paths) BY <1>1 DEF Outer
<1>12. x.designated \in BOOLEAN BY <1>2, CallIs
<1>13. ~Last(t).designated BY <1>3, <1>6, Zenon
<1>14. \A c \in Calls : AppendsBehind(FlattenSeq(f), t, c) BY <1>4, <1>6, AppendBehind
<1> QED
  BY <1>1, <1>2, <1>4, <1>6, <1>7, <1>8, <1>9, <1>10, <1>11, <1>12, <1>13, <1>14 DEF e

LEMMA ReadExpressionAgrees ==
  ASSUME ~FieldsInRow, NEW f, NEW s, NEW q, NEW base, Reading(f, s, q, base),
         stack = FlattenSeq(f) \o s, placed \in Seq(Placements), ReadExpression
  PROVE  placed' \in Seq(Placements) /\ Goes'
<1> DEFINE t == Append(Front(s), After(Last(s)))
           r == Behind(q)
<1>1. /\ Outer(f, base) /\ base \in Seq(Paths) /\ Waits(t, q) /\ ~Last(t).designated
      /\ q \in Paths /\ q # <<>> /\ Call = Last(s) /\ Last(s).cursor = Cur(q)
      /\ With(Continued) = FlattenSeq(f) \o t
  BY ReadingIs
<1> HIDE DEF t
<1>2. /\ ~Aggregate(Cur(q).type) /\ tok.kind = "expr" /\ NextToken
      /\ inits' = Append(inits, [type |-> Cur(q).type, off |-> Cur(q).off, nr |-> Len(inits) + 1])
      /\ stack' = FlattenSeq(f) \o t
  BY <1>1 DEF ReadExpression, Listed
<1>3. HasPart(q) /\ Writes(base, q) BY <1>2 DEF Reading, Opens, Chooses
<1>4. Inward(q) = q BY <1>1, <1>2, <1>3, InwardScalar
<1>5. /\ levels = Append(base, r) /\ ~designating /\ placed # <<>> /\ inits = Front(placed)
      /\ Last(placed) = [type |-> Cur(q).type, off |-> Cur(q).off, nr |-> Len(placed)]
  BY <1>3, <1>4 DEF Writes
<1>6. inits' = placed
  <2>1. Len(placed) \in Nat /\ Len(inits) = Len(placed) - 1 /\ placed = Append(inits, Last(placed))
    BY <1>5, FrontIs
  <2>2. Len(inits) + 1 = Len(placed) BY <2>1
  <2> QED BY <1>2, <1>5, <2>1, <2>2
<1>7. r \in Paths /\ r # <<>> /\ r[1].obj = q[1].obj /\ Last(r).idx \in Nat BY <1>1, BehindType
<1> HIDE DEF r
<1>8. /\ placed' \in Seq(Placements)
      /\ Follows(base, r)' \/ Closes(base)' \/ Chooses(base, <<>>, r[1].obj)'
  BY <1>1, <1>2, <1>5, <1>6, <1>7, FirstToken
<1>9. LoopToken(base, q, Last(t).designated)' BY <1>1, <1>7, <1>8 DEF LoopToken, r
<1>10. Looping(f, t, q, base)' BY <1>1, <1>9 DEF Looping
<1> QED BY <1>2, <1>8, <1>10 DEF Goes

LEMMA ReadListAt ==
  ASSUME ~FieldsInRow, NEW f, NEW s, NEW q, NEW base, Reading(f, s, q, base),
         stack = FlattenSeq(f) \o s, placed \in Seq(Placements), ReadList,
         NEW b, b = (tok.kind = "open")
  PROVE  placed' \in Seq(Placements) /\ Goes'
<1> DEFINE t == Append(Front(s), After(Last(s)))
           o == Cur(q)
           d == Last(s).designated
           c == NewCall(o, b, d)
           a == At(o, -1, FALSE)
           z == At(o, 0, FALSE)
<1>1. /\ Outer(f, base) /\ base \in Seq(Paths) /\ Waits(t, q) /\ ~Last(t).designated
      /\ q \in Paths /\ q # <<>> /\ Call = Last(s) /\ Last(s).cursor = o
      /\ With(Continued) = FlattenSeq(f) \o t /\ t \in Seq(Calls) /\ t # <<>>
      /\ FlattenSeq(f) \in Seq(Calls) /\ o \in Object /\ d \in BOOLEAN
      /\ \A e \in Calls : AppendsBehind(FlattenSeq(f), t, e)
  BY ReadingIs
<1> HIDE DEF t
<1>2. /\ Aggregate(o.type) \/ b
      /\ stack' = Append(FlattenSeq(f) \o t, c) /\ Take(b) /\ inits' = inits
  BY <1>1 DEF ReadList, Listed
<1>3. HasPart(q) /\ (Writes(base, q) \/ Opens(base, q) \/ (d /\ Chooses(base, q, o)))
  BY DEF Reading
<1>4. b \in BOOLEAN /\ (b <=> tok.kind = "open") OBVIOUS
<1>5. /\ a \in PathStep /\ z \in PathStep /\ Room(z)
      /\ Behind(Append(q, a)) = Append(q, z) /\ Behind(Append(<<>>, a)) = Append(<<>>, z)
  <2>1. <<>> \in Paths BY DEF Paths
  <2> QED BY <1>1, <2>1, BehindFresh
<1>6. /\ a.obj = o /\ a.idx = -1 /\ a.byName = FALSE
      /\ z.obj = o /\ z.idx = 0 /\ z.byName = FALSE
  BY Zenon DEF At
<1> HIDE DEF o, d
<1>7. c \in Calls /\ (c.brace <=> b) /\ (c.designated <=> d /\ Aggregate(o.type)) /\ Waiting(c, a)
  BY <1>1, <1>4, NewCallIs
<1> HIDE DEF c, a, z
<1> DEFINE F == FlattenSeq(f)
<1>0. F \in Seq(Calls) /\ stack' = Append(F \o t, c) BY <1>1, <1>2
<1> HIDE DEF F
<1>8. stack' = F \o Append(t, c)
  <2>1. AppendsBehind(F, t, c) BY <1>1, <1>7 DEF F
  <2> QED BY <1>0, <2>1, Zenon DEF AppendsBehind
<1>9. CASE b
  <2> DEFINE g == Append(f, t)
             base2 == Append(base, Behind(q))
             w == <<c>>
             p == <<a>>
             r == <<z>>
  <2>1. Outer(g, base2) /\ FlattenSeq(g) = FlattenSeq(f) \o t BY <1>1, OuterMore
  <2>2. NextToken BY <1>2, <1>9 DEF Take
  <2>3. Opens(base, q) BY <1>3, <1>4, <1>9 DEF Writes, Chooses
  <2>4. levels = Append(base2, r) /\ ~designating /\ inits' = placed
    BY <1>2, <2>3 DEF Opens, z, o
  <2> HIDE DEF g, base2
  <2>5. base2 \in Seq(Paths) BY <2>1 DEF Outer
  <2>6. r \in Paths /\ r # <<>> /\ Last(r) = z /\ r[1] = z /\ Append(<<>>, z) = r
    <3>1. <<z>> \in Seq(PathStep) /\ <<z>> # <<>> /\ Last(<<z>>) = z /\ <<z>>[1] = z
      BY <1>5, SingleIs
    <3> QED BY <3>1 DEF Paths
  <2>7. Waits(w, p) /\ Last(w) = c
    <3>1. c.brace BY <1>7, <1>9, Zenon
    <3> QED BY <1>5, <1>7, <3>1, WaitsNew
  <2>8. Last(p) = a /\ p[1] = a /\ Front(p) = <<>> /\ Behind(p) = r
    <3>1. p = Append(<<>>, a) /\ p[1] = a /\ Len(w) = 1 OBVIOUS
    <3>2. Last(p) = p[1] /\ Front(p) = <<>>
      <4> HIDE DEF p, w
      <4> QED BY <2>7, <3>1, WaitsEnd
    <3>3. Behind(p) = r BY <1>5, <2>6, <3>1
    <3> QED BY <3>1, <3>2, <3>3
  <2> HIDE DEF r, p, w
  <2>9. Last(r).idx \in Nat BY <1>6, <2>6
  <2>10. /\ placed' \in Seq(Placements)
         /\ Follows(base2, r)' \/ Closes(base2)' \/ Chooses(base2, <<>>, r[1].obj)'
    BY <2>2, <2>4, <2>5, <2>6, <2>9, FirstToken
  <2>11. LoopToken(base2, p, Last(w).designated)'
    BY <1>6, <2>6, <2>8, <2>10 DEF LoopToken
  <2>12. Looping(g, w, p, base2)'
    BY <1>6, <2>1, <2>7, <2>8, <2>11 DEF Looping
  <2>13. stack' = FlattenSeq(g) \o w
    <3> DEFINE y == F \o t
    <3>1. y \in Seq(Calls) BY <1>0, <1>1, ConcatIs
    <3>2. FlattenSeq(g) = y BY <2>1 DEF F
    <3>3. stack' = Append(y, c) BY <1>0
    <3> HIDE DEF y
    <3>4. Append(y, c) = y \o <<c>> BY <1>7, <3>1
    <3> QED BY <3>2, <3>3, <3>4 DEF w
  <2> QED BY <2>10, <2>12, <2>13 DEF Goes
<1>10. CASE ~b
  <2> DEFINE w == Append(t, c)
             p == Append(q, a)
             r == Append(q, z)
  <2>1. Aggregate(o.type) /\ UNCHANGED source BY <1>2, <1>10 DEF Take
  <2>2. Waits(w, p)
    <3>1. c.brace <=> t = <<>> BY <1>1, <1>7, <1>10, Zenon
    <3> QED BY <1>1, <1>5, <1>7, <3>1, WaitsMore
  <2>3. Last(w) = c BY <1>1, <1>7, AppendIs
  <2>4. Last(p) = a /\ Front(p) = q /\ Behind(p) = r BY <1>1, <1>5, PathIs
  <2>5. Last(r) = z BY <1>1, <1>5, PathIs
  <2>6. Inward(r) = Inward(q)
    <3>1. LET y == Append(q, At(Cur(q), 0, FALSE)) IN Inward(y) = Inward(q)
      BY <1>1, <1>3, <2>1, InwardStep DEF o
    <3> QED BY <3>1 DEF z, o
  <2> HIDE DEF w, p, r
  <2>7. Writes(base, q) => Follows(base, r)
    BY <1>5, <1>6, <2>5, <2>6 DEF Writes, Follows
  <2>8. CASE Writes(base, q)
    <3>1. placed' = placed /\ Follows(base, r)' BY <1>2, <2>1, <2>7, <2>8, SourceStays
    <3>2. LoopToken(base, p, Last(w).designated)' BY <2>4, <3>1 DEF LoopToken
    <3>3. Looping(f, w, p, base)' BY <1>1, <1>6, <2>2, <2>4, <3>2 DEF Looping
    <3> QED BY <1>8, <3>1, <3>3 DEF Goes, w, F
  <2>9. CASE ~Writes(base, q)
    <3>1. d /\ Chooses(base, q, o) BY <1>3, <1>4, <1>10, <2>9 DEF Opens
    <3>2. c.designated BY <1>7, <2>1, <3>1, Zenon
    <3>3. placed' = placed /\ Chooses(base, q, o)' BY <1>2, <2>1, <3>1, SourceStays
    <3>4. LoopToken(base, p, Last(w).designated)'
      BY <1>6, <2>3, <2>4, <3>2, <3>3 DEF LoopToken
    <3>5. Looping(f, w, p, base)' BY <1>1, <1>6, <2>2, <2>4, <3>4 DEF Looping
    <3> QED BY <1>8, <3>3, <3>5 DEF Goes, w, F
  <2> QED BY <2>8, <2>9
<1> QED BY <1>9, <1>10

LEMMA ReadListAgrees ==
  ASSUME ~FieldsInRow, NEW f, NEW s, NEW q, NEW base, Reading(f, s, q, base),
         stack = FlattenSeq(f) \o s, placed \in Seq(Placements), ReadList
  PROVE  placed' \in Seq(Placements) /\ Goes'
<1>1. PICK b : b = (tok.kind = "open") OBVIOUS
<1> QED BY <1>1, ReadListAt

(* When all calls have returned the source is at its end. *)
LEMMA NoneLeft ==
  ASSUME Goes, stack = <<>>
  PROVE  AtEnd
<1> SUFFICES ASSUME NEW f, NEW s, NEW p, NEW base, stack = FlattenSeq(f) \o s,
                    Looping(f, s, p, base) \/ Reading(f, s, p, base)
             PROVE  FALSE
  BY DEF Goes
<1>1. Outer(f, base) /\ s \in Seq(Calls) /\ s # <<>>
  <2>1. CASE Looping(f, s, p, base) BY <2>1, WaitsEnd DEF Looping
  <2>2. CASE Reading(f, s, p, base) BY <2>2 DEF Reading
  <2> QED BY <2>1, <2>2
<1> QED BY <1>1, StackIs

LEMMA ReturnAgrees ==
  ASSUME Goes, placed \in Seq(Placements), Return
  PROVE  /\ placed' \in Seq(Placements) /\ phase' = "done" /\ inits' = Sorted(placed')
<1>1. stack = <<>> /\ phase' = "done" /\ inits' = Sorted(inits) /\ UNCHANGED source BY DEF Return
<1>2. AtEnd BY <1>1, NoneLeft
<1>3. inits = placed BY <1>2 DEF AtEnd
<1>4. placed' = placed BY <1>1 DEF source
<1> QED BY <1>1, <1>3, <1>4

(* A call in its loop has no part, one that reads has one. *)
LEMMA LoopingHasNone ==
  ASSUME NEW f, NEW s, NEW p, NEW base, Looping(f, s, p, base), stack = FlattenSeq(f) \o s
  PROVE  stack # <<>> /\ Call.cursor = NoCursor
<1>1. Outer(f, base) /\ Waits(s, p) BY DEF Looping
<1>2. s \in Seq(Calls) /\ s # <<>> /\ Waiting(Last(s), Last(p)) BY <1>1, WaitsEnd
<1>3. stack # <<>> /\ Call = Last(s) BY <1>1, <1>2, StackIs
<1> QED BY <1>2, <1>3 DEF Waiting

LEMMA ReadingHasOne ==
  ASSUME NEW f, NEW s, NEW p, NEW base, Reading(f, s, p, base), stack = FlattenSeq(f) \o s
  PROVE  stack # <<>> /\ Call.cursor # NoCursor
BY ReadingIs DEF Call

(* A step of the loop of a call, or of a call that reads a part.           *)
LEMMA LoopAgrees ==
  ASSUME ~FieldsInRow, NEW f, NEW s, NEW p, NEW base, Looping(f, s, p, base),
         stack = FlattenSeq(f) \o s, placed \in Seq(Placements), phase = "read", Step
  PROVE  /\ placed' \in Seq(Placements)
         /\ (phase' = "skip" /\ Skips') \/ (phase' = "read" /\ Goes')
<1>0. stack # <<>> /\ Call.cursor = NoCursor BY LoopingHasNone
<1>1. CASE Parse BY <1>1 DEF Parse
<1>2. CASE ListEnds
  <2>1. phase' = phase BY <1>2 DEF ListEnds
  <2> QED BY <1>2, <2>1, ListEndsAgrees
<1>3. CASE LeftToOuter
  <2>1. phase' = phase BY <1>3 DEF LeftToOuter
  <2> QED BY <1>3, <2>1, LeftToOuterAgrees
<1>4. CASE Designated
  <2>1. phase' = phase BY <1>4 DEF Designated
  <2> QED BY <1>4, <2>1, DesignatedAgrees
<1>5. CASE NextPart
  <2>1. phase' = phase BY <1>5 DEF NextPart
  <2> QED BY <1>5, <2>1, NextPartAgrees
<1>6. CASE LastWasRead BY <1>6, LastWasReadAgrees
<1>7. CASE Skip BY <1>7 DEF Skip
<1>8. CASE ReadExpression BY <1>0, <1>8 DEF ReadExpression, AtElement
<1>9. CASE ReadList BY <1>0, <1>9 DEF ReadList, AtElement
<1>10. CASE Return BY <1>0, <1>10 DEF Return
<1> QED BY <1>1, <1>2, <1>3, <1>4, <1>5, <1>6, <1>7, <1>8, <1>9, <1>10 DEF Step

LEMMA ElementAgrees ==
  ASSUME ~FieldsInRow, NEW f, NEW s, NEW p, NEW base, Reading(f, s, p, base),
         stack = FlattenSeq(f) \o s, placed \in Seq(Placements), phase = "read", Step
  PROVE  placed' \in Seq(Placements) /\ phase' = "read" /\ Goes'
<1>0. stack # <<>> /\ Call.cursor # NoCursor BY ReadingHasOne
<1>1. ~AtLoop BY <1>0 DEF AtLoop
<1>2. CASE ReadExpression
  <2>1. phase' = phase BY <1>2 DEF ReadExpression
  <2> QED BY <1>2, <2>1, ReadExpressionAgrees
<1>3. CASE ReadList
  <2>1. phase' = phase BY <1>3 DEF ReadList
  <2> QED BY <1>3, <2>1, ReadListAgrees
<1>4. CASE Parse BY <1>4 DEF Parse
<1>5. CASE Skip BY <1>5 DEF Skip
<1>6. CASE Return BY <1>0, <1>6 DEF Return
<1>7. CASE ListEnds \/ LeftToOuter \/ Designated \/ NextPart \/ LastWasRead
  BY <1>1, <1>7 DEF ListEnds, LeftToOuter, Designated, NextPart, LastWasRead, Undesignated
<1> QED BY <1>2, <1>3, <1>4, <1>5, <1>6, <1>7 DEF Step

(* At the end of the source the calls have returned.                       *)
LEMMA EndAgrees ==
  ASSUME stack = <<>>, Goes, placed \in Seq(Placements), phase = "read", Step
  PROVE  placed' \in Seq(Placements) /\ phase' = "done" /\ inits' = Sorted(placed')
<1>1. Return
  BY DEF Step, Parse, ListEnds, LeftToOuter, Designated, NextPart, LastWasRead, Undesignated,
         Skip, ReadExpression, ReadList, AtLoop, AtElement
<1> QED BY <1>1, ReturnAgrees

(* Every step keeps the agreement.                                         *)
LEMMA AgreeSteps ==
  ASSUME ~FieldsInRow, Agree, Step
  PROVE  Agree'
<1>0. placed \in Seq(Placements) BY DEF Agree
<1>1. CASE phase = "start"
  <2>1. Parse
    BY <1>1 DEF Step, Parse, ListEnds, LeftToOuter, Designated, NextPart, LastWasRead,
           Undesignated, Skip, ReadExpression, ReadList, Return, AtLoop, AtElement
  <2> QED BY <2>1, ParseAgrees
<1>2. CASE phase = "read"
  <2>1. Goes BY <1>2 DEF Agree
  <2>2. CASE stack = <<>>
    <3>1. placed' \in Seq(Placements) /\ phase' = "done" /\ inits' = Sorted(placed')
      BY <1>0, <1>2, <2>1, <2>2, EndAgrees
    <3> QED BY <3>1 DEF Agree
  <2>3. CASE stack # <<>>
    <3>1. PICK f, s, p, base : /\ stack = FlattenSeq(f) \o s
                               /\ Looping(f, s, p, base) \/ Reading(f, s, p, base)
      BY <2>1, <2>3 DEF Goes
    <3>2. CASE Looping(f, s, p, base)
      <4>1. /\ placed' \in Seq(Placements)
            /\ (phase' = "skip" /\ Skips') \/ (phase' = "read" /\ Goes')
        BY <1>0, <1>2, <3>1, <3>2, LoopAgrees
      <4> QED BY <4>1 DEF Agree
    <3>3. CASE Reading(f, s, p, base)
      <4>1. placed' \in Seq(Placements) /\ phase' = "read" /\ Goes'
        BY <1>0, <1>2, <3>1, <3>3, ElementAgrees
      <4> QED BY <4>1 DEF Agree
    <3> QED BY <3>1, <3>2, <3>3
  <2> QED BY <2>2, <2>3
<1>3. CASE phase = "skip"
  <2>1. Skip
    BY <1>3 DEF Step, Parse, ListEnds, LeftToOuter, Designated, NextPart, LastWasRead,
           Undesignated, Skip, ReadExpression, ReadList, Return, AtLoop, AtElement
  <2>2. Skips BY <1>3 DEF Agree
  <2>3. /\ placed' \in Seq(Placements)
        /\ (phase' = "skip" /\ Skips') \/ (phase' = "read" /\ Goes')
    BY <1>0, <2>1, <2>2, SkipAgrees
  <2> QED BY <2>3 DEF Agree
<1>4. CASE phase = "done"
  BY <1>4 DEF Step, Parse, ListEnds, LeftToOuter, Designated, NextPart, LastWasRead,
         Undesignated, Skip, ReadExpression, ReadList, Return, AtLoop, AtElement
<1> QED BY <1>1, <1>2, <1>3, <1>4 DEF Agree

LEMMA AgreeStutters ==
  ASSUME Agree, UNCHANGED vars
  PROVE  Agree'
<1>1. /\ tok' = tok /\ levels' = levels /\ designating' = designating /\ placed' = placed
      /\ stack' = stack /\ inits' = inits /\ phase' = phase
  BY DEF vars, source
<1>2. Goes <=> Goes'
  BY <1>1 DEF Goes, AtEnd, Looping, Reading, LoopToken, Follows, Writes, Opens, Exceeds, Closes,
              Chooses
<1>3. Skips <=> Skips' BY <1>1 DEF Skips, Skipping, Over, Closes
<1> QED BY <1>1, <1>2, <1>3 DEF Agree

LEMMA AgreeStarts ==
  ASSUME Init
  PROVE  Agree
<1>1. stack = <<>> /\ inits = <<>> /\ phase = "start" /\ placed = <<>> /\ ~designating
  BY DEF Init, SourceInit
<1>2. PICK t \in Roots : levels = << <<At([type |-> t, off |-> 0], 0, FALSE)>> >>
  BY DEF Init, SourceInit
<1> DEFINE o == [type |-> t, off |-> 0]
<1>3. o \in Object BY TypesAssumption DEF Object
<1>4. levels = << <<At(o, 0, FALSE)>> >> BY <1>2
<1> HIDE DEF o
<1>5. \E r \in Object : levels = << <<At(r, 0, FALSE)>> >> BY <1>3, <1>4, Zenon
<1>6. placed \in Seq(Placements) /\ inits = placed BY <1>1
<1> QED BY <1>1, <1>5, <1>6, Zenon DEF Agree

(* The initializers so far are those that the language has, up to the      *)
(* expression that is the token.                                           *)
LEMMA InitsAre ==
  ASSUME Agree, phase # "done"
  PROVE  /\ placed \in Seq(Placements) /\ inits \in Seq(Placements)
         /\ inits = placed \/ (placed # <<>> /\ inits = Front(placed))
<1>1. placed \in Seq(Placements) BY DEF Agree
<1>2. inits = placed \/ (placed # <<>> /\ inits = Front(placed))
  <2>1. CASE phase = "start" BY <2>1 DEF Agree
  <2>2. CASE phase = "read"
    <3>1. Goes BY <2>2 DEF Agree
    <3>2. CASE AtEnd BY <3>2 DEF AtEnd
    <3>3. CASE \E f, s, p, base : Looping(f, s, p, base)
      <4>1. PICK f, s, p, base : Looping(f, s, p, base) BY <3>3
      <4>2. PICK r, o : Follows(base, Behind(p)) \/ Closes(base) \/ Chooses(base, r, o)
        BY <4>1 DEF Looping, LoopToken
      <4> QED BY <4>2 DEF Follows, Writes, Opens, Exceeds, Closes, Chooses
    <3>4. CASE \E f, s, p, base : Reading(f, s, p, base)
      <4>1. PICK f, s, p, base : Reading(f, s, p, base) BY <3>4
      <4>2. Writes(base, p) \/ Opens(base, p) \/ Chooses(base, p, Cur(p)) BY <4>1 DEF Reading
      <4> QED BY <4>2 DEF Writes, Opens, Chooses
    <3> QED BY <3>1, <3>2, <3>3, <3>4 DEF Goes
  <2>3. CASE phase = "skip" BY <2>3 DEF Agree, Skips, Skipping, Over, Closes
  <2> QED BY <2>1, <2>2, <2>3 DEF Agree
<1>3. inits \in Seq(Placements) BY <1>1, <1>2, FrontIs
<1> QED BY <1>1, <1>2, <1>3

LEMMA AgreeShows ==
  ASSUME Agree
  PROVE  GoesToItsObject
<1> SUFFICES ASSUME phase # "done" PROVE IsPrefix(inits, placed)
  BY DEF GoesToItsObject
<1>1. /\ placed \in Seq(Placements)
      /\ inits = placed \/ (placed # <<>> /\ inits = Front(placed))
  BY InitsAre
<1>2. CASE inits = placed
  <2>1. \E u \in Seq(Placements) : placed = inits \o u
    <3>1. <<>> \in Seq(Placements) /\ placed = placed \o <<>> BY <1>1
    <3> QED BY <1>2, <3>1
  <2> QED BY <1>1, <1>2, <2>1 DEF IsPrefix
<1>3. CASE placed # <<>> /\ inits = Front(placed)
  BY <1>1, <1>3, FrontIs DEF IsPrefix
<1> QED BY <1>1, <1>2, <1>3

(* Between any two calls of next() in ParseInitializer the calls on the    *)
(* stack and the open braces of the source agree: read_list, the loops and *)
(* skip_to_brace keep it so.                                               *)
THEOREM CallsAgree ==
  ASSUME ~FieldsInRow
  PROVE  Spec => []Agree
<1>1. Init => Agree BY AgreeStarts
<1>2. Agree /\ [Next]_vars => Agree'
  <2> SUFFICES ASSUME Agree, [Next]_vars PROVE Agree'
    OBVIOUS
  <2>1. CASE Step BY <2>1, AgreeSteps
  <2>2. CASE UNCHANGED vars BY <2>2, AgreeStutters
  <2> QED BY <2>1, <2>2 DEF Next, Done
<1> QED BY <1>1, <1>2, PTL DEF Spec

(* Every initializer that read_initializer_elem makes is for the object    *)
(* that the language gives the expression to, and is made in the order of  *)
(* the source.                                                             *)
THEOREM InitializersGoToTheirObjects ==
  ASSUME ~FieldsInRow
  PROVE  Spec => []GoesToItsObject
<1>1. Agree => GoesToItsObject BY AgreeShows
<1> QED BY <1>1, CallsAgree, PTL

-----------------------------------------------------------------------------
(* The initializers are sorted                                             *)

Before(s, j, i) == s[j].off < s[i].off \/ (s[j].off = s[i].off /\ j <= i)
NotBehind(s, i) == {j \in DOMAIN s : Before(s, j, i)}
Place(s, i) == Cardinality(NotBehind(s, i))

LEMMA PlacementsAre ==
  ASSUME NEW s \in Seq(Placements)
  PROVE  /\ Len(s) \in Nat /\ DOMAIN s = 1..Len(s)
         /\ \A i \in 1..Len(s) : s[i] \in Placements /\ s[i].off \in Nat
<1>1. Len(s) \in Nat /\ DOMAIN s = 1..Len(s) /\ \A i \in 1..Len(s) : s[i] \in Placements
  OBVIOUS
<1> QED BY <1>1 DEF Placements

LEMMA OneToIs ==
  ASSUME NEW n \in Nat
  PROVE  IsFiniteSet(1..n) /\ Cardinality(1..n) = n
<1>1. /\ IsFiniteSet(1..n)
      /\ Cardinality(1..n) = IF 1 > n THEN 0 ELSE n - 1 + 1
  BY FS_Interval
<1>2. (IF 1 > n THEN 0 ELSE n - 1 + 1) = n OBVIOUS
<1> QED BY <1>1, <1>2

LEMMA PlaceIs ==
  ASSUME NEW s \in Seq(Placements), NEW i \in 1..Len(s)
  PROVE  Place(s, i) \in 1..Len(s) /\ IsFiniteSet(NotBehind(s, i)) /\ i \in NotBehind(s, i)
<1> DEFINE N == Len(s)
<1>1. N \in Nat /\ DOMAIN s = 1..N BY PlacementsAre
<1>2. s[i].off \in Nat /\ i \in Nat BY <1>1, PlacementsAre
<1>3. i \in NotBehind(s, i) BY <1>1, <1>2 DEF NotBehind, Before
<1>4. IsFiniteSet(1..N) /\ Cardinality(1..N) = N BY <1>1, OneToIs
<1>5. NotBehind(s, i) \in SUBSET (1..N) BY <1>1 DEF NotBehind
<1>6. /\ IsFiniteSet(NotBehind(s, i)) /\ Cardinality(NotBehind(s, i)) <= N
      /\ Cardinality(NotBehind(s, i)) \in Nat
  BY <1>4, <1>5, FS_Subset, FS_CardinalityType
<1>7. Cardinality(NotBehind(s, i)) # 0 BY <1>3, <1>6, FS_EmptySet
<1> QED BY <1>1, <1>3, <1>6, <1>7 DEF Place

(* What is before another one has a place before it. *)
LEMMA PlaceOrder ==
  ASSUME NEW s \in Seq(Placements), NEW i \in 1..Len(s), NEW j \in 1..Len(s), i # j, Before(s, i, j)
  PROVE  Place(s, i) < Place(s, j)
<1> DEFINE N == Len(s)
           A == NotBehind(s, i)
           B == NotBehind(s, j)
<1>1. N \in Nat /\ DOMAIN s = 1..N /\ \A k \in 1..N : s[k].off \in Nat BY PlacementsAre
<1>2. A \subseteq B
  <2> SUFFICES ASSUME NEW k \in 1..N, Before(s, k, i) PROVE Before(s, k, j)
    BY <1>1 DEF NotBehind
  <2>1. s[k].off \in Nat /\ s[i].off \in Nat /\ s[j].off \in Nat /\ k \in Nat /\ i \in Nat /\ j \in Nat
    BY <1>1
  <2> QED BY <2>1 DEF Before
<1>3. j \in B /\ j \notin A
  <2>1. s[i].off \in Nat /\ s[j].off \in Nat /\ i \in Nat /\ j \in Nat BY <1>1
  <2>2. ~Before(s, j, i) BY <2>1 DEF Before
  <2>3. j \in B BY PlaceIs
  <2> QED BY <2>2, <2>3 DEF NotBehind
<1>4. IsFiniteSet(B) /\ Cardinality(B) \in Nat BY PlaceIs, FS_CardinalityType
<1>5. A \in SUBSET B /\ A # B BY <1>2, <1>3
<1>6. IsFiniteSet(A) /\ Cardinality(A) <= Cardinality(B) /\ Cardinality(A) # Cardinality(B)
  BY <1>4, <1>5, FS_Subset
<1>7. Cardinality(A) \in Nat BY <1>6, FS_CardinalityType
<1> QED BY <1>4, <1>6, <1>7 DEF Place

LEMMA OneBefore ==
  ASSUME NEW s \in Seq(Placements), NEW i \in 1..Len(s), NEW j \in 1..Len(s)
  PROVE  Before(s, i, j) \/ Before(s, j, i)
<1>1. s[i].off \in Nat /\ s[j].off \in Nat /\ i \in Nat /\ j \in Nat BY PlacementsAre
<1> QED BY <1>1 DEF Before

(* There is one at every place. *)
LEMMA PlaceTaken ==
  ASSUME NEW s \in Seq(Placements), NEW n \in 1..Len(s)
  PROVE  \E i \in 1..Len(s) : Place(s, i) = n
<1> DEFINE N == Len(s)
           T == (1..N) \ {n}
           f == [i \in 1..N |-> Place(s, i)]
<1> SUFFICES ASSUME \A i \in 1..N : Place(s, i) # n PROVE FALSE
  OBVIOUS
<1>1. N \in Nat BY PlacementsAre
<1>2. IsFiniteSet(1..N) /\ Cardinality(1..N) = N BY <1>1, OneToIs
<1>3. T \in SUBSET (1..N) /\ T # 1..N OBVIOUS
<1>4. IsFiniteSet(T) /\ Cardinality(T) <= N /\ Cardinality(T) # N BY <1>2, <1>3, FS_Subset
<1>5. Cardinality(T) < Cardinality(1..N)
  <2>1. Cardinality(T) \in Nat BY <1>4, FS_CardinalityType
  <2> QED BY <1>1, <1>2, <1>4, <2>1
<1>6. f \in [1..N -> T] BY PlaceIs
<1> HIDE DEF f, T
<1>7. \E x, y \in 1..N : x # y /\ f[x] = f[y] BY <1>2, <1>4, <1>5, <1>6, FS_PigeonHole
<1>8. PICK x \in 1..N, y \in 1..N : x # y /\ f[x] = f[y] BY <1>7
<1>9. Place(s, x) = Place(s, y) BY <1>8 DEF f
<1>10. Place(s, x) \in Nat BY <1>1, PlaceIs
<1>11. Place(s, x) < Place(s, y) \/ Place(s, y) < Place(s, x)
  BY <1>8, OneBefore, PlaceOrder
<1> QED BY <1>9, <1>10, <1>11

AtPlace(s, n) == CHOOSE i \in DOMAIN s : Place(s, i) = n

(* Sorted has every initializer at its place.                              *)
LEMMA SortedIs ==
  ASSUME NEW s \in Seq(Placements)
  PROVE  /\ Sorted(s) \in Seq(Placements) /\ Len(Sorted(s)) = Len(s)
         /\ \A n \in 1..Len(s) :
              /\ AtPlace(s, n) \in 1..Len(s) /\ Place(s, AtPlace(s, n)) = n
              /\ Sorted(s)[n] = s[AtPlace(s, n)]
<1>1. Len(s) \in Nat /\ DOMAIN s = 1..Len(s) /\ \A i \in 1..Len(s) : s[i] \in Placements
  BY PlacementsAre
<1>2. ASSUME NEW n \in 1..Len(s)
      PROVE  AtPlace(s, n) \in 1..Len(s) /\ Place(s, AtPlace(s, n)) = n
  <2>1. \E i \in DOMAIN s : Place(s, i) = n BY <1>1, PlaceTaken
  <2> QED BY <1>1, <2>1 DEF AtPlace
<1>3. Sorted(s) = [n \in DOMAIN s |-> s[AtPlace(s, n)]]
  BY DEF Sorted, AtPlace, Place, NotBehind, Before
<1>4. \A n \in 1..Len(s) : Sorted(s)[n] = s[AtPlace(s, n)] BY <1>1, <1>3
<1>5. Sorted(s) \in [1..Len(s) -> Placements] BY <1>1, <1>2, <1>3
<1>6. Sorted(s) \in Seq(Placements) /\ Len(Sorted(s)) = Len(s) BY <1>1, <1>5
<1> QED BY <1>2, <1>4, <1>6

(* The expressions have their numbers. *)
Numbered == \A i \in 1..Len(placed) : placed[i].nr = i

LEMMA TokenNumbered ==
  ASSUME placed \in Seq(Placements), Numbered, NextToken
  PROVE  Numbered'
<1>1. CASE Expression
  <2> DEFINE n == Len(placed) + 1
  <2>1. PICK r : placed' = Append(placed, r) /\ r.nr = n BY <1>1 DEF Expression
  <2> DEFINE S == Placements \cup {r}
  <2>2. placed \in Seq(S) /\ r \in S BY SeqOfLarger
  <2> HIDE DEF S
  <2>3. /\ Len(placed') = Len(placed) + 1 /\ Len(placed) \in Nat
        /\ \A i \in 1..Len(placed) : placed'[i] = placed[i]
        /\ placed'[Len(placed) + 1] = r
    BY <2>1, <2>2, AppendIs
  <2>4. ASSUME NEW i \in 1..(Len(placed) + 1) PROVE placed'[i].nr = i
    <3>1. CASE i = Len(placed) + 1 BY <2>1, <2>3, <3>1
    <3>2. CASE i # Len(placed) + 1
      <4>1. i \in 1..Len(placed) BY <2>3, <3>2
      <4> QED BY <2>3, <4>1 DEF Numbered
    <3> QED BY <3>1, <3>2
  <2> QED BY <2>3, <2>4 DEF Numbered
<1>2. CASE ~Expression
  <2>1. placed' = placed
    BY <1>2 DEF NextToken, Excess, OpenBrace, CloseBrace, Designator, EndOfSource
  <2> QED BY <2>1 DEF Numbered
<1> QED BY <1>1, <1>2

LEMMA StepNumbered ==
  ASSUME placed \in Seq(Placements), Numbered, [Next]_vars
  PROVE  Numbered'
<1>1. NextToken \/ UNCHANGED placed
  BY DEF Next, Step, Done, Parse, ListEnds, LeftToOuter, Designated, NextPart, LastWasRead, Skip,
         ReadExpression, ReadList, Return, Take, vars, source
<1>2. CASE NextToken BY <1>2, TokenNumbered
<1>3. CASE UNCHANGED placed BY <1>3 DEF Numbered
<1> QED BY <1>1, <1>2, <1>3

LEMMA LastCounts ==
  ASSUME Agree, Numbered
  PROVE  LastOneCounts
<1> SUFFICES ASSUME phase = "done"
             PROVE  /\ Len(inits) = Len(placed)
                    /\ \A i \in DOMAIN inits, j \in DOMAIN inits :
                         i < j => \/ inits[i].off < inits[j].off
                                  \/ inits[i].off = inits[j].off /\ inits[i].nr < inits[j].nr
  BY DEF LastOneCounts
<1> DEFINE N == Len(placed)
<1>1. placed \in Seq(Placements) /\ inits = Sorted(placed) BY DEF Agree
<1>2. N \in Nat /\ \A i \in 1..N : placed[i].off \in Nat BY <1>1, PlacementsAre
<1>3. /\ inits \in Seq(Placements) /\ Len(inits) = N
      /\ \A n \in 1..N : /\ AtPlace(placed, n) \in 1..N /\ Place(placed, AtPlace(placed, n)) = n
                         /\ inits[n] = placed[AtPlace(placed, n)]
  BY <1>1, SortedIs
<1>4. DOMAIN inits = 1..N BY <1>3
<1>5. ASSUME NEW i \in 1..N, NEW j \in 1..N, i < j
      PROVE  \/ inits[i].off < inits[j].off
             \/ inits[i].off = inits[j].off /\ inits[i].nr < inits[j].nr
  <2> DEFINE a == AtPlace(placed, i)
             b == AtPlace(placed, j)
  <2>1. /\ a \in 1..N /\ b \in 1..N /\ Place(placed, a) = i /\ Place(placed, b) = j
        /\ inits[i] = placed[a] /\ inits[j] = placed[b]
    BY <1>3
  <2> HIDE DEF a, b
  <2>7. i \in Nat /\ j \in Nat /\ i # j /\ ~(j < i) BY <1>2, <1>5
  <2>2. a # b BY <2>1, <2>7, Zenon
  <2>3. Before(placed, a, b)
    <3>1. Before(placed, a, b) \/ Before(placed, b, a) BY <1>1, <2>1, OneBefore
    <3>2. Before(placed, b, a) => Place(placed, b) < Place(placed, a)
      BY <1>1, <2>1, <2>2, PlaceOrder
    <3> QED BY <2>1, <2>7, <3>1, <3>2, Zenon
  <2>4. placed[a].nr = a /\ placed[b].nr = b BY <2>1 DEF Numbered
  <2>5. a \in Nat /\ b \in Nat /\ placed[a].off \in Nat /\ placed[b].off \in Nat
    BY <1>2, <2>1
  <2>6. placed[a].off < placed[b].off \/ (placed[a].off = placed[b].off /\ a < b)
    BY <2>2, <2>3, <2>5 DEF Before
  <2> QED BY <2>1, <2>4, <2>6
<1> QED BY <1>3, <1>4, <1>5

(* Collections.sort leaves every initializer in the list, and of those for *)
(* one object the last one of the source last.                             *)
THEOREM LastInitializerCounts ==
  ASSUME ~FieldsInRow
  PROVE  Spec => []LastOneCounts
<1>1. Init => Numbered
  <2>1. Len(<<>>) = 0 OBVIOUS
  <2> QED BY <2>1 DEF Init, SourceInit, Numbered
<1>2. Agree => placed \in Seq(Placements) BY DEF Agree
<1>3. Agree /\ Numbered /\ [Next]_vars => Numbered' BY <1>2, StepNumbered
<1>4. Agree /\ Numbered => LastOneCounts BY LastCounts
<1> QED BY <1>1, <1>3, <1>4, CallsAgree, PTL DEF Spec

-----------------------------------------------------------------------------
(* How far an array reaches                                                *)

LEMMA TimesNext ==
  ASSUME NEW i \in Int, NEW z \in Nat
  PROVE  (i + 1) * z = i * z + z /\ i * z \in Int
OBVIOUS

LEMMA TimesMore ==
  ASSUME NEW i \in Int, NEW n \in Int, NEW z \in Nat, i <= n
  PROVE  i * z <= n * z
OBVIOUS

LEMMA DivLess ==
  ASSUME NEW x \in Nat, NEW n \in Int, NEW z \in Nat, z >= 1, x < n * z
  PROVE  x \div z \in Int /\ x \div z < n
<1> DEFINE d == x \div z
<1>1. d \in Int /\ d * z <= x OBVIOUS
<1> HIDE DEF d
<1>2. CASE n <= d
  <2>1. n * z <= d * z BY <1>1, <1>2, TimesMore
  <2>2. n * z \in Int /\ d * z \in Int BY <1>1, TimesNext
  <2> QED BY <1>1, <2>1, <2>2
<1> QED BY <1>1, <1>2 DEF d

LEMMA DivIs ==
  ASSUME NEW x \in Nat, NEW n \in Int, NEW z \in Nat, z >= 1, n * z - z <= x, x < n * z
  PROVE  n = x \div z + 1
<1> DEFINE d == x \div z
<1>1. d \in Int /\ x < d * z + z OBVIOUS
<1>2. d < n BY DivLess
<1> HIDE DEF d
<1>3. CASE d + 1 < n
  <2>1. d + 2 <= n /\ d + 1 \in Int /\ d + 2 \in Int BY <1>1, <1>3
  <2>2. (d + 2) * z <= n * z BY <1>1, <2>1, TimesMore
  <2>3. (d + 1) * z = d * z + z /\ d * z \in Int BY <1>1, TimesNext
  <2>4. ((d + 1) + 1) * z = (d + 1) * z + z BY <2>1, TimesNext
  <2>5. (d + 1) + 1 = d + 2 BY <1>1
  <2>6. (d + 2) * z = (d * z + z) + z BY <2>3, <2>4, <2>5
  <2>7. n * z \in Int BY TimesNext
  <2> QED BY <1>1, <2>2, <2>3, <2>6, <2>7
<1> QED BY <1>1, <1>2, <1>3 DEF d

EndOf(o) == o.off + Types[o.type].size
ElementSize(t) == Types[Types[t].elem].size

LEMMA PartEnds ==
  ASSUME NEW o \in Object, NEW i, Fits(o, i)
  PROVE  /\ Part(o, i) \in Object
         /\ Unbounded(o.type) =>
              /\ ~Unbounded(Part(o, i).type) /\ ElementSize(o.type) \in Nat
              /\ Part(o, i).off = o.off + i * ElementSize(o.type)
              /\ EndOf(Part(o, i)) = o.off + (i + 1) * ElementSize(o.type)
         /\ ~Unbounded(o.type) =>
              /\ ~Unbounded(Part(o, i).type)
              /\ o.off <= Part(o, i).off /\ EndOf(Part(o, i)) <= EndOf(o)
<1> DEFINE t == o.type
<1>1. t \in DOMAIN Types /\ o.off \in Nat BY DEF Object
<1>2. i \in Nat /\ (Count(t) = 0 \/ i < Count(t)) BY DEF Fits, Unbounded
<1>3. Part(o, i) \in Object BY PartIs
<1>4. CASE Types[t].kind = "scalar"
  <2>1. Part(o, i) = o BY <1>4 DEF Part
  <2>2. Types[t].size \in Nat /\ Count(t) = 1 BY <1>1, <1>4, TypeIs
  <2>3. ~Unbounded(t) BY <2>2 DEF Unbounded
  <2> QED BY <1>1, <1>3, <2>1, <2>2, <2>3 DEF EndOf
<1>5. CASE Types[t].kind = "struct"
  <2> DEFINE n == i + 1
             f == Types[t].fields[n]
             z == Types[f.type].size
             y == Types[t].size
  <2>1. Count(t) \in Nat /\ Count(t) >= 1 /\ y \in Nat BY <1>1, <1>5, TypeIs
  <2>2. n \in 1..Count(t) BY <1>2, <2>1
  <2> HIDE DEF n
  <2>3. f.type \in DOMAIN Types /\ f.off \in Nat BY <1>1, <1>5, <2>2, TypeIs
  <2>4. ~Unbounded(f.type) /\ f.off + z <= y BY <1>1, <1>5, <2>2, SizesAssumption
  <2>5. Part(o, i) = [type |-> f.type, off |-> o.off + f.off] BY <1>5 DEF Part, n
  <2>6. z \in Nat BY <2>3, TypeIs
  <2>7. ~Unbounded(t) BY <2>1 DEF Unbounded
  <2> HIDE DEF f
  <2>8. Part(o, i).type = f.type /\ Part(o, i).off = o.off + f.off BY <2>5
  <2>9. EndOf(Part(o, i)) = (o.off + f.off) + z BY <2>8 DEF EndOf
  <2>10. EndOf(o) = o.off + y BY DEF EndOf
  <2> HIDE DEF z, y
  <2>11. EndOf(Part(o, i)) <= EndOf(o) BY <1>1, <2>1, <2>3, <2>4, <2>6, <2>9, <2>10
  <2>12. o.off <= Part(o, i).off BY <1>1, <2>3, <2>8
  <2> QED BY <1>3, <2>4, <2>7, <2>8, <2>11, <2>12
<1>6. CASE Types[t].kind = "array"
  <2> DEFINE e == Types[t].elem
             z == Types[e].size
             y == Types[t].size
             c == Count(t)
  <2>1. e \in DOMAIN Types /\ c \in Nat /\ y \in Nat BY <1>1, <1>6, TypeIs
  <2>2. z \in Nat BY <2>1, TypeIs
  <2>3. ~Unbounded(e) /\ c * z <= y
    <3>1. c = Types[t].len BY <1>6 DEF Count
    <3> QED BY <1>1, <1>6, <3>1, SizesAssumption
  <2>4. Part(o, i) = [type |-> e, off |-> o.off + i * z] BY <1>6 DEF Part
  <2>5. /\ EndOf(Part(o, i)) = (o.off + i * z) + z /\ Part(o, i).type = e
        /\ Part(o, i).off = o.off + i * z
    BY <2>4 DEF EndOf
  <2>6. (i + 1) * z = i * z + z /\ i * z \in Int /\ i \in Int BY <1>2, <2>2, TimesNext
  <2>7. EndOf(o) = o.off + y BY DEF EndOf
  <2>8. ElementSize(t) = z BY DEF ElementSize
  <2> HIDE DEF e, z, y, c
  <2>9. EndOf(Part(o, i)) = o.off + (i + 1) * z BY <1>1, <2>2, <2>5, <2>6
  <2>10. ASSUME ~Unbounded(t) PROVE EndOf(Part(o, i)) <= EndOf(o)
    <3>1. i + 1 <= c /\ i + 1 \in Int /\ c \in Int BY <1>2, <2>1, <2>10 DEF Unbounded, c
    <3>2. (i + 1) * z <= c * z BY <2>2, <3>1, TimesMore
    <3>3. c * z \in Int BY <2>2, <3>1, TimesNext
    <3> QED BY <1>1, <2>1, <2>2, <2>3, <2>6, <2>7, <2>9, <3>2, <3>3
  <2>11. o.off <= Part(o, i).off
    <3>1. 0 * z <= i * z /\ 0 * z = 0 BY <1>2, <2>2, TimesMore
    <3> QED BY <1>1, <2>5, <2>6, <3>1
  <2> QED BY <1>3, <2>2, <2>3, <2>5, <2>8, <2>9, <2>10, <2>11
<1> QED BY <1>1, <1>4, <1>5, <1>6, TypeIs

(* The end of the element of the outermost array that a call has read or   *)
(* is at: what its calls and their parts are for lies in that element.     *)
ReachOf(c) ==
  (IF c.cursor = NoCursor THEN c.idx ELSE c.idx + 1) * ElementSize(c.obj.type)
Within(c, o) ==
  Unbounded(c.obj.type) =>
    ReachOf(c) - ElementSize(c.obj.type) <= o.off /\ EndOf(o) <= ReachOf(c)
PartWithin(c, o) == o # NoCursor => o \in Object /\ ~Unbounded(o.type) /\ Within(c, o)

Kept(s) ==
  /\ s[1].brace /\ (Unbounded(s[1].obj.type) => s[1].obj.off = 0)
  /\ \A j \in 2..Len(s) : ~Unbounded(s[j].obj.type) /\ Within(s[1], s[j].obj)
  /\ \A j \in 1..(Len(s) - 1) : s[j].cursor = NoCursor
  /\ PartWithin(s[1], Last(s).cursor)

LEMMA KeptFirst ==
  ASSUME NEW c \in Calls, c.brace, Unbounded(c.obj.type) => c.obj.off = 0,
         PartWithin(c, c.cursor)
  PROVE  Kept(<<c>>)
<1> DEFINE s == <<c>>
<1>1. s[1] = c /\ Len(s) = 1 /\ Last(s) = c BY SingleIs
<1> HIDE DEF s
<1>2. \A j \in 2..Len(s) : FALSE BY <1>1
<1>3. \A j \in 1..(Len(s) - 1) : FALSE BY <1>1
<1>4. Kept(s) BY <1>1, <1>2, <1>3, Zenon DEF Kept
<1> QED BY <1>4 DEF s

LEMMA KeptMore ==
  ASSUME NEW r \in Seq(Calls), r # <<>>, Kept(r), Last(r).cursor = NoCursor, NEW c \in Calls,
         ~Unbounded(c.obj.type), Within(r[1], c.obj), PartWithin(r[1], c.cursor)
  PROVE  Kept(Append(r, c)) /\ Append(r, c)[1] = r[1]
<1> DEFINE s == Append(r, c)
           n == Len(r)
<1>1. /\ n \in Nat /\ Len(s) = n + 1 /\ s[n + 1] = c /\ Last(s) = c
      /\ \A j \in 1..n : s[j] = r[j]
  BY AppendIs
<1>2. n >= 1 /\ Last(r) = r[n] BY FrontIs
<1> HIDE DEF s
<1>3. s[1] = r[1] BY <1>1, <1>2
<1>4. ASSUME NEW j \in 2..Len(s) PROVE ~Unbounded(s[j].obj.type) /\ Within(s[1], s[j].obj)
  <2>1. CASE j = n + 1 BY <1>1, <1>3, <2>1
  <2>2. CASE j # n + 1
    <3>1. j \in 2..n /\ j \in 1..n BY <1>1, <2>2
    <3>2. ~Unbounded(r[j].obj.type) /\ Within(r[1], r[j].obj) BY <3>1 DEF Kept, n
    <3> QED BY <1>1, <1>3, <3>1, <3>2
  <2> QED BY <2>1, <2>2
<1>5. ASSUME NEW j \in 1..(Len(s) - 1) PROVE s[j].cursor = NoCursor
  <2>1. j \in 1..n /\ s[j] = r[j] BY <1>1
  <2>2. CASE j = n BY <1>2, <2>1, <2>2
  <2>3. CASE j # n
    <3>1. j \in 1..(n - 1) BY <1>1, <2>1, <2>3
    <3>2. r[j].cursor = NoCursor BY <3>1 DEF Kept, n
    <3> QED BY <2>1, <3>2
  <2> QED BY <2>2, <2>3
<1>6. s[1].brace /\ (Unbounded(s[1].obj.type) => s[1].obj.off = 0)
  BY <1>3 DEF Kept
<1>7. PartWithin(s[1], Last(s).cursor) BY <1>1, <1>3
<1>8. Kept(s) BY <1>4, <1>5, <1>6, <1>7, Zenon DEF Kept
<1> QED BY <1>3, <1>8 DEF s

LEMMA KeptFront ==
  ASSUME NEW s \in Seq(Calls), s # <<>>, Kept(s), Front(s) # <<>>
  PROVE  /\ Kept(Front(s)) /\ Front(s)[1] = s[1] /\ Last(Front(s)).cursor = NoCursor
         /\ Front(s) \in Seq(Calls) /\ ~Unbounded(Last(s).obj.type) /\ Within(s[1], Last(s).obj)
<1> DEFINE r == Front(s)
           n == Len(r)
<1>1. /\ Len(s) = n + 1 /\ r \in Seq(Calls) /\ \A j \in 1..n : r[j] = s[j]
      /\ Last(s) = s[n + 1]
  BY FrontIs
<1>2. n \in Nat /\ n >= 1 /\ Last(r) = r[n]
  <2>1. r \in Seq(Calls) /\ r # <<>> BY <1>1
  <2> HIDE DEF r
  <2> QED BY <2>1, FrontIs
<1> HIDE DEF r
<1>3. r[1] = s[1] /\ r[n] = s[n] BY <1>1, <1>2
<1>4. s[n].cursor = NoCursor
  <2>1. n \in 1..(Len(s) - 1) BY <1>1, <1>2
  <2> QED BY <2>1 DEF Kept
<1>5. ASSUME NEW j \in 2..n PROVE ~Unbounded(r[j].obj.type) /\ Within(r[1], r[j].obj)
  <2>1. j \in 2..Len(s) /\ j \in 1..n BY <1>1, <1>2
  <2>2. ~Unbounded(s[j].obj.type) /\ Within(s[1], s[j].obj) BY <2>1 DEF Kept
  <2> QED BY <1>1, <1>3, <2>1, <2>2
<1>6. ASSUME NEW j \in 1..(n - 1) PROVE r[j].cursor = NoCursor
  <2>1. j \in 1..(Len(s) - 1) /\ j \in 1..n BY <1>1, <1>2
  <2>2. s[j].cursor = NoCursor BY <2>1 DEF Kept
  <2> QED BY <1>1, <2>1, <2>2
<1>7. PartWithin(r[1], Last(r).cursor) BY <1>2, <1>3, <1>4 DEF PartWithin
<1>8. r[1].brace /\ (Unbounded(r[1].obj.type) => r[1].obj.off = 0)
  BY <1>3 DEF Kept
<1>9. Kept(r) BY <1>5, <1>6, <1>7, <1>8, Zenon DEF Kept, n
<1>10. ~Unbounded(Last(s).obj.type) /\ Within(s[1], Last(s).obj)
  <2>1. n + 1 \in 2..Len(s) BY <1>1, <1>2
  <2> QED BY <1>1, <2>1 DEF Kept
<1> QED BY <1>1, <1>2, <1>3, <1>4, <1>9, <1>10 DEF r

(* Another call in the place of the last one, for the same object. *)
LEMMA KeptWith ==
  ASSUME NEW s \in Seq(Calls), s # <<>>, Kept(s), NEW c \in Calls, c.obj = Last(s).obj,
         c.brace <=> Last(s).brace,
         IF Front(s) = <<>> THEN PartWithin(c, c.cursor) ELSE PartWithin(s[1], c.cursor)
  PROVE  /\ Kept(Append(Front(s), c))
         /\ Append(Front(s), c)[1] = IF Front(s) = <<>> THEN c ELSE s[1]
<1>1. CASE Front(s) = <<>>
  <2>1. Last(s) = s[1]
    <3>1. Len(s) - 1 = 0 /\ Last(s) = s[Len(s)] /\ Len(s) \in Nat BY <1>1, FrontIs
    <3>2. Len(s) = 1 BY <3>1
    <3> QED BY <3>1, <3>2
  <2>2. c.brace /\ (Unbounded(c.obj.type) => c.obj.off = 0) BY <2>1, Zenon DEF Kept
  <2>3. Kept(<<c>>) BY <1>1, <2>2, KeptFirst
  <2>4. Append(Front(s), c) = <<c>> /\ <<c>>[1] = c BY <1>1, SingleIs
  <2> QED BY <1>1, <2>3, <2>4, Zenon
<1>2. CASE Front(s) # <<>>
  <2>1. /\ Kept(Front(s)) /\ Front(s)[1] = s[1] /\ Last(Front(s)).cursor = NoCursor
        /\ Front(s) \in Seq(Calls) /\ ~Unbounded(Last(s).obj.type) /\ Within(s[1], Last(s).obj)
    BY <1>2, KeptFront
  <2>2. Kept(Append(Front(s), c)) /\ Append(Front(s), c)[1] = Front(s)[1]
    BY <1>2, <2>1, KeptMore
  <2> QED BY <1>2, <2>1, <2>2, Zenon
<1> QED BY <1>1, <1>2

LEMMA EndIs ==
  ASSUME NEW o \in Object
  PROVE  EndOf(o) \in Int
<1>1. o.type \in DOMAIN Types /\ o.off \in Nat BY DEF Object
<1>2. Types[o.type].size \in Nat BY <1>1, TypeIs
<1> QED BY <1>1, <1>2 DEF EndOf

LEMMA ReachIs ==
  ASSUME NEW c \in Calls, Unbounded(c.obj.type)
  PROVE  /\ ReachOf(c) \in Int /\ ElementSize(c.obj.type) \in Nat /\ ElementSize(c.obj.type) >= 1
         /\ c.cursor = NoCursor => ReachOf(c) = c.idx * ElementSize(c.obj.type)
<1> DEFINE t == c.obj.type
           e == Types[t].elem
           z == ElementSize(t)
           n == IF c.cursor = NoCursor THEN c.idx ELSE c.idx + 1
<1>1. c.obj \in Object /\ c.idx \in Int BY CallIs
<1>2. t \in DOMAIN Types /\ Count(t) = 0 BY <1>1 DEF Object, Unbounded
<1>3. Types[t].kind = "array" BY <1>2, TypeIs
<1>4. e \in DOMAIN Types /\ ~Unbounded(e) BY <1>2, <1>3, TypeIs, SizesAssumption
<1>5. Types[e].size \in Nat /\ Types[e].size >= 1 BY <1>4, TypeIs, SizesAssumption
<1>6. z \in Nat /\ z >= 1 BY <1>5 DEF ElementSize
<1>7. n \in Int BY <1>1
<1>8. ReachOf(c) = n * z BY DEF ReachOf
<1> HIDE DEF z, n
<1>9. n * z \in Int BY <1>6, <1>7, TimesNext
<1> QED BY <1>6, <1>8, <1>9 DEF z, n

(* The part that a call goes to lies within the reach of the outermost one. *)
LEMMA KeptPart ==
  ASSUME NEW s \in Seq(Calls), s # <<>>, Kept(s), NEW c \in Calls, c.obj = Last(s).obj,
         c.brace <=> Last(s).brace, NEW i, Fits(c.obj, i), c.cursor = Part(c.obj, i),
         Types[c.obj.type].kind # "struct" => c.idx = i
  PROVE  Kept(Append(Front(s), c))
<1> DEFINE o == c.obj
           p == Part(o, i)
           z == ElementSize(o.type)
<1>1. o \in Object /\ o.type \in DOMAIN Types /\ o.off \in Nat
  <2>1. o \in Object BY CallIs
  <2> QED BY <2>1 DEF Object
<1>2. /\ p \in Object
      /\ Unbounded(o.type) =>
           /\ ~Unbounded(p.type) /\ z \in Nat
           /\ p.off = o.off + i * z /\ EndOf(p) = o.off + (i + 1) * z
      /\ ~Unbounded(o.type) =>
           ~Unbounded(p.type) /\ o.off <= p.off /\ EndOf(p) <= EndOf(o)
  BY <1>1, PartEnds
<1>3. p # NoCursor BY <1>2, ObjectIs
<1>4. CASE Front(s) = <<>>
  <2>1. Last(s) = s[1]
    <3>1. Len(s) - 1 = 0 /\ Last(s) = s[Len(s)] /\ Len(s) \in Nat BY <1>4, FrontIs
    <3>2. Len(s) = 1 BY <3>1
    <3> QED BY <3>1, <3>2
  <2>2. ASSUME Unbounded(o.type) PROVE ReachOf(c) - z <= p.off /\ EndOf(p) <= ReachOf(c)
    <3>1. o.off = 0 BY <2>1, <2>2 DEF Kept
    <3>2. Types[o.type].kind # "struct"
      <4>1. Count(o.type) = 0 BY <2>2 DEF Unbounded
      <4> QED BY <1>1, <4>1, TypeIs
    <3>3. c.idx = i BY <3>2
    <3>4. ReachOf(c) = (i + 1) * z BY <1>3, <3>3 DEF ReachOf
    <3>5. i \in Int BY DEF Fits
    <3>6. z \in Nat /\ p.off = 0 + i * z /\ EndOf(p) = 0 + (i + 1) * z BY <1>2, <2>2, <3>1
    <3>7. (i + 1) * z = i * z + z /\ i * z \in Int BY <3>5, <3>6, TimesNext
    <3> HIDE DEF z, p
    <3> QED BY <3>4, <3>6, <3>7
  <2>3. PartWithin(c, c.cursor) BY <1>2, <2>2 DEF PartWithin, Within
  <2> QED BY <1>4, <2>3, KeptWith
<1>5. CASE Front(s) # <<>>
  <2>1. ~Unbounded(o.type) /\ Within(s[1], o) /\ s[1] \in Calls
    <3>1. ~Unbounded(Last(s).obj.type) /\ Within(s[1], Last(s).obj) BY <1>5, KeptFront
    <3> QED BY <3>1
  <2>2. o.off <= p.off /\ EndOf(p) <= EndOf(o) /\ ~Unbounded(p.type) BY <1>2, <2>1
  <2>3. ASSUME Unbounded(s[1].obj.type)
        PROVE  ReachOf(s[1]) - ElementSize(s[1].obj.type) <= p.off /\ EndOf(p) <= ReachOf(s[1])
    <3> DEFINE y == ElementSize(s[1].obj.type)
    <3>1. ReachOf(s[1]) - y <= o.off /\ EndOf(o) <= ReachOf(s[1]) BY <2>1, <2>3 DEF Within
    <3>2. EndOf(p) \in Int /\ EndOf(o) \in Int /\ o.off \in Int /\ p.off \in Int
      BY <1>1, <1>2, EndIs DEF Object
    <3>3. ReachOf(s[1]) \in Int /\ y \in Int BY <2>1, <2>3, ReachIs
    <3> HIDE DEF y
    <3>4. ReachOf(s[1]) - y <= p.off /\ EndOf(p) <= ReachOf(s[1])
      BY <2>2, <3>1, <3>2, <3>3
    <3> QED BY <3>4 DEF y
  <2>4. PartWithin(s[1], c.cursor) BY <1>2, <2>2, <2>3 DEF PartWithin, Within
  <2> QED BY <1>5, <2>4, KeptWith
<1> QED BY <1>4, <1>5

(* When the loop goes on the reach is the same. *)
LEMMA KeptAfter ==
  ASSUME NEW s \in Seq(Calls), s # <<>>, Kept(s), Last(s).cursor # NoCursor
  PROVE  LET t == Append(Front(s), After(Last(s)))
         IN  /\ Kept(t) /\ t \in Seq(Calls) /\ t # <<>> /\ Last(t).cursor = NoCursor
             /\ t[1].obj = s[1].obj
             /\ Unbounded(s[1].obj.type) => ReachOf(t[1]) = ReachOf(s[1])
<1> DEFINE c == After(Last(s))
           t == Append(Front(s), c)
<1>1. Last(s) \in Calls /\ Front(s) \in Seq(Calls) /\ s[1] \in Calls
  <2>1. Len(s) >= 1 /\ Len(s) \in Nat BY FrontIs
  <2> QED BY <2>1, FrontIs
<1>2. /\ c \in Calls /\ c.obj = Last(s).obj /\ c.cursor = NoCursor
      /\ c.brace <=> Last(s).brace
      /\ c.idx = IF Types[Last(s).obj.type].kind = "struct" THEN Last(s).idx ELSE Last(s).idx + 1
  BY <1>1, AfterIs
<1> HIDE DEF c
<1>3. PartWithin(c, c.cursor) /\ PartWithin(s[1], c.cursor) BY <1>2 DEF PartWithin
<1>4. Kept(t) /\ t[1] = (IF Front(s) = <<>> THEN c ELSE s[1]) BY <1>2, <1>3, KeptWith
<1>5. t \in Seq(Calls) /\ t # <<>> /\ Last(t) = c BY <1>1, <1>2, AppendIs
<1>6. t[1].obj = s[1].obj /\ (Unbounded(s[1].obj.type) => ReachOf(t[1]) = ReachOf(s[1]))
  <2>1. CASE Front(s) # <<>> BY <1>4, <2>1
  <2>2. CASE Front(s) = <<>>
    <3>1. Last(s) = s[1] /\ t[1] = c
      <4>1. Len(s) - 1 = 0 /\ Last(s) = s[Len(s)] /\ Len(s) \in Nat BY <2>2, FrontIs
      <4>2. Len(s) = 1 BY <4>1
      <4> QED BY <1>4, <2>2, <4>1, <4>2
    <3>2. ASSUME Unbounded(s[1].obj.type) PROVE ReachOf(c) = ReachOf(s[1])
      <4>1. s[1].obj.type \in DOMAIN Types /\ Count(s[1].obj.type) = 0
        <5>1. s[1].obj \in Object BY <1>1, CallIs
        <5> QED BY <3>2, <5>1 DEF Object, Unbounded
      <4>2. Types[s[1].obj.type].kind # "struct" BY <4>1, TypeIs
      <4>3. c.idx = s[1].idx + 1 BY <1>2, <3>1, <4>2
      <4> QED BY <1>2, <3>1, <4>3 DEF ReachOf
    <3> QED BY <1>2, <3>1, <3>2
  <2> QED BY <2>1, <2>2
<1> QED BY <1>2, <1>4, <1>5, <1>6 DEF c

(* The last initializer is for the last element that was read. *)
Settled(s, l) ==
  Unbounded(s[1].obj.type) =>
    /\ l # <<>>
    /\ ReachOf(s[1]) - ElementSize(s[1].obj.type) <= Last(l).off /\ Last(l).off < ReachOf(s[1])
(* A call that has just begun will take a part. *)
Fresh == Call.idx = 0 /\ tok.kind # "close" /\ (IsDesignator => Own)

Opened(o) == <<At(o, 0, FALSE)>>

Extent ==
  /\ phase = "start" => \E t \in Roots : levels = <<Opened([type |-> t, off |-> 0])>>
  /\ stack # <<>> => Kept(stack)
  /\ phase = "read" /\ stack # <<>> => Call.cursor # NoCursor \/ Settled(stack, inits) \/ Fresh
  /\ phase = "skip" => stack # <<>> /\ Settled(stack, inits) /\ ~Unbounded(Call.obj.type)

-----------------------------------------------------------------------------
(* The steps keep it                                                       *)

(* The calls are calls, whatever they do. *)
LEMMA CallsAre ==
  ASSUME Agree, stack # <<>>, phase \in {"read", "skip"}
  PROVE  stack \in Seq(Calls) /\ Call \in Calls /\ stack[1] \in Calls
<1>1. PICK f, s, base : Outer(f, base) /\ s \in Seq(Calls) /\ s # <<>> /\ stack = FlattenSeq(f) \o s
  <2>1. CASE phase = "read"
    <3>1. PICK f, s, p, base : /\ stack = FlattenSeq(f) \o s
                               /\ Looping(f, s, p, base) \/ Reading(f, s, p, base)
      BY <2>1 DEF Agree, Goes
    <3>2. CASE Looping(f, s, p, base) BY <3>1, <3>2, WaitsEnd DEF Looping
    <3>3. CASE Reading(f, s, p, base) BY <3>1, <3>3 DEF Reading
    <3> QED BY <3>1, <3>2, <3>3
  <2>2. CASE phase = "skip"
    <3>1. PICK f, s, p, base : stack = FlattenSeq(f) \o s /\ Skipping(f, s, p, base)
      BY <2>2 DEF Agree, Skips
    <3> QED BY <3>1, WaitsEnd DEF Skipping
  <2> QED BY <2>1, <2>2
<1>2. FlattenSeq(f) \in Seq(Calls) BY <1>1, StackIs
<1>3. stack \in Seq(Calls) BY <1>1, <1>2, EndOfConcat
<1>4. Last(stack) \in Calls /\ Len(stack) >= 1 /\ Len(stack) \in Nat BY <1>3, FrontIs
<1> QED BY <1>3, <1>4 DEF Call

(* What is left when a call has returned. *)
LEMMA PopExtends ==
  ASSUME stack \in Seq(Calls), stack # <<>>, Kept(stack), Settled(stack, inits),
         stack' = Front(stack), inits' = inits, phase' = "read"
  PROVE  Extent'
<1>1. CASE Front(stack) = <<>> BY <1>1 DEF Extent
<1>2. CASE Front(stack) # <<>>
  <2>1. Kept(Front(stack)) /\ Front(stack)[1] = stack[1] BY <1>2, KeptFront
  <2>2. Settled(Front(stack), inits) BY <2>1 DEF Settled
  <2>3. Kept(stack)' /\ Settled(stack, inits)' BY <2>1, <2>2
  <2> QED BY <1>2, <2>3 DEF Extent
<1> QED BY <1>1, <1>2

(* A list does not end before it has begun. *)
LEMMA NotClosed ==
  ASSUME NEW base \in Seq(Paths), NEW o \in Object,
         levels = Append(base, Opened(o)), NextToken
  PROVE  tok'.kind # "close"
<1> DEFINE z == At(o, 0, FALSE)
           q == <<z>>
<1>1. z \in PathStep /\ z.idx = 0
  <2>1. 0 \in Index /\ FALSE \in BOOLEAN BY DEF Index
  <2> QED BY <2>1, AtIs
<1>2. levels = Append(base, q) BY DEF Opened
<1> HIDE DEF z
<1>3. q \in Seq(PathStep) /\ Len(q) = 1 /\ q[1] = z BY <1>1, SingleIs
<1> HIDE DEF q
<1>4. q \in Paths BY <1>3 DEF Paths
<1>5. Path = q /\ levels # <<>> BY <1>2, <1>4, LastLevel
<1>6. ~Started
  <2>1. Len(Path) = 1 /\ Path[1].idx = 0 BY <1>1, <1>3, <1>5, Zenon
  <2>2. ~(Len(Path) > 1 \/ Path[1].idx > 0) BY <2>1
  <2> QED BY <2>2 DEF Started
<1>7. ~CloseBrace BY <1>6 DEF CloseBrace
<1>8. ~EndOfSource BY <1>5 DEF EndOfSource
<1>9. CASE Expression BY <1>9 DEF Expression, Write
<1>10. CASE Excess BY <1>10 DEF Excess, Write
<1>11. CASE OpenBrace BY <1>11 DEF OpenBrace, Write
<1>12. CASE Designator
  <2>1. PICK x \in {"dot", "index"}, i \in Int : tok' = [kind |-> x, at |-> i] BY <1>12 DEF Designator
  <2> QED BY <2>1
<1> QED BY <1>7, <1>8, <1>9, <1>10, <1>11, <1>12 DEF NextToken

LEMMA ParseExtends ==
  ASSUME Agree, Extent, Parse
  PROVE  Extent'
<1>1. phase = "start" /\ phase' = "read" /\ NextToken BY DEF Parse
<1>3. PICK t \in Roots : levels = <<Opened([type |-> t, off |-> 0])>>
  BY <1>1 DEF Extent
<1>2. levels = Append(<<>>, Opened([type |-> t, off |-> 0]))
  BY <1>3
<1> DEFINE o == [type |-> t, off |-> 0]
           c == NewCall(o, TRUE, FALSE)
           z == At(o, 0, FALSE)
<1>4. o \in Object /\ o.type = t /\ o.off = 0 BY TypesAssumption DEF Object
<1>5. levels = << <<z>> >> BY <1>3 DEF Opened
<1> HIDE DEF o
<1>6. z \in PathStep /\ z.obj = o
  <2>1. 0 \in Index /\ FALSE \in BOOLEAN BY DEF Index
  <2> QED BY <1>4, <2>1, AtIs
<1> HIDE DEF z
<1>7. Last(Path).obj = o
  <2>1. <<z>> \in Seq(PathStep) /\ Last(<<z>>) = z BY <1>6, SingleIs
  <2>2. Last(<< <<z>> >>) = <<z>> BY <2>1, SingleIs
  <2> QED BY <1>5, <1>6, <2>1, <2>2 DEF Path
<1>8. stack' = <<c>> BY <1>7 DEF Parse
<1>9. c \in Calls /\ c.obj = o /\ c.cursor = NoCursor /\ c.idx = 0 /\ c.brace
  <2> DEFINE b == TRUE
             d == FALSE
  <2>1. b \in BOOLEAN /\ d \in BOOLEAN /\ b OBVIOUS
  <2>2. c = NewCall(o, b, d) BY DEF c
  <2> HIDE DEF b, d, c
  <2>3. c \in Calls /\ (c.brace <=> b) BY <1>4, <2>1, <2>2, NewCallIs
  <2>4. c.obj = o /\ c.cursor = NoCursor /\ c.idx = 0 BY <2>2 DEF NewCall
  <2> QED BY <2>1, <2>3, <2>4, Zenon
<1> HIDE DEF c
<1>10. Kept(<<c>>)
  <2>1. PartWithin(c, c.cursor) BY <1>9 DEF PartWithin
  <2> QED BY <1>4, <1>9, <2>1, KeptFirst
<1>11. Fresh'
  <2>1. Call' = c
    <3>1. Last(<<c>>) = c BY <1>9, SingleIs
    <3> QED BY <1>8, <3>1 DEF Call
  <2>2. tok'.kind # "close"
    <3>1. <<>> \in Seq(Paths) OBVIOUS
    <3> QED BY <1>1, <1>2, <1>4, <3>1, NotClosed DEF o
  <2>3. Own' BY <1>9, <2>1, Zenon DEF Own
  <2> QED BY <1>9, <2>1, <2>2, <2>3 DEF Fresh
<1>12. stack' # <<>> /\ Kept(stack)' BY <1>8, <1>10
<1> QED BY <1>1, <1>11, <1>12 DEF Extent

LEMMA ListEndsExtends ==
  ASSUME Agree, Extent, ListEnds
  PROVE  Extent' /\ Settled(stack, inits)
<1>1. /\ phase = "read" /\ phase' = "read" /\ stack # <<>> /\ Call.cursor = NoCursor
      /\ tok.kind = "close" /\ stack' = Front(stack) /\ inits' = inits
  BY DEF ListEnds, AtLoop
<1>2. stack \in Seq(Calls) BY <1>1, CallsAre
<1>3. Kept(stack) /\ Settled(stack, inits)
  <2>1. Kept(stack) BY <1>1 DEF Extent
  <2>2. Settled(stack, inits) \/ Fresh BY <1>1, Zenon DEF Extent
  <2>3. ~Fresh BY <1>1, Zenon DEF Fresh
  <2> QED BY <2>1, <2>2, <2>3
<1> QED BY <1>1, <1>2, <1>3, PopExtends

LEMMA LeftToOuterExtends ==
  ASSUME Agree, Extent, LeftToOuter
  PROVE  Extent'
<1>1. /\ phase = "read" /\ phase' = "read" /\ stack # <<>> /\ Call.cursor = NoCursor
      /\ IsDesignator /\ ~Own /\ stack' = Front(stack) /\ inits' = inits
  BY DEF LeftToOuter, AtLoop
<1>2. stack \in Seq(Calls) BY <1>1, CallsAre
<1>3. Kept(stack) /\ Settled(stack, inits)
  <2>1. Kept(stack) BY <1>1 DEF Extent
  <2>2. Settled(stack, inits) \/ Fresh BY <1>1, Zenon DEF Extent
  <2>3. ~Fresh BY <1>1, Zenon DEF Fresh
  <2> QED BY <2>1, <2>2, <2>3
<1> QED BY <1>1, <1>2, <1>3, PopExtends

LEMMA DesignatedExtends ==
  ASSUME Agree, Extent, Designated, NEW i, i = tok.at
  PROVE  Extent' /\ stack' # <<>>
<1> DEFINE x == Call
           o == Part(x.obj, i)
           c == Chose(x, i, o)
           s == Append(Front(stack), c)
<1>1. /\ phase = "read" /\ phase' = "read" /\ stack # <<>> /\ x.cursor = NoCursor
      /\ stack' = s
  BY DEF Designated, AtLoop, With, Chose
<1>2. stack \in Seq(Calls) /\ x \in Calls /\ Last(stack) = x BY <1>1, CallsAre DEF Call
<1>3. Kept(stack) BY <1>1 DEF Extent
<1>4. Fits(x.obj, i)
  <2>1. PICK f, t, p, base : /\ stack = FlattenSeq(f) \o t
                             /\ Looping(f, t, p, base) \/ Reading(f, t, p, base)
    BY <1>1 DEF Agree, Goes
  <2>2. Looping(f, t, p, base) BY <1>1, <2>1, ReadingHasOne
  <2>3. Chooses(base, Front(p), Last(p).obj) /\ x.obj = Last(p).obj BY <2>1, <2>2, DesignatedIs
  <2> QED BY <2>3 DEF Chooses
<1> HIDE DEF x
<1>5. x.obj \in Object /\ i \in Int BY <1>2, <1>4, CallIs DEF Fits
<1>6. o \in Object /\ o # NoCursor BY <1>4, <1>5, PartIs, ObjectIs
<1> HIDE DEF o
<1>7. c \in Calls /\ c.obj = x.obj /\ c.idx = i /\ c.cursor = o /\ (c.brace <=> x.brace)
  BY <1>2, <1>5, <1>6, ChosenIs
<1> HIDE DEF c
<1>8. Kept(s) BY <1>1, <1>2, <1>3, <1>4, <1>7, KeptPart DEF o
<1>9. s # <<>> /\ Last(s) = c
  <2>1. Front(stack) \in Seq(Calls) BY <1>1, <1>2, FrontIs
  <2> QED BY <1>7, <2>1, AppendIs
<1> HIDE DEF s
<1>10. stack' # <<>> /\ Kept(stack)' /\ Call'.cursor # NoCursor
  BY <1>1, <1>6, <1>7, <1>8, <1>9 DEF Call
<1> QED BY <1>1, <1>10 DEF Extent

LEMMA NextPartExtends ==
  ASSUME Agree, Extent, NextPart
  PROVE  Extent' /\ stack' # <<>>
<1> DEFINE x == Call
           i == x.idx
           o == Part(x.obj, i)
           c == Took(x)
           s == Append(Front(stack), c)
<1>1. /\ phase = "read" /\ phase' = "read" /\ stack # <<>> /\ x.cursor = NoCursor
      /\ stack' = s /\ Undesignated /\ ~Exhausted
  BY DEF NextPart, Undesignated, AtLoop, With, Took, IsStruct
<1>2. stack \in Seq(Calls) /\ x \in Calls /\ Last(stack) = x BY <1>1, CallsAre DEF Call
<1>3. Kept(stack) BY <1>1 DEF Extent
<1>4. Fits(x.obj, i)
  <2>1. PICK f, t, p, base : /\ stack = FlattenSeq(f) \o t
                             /\ Looping(f, t, p, base) \/ Reading(f, t, p, base)
    BY <1>1 DEF Agree, Goes
  <2>2. Looping(f, t, p, base) BY <1>1, <2>1, ReadingHasOne
  <2> DEFINE a == NextOf(Last(p))
  <2>3. /\ a.idx = Last(t).idx /\ a.obj = Last(t).obj /\ Last(t).idx \in Nat
        /\ Exhausted <=> ~Room(a)
    BY <1>1, <2>1, <2>2, UndesignatedIs
  <2>4. Call = Last(t)
    <3>1. Outer(f, base) /\ t \in Seq(Calls) /\ t # <<>> BY <2>2, WaitsEnd DEF Looping
    <3> QED BY <2>1, <3>1, StackIs
  <2> HIDE DEF a
  <2>5. Room(a) BY <1>1, <2>3, Zenon
  <2> QED BY <2>3, <2>4, <2>5 DEF Room, Fits
<1> HIDE DEF x
<1>5. x.obj \in Object BY <1>2, CallIs
<1>6. o \in Object /\ o # NoCursor BY <1>4, <1>5, PartIs, ObjectIs
<1>7. /\ c \in Calls /\ c.obj = x.obj /\ c.cursor = o /\ (c.brace <=> x.brace)
      /\ Types[c.obj.type].kind # "struct" => c.idx = i
  BY <1>2, <1>6, TookIs
<1> HIDE DEF o, c, i
<1>8. Kept(s) BY <1>1, <1>2, <1>3, <1>4, <1>7, KeptPart DEF o
<1>9. s # <<>> /\ Last(s) = c
  <2>1. Front(stack) \in Seq(Calls) BY <1>1, <1>2, FrontIs
  <2> QED BY <1>7, <2>1, AppendIs
<1> HIDE DEF s
<1>10. stack' # <<>> /\ Kept(stack)' /\ Call'.cursor # NoCursor
  BY <1>1, <1>6, <1>7, <1>8, <1>9 DEF Call
<1> QED BY <1>1, <1>10 DEF Extent

LEMMA LastWasReadExtends ==
  ASSUME Agree, Extent, LastWasRead
  PROVE  Extent'
<1>1. /\ phase = "read" /\ stack # <<>> /\ Call.cursor = NoCursor /\ Exhausted
      /\ inits' = inits
      /\ IF Call.brace THEN phase' = "skip" /\ stack' = stack
                       ELSE stack' = Front(stack) /\ phase' = phase
  BY DEF LastWasRead, Undesignated, AtLoop
<1>2. stack \in Seq(Calls) /\ Call \in Calls BY <1>1, CallsAre
<1>3. Kept(stack) /\ (Settled(stack, inits) \/ Fresh) BY <1>1 DEF Extent
<1>4. Settled(stack, inits)
  <2>1. /\ Call.idx \in Int /\ Count(Call.obj.type) \in Nat /\ Count(Call.obj.type) # 0
        /\ Call.idx >= Count(Call.obj.type)
    <3>1. Call.obj \in Object /\ Call.idx \in Int BY <1>2, CallIs
    <3>2. Count(Call.obj.type) \in Nat BY <3>1, ObjectIs, TypeIs
    <3> QED BY <1>1, <3>1, <3>2 DEF Exhausted, Unbounded
  <2>2. Call.idx # 0 BY <2>1
  <2> QED BY <1>3, <2>2 DEF Fresh
<1>5. CASE Call.brace
  <2>1. Kept(stack)' /\ Settled(stack, inits)' /\ ~Unbounded(Call'.obj.type)
    BY <1>1, <1>3, <1>4, <1>5 DEF Exhausted, Call
  <2> QED BY <1>1, <1>5, <2>1 DEF Extent
<1>6. CASE ~Call.brace BY <1>1, <1>2, <1>3, <1>4, <1>6, PopExtends
<1> QED BY <1>5, <1>6

LEMMA SkipExtends ==
  ASSUME Agree, Extent, Skip
  PROVE  Extent'
<1>1. phase = "skip" /\ inits' = inits BY DEF Skip
<1>2. stack # <<>> /\ Settled(stack, inits) /\ Kept(stack) /\ ~Unbounded(Call.obj.type)
  BY <1>1 DEF Extent
<1>3. stack \in Seq(Calls) BY <1>1, <1>2, CallsAre
<1>4. CASE tok.kind = "close"
  <2>1. phase' = "read" /\ stack' = Front(stack) BY <1>4 DEF Skip
  <2> QED BY <1>1, <1>2, <1>3, <2>1, PopExtends
<1>5. CASE tok.kind # "close"
  <2>1. phase' = "skip" /\ stack' = stack BY <1>1, <1>5 DEF Skip
  <2>2. Kept(stack)' /\ Settled(stack, inits)' /\ ~Unbounded(Call'.obj.type)
    BY <1>1, <1>2, <2>1 DEF Call
  <2> QED BY <1>1, <1>2, <2>1, <2>2 DEF Extent
<1> QED BY <1>4, <1>5

LEMMA ReadExpressionExtends ==
  ASSUME Agree, Extent, ReadExpression
  PROVE  Extent' /\ stack' # <<>>
<1> DEFINE o == Call.cursor
           e == [type |-> o.type, off |-> o.off, nr |-> Len(inits) + 1]
           t == Append(Front(stack), After(Last(stack)))
<1>1. /\ phase = "read" /\ phase' = "read" /\ stack # <<>> /\ o # NoCursor
      /\ inits' = Append(inits, e) /\ stack' = t
  BY DEF ReadExpression, AtElement, With, Continued, After, IsStruct, Call
<1>2. stack \in Seq(Calls) /\ stack[1] \in Calls BY <1>1, CallsAre
<1>3. Kept(stack) BY <1>1 DEF Extent
<1>4. /\ Kept(t) /\ t # <<>> /\ Last(t).cursor = NoCursor
      /\ t[1].obj = stack[1].obj
      /\ Unbounded(stack[1].obj.type) => ReachOf(t[1]) = ReachOf(stack[1])
  BY <1>1, <1>2, <1>3, KeptAfter DEF Call
<1> HIDE DEF t
<1>5. inits \in Seq(Placements) /\ inits' # <<>> /\ Last(inits') = e
  <2>1. inits \in Seq(Placements) BY <1>1, InitsAre
  <2> DEFINE S == Placements \cup {e}
  <2>2. inits \in Seq(S) /\ e \in S BY <2>1, SeqOfLarger
  <2> HIDE DEF S, e
  <2> QED BY <1>1, <2>1, <2>2, AppendIs
<1>6. ASSUME Unbounded(t[1].obj.type)
      PROVE  /\ ReachOf(t[1]) - ElementSize(t[1].obj.type) <= Last(inits').off
             /\ Last(inits').off < ReachOf(t[1])
  <2>1. /\ o \in Object /\ ~Unbounded(o.type) /\ EndOf(o) <= ReachOf(stack[1])
        /\ ReachOf(stack[1]) - ElementSize(stack[1].obj.type) <= o.off
    BY <1>1, <1>3, <1>4, <1>6 DEF Kept, PartWithin, Within, Call
  <2>2. o.type \in DOMAIN Types /\ o.off \in Nat BY <2>1 DEF Object
  <2>3. Types[o.type].size \in Nat /\ Types[o.type].size >= 1
    BY <2>1, <2>2, TypeIs, SizesAssumption
  <2>4. EndOf(o) = o.off + Types[o.type].size BY DEF EndOf
  <2>5. Last(inits').off = o.off /\ ReachOf(t[1]) = ReachOf(stack[1]) BY <1>4, <1>5, <1>6
  <2>6. ReachOf(stack[1]) \in Int BY <1>2, <1>4, <1>6, ReachIs
  <2>7. ElementSize(t[1].obj.type) = ElementSize(stack[1].obj.type) BY <1>4
  <2> HIDE DEF o
  <2>8. Last(inits').off < ReachOf(t[1]) BY <2>1, <2>2, <2>3, <2>4, <2>5, <2>6
  <2> QED BY <2>1, <2>5, <2>7, <2>8
<1>7. stack' # <<>> /\ Kept(stack)' /\ Settled(stack, inits)'
  BY <1>1, <1>4, <1>5, <1>6 DEF Settled
<1> QED BY <1>1, <1>7 DEF Extent

LEMMA NewIsFresh ==
  ASSUME Agree, ReadList, NEW b, b = (tok.kind = "open"), NEW c,
         c = NewCall(Call.cursor, b, Call.designated), Last(stack') = c
  PROVE  Fresh'
<1> DEFINE o == Call.cursor
           d == Call.designated
<1>1. /\ phase = "read" /\ stack # <<>> /\ o # NoCursor /\ Listed
      /\ Take(tok.kind = "open")
  BY DEF ReadList, AtElement
<1>2. PICK f, s, q, base : /\ stack = FlattenSeq(f) \o s
                           /\ Looping(f, s, q, base) \/ Reading(f, s, q, base)
  BY <1>1 DEF Agree, Goes
<1>3. Reading(f, s, q, base) BY <1>1, <1>2, LoopingHasNone
<1>4. /\ base \in Seq(Paths) /\ q \in Paths /\ q # <<>> /\ Call = Last(s) /\ o = Cur(q)
      /\ d \in BOOLEAN /\ o \in Object
  BY <1>2, <1>3, ReadingIs
<1>5. Writes(base, q) \/ Opens(base, q) \/ (d /\ Chooses(base, q, o))
  BY <1>3, <1>4 DEF Reading
<1>6. Call' = c BY DEF Call
<1>7. c.idx = 0 /\ (c.brace <=> b) /\ (c.designated <=> d /\ Aggregate(o.type))
  <2>1. b \in BOOLEAN OBVIOUS
  <2>2. c.idx = 0 BY DEF NewCall
  <2> HIDE DEF o, d
  <2>3. c = NewCall(o, b, d) BY DEF o, d
  <2>4. (NewCall(o, b, d).brace <=> b) /\ (NewCall(o, b, d).designated <=> d /\ Aggregate(o.type))
    BY <1>4, <2>1, NewCallIs
  <2> QED BY <2>2, <2>3, <2>4, Zenon
<1>8. CASE tok.kind = "open"
  <2>1. c.brace BY <1>7, <1>8
  <2>2. Own' BY <1>6, <2>1, Zenon DEF Own
  <2>3. NextToken BY <1>1, <1>8 DEF Take
  <2>4. levels = Append(Append(base, Behind(q)), Opened(o))
    BY <1>4, <1>5, <1>8 DEF Writes, Opens, Chooses, Opened
  <2>5. Append(base, Behind(q)) \in Seq(Paths)
    <3>1. Behind(q) \in Paths BY <1>4, BehindType
    <3> QED BY <1>4, <3>1, AppendIs
  <2>6. tok'.kind # "close" BY <1>4, <2>3, <2>4, <2>5, NotClosed
  <2> QED BY <1>6, <1>7, <2>2, <2>6 DEF Fresh
<1>9. CASE tok.kind # "open"
  <2>1. tok' = tok BY <1>1, <1>9 DEF Take, source
  <2>2. Aggregate(o.type) BY <1>1, <1>9 DEF Listed
  <2>3. c.designated <=> d BY <1>7, <2>2, Zenon
  <2>4. tok.kind # "close" /\ (IsDesignator => d)
    BY <1>5, <1>9 DEF Writes, Opens, Chooses, IsDesignator
  <2>5. IsDesignator' => IsDesignator BY <2>1 DEF IsDesignator
  <2>6. IsDesignator' => Own' BY <1>6, <2>3, <2>4, <2>5, Zenon DEF Own
  <2> QED BY <1>6, <1>7, <2>1, <2>4, <2>6 DEF Fresh
<1> QED BY <1>8, <1>9

LEMMA ReadListExtends ==
  ASSUME Agree, Extent, ReadList, NEW b, b = (tok.kind = "open")
  PROVE  Extent' /\ stack' # <<>>
<1> DEFINE o == Call.cursor
           d == Call.designated
           t == Append(Front(stack), After(Last(stack)))
           c == NewCall(o, b, d)
           s == Append(t, c)
<1>1. /\ phase = "read" /\ phase' = "read" /\ stack # <<>> /\ o # NoCursor
      /\ inits' = inits /\ stack' = s
  BY DEF ReadList, AtElement, With, Continued, After, IsStruct, Call
<1>2. stack \in Seq(Calls) /\ stack[1] \in Calls /\ Call \in Calls BY <1>1, CallsAre
<1>3. Kept(stack) BY <1>1 DEF Extent
<1>4. /\ Kept(t) /\ t \in Seq(Calls) /\ t # <<>> /\ Last(t).cursor = NoCursor
      /\ t[1].obj = stack[1].obj
      /\ Unbounded(stack[1].obj.type) => ReachOf(t[1]) = ReachOf(stack[1])
  BY <1>1, <1>2, <1>3, KeptAfter DEF Call
<1>5. o \in Object /\ ~Unbounded(o.type) /\ Within(stack[1], o)
  BY <1>1, <1>3 DEF Kept, PartWithin, Call
<1>6. d \in BOOLEAN /\ b \in BOOLEAN BY <1>2, CallIs
<1>7. c \in Calls /\ c.obj = o /\ c.cursor = NoCursor
  <2>1. c \in Calls BY <1>5, <1>6, NewCallIs
  <2> QED BY <2>1 DEF NewCall
<1>8. Within(t[1], o) BY <1>4, <1>5 DEF Within
<1> HIDE DEF t, c
<1>9. PartWithin(t[1], c.cursor) BY <1>7 DEF PartWithin
<1>10. Kept(s) BY <1>4, <1>5, <1>7, <1>8, <1>9, KeptMore
<1>11. s # <<>> /\ Last(s) = c BY <1>4, <1>7, AppendIs
<1> HIDE DEF s
<1>12. Fresh'
  <2>1. c = NewCall(Call.cursor, b, Call.designated) BY DEF c
  <2> QED BY <1>1, <1>11, <2>1, NewIsFresh
<1>13. stack' # <<>> /\ Kept(stack)' BY <1>1, <1>10, <1>11
<1> QED BY <1>1, <1>12, <1>13 DEF Extent

LEMMA ExtentSteps ==
  ASSUME Agree, Extent, [Next]_vars
  PROVE  Extent'
<1>1. CASE Parse BY <1>1, ParseExtends
<1>2. CASE ListEnds BY <1>2, ListEndsExtends
<1>3. CASE LeftToOuter BY <1>3, LeftToOuterExtends
<1>4. CASE Designated BY <1>4, DesignatedExtends
<1>5. CASE NextPart BY <1>5, NextPartExtends
<1>6. CASE LastWasRead BY <1>6, LastWasReadExtends
<1>7. CASE Skip BY <1>7, SkipExtends
<1>8. CASE ReadExpression BY <1>8, ReadExpressionExtends
<1>9. CASE ReadList BY <1>9, ReadListExtends
<1>10. CASE Return BY <1>10 DEF Extent, Return
<1>11. CASE UNCHANGED vars
  BY <1>11 DEF Extent, Settled, Fresh, Own, IsDesignator, Call, vars, source
<1> QED
  BY <1>1, <1>2, <1>3, <1>4, <1>5, <1>6, <1>7, <1>8, <1>9, <1>10, <1>11 DEF Next, Step, Done

LEMMA OnlyCall ==
  ASSUME stack \in Seq(Calls), stack # <<>>, Front(stack) = <<>>
  PROVE  Call = stack[1]
<1>1. Len(stack) - 1 = 0 /\ Last(stack) = stack[Len(stack)] /\ Len(stack) \in Nat BY FrontIs
<1>2. Len(stack) = 1 BY <1>1
<1> QED BY <1>1, <1>2 DEF Call

(* The call for an array without a length is the outermost one, and has    *)
(* its own braces: it returns where they end.                              *)
LEMMA ExtentShows ==
  ASSUME Agree, Extent, Extent', [Next]_vars,
         phase' = "read" /\ stack' = <<>> => inits' = placed'
  PROVE  BehindLast
<1> SUFFICES ASSUME stack # <<>>, stack' = <<>>, Unbounded(stack[1].obj.type)
             PROVE  /\ placed' # <<>>
                    /\ len' = Last(placed').off \div ElementSize(stack[1].obj.type) + 1
  BY DEF BehindLast, ElementSize
<1>1. CASE ListEnds
  <2> DEFINE t == Call.obj.type
             z == ElementSize(t)
             x == Last(inits).off
  <2>1. /\ phase = "read" /\ phase' = "read" /\ Call.cursor = NoCursor
        /\ stack' = Front(stack) /\ inits' = inits
        /\ len' = IF Unbounded(Call.obj.type) THEN Call.idx ELSE len
    BY <1>1 DEF ListEnds, AtLoop
  <2>2. stack \in Seq(Calls) /\ Call \in Calls BY <2>1, CallsAre
  <2>3. Call = stack[1] BY <2>1, <2>2, OnlyCall
  <2>4. Settled(stack, inits) BY <1>1, ListEndsExtends
  <2>5. Unbounded(t) /\ len' = Call.idx /\ Call.idx \in Int BY <2>1, <2>2, <2>3, CallIs
  <2>6. z \in Nat /\ z >= 1 /\ ReachOf(Call) = len' * z BY <2>1, <2>2, <2>5, ReachIs
  <2>7. inits # <<>> /\ len' * z - z <= x /\ x < len' * z BY <2>3, <2>4, <2>5, <2>6 DEF Settled
  <2>8. x \in Nat
    <3>1. inits \in Seq(Placements) BY <2>1, InitsAre
    <3>2. Last(inits) = inits[Len(inits)] /\ Len(inits) \in Nat /\ Len(inits) >= 1
      BY <2>7, <3>1, FrontIs
    <3>3. Len(inits) \in 1..Len(inits) BY <3>2
    <3> QED BY <3>1, <3>2, <3>3, PlacementsAre
  <2> HIDE DEF z, x
  <2>9. len' = x \div z + 1 BY <2>5, <2>6, <2>7, <2>8, DivIs
  <2>10. placed' = inits BY <2>1
  <2> QED BY <2>3, <2>7, <2>9, <2>10 DEF x, z
<1>2. ASSUME LeftToOuter \/ LastWasRead \/ Skip PROVE FALSE
  <2>1. phase \in {"read", "skip"} /\ stack' = Front(stack)
    BY <1>2 DEF LeftToOuter, LastWasRead, Skip, Undesignated, AtLoop
  <2>2. stack \in Seq(Calls) BY <2>1, CallsAre
  <2>3. Call = stack[1] BY <2>1, <2>2, OnlyCall
  <2>4. Call.brace BY <2>3 DEF Extent, Kept
  <2>5. Unbounded(Call.obj.type) BY <2>3
  <2>6. ~LeftToOuter BY <2>4, Zenon DEF LeftToOuter, Own
  <2>7. ~LastWasRead BY <2>5, Zenon DEF LastWasRead, Exhausted
  <2>8. ~Skip BY <2>5, Zenon DEF Skip, Extent
  <2> QED BY <1>2, <2>6, <2>7, <2>8
<1>3. ASSUME Designated PROVE FALSE BY <1>3, DesignatedExtends
<1>4. ASSUME NextPart PROVE FALSE BY <1>4, NextPartExtends
<1>5. ASSUME ReadExpression PROVE FALSE BY <1>5, ReadExpressionExtends
<1>6. ASSUME ReadList PROVE FALSE BY <1>6, ReadListExtends
<1>7. ASSUME Parse PROVE FALSE BY <1>7 DEF Parse, Agree
<1>8. ASSUME Return \/ UNCHANGED vars PROVE FALSE BY <1>8 DEF Return, vars
<1> QED BY <1>1, <1>2, <1>3, <1>4, <1>5, <1>6, <1>7, <1>8 DEF Next, Step, Done

(* The call for an array that was declared without a length returns with   *)
(* one more than the number of the element that the last expression is for *)
(* (ParseInitializer.java:136).                                            *)
THEOREM ArraysEndBehindLast ==
  ASSUME ~FieldsInRow
  PROVE  Spec => EndsBehindLast
<1> DEFINE Read == phase = "read" /\ stack = <<>> => inits = placed
<1>1. Init => Agree /\ Extent
  <2> SUFFICES ASSUME Init PROVE Agree /\ Extent
    OBVIOUS
  <2>1. Agree BY AgreeStarts
  <2>2. /\ stack = <<>> /\ phase = "start"
        /\ \E t \in Roots : levels = <<Opened([type |-> t, off |-> 0])>>
    BY DEF Init, SourceInit, Opened
  <2>3. Extent BY <2>2 DEF Extent
  <2> QED BY <2>1, <2>3
<1>2. Agree /\ Extent /\ [Next]_vars => Extent' BY ExtentSteps
<1>3. Spec => []Agree BY CallsAgree
<1>4. Agree => Read
  <2>1. SUFFICES ASSUME Agree, phase = "read", stack = <<>> PROVE inits = placed
    OBVIOUS
  <2>2. Goes BY <2>1 DEF Agree
  <2>3. AtEnd BY <2>1, <2>2, NoneLeft
  <2> QED BY <2>3 DEF AtEnd
<1>5. Agree /\ Extent /\ Extent' /\ Read' /\ [Next]_vars => BehindLast
  <2> SUFFICES ASSUME Agree, Extent, Extent', Read', [Next]_vars PROVE BehindLast
    OBVIOUS
  <2>1. phase' = "read" /\ stack' = <<>> => inits' = placed' OBVIOUS
  <2> QED BY <2>1, ExtentShows
<1> HIDE DEF Read
<1> QED BY <1>1, <1>2, <1>3, <1>4, <1>5, PTL DEF Spec, EndsBehindLast

=============================================================================
