--------------------------- MODULE SequenceLemmas ---------------------------
(***************************************************************************)
(* Induction over the natural numbers, as a property of sets, and what     *)
(* FlattenSeq, a recursive function, makes of a sequence of sequences.     *)
(***************************************************************************)
EXTENDS Integers, SequencesExt, WellFoundedInduction, SequenceTheorems, TLAPS

(* A set of natural numbers that is not empty has a least element. *)
LEMMA LeastOfNaturals ==
  ASSUME NEW T, T \subseteq Nat, T # {}
  PROVE  \E x \in T : \A y \in T : x <= y
<1> DEFINE R == OpToRel(<, Nat)
<1>1. \A a, b \in Nat : a < b => <<a, b>> \in R BY DEF OpToRel
<1>2. IsWellFoundedOn(R, Nat) BY NatLessThanWellFounded
<1> HIDE DEF R
<1>3. PICK x \in T : \A y \in T : <<y, x>> \notin R BY <1>2, WFMin
<1>4. \A y \in T : x <= y
  <2> TAKE y \in T
  <2>1. ~(y < x) BY <1>1, <1>3
  <2> QED BY <2>1
<1> QED BY <1>4

(* Induction up to a bound: what has 0, and with each number the next one, *)
(* has them all.                                                           *)
LEMMA UpTo ==
  ASSUME NEW N \in Nat, NEW T, 0 \in T,
         \A n \in 0..(N - 1) : n \in T => n + 1 \in T
  PROVE  \A n \in 0..N : n \in T
<1> DEFINE Missing == {n \in 0..N : n \notin T}
<1> SUFFICES ASSUME Missing # {} PROVE FALSE
  OBVIOUS
<1>1. Missing \subseteq Nat OBVIOUS
<1> HIDE DEF Missing
<1>2. PICK x \in Missing : \A y \in Missing : x <= y BY <1>1, LeastOfNaturals
<1> USE DEF Missing
<1>3. x \in 0..N /\ x \notin T /\ x # 0 BY <1>2
<1>4. x - 1 \in 0..(N - 1) /\ x - 1 \in 0..N /\ ~(x <= x - 1) BY <1>3
<1>5. x - 1 \in T BY <1>2, <1>4
<1>6. (x - 1) + 1 \in T BY <1>4, <1>5
<1> QED BY <1>3, <1>6

-----------------------------------------------------------------------------
LEMMA SeqOfLarger ==
  ASSUME NEW S, NEW R, S \subseteq R, NEW s \in Seq(S)
  PROVE  s \in Seq(R)
OBVIOUS

(* Two sequences, one behind the other. *)
LEMMA ConcatIs ==
  ASSUME NEW S, NEW a \in Seq(S), NEW b \in Seq(S)
  PROVE  /\ a \o b \in Seq(S) /\ Len(a \o b) = Len(a) + Len(b)
         /\ \A i \in 1..Len(a) : (a \o b)[i] = a[i]
         /\ \A i \in 1..Len(b) : (a \o b)[Len(a) + i] = b[i]
OBVIOUS

(* The function FlattenSeq chooses is there: it is built step by step. *)
LEMMA FlattenDefined ==
  ASSUME NEW ss, NEW N \in Nat
  PROVE  \E f : f = [i \in 1..N |-> IF i = 1 THEN ss[i] ELSE f[i - 1] \o ss[i]]
<1> DEFINE T == {n \in 0..N :
                   \E f : f = [i \in 1..n |-> IF i = 1 THEN ss[i] ELSE f[i - 1] \o ss[i]]}
<1>1. 0 \in T
  <2> DEFINE none == [i \in 1..0 |-> ss[i]]
  <2>1. none = [i \in 1..0 |-> IF i = 1 THEN ss[i] ELSE none[i - 1] \o ss[i]]
    OBVIOUS
  <2> HIDE DEF none
  <2>2. \E f : f = [i \in 1..0 |-> IF i = 1 THEN ss[i] ELSE f[i - 1] \o ss[i]] BY <2>1
  <2>3. 0 \in 0..N OBVIOUS
  <2> QED BY <2>2, <2>3
<1>2. ASSUME NEW n \in 0..(N - 1), n \in T
      PROVE  n + 1 \in T
  <2>1. PICK f : f = [i \in 1..n |-> IF i = 1 THEN ss[i] ELSE f[i - 1] \o ss[i]]
    BY <1>2
  <2> DEFINE last == IF n + 1 = 1 THEN ss[n + 1] ELSE f[n] \o ss[n + 1]
             g == [i \in 1..(n + 1) |-> IF i = n + 1 THEN last ELSE f[i]]
  <2>2. ASSUME NEW i \in 1..(n + 1)
        PROVE  g[i] = IF i = 1 THEN ss[i] ELSE g[i - 1] \o ss[i]
    <3>1. CASE i = n + 1
      <4>1. g[i] = last BY <3>1
      <4>2. n # 0 => g[n] = f[n] OBVIOUS
      <4> QED BY <3>1, <4>1, <4>2
    <3>2. CASE i # n + 1
      <4>1. i \in 1..n /\ g[i] = f[i] BY <3>2
      <4>2. f[i] = IF i = 1 THEN ss[i] ELSE f[i - 1] \o ss[i] BY <2>1, <4>1
      <4>3. i # 1 => g[i - 1] = f[i - 1] BY <4>1
      <4> HIDE DEF g
      <4> QED BY <4>1, <4>2, <4>3
    <3> QED BY <3>1, <3>2
  <2>3. DOMAIN g = 1..(n + 1) /\ g = [i \in 1..(n + 1) |-> g[i]] OBVIOUS
  <2>4. g = [i \in 1..(n + 1) |-> IF i = 1 THEN ss[i] ELSE g[i - 1] \o ss[i]]
    <3> HIDE DEF g
    <3> QED BY <2>2, <2>3
  <2>5. n + 1 \in 0..N OBVIOUS
  <2> HIDE DEF g
  <2> QED BY <2>4, <2>5
<1> HIDE DEF T
<1>3. N \in T BY <1>1, <1>2, UpTo
<1> USE DEF T
<1> QED BY <1>3

(* Each of these is the one before and the next of ss. *)
Flattened(F, ss) == \A n \in 1..Len(ss) : F[n] = F[n - 1] \o ss[n]

(* FlattenSeq(ss) is the last of such sequences that begin with the empty  *)
(* one.                                                                    *)
LEMMA FlattenSteps ==
  ASSUME NEW S, NEW ss \in Seq(Seq(S))
  PROVE  \E F \in [0..Len(ss) -> Seq(S)] :
           F[0] = <<>> /\ F[Len(ss)] = FlattenSeq(ss) /\ Flattened(F, ss)
<1> DEFINE N == Len(ss)
<1>0. N \in Nat /\ \A n \in 1..N : ss[n] \in Seq(S) OBVIOUS
<1>1. CASE N = 0
  <2>1. ss = <<>> BY <1>1
  <2>2. FlattenSeq(ss) = <<>> BY <1>1, <2>1 DEF FlattenSeq
  <2> DEFINE F == [n \in 0..N |-> <<>>]
  <2>3. /\ F \in [0..N -> Seq(S)] /\ F[0] = <<>> /\ F[N] = <<>>
        /\ \A n \in 1..N : F[n] = F[n - 1] \o ss[n]
    BY <1>1
  <2> HIDE DEF F
  <2> QED BY <2>2, <2>3 DEF Flattened
<1>2. CASE N # 0
  <2> DEFINE f == CHOOSE f : f = [i \in 1..N |-> IF i = 1 THEN ss[i] ELSE f[i - 1] \o ss[i]]
  <2>1. f = [i \in 1..N |-> IF i = 1 THEN ss[i] ELSE f[i - 1] \o ss[i]]
    BY <1>0, FlattenDefined
  <2>2. FlattenSeq(ss) = f[N] BY <1>2 DEF FlattenSeq
  <2> HIDE DEF f
  <2> DEFINE F == [n \in 0..N |-> IF n = 0 THEN <<>> ELSE f[n]]
             T == {n \in 0..N : F[n] \in Seq(S)}
  <2>3. ASSUME NEW n \in 1..N, F[n - 1] \in Seq(S)
        PROVE  F[n] = F[n - 1] \o ss[n] /\ F[n] \in Seq(S)
    <3>1. ss[n] \in Seq(S) BY <1>0
    <3>2. F[n] = f[n] OBVIOUS
    <3>3. CASE n = 1
      <4>1. F[n - 1] = <<>> BY <3>3
      <4>2. f[n] = ss[n] BY <2>1, <3>3
      <4>3. <<>> \o ss[n] = ss[n]
        <5> DEFINE t == ss[n]
        <5>1. t \in Seq(S) BY <3>1
        <5> HIDE DEF t
        <5>2. <<>> \o t = t BY <5>1
        <5> QED BY <5>2 DEF t
      <4> QED BY <3>1, <3>2, <4>1, <4>2, <4>3, Zenon
    <3>4. CASE n # 1
      <4>1. F[n - 1] = f[n - 1] BY <3>4
      <4>2. f[n] = f[n - 1] \o ss[n] BY <2>1, <3>4
      <4>3. f[n - 1] \o ss[n] \in Seq(S)
        <5> DEFINE t == ss[n]
                   u == f[n - 1]
        <5>1. t \in Seq(S) /\ u \in Seq(S) BY <2>3, <3>1, <4>1
        <5> HIDE DEF t, u
        <5>2. u \o t \in Seq(S) BY <5>1
        <5> QED BY <5>2 DEF t, u
      <4> QED BY <3>2, <4>1, <4>2, <4>3
    <3> QED BY <3>3, <3>4
  <2>4. F[0] = <<>> /\ F[N] = f[N] /\ F[0] \in Seq(S) BY <1>0, <1>2
  <2>5. \A n \in 0..N : F[n] \in Seq(S)
    <3>1. 0 \in T BY <1>0, <2>4
    <3>2. \A n \in 0..(N - 1) : n \in T => n + 1 \in T
      <4> SUFFICES ASSUME NEW n \in 0..(N - 1), F[n] \in Seq(S) PROVE n + 1 \in T
        OBVIOUS
      <4>1. n + 1 \in 1..N /\ n + 1 \in 0..N /\ (n + 1) - 1 = n OBVIOUS
      <4> HIDE DEF F
      <4>2. F[n + 1] \in Seq(S) BY <4>1, <2>3
      <4> QED BY <4>1, <4>2
    <3> HIDE DEF T
    <3>3. \A n \in 0..N : n \in T BY <1>0, <3>1, <3>2, UpTo
    <3> USE DEF T
    <3> HIDE DEF F
    <3> QED BY <3>3
  <2>6. \A n \in 1..N : F[n] = F[n - 1] \o ss[n]
    <3> TAKE n \in 1..N
    <3>1. n - 1 \in 0..N OBVIOUS
    <3> HIDE DEF F
    <3> QED BY <3>1, <2>3, <2>5
  <2>7. F \in [0..N -> Seq(S)]
    <3>1. F = [n \in 0..N |-> F[n]] OBVIOUS
    <3> HIDE DEF F
    <3> QED BY <3>1, <2>5
  <2> HIDE DEF F
  <2> QED BY <2>2, <2>4, <2>6, <2>7 DEF Flattened
<1> QED BY <1>1, <1>2

(* The elements of ss[n] are found in the whole behind those before. *)
PlacedAt(F, ss, n) ==
  /\ Len(F[n]) = Len(F[n - 1]) + Len(ss[n])
  /\ Len(F[n]) <= Len(F[Len(ss)])
  /\ \A k \in 1..Len(ss[n]) :
       /\ Len(F[n - 1]) + k \in 1..Len(F[Len(ss)])
       /\ F[Len(ss)][Len(F[n - 1]) + k] = ss[n][k]

(* Each of the sequences is a beginning of those behind it. *)
LEMMA FlattenPlaces ==
  ASSUME NEW S, NEW ss \in Seq(Seq(S)), NEW F \in [0..Len(ss) -> Seq(S)],
         Flattened(F, ss), NEW n \in 1..Len(ss)
  PROVE  PlacedAt(F, ss, n)
<1> DEFINE N == Len(ss)
           T == {d \in 0..(N - n) :
                   /\ Len(F[n]) <= Len(F[n + d])
                   /\ \A i \in 1..Len(F[n]) : F[n + d][i] = F[n][i]}
<1>0. N \in Nat /\ n \in Nat /\ n <= N /\ N - n \in Nat /\ \A m \in 1..N : ss[m] \in Seq(S)
  OBVIOUS
<1>1. \A m \in 0..N : F[m] \in Seq(S) OBVIOUS
<1>2. 0 \in T BY <1>0
<1>3. \A d \in 0..(N - n - 1) : d \in T => d + 1 \in T
  <2> SUFFICES ASSUME NEW d \in 0..(N - n - 1), d \in T PROVE d + 1 \in T
    OBVIOUS
  <2>1. /\ n + d \in 0..N /\ n + (d + 1) \in 1..N /\ n + (d + 1) \in 0..N
        /\ (n + (d + 1)) - 1 = n + d /\ d + 1 \in 0..(N - n)
    BY <1>0
  <2> DEFINE a == F[n + d]
             b == ss[n + (d + 1)]
  <2>2. F[n + (d + 1)] = a \o b BY <2>1 DEF Flattened
  <2>3. a \in Seq(S) /\ b \in Seq(S) /\ F[n] \in Seq(S) BY <1>0, <1>1, <2>1
  <2>4. Len(F[n]) <= Len(a) /\ \A i \in 1..Len(F[n]) : a[i] = F[n][i] OBVIOUS
  <2> HIDE DEF a, b
  <2>5. Len(a \o b) >= Len(a) /\ \A i \in 1..Len(a) : (a \o b)[i] = a[i] BY <2>3
  <2>6. /\ Len(F[n]) <= Len(F[n + (d + 1)])
        /\ \A i \in 1..Len(F[n]) : F[n + (d + 1)][i] = F[n][i]
    <3>1. Len(F[n]) \in Nat /\ Len(a) \in Nat /\ Len(a \o b) \in Nat BY <2>3
    <3>2. \A i \in 1..Len(F[n]) : i \in 1..Len(a) BY <2>4, <3>1
    <3>3. \A i \in 1..Len(F[n]) : (a \o b)[i] = F[n][i] BY <2>4, <2>5, <3>2
    <3>4. Len(F[n]) <= Len(a \o b) BY <2>4, <2>5, <3>1
    <3> QED BY <2>2, <3>3, <3>4
  <2> QED BY <2>1, <2>6
<1>4. N - n \in T
  <2> DEFINE M == N - n
  <2>1. M \in Nat /\ M \in 0..M BY <1>0
  <2>2. \A d \in 0..(M - 1) : d \in T => d + 1 \in T BY <1>3
  <2> HIDE DEF T, M
  <2>3. \A d \in 0..M : d \in T BY <1>2, <2>1, <2>2, UpTo
  <2> QED BY <2>1, <2>3 DEF M
<1>5. n + (N - n) = N BY <1>0
<1>6. Len(F[n]) <= Len(F[N]) /\ \A i \in 1..Len(F[n]) : F[N][i] = F[n][i]
  BY <1>4, <1>5
<1> DEFINE a == F[n - 1]
           b == ss[n]
<1>7. F[n] = a \o b BY DEF Flattened
<1>8. a \in Seq(S) /\ b \in Seq(S) BY <1>0, <1>1
<1> HIDE DEF a, b
<1>9. /\ Len(a \o b) = Len(a) + Len(b)
      /\ \A k \in 1..Len(b) : (a \o b)[Len(a) + k] = b[k]
  BY <1>8
<1>10. F[N] \in Seq(S) /\ Len(F[N]) \in Nat BY <1>0, <1>1
<1>11. ASSUME NEW k \in 1..Len(b)
       PROVE  Len(a) + k \in 1..Len(F[N]) /\ F[N][Len(a) + k] = b[k]
  <2>1. Len(a) \in Nat /\ Len(b) \in Nat /\ Len(F[n]) = Len(a) + Len(b)
    BY <1>7, <1>8, <1>9
  <2>2. Len(a) + k \in 1..Len(F[n]) /\ Len(a) + k \in 1..Len(F[N]) BY <2>1, <1>6, <1>10
  <2> QED BY <2>2, <1>6, <1>7, <1>9
<1>12. Len(F[n]) = Len(a) + Len(b) BY <1>7, <1>9
<1> QED BY <1>6, <1>11, <1>12 DEF a, b, PlacedAt


LEMMA FlattenIn ==
  ASSUME NEW S, NEW ss \in Seq(Seq(S))
  PROVE  FlattenSeq(ss) \in Seq(S)
<1>1. PICK F \in [0..Len(ss) -> Seq(S)] :
        F[0] = <<>> /\ F[Len(ss)] = FlattenSeq(ss) /\ Flattened(F, ss)
  BY FlattenSteps
<1>2. Len(ss) \in 0..Len(ss) OBVIOUS
<1> QED BY <1>1, <1>2

-----------------------------------------------------------------------------
(* E[n] is the place where the elements of ss[n] end in s. *)
Ends(E, ss, s) ==
  /\ E[0] = 0 /\ E[Len(ss)] = Len(s)
  /\ \A n \in 1..Len(ss) :
       /\ E[n] = E[n - 1] + Len(ss[n])
       /\ \A k \in 1..Len(ss[n]) :
            E[n - 1] + k \in 1..Len(s) /\ s[E[n - 1] + k] = ss[n][k]

LEMMA FlattenEnds ==
  ASSUME NEW S, NEW ss \in Seq(Seq(S))
  PROVE  \E E \in [0..Len(ss) -> Nat] : Ends(E, ss, FlattenSeq(ss))
<1> DEFINE N == Len(ss)
<1>0. N \in Nat OBVIOUS
<1>1. PICK F \in [0..N -> Seq(S)] :
        F[0] = <<>> /\ F[N] = FlattenSeq(ss) /\ Flattened(F, ss)
  BY FlattenSteps
<1> HIDE DEF N
<1> DEFINE E == [n \in 0..N |-> Len(F[n])]
<1>2. \A n \in 0..N : F[n] \in Seq(S) /\ Len(F[n]) \in Nat
  <2> TAKE n \in 0..N
  <2>1. F[n] \in Seq(S) BY <1>1
  <2> QED BY <2>1
<1>3. E \in [0..N -> Nat] /\ \A n \in 0..N : E[n] = Len(F[n]) BY <1>2
<1> HIDE DEF E
<1>4. E[0] = 0
  <2>1. 0 \in 0..N /\ Len(F[0]) = 0 BY <1>0, <1>1
  <2> QED BY <2>1, <1>3
<1>5. E[N] = Len(FlattenSeq(ss))
  <2>1. N \in 0..N BY <1>0
  <2> QED BY <2>1, <1>1, <1>3
<1>6. ASSUME NEW n \in 1..N
      PROVE  /\ E[n] = E[n - 1] + Len(ss[n])
             /\ \A k \in 1..Len(ss[n]) :
                  /\ E[n - 1] + k \in 1..Len(FlattenSeq(ss))
                  /\ FlattenSeq(ss)[E[n - 1] + k] = ss[n][k]
  <2>1. PlacedAt(F, ss, n) BY <1>1, FlattenPlaces DEF N
  <2>2. n \in 0..N /\ n - 1 \in 0..N BY <1>0
  <2>3. E[n] = Len(F[n]) /\ E[n - 1] = Len(F[n - 1]) BY <2>2, <1>3
  <2> QED BY <2>1, <2>3, <1>1 DEF PlacedAt, N
<1> QED BY <1>3, <1>4, <1>5, <1>6 DEF Ends, N

(* Every element of s belongs to one of ss. *)
Covered(E, ss, s) ==
  \A i \in 1..Len(s) : \E n \in 1..Len(ss) : \E k \in 1..Len(ss[n]) : i = E[n - 1] + k

LEMMA EndsCover ==
  ASSUME NEW S, NEW ss \in Seq(Seq(S)), NEW s \in Seq(S), NEW E \in [0..Len(ss) -> Nat],
         Ends(E, ss, s)
  PROVE  Covered(E, ss, s)
<1> USE DEF Covered
<1> TAKE i \in 1..Len(s)
<1> DEFINE N == Len(ss)
           T == {n \in 0..N : i <= E[n]}
<1>1. N \in Nat /\ Len(s) \in Nat /\ \A n \in 1..N : Len(ss[n]) \in Nat OBVIOUS
<1>2. N \in T BY <1>1 DEF Ends
<1>3. T \subseteq Nat BY <1>1
<1>4. PICK n \in T : \A m \in T : n <= m
  <2> HIDE DEF T
  <2> QED BY <1>2, <1>3, LeastOfNaturals
<1>5. n \in 0..N /\ i <= E[n] /\ n # 0 BY <1>4 DEF Ends
<1>6. n \in 1..N /\ n - 1 \in 0..N BY <1>1, <1>5
<1>7. n - 1 \notin T BY <1>4, <1>6
<1>8. i > E[n - 1] /\ E[n - 1] \in Nat
  <2>1. ~(i <= E[n - 1]) BY <1>6, <1>7
  <2>2. i \in Nat BY <1>1
  <2>3. E[n - 1] \in Nat
    <3> DEFINE m == n - 1
    <3>1. m \in 0..N BY <1>6
    <3> HIDE DEF m, T
    <3>2. E[m] \in Nat BY <3>1
    <3> QED BY <3>2 DEF m
  <2> QED BY <2>1, <2>2, <2>3
<1>9. E[n] = E[n - 1] + Len(ss[n]) BY <1>6 DEF Ends
<1>10. i - E[n - 1] \in 1..Len(ss[n]) /\ i = E[n - 1] + (i - E[n - 1])
  BY <1>1, <1>5, <1>6, <1>8, <1>9
<1> QED BY <1>6, <1>10

LEMMA EndsGrow ==
  ASSUME NEW S, NEW ss \in Seq(Seq(S)), NEW s, NEW E \in [0..Len(ss) -> Nat],
         Ends(E, ss, s), NEW m \in 0..Len(ss), NEW n \in 0..Len(ss), m <= n
  PROVE  E[m] <= E[n]
<1> DEFINE N == Len(ss)
           T == {d \in 0..(n - m) : E[m] <= E[m + d]}
<1>1. N \in Nat /\ n - m \in Nat /\ m \in Nat /\ \A j \in 1..N : Len(ss[j]) \in Nat OBVIOUS
<1>2. 0 \in T BY <1>1
<1>3. \A d \in 0..(n - m - 1) : d \in T => d + 1 \in T
  <2> SUFFICES ASSUME NEW d \in 0..(n - m - 1), d \in T PROVE d + 1 \in T
    OBVIOUS
  <2>1. /\ m + d \in 0..N /\ m + (d + 1) \in 1..N /\ (m + (d + 1)) - 1 = m + d
        /\ m + (d + 1) \in 0..N /\ d + 1 \in 0..(n - m)
    BY <1>1
  <2>2. E[m + (d + 1)] = E[m + d] + Len(ss[m + (d + 1)]) BY <2>1 DEF Ends
  <2>3. Len(ss[m + (d + 1)]) \in Nat /\ E[m] \in Nat /\ E[m + d] \in Nat BY <1>1, <2>1
  <2>4. E[m] <= E[m + d] OBVIOUS
  <2>5. E[m] <= E[m + (d + 1)] BY <2>2, <2>3, <2>4
  <2> QED BY <2>1, <2>5
<1>4. n - m \in T
  <2> DEFINE M == n - m
  <2>1. M \in Nat /\ M \in 0..M BY <1>1
  <2>2. \A d \in 0..(M - 1) : d \in T => d + 1 \in T BY <1>3
  <2> HIDE DEF T, M
  <2>3. \A d \in 0..M : d \in T BY <1>2, <2>1, <2>2, UpTo
  <2> QED BY <2>1, <2>3 DEF M
<1>5. m + (n - m) = n BY <1>1
<1> QED BY <1>4, <1>5

(* So it is an element of one of ss. *)
LEMMA FlattenCover ==
  ASSUME NEW S, NEW ss \in Seq(Seq(S)), NEW i \in 1..Len(FlattenSeq(ss))
  PROVE  \E n \in 1..Len(ss) : \E k \in 1..Len(ss[n]) : FlattenSeq(ss)[i] = ss[n][k]
<1> DEFINE s == FlattenSeq(ss)
<1>1. s \in Seq(S) BY FlattenIn
<1>2. PICK E \in [0..Len(ss) -> Nat] : Ends(E, ss, s) BY FlattenEnds
<1> HIDE DEF s
<1>3. i \in 1..Len(s) BY DEF s
<1>4. PICK n \in 1..Len(ss) : \E k \in 1..Len(ss[n]) : i = E[n - 1] + k
  <2>1. Covered(E, ss, s) BY <1>1, <1>2, EndsCover
  <2> QED BY <1>3, <2>1 DEF Covered
<1>5. PICK k \in 1..Len(ss[n]) : i = E[n - 1] + k BY <1>4
<1>6. s[i] = ss[n][k] BY <1>2, <1>5 DEF Ends
<1> QED BY <1>6 DEF s

(* Two sequences of sequences, one behind the other. *)
LEMMA FlattenConcat ==
  ASSUME NEW S, NEW ss \in Seq(Seq(S)), NEW tt \in Seq(Seq(S))
  PROVE  FlattenSeq(ss \o tt) = FlattenSeq(ss) \o FlattenSeq(tt)
<1> DEFINE u == ss \o tt
           M == Len(ss)
           N == Len(tt)
<1>1. /\ u \in Seq(Seq(S)) /\ Len(u) = M + N /\ M \in Nat /\ N \in Nat
      /\ \A i \in 1..M : u[i] = ss[i]
      /\ \A i \in 1..N : u[M + i] = tt[i]
  <2>1. M \in Nat /\ N \in Nat OBVIOUS
  <2> QED BY <2>1, ConcatIs
<1>2. \A i \in 1..N : tt[i] \in Seq(S) OBVIOUS
<1>3. PICK F \in [0..M -> Seq(S)] :
        F[0] = <<>> /\ F[M] = FlattenSeq(ss) /\ Flattened(F, ss)
  BY FlattenSteps
<1>4. PICK G \in [0..N -> Seq(S)] :
        G[0] = <<>> /\ G[N] = FlattenSeq(tt) /\ Flattened(G, tt)
  BY FlattenSteps
<1> HIDE DEF u
<1>5. PICK H \in [0..Len(u) -> Seq(S)] :
        H[0] = <<>> /\ H[Len(u)] = FlattenSeq(u) /\ Flattened(H, u)
  BY <1>1, FlattenSteps
<1>6. /\ \A n \in 1..M : F[n] = F[n - 1] \o ss[n]
      /\ \A n \in 1..N : G[n] = G[n - 1] \o tt[n]
      /\ \A n \in 1..(M + N) : H[n] = H[n - 1] \o u[n]
  BY <1>1, <1>3, <1>4, <1>5 DEF Flattened
<1> HIDE DEF M, N
<1>7. \A n \in 0..M : n \in {m \in 0..M : H[m] = F[m]}
  <2> DEFINE T == {m \in 0..M : H[m] = F[m]}
  <2>1. 0 \in T BY <1>1, <1>3, <1>5
  <2>2. ASSUME NEW n \in 0..(M - 1), n \in T PROVE n + 1 \in T
    <3>1. n + 1 \in 1..M /\ n + 1 \in 1..(M + N) /\ (n + 1) - 1 = n BY <1>1
    <3>2. F[n + 1] = F[n] \o ss[n + 1] /\ H[n + 1] = H[n] \o u[n + 1] BY <1>6, <3>1
    <3>3. u[n + 1] = ss[n + 1] /\ H[n] = F[n] BY <1>1, <2>2, <3>1
    <3>4. H[n + 1] = F[n + 1] BY <3>2, <3>3, Zenon
    <3>5. n + 1 \in 0..M BY <1>1
    <3> QED BY <3>4, <3>5
  <2> HIDE DEF T
  <2>3. \A n \in 0..M : n \in T BY <1>1, <2>1, <2>2, UpTo
  <2> QED BY <2>3 DEF T
<1>8. \A n \in 0..N : n \in {m \in 0..N : H[M + m] = F[M] \o G[m]}
  <2> DEFINE T == {m \in 0..N : H[M + m] = F[M] \o G[m]}
  <2>1. M \in 0..M /\ M + 0 = M /\ 0 \in 0..N /\ F[M] \in Seq(S) BY <1>1, <1>3
  <2>2. 0 \in T
    <3>1. H[M] = F[M] BY <1>7, <2>1
    <3>2. F[M] \o <<>> = F[M] BY <2>1, ConcatEmptySeq
    <3> QED BY <1>4, <2>1, <3>1, <3>2
  <2>3. ASSUME NEW n \in 0..(N - 1), n \in T PROVE n + 1 \in T
    <3>1. /\ n + 1 \in 1..N /\ M + (n + 1) \in 1..(M + N) /\ (n + 1) - 1 = n
          /\ (M + (n + 1)) - 1 = M + n /\ n \in 0..N
      BY <1>1
    <3>2. /\ G[n + 1] = G[n] \o tt[n + 1]
          /\ H[M + (n + 1)] = H[M + n] \o u[M + (n + 1)]
      BY <1>6, <3>1
    <3>3. u[M + (n + 1)] = tt[n + 1] /\ H[M + n] = F[M] \o G[n] BY <1>1, <2>3, <3>1
    <3>4. G[n] \in Seq(S) /\ tt[n + 1] \in Seq(S) BY <1>2, <1>4, <3>1
    <3>5. (F[M] \o G[n]) \o tt[n + 1] = F[M] \o (G[n] \o tt[n + 1])
      <4>1. ASSUME NEW a \in Seq(S), NEW b \in Seq(S), NEW c \in Seq(S)
            PROVE  (a \o b) \o c = a \o (b \o c)
        OBVIOUS
      <4> QED BY <2>1, <3>4, <4>1, Zenon
    <3>6. H[M + (n + 1)] = F[M] \o G[n + 1] BY <3>2, <3>3, <3>5, Zenon
    <3>7. n + 1 \in 0..N BY <1>1
    <3> QED BY <3>6, <3>7
  <2> HIDE DEF T
  <2>4. \A n \in 0..N : n \in T BY <1>1, <2>2, <2>3, UpTo
  <2> QED BY <2>4 DEF T
<1>9. N \in 0..N BY <1>1
<1>10. H[M + N] = F[M] \o G[N] BY <1>8, <1>9
<1>11. FlattenSeq(u) = FlattenSeq(ss) \o FlattenSeq(tt) BY <1>1, <1>3, <1>4, <1>5, <1>10
<1> QED BY <1>11 DEF u

LEMMA FlattenFew ==
  ASSUME NEW S, NEW x \in Seq(S)
  PROVE  FlattenSeq(<<>>) = <<>> /\ FlattenSeq(<<x>>) = x
<1>1. FlattenSeq(<<>>) = <<>>
  <2>1. <<>> \in Seq(Seq(S)) /\ Len(<<>>) = 0 OBVIOUS
  <2> QED BY <2>1, FlattenSteps
<1>2. FlattenSeq(<<x>>) = x
  <2>1. <<x>> \in Seq(Seq(S)) /\ Len(<<x>>) = 1 /\ <<x>>[1] = x OBVIOUS
  <2>2. PICK F \in [0..1 -> Seq(S)] :
          F[0] = <<>> /\ F[1] = FlattenSeq(<<x>>) /\ Flattened(F, <<x>>)
    BY <2>1, FlattenSteps
  <2>3. 1 \in 1..Len(<<x>>) /\ 1 - 1 = 0 BY <2>1
  <2>4. F[1] = F[0] \o x BY <2>1, <2>2, <2>3 DEF Flattened
  <2>5. <<>> \o x = x BY ConcatEmptySeq
  <2> QED BY <2>2, <2>4, <2>5
<1> QED BY <1>1, <1>2

=============================================================================
