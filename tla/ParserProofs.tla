---------------------------- MODULE ParserProofs ----------------------------
(***************************************************************************)
(* Theorems about the parser, for every set of names, tags and labels, and *)
(* every program that is written with the items of Parser.                 *)
(***************************************************************************)
EXTENDS Parser, SequenceTheorems, FiniteSetTheorems, SequenceLemmas, TLAPS

-----------------------------------------------------------------------------
(* Numbers and sets of numbers                                             *)

(* One with a bound has a greatest one: LastOf chooses it.                 *)
LEMMA Greatest ==
  ASSUME NEW n \in Nat, NEW S, S \subseteq 1..n, S # {}
  PROVE  /\ \E x \in S : \A y \in S : y <= x
         /\ LastOf(S) \in S /\ \A y \in S : y <= LastOf(S)
  <1> DEFINE U == {n - x : x \in S}
  <1>0. \A x \in S : n - x \in Nat /\ x \in Int
    OBVIOUS
  <1>1. U \subseteq Nat /\ U # {}
    BY <1>0
  <1> HIDE DEF U
  <1>2. PICK u \in U : \A v \in U : u <= v
    BY <1>1, LeastOfNaturals
  <1> USE DEF U
  <1>3. PICK x \in S : u = n - x
    OBVIOUS
  <1>4. \A y \in S : y <= x
    <2> TAKE y \in S
    <2>1. n - x <= n - y
      BY <1>2, <1>3
    <2> QED
      BY <2>1
  <1> QED
    BY <1>4 DEF LastOf

(* A stack without its top. *)
LEMMA WithoutLast ==
  ASSUME NEW S, NEW q \in Seq(S), Len(q) > 0
  PROVE  /\ SubSeq(q, 1, Len(q) - 1) \in Seq(S)
         /\ Len(SubSeq(q, 1, Len(q) - 1)) = Len(q) - 1
         /\ \A i \in 1..(Len(q) - 1) : SubSeq(q, 1, Len(q) - 1)[i] = q[i]
  <1>1. Len(q) \in Nat /\ DOMAIN q = 1..Len(q)
    BY LenProperties
  <1>2. \A i \in 1..(Len(q) - 1) : q[i] \in S
    BY <1>1
  <1>3. /\ SubSeq(q, 1, Len(q) - 1) \in Seq(S)
        /\ Len(SubSeq(q, 1, Len(q) - 1)) = IF 1 <= Len(q) - 1 THEN Len(q) - 1 - 1 + 1 ELSE 0
        /\ \A i \in 1..(Len(q) - 1 - 1 + 1) : SubSeq(q, 1, Len(q) - 1)[i] = q[1 + i - 1]
    BY <1>1, <1>2, SubSeqProperties
  <1> QED
    BY <1>1, <1>3

-----------------------------------------------------------------------------
(* Scopes and tables (Symtabs)                                             *)

(* A name is entered in the innermost scope, and nothing else changes. *)
LEMMA AddSymIs ==
  ASSUME NEW sc \in Seq(Scope), Len(sc) > 0, NEW n \in Names, NEW e \in Entry
  PROVE  /\ AddSym(sc, n, e) \in Seq(Scope) /\ Len(AddSym(sc, n, e)) = Len(sc)
         /\ \A i \in DOMAIN sc :
              LET new == AddSym(sc, n, e)[i]
              IN  /\ new.level = sc[i].level /\ new.types = sc[i].types
                  /\ new.tags = sc[i].tags
                  /\ \A m \in Names : new.syms[m] =
                       IF i = Len(sc) /\ m = n THEN e ELSE sc[i].syms[m]
  <1> DEFINE L == Len(sc)
             new == [sc[L] EXCEPT !.syms = [sc[L].syms EXCEPT ![n] = e]]
  <1>1. L \in DOMAIN sc /\ DOMAIN sc = 1..L /\ sc[L] \in Scope
    BY LenProperties
  <1>2. /\ new \in Scope
        /\ \A m \in Names : new.syms[m] = IF m = n THEN e ELSE sc[L].syms[m]
    BY <1>1 DEF Scope
  <1>3. /\ new.level = sc[L].level
        /\ new.types = sc[L].types /\ new.tags = sc[L].tags
    BY <1>1 DEF Scope
  <1>4. AddSym(sc, n, e) = [sc EXCEPT ![L] = new]
    BY DEF AddSym
  <1> HIDE DEF new
  <1>5. [sc EXCEPT ![L] = new] \in Seq(Scope) /\ Len([sc EXCEPT ![L] = new]) = Len(sc)
    BY <1>1, <1>2, ExceptSeq
  <1> QED
    BY <1>1, <1>2, <1>3, <1>4, <1>5

LEMMA AddTypeIs ==
  ASSUME NEW sc \in Seq(Scope), Len(sc) > 0, NEW n \in Names, NEW e \in Entry
  PROVE  /\ AddType(sc, n, e) \in Seq(Scope) /\ Len(AddType(sc, n, e)) = Len(sc)
         /\ \A i \in DOMAIN sc :
              LET new == AddType(sc, n, e)[i]
              IN  /\ new.level = sc[i].level /\ new.syms = sc[i].syms
                  /\ new.tags = sc[i].tags
                  /\ \A m \in Names : new.types[m] =
                       IF i = Len(sc) /\ m = n THEN e ELSE sc[i].types[m]
  <1> DEFINE L == Len(sc)
             new == [sc[L] EXCEPT !.types = [sc[L].types EXCEPT ![n] = e]]
  <1>1. L \in DOMAIN sc /\ DOMAIN sc = 1..L /\ sc[L] \in Scope
    BY LenProperties
  <1>2. /\ new \in Scope
        /\ \A m \in Names : new.types[m] = IF m = n THEN e ELSE sc[L].types[m]
    BY <1>1 DEF Scope
  <1>3. /\ new.level = sc[L].level
        /\ new.syms = sc[L].syms /\ new.tags = sc[L].tags
    BY <1>1 DEF Scope
  <1>4. AddType(sc, n, e) = [sc EXCEPT ![L] = new]
    BY DEF AddType
  <1> HIDE DEF new
  <1>5. [sc EXCEPT ![L] = new] \in Seq(Scope) /\ Len([sc EXCEPT ![L] = new]) = Len(sc)
    BY <1>1, <1>2, ExceptSeq
  <1> QED
    BY <1>1, <1>2, <1>3, <1>4, <1>5

LEMMA AddTagIs ==
  ASSUME NEW sc \in Seq(Scope), Len(sc) > 0, NEW s \in Tags, NEW t \in Nat
  PROVE  /\ AddTag(sc, s, t) \in Seq(Scope) /\ Len(AddTag(sc, s, t)) = Len(sc)
         /\ \A i \in DOMAIN sc :
              LET new == AddTag(sc, s, t)[i]
              IN  /\ new.level = sc[i].level /\ new.syms = sc[i].syms
                  /\ new.types = sc[i].types
                  /\ \A r \in Tags : new.tags[r] =
                       IF i = Len(sc) /\ r = s THEN t ELSE sc[i].tags[r]
  <1> DEFINE L == Len(sc)
             new == [sc[L] EXCEPT !.tags = [sc[L].tags EXCEPT ![s] = t]]
  <1>1. L \in DOMAIN sc /\ DOMAIN sc = 1..L /\ sc[L] \in Scope
    BY LenProperties
  <1>2. /\ new \in Scope
        /\ \A m \in Tags : new.tags[m] = IF m = s THEN t ELSE sc[L].tags[m]
    BY <1>1 DEF Scope
  <1>3. /\ new.level = sc[L].level
        /\ new.syms = sc[L].syms /\ new.types = sc[L].types
    BY <1>1 DEF Scope
  <1>4. AddTag(sc, s, t) = [sc EXCEPT ![L] = new]
    BY DEF AddTag
  <1> HIDE DEF new
  <1>5. [sc EXCEPT ![L] = new] \in Seq(Scope) /\ Len([sc EXCEPT ![L] = new]) = Len(sc)
    BY <1>1, <1>2, ExceptSeq
  <1> QED
    BY <1>1, <1>2, <1>3, <1>4, <1>5

(* A scope is opened without names, and closed with all of its own.        *)
LEMMA PushIs ==
  ASSUME NEW sc \in Seq(Scope), NEW level \in Levels
  PROVE  /\ Push(sc, level) \in Seq(Scope) /\ Len(Push(sc, level)) = Len(sc) + 1
         /\ \A i \in DOMAIN sc : Push(sc, level)[i] = sc[i]
         /\ Push(sc, level)[Len(sc) + 1] = NewScope(level)
  <1>1. NewScope(level) \in Scope
    BY DEF NewScope, Scope, NoEntry, Entry, Types
  <1> QED
    BY <1>1, AppendProperties DEF Push

LEMMA PopIs ==
  ASSUME NEW sc \in Seq(Scope), Len(sc) > 0
  PROVE  /\ Pop(sc) \in Seq(Scope) /\ Len(Pop(sc)) = Len(sc) - 1
         /\ \A i \in 1..(Len(sc) - 1) : Pop(sc)[i] = sc[i]
  BY WithoutLast DEF Pop

(* Lookups give what the innermost scope that has the name has.            *)
LEMMA LookupTypes ==
  ASSUME NEW sc \in Seq(Scope), Len(sc) > 0
  PROVE  /\ Inner(sc) \in Scope
         /\ \A n \in Names : /\ Sym(sc, n) \in Entry /\ Typedef(sc, n) \in Entry
                             /\ Inner(sc).syms[n] \in Entry /\ Inner(sc).types[n] \in Entry
         /\ \A s \in Tags : TagOf(sc, s) \in Nat /\ CurrentTag(sc, s) \in Nat
  <1>1. Len(sc) \in DOMAIN sc /\ DOMAIN sc = 1..Len(sc) /\ Len(sc) \in Nat
    BY LenProperties
  <1>2. \A i \in DOMAIN sc : sc[i] \in Scope
    OBVIOUS
  <1>3. NoEntry \in Entry
    BY DEF NoEntry, Entry, Types
  <1>4. ASSUME NEW n \in Names
        PROVE  Sym(sc, n) \in Entry
    <2> DEFINE D == {i \in DOMAIN sc : sc[i].syms[n].id # 0}
    <2>1. D # {} => LastOf(D) \in DOMAIN sc
      BY <1>1, Greatest
    <2> QED
      BY <1>2, <1>3, <2>1 DEF Sym, Scope
  <1>5. ASSUME NEW n \in Names
        PROVE  Typedef(sc, n) \in Entry
    <2> DEFINE D == {i \in DOMAIN sc : sc[i].types[n].id # 0}
    <2>1. D # {} => LastOf(D) \in DOMAIN sc
      BY <1>1, Greatest
    <2> QED
      BY <1>2, <1>3, <2>1 DEF Typedef, Scope
  <1>6. ASSUME NEW s \in Tags
        PROVE  TagOf(sc, s) \in Nat
    <2> DEFINE D == {i \in DOMAIN sc : sc[i].tags[s] # 0}
    <2>1. D # {} => LastOf(D) \in DOMAIN sc
      BY <1>1, Greatest
    <2> QED
      BY <1>2, <2>1 DEF TagOf, Scope
  <1> QED
    BY <1>1, <1>2, <1>4, <1>5, <1>6 DEF Inner, Scope, CurrentTag

(* Where this scope has a tag, it is the tag that is found. *)
LEMMA CurrentFound ==
  ASSUME NEW sc \in Seq(Scope), Len(sc) > 0, NEW s \in Tags, CurrentTag(sc, s) # 0
  PROVE  TagOf(sc, s) = CurrentTag(sc, s)
  <1> DEFINE D == {i \in DOMAIN sc : sc[i].tags[s] # 0}
  <1>1. Len(sc) \in DOMAIN sc /\ DOMAIN sc = 1..Len(sc) /\ Len(sc) \in Nat
    BY LenProperties
  <1>2. Len(sc) \in D
    BY <1>1 DEF CurrentTag, Inner
  <1>3. LastOf(D) \in D /\ Len(sc) <= LastOf(D)
    BY <1>1, <1>2, Greatest
  <1>4. LastOf(D) = Len(sc)
    BY <1>1, <1>3
  <1> QED
    BY <1>2, <1>4 DEF TagOf, CurrentTag, Inner

-----------------------------------------------------------------------------
(* Types                                                                   *)

(* What a token has with it follows from its kind. *)
LEMMA TokenFields ==
  ASSUME TypeOK
  PROVE  /\ tok.k \in {"object", "typedef"} => tok.n \in Names /\ tok.ty \in Types
         /\ tok.k = "object" => tok.st \in {"none", "extern", "auto"}
         /\ tok.k = "init" => tok.n \in Names /\ tok.m \in Names
         /\ tok.k = "alias" => tok.n \in Names /\ tok.t \in Names
         /\ tok.k = "function" => tok.n \in Names /\ tok.p \in Names
         /\ tok.k = "use" => tok.n \in Names
         /\ tok.k = "for" => tok.n \in Names \cup {NoName}
         /\ tok.k = "enum" => tok.s \in Tags /\ tok.n \in Names
         /\ tok.k = "struct" => tok.s \in Tags
         /\ tok.k = "literal" => tok.s \in Tags \cup {NoName}
         /\ tok.k \in {"goto", "label"} => tok.l \in Labels
         /\ tok.k = "notok" => tok = NoTok
         /\ tok.k = "eof" => tok = Eof
  <1>1. \/ tok \in [k : OneToken]
        \/ tok \in [k : {"object"}, n : Names, st : {"none", "extern"}, ty : ObjectTypes]
        \/ tok \in [k : {"init"}, n : Names, m : Names]
        \/ tok \in [k : {"typedef"}, n : Names, ty : ObjectTypes]
        \/ tok \in [k : {"alias"}, t : Names, n : Names]
        \/ tok \in [k : {"use"}, n : Names]
        \/ tok \in [k : {"function"}, n : Names, p : Names]
        \/ tok \in [k : {"for"}, n : Names \cup {NoName}]
        \/ tok \in [k : {"enum"}, s : Tags, n : Names]
        \/ tok \in [k : {"struct"}, s : Tags]
        \/ tok \in [k : {"literal"}, s : Tags \cup {NoName}]
        \/ tok \in [k : {"goto", "label"}, l : Labels]
        \/ tok \in {NoTok, Eof}
    BY ParserAssumption DEF TypeOK, Items
  <1>2. CASE tok \in [k : OneToken]
    BY <1>2 DEF OneToken
  <1>3. CASE tok \in [k : {"object"}, n : Names, st : {"none", "extern"}, ty : ObjectTypes]
    BY <1>3 DEF ObjectTypes
  <1>4. CASE tok \in [k : {"init"}, n : Names, m : Names]
    BY <1>4
  <1>5. CASE tok \in [k : {"typedef"}, n : Names, ty : ObjectTypes]
    BY <1>5 DEF ObjectTypes
  <1>6. CASE tok \in [k : {"alias"}, t : Names, n : Names]
    BY <1>6
  <1>7. CASE tok \in [k : {"use"}, n : Names]
    BY <1>7
  <1>8. CASE tok \in [k : {"function"}, n : Names, p : Names]
    BY <1>8
  <1>9. CASE tok \in [k : {"for"}, n : Names \cup {NoName}]
    BY <1>9
  <1>10. CASE tok \in [k : {"enum"}, s : Tags, n : Names]
    BY <1>10
  <1>11. CASE tok \in [k : {"struct"}, s : Tags]
    BY <1>11
  <1>12. CASE tok \in [k : {"literal"}, s : Tags \cup {NoName}]
    BY <1>12
  <1>13. CASE tok \in [k : {"goto", "label"}, l : Labels]
    BY <1>13
  <1>14. CASE tok \in {NoTok, Eof}
    BY <1>14 DEF NoTok, Eof
  <1> QED
    BY <1>1, <1>2, <1>3, <1>4, <1>5, <1>6, <1>7, <1>8, <1>9, <1>10, <1>11, <1>12, <1>13, <1>14

(* A declaration is entered with the next number, in the tables and among  *)
(* the locals of the function.                                             *)
LEMMA NewEntry ==
  ASSUME lastid \in Nat, NEW st \in {"none", "extern", "auto"}, NEW ty \in Types
  PROVE  /\ [id |-> lastid + 1, st |-> st, ty |-> ty] \in Entry
         /\ [id |-> lastid + 2, st |-> st, ty |-> ty] \in Entry
  BY DEF Entry

LEMMA LocalTypes ==
  ASSUME NEW f \in Function, NEW e \in Entry, NEW isFile \in BOOLEAN
  PROVE  WithLocal(f, e, isFile) \in Function /\ WithLocal(f, e, isFile).on = f.on
  <1>1. AsLocal(e) \in Nat
    BY DEF AsLocal, Entry
  <1>2. Append(f.locals, AsLocal(e)) \in Seq(Nat)
    BY <1>1, AppendProperties DEF Function
  <1> QED
    BY <1>2 DEF WithLocal, Function

LEMMA EventTypes ==
  ASSUME NEW n, NEW e
  PROVE  SymEvents(n, e) \subseteq {"mixed", "twice"}
  BY DEF SymEvents

LEMMA DefineTypes ==
  ASSUME TypeOK, NEW n \in Names, NEW st \in {"none", "extern", "auto"}, NEW ty \in Types,
         DefineSym(n, st, ty)
  PROVE  TypeOK'
  <1> DEFINE e == [id |-> lastid + 1, st |-> st, ty |-> ty]
  <1>1. CASE Redefines(scopes, n, e)
    BY <1>1 DEF TypeOK, DefineSym, RaiseAt, tables, nesting, history
  <1>2. CASE ~Redefines(scopes, n, e)
    <2>1. e \in Entry
      BY NewEntry DEF TypeOK
    <2>2. AddSym(scopes, n, e) \in Seq(Scope) /\ Len(AddSym(scopes, n, e)) > 0
      BY <2>1, AddSymIs DEF TypeOK
    <2>3. WithLocal(fn, e, IsFileScope(scopes)) \in Function
      BY <2>1, LocalTypes DEF TypeOK, Function, IsFileScope
    <2>4. /\ scopes' = AddSym(scopes, n, e) /\ fn' = WithLocal(fn, e, IsFileScope(scopes))
          /\ lastid' = lastid + 1 /\ events' = events \cup SymEvents(n, e)
          /\ tok' = NoTok /\ mode' = "done" /\ UNCHANGED <<ctypes, nesting, items>>
      BY <1>2 DEF DefineSym, Consume, Done
    <2> HIDE DEF e
    <2>5. scopes' \in Seq(Scope) /\ Len(scopes') > 0 /\ fn' \in Function
      BY <2>2, <2>3, <2>4
    <2>6. events' \subseteq {"mixed", "twice", "own"}
      BY <2>4, EventTypes DEF TypeOK
    <2> QED
      BY <2>4, <2>5, <2>6 DEF TypeOK, nesting, Modes
  <1> QED
    BY <1>1, <1>2

(* A stack of productions with one more, or without its last one.          *)
LEMMA PushTypes ==
  ASSUME TypeOK, NEW k \in FrameKinds, NEW ty \in Nat
  PROVE  LET q == Append(stack, [k |-> k, ty |-> ty])
         IN  /\ q \in Seq(Frame) /\ Len(q) = Len(stack) + 1 /\ Len(q) > 0
             /\ q[Len(q)] = [k |-> k, ty |-> ty]
             /\ \A i \in DOMAIN stack : q[i] = stack[i]
  <1>1. stack \in Seq(Frame) /\ Len(stack) > 0
    BY DEF TypeOK
  <1>2. [k |-> k, ty |-> ty] \in Frame
    BY DEF Frame
  <1> QED
    BY <1>1, <1>2, AppendProperties, LenProperties

LEMMA TopTypes ==
  ASSUME TypeOK
  PROVE  /\ Len(stack) \in Nat \ {0} /\ DOMAIN stack = 1..Len(stack)
         /\ Top \in Frame /\ Top = stack[Len(stack)]
  <1>1. stack \in Seq(Frame) /\ Len(stack) > 0
    BY DEF TypeOK
  <1> QED
    BY <1>1, LenProperties DEF Top

-----------------------------------------------------------------------------
(* Counting productions                                                    *)

LEMMA CountedFinite ==
  ASSUME NEW q, NEW kinds, NEW i \in Int
  PROVE  IsFiniteSet(Counted(q, kinds, i))
  <1>1. IsFiniteSet(1..i)
    BY FS_Interval
  <1>2. Counted(q, kinds, i) \in SUBSET (1..i)
    BY DEF Counted
  <1> QED
    BY <1>1, <1>2, FS_Subset

LEMMA CountType ==
  ASSUME NEW q, NEW kinds, NEW i \in Int
  PROVE  Count(q, kinds, i) \in Nat
  BY CountedFinite, FS_CardinalityType DEF Count

(* One more is counted where it is of these kinds. *)
LEMMA CountNext ==
  ASSUME NEW q, NEW kinds, NEW i \in Nat
  PROVE  Count(q, kinds, i + 1) = Count(q, kinds, i) + (IF q[i + 1].k \in kinds THEN 1 ELSE 0)
  <1>1. IsFiniteSet(Counted(q, kinds, i)) /\ Count(q, kinds, i) \in Nat
    BY CountedFinite, CountType
  <1>2. i + 1 \notin Counted(q, kinds, i)
    BY DEF Counted
  <1>3. \A j \in 1..(i + 1) : j = i + 1 \/ j \in 1..i
    OBVIOUS
  <1>4. CASE q[i + 1].k \in kinds
    <2>1. Counted(q, kinds, i + 1) = Counted(q, kinds, i) \cup {i + 1}
      BY <1>3, <1>4 DEF Counted
    <2> QED
      BY <1>1, <1>2, <1>4, <2>1, FS_AddElement DEF Count
  <1>5. CASE q[i + 1].k \notin kinds
    <2>1. Counted(q, kinds, i + 1) = Counted(q, kinds, i)
      BY <1>3, <1>5 DEF Counted
    <2> QED
      BY <1>1, <1>5, <2>1 DEF Count
  <1> QED
    BY <1>4, <1>5

(* Only the kinds of the productions up to there matter. *)
LEMMA CountSame ==
  ASSUME NEW q, NEW r, NEW kinds, NEW i \in Nat,
         \A j \in 1..i : q[j].k \in kinds <=> r[j].k \in kinds
  PROVE  Count(q, kinds, i) = Count(r, kinds, i)
  <1>1. Counted(q, kinds, i) = Counted(r, kinds, i)
    BY DEF Counted
  <1> QED
    BY <1>1 DEF Count

LEMMA CountUp ==
  ASSUME NEW q, NEW kinds, NEW i \in Nat, NEW j \in Nat, i <= j
  PROVE  /\ Count(q, kinds, i) <= Count(q, kinds, j)
         /\ (\A h \in (i + 1)..j : q[h].k \notin kinds) => Count(q, kinds, i) = Count(q, kinds, j)
  <1>0. \A h \in 1..i : h \in 1..j
    OBVIOUS
  <1>a. Counted(q, kinds, i) \in SUBSET Counted(q, kinds, j)
    BY <1>0 DEF Counted
  <1>1. IsFiniteSet(Counted(q, kinds, j)) /\ Counted(q, kinds, i) \in SUBSET Counted(q, kinds, j)
    BY <1>a, CountedFinite
  <1>2. Count(q, kinds, i) <= Count(q, kinds, j)
    BY <1>1, FS_Subset DEF Count
  <1>3. ASSUME \A h \in (i + 1)..j : q[h].k \notin kinds
        PROVE  Count(q, kinds, i) = Count(q, kinds, j)
    <2>1. \A h \in 1..j : h \in 1..i \/ h \in (i + 1)..j
      OBVIOUS
    <2>2. Counted(q, kinds, i) = Counted(q, kinds, j)
      BY <1>3, <2>1 DEF Counted
    <2> QED
      BY <2>2 DEF Count
  <1> QED
    BY <1>2, <1>3

LEMMA CountNone ==
  ASSUME NEW q, NEW kinds, NEW i \in Nat
  PROVE  /\ Count(q, kinds, 0) = 0
         /\ (\A j \in 1..i : q[j].k \notin kinds) <=> Count(q, kinds, i) = 0
  <1>1. Counted(q, kinds, 0) = {}
    BY DEF Counted
  <1>2. (\A j \in 1..i : q[j].k \notin kinds) <=> Counted(q, kinds, i) = {}
    BY DEF Counted
  <1> QED
    BY <1>1, <1>2, CountedFinite, FS_EmptySet DEF Count

(* The last of these kinds is the one that is counted last. *)
LEMMA CountLast ==
  ASSUME NEW q, NEW kinds, NEW n \in Nat, Count(q, kinds, n) # 0
  PROVE  \E i \in 1..n : /\ q[i].k \in kinds /\ \A j \in (i + 1)..n : q[j].k \notin kinds
                         /\ Count(q, kinds, i) = Count(q, kinds, n)
  <1>1. Counted(q, kinds, n) # {} /\ Counted(q, kinds, n) \subseteq 1..n
    BY CountNone DEF Counted
  <1>2. PICK i \in Counted(q, kinds, n) : \A j \in Counted(q, kinds, n) : j <= i
    BY <1>1, Greatest
  <1>3. i \in 1..n /\ q[i].k \in kinds
    BY <1>1 DEF Counted
  <1>4. \A j \in (i + 1)..n : q[j].k \notin kinds
    <2>1. \A j \in (i + 1)..n : j \in 1..n /\ ~(j <= i)
      BY <1>3
    <2> QED
      BY <1>2, <2>1 DEF Counted
  <1>5. Count(q, kinds, i) = Count(q, kinds, n)
    BY <1>3, <1>4, CountUp
  <1> QED
    BY <1>3, <1>4, <1>5

-----------------------------------------------------------------------------
(* What a step does to the stacks                                          *)

(* The stacks of loops and switches follow that of productions, and scopes *)
(* keep their level.                                                       *)
KeepsLevels ==
  \A i \in DOMAIN scopes : i \in DOMAIN scopes' => scopes'[i].level = scopes[i].level

Stays ==
  /\ UNCHANGED nesting
  /\ Len(scopes') = Len(scopes) /\ KeepsLevels /\ fn'.on = fn.on

Opens(k, ty) ==
  /\ stack' = Append(stack, [k |-> k, ty |-> ty])
  /\ loops' = IF k \in LoopKinds THEN Append(loops, k) ELSE loops
  /\ switches' = IF k = "switch" THEN Append(switches, ty) ELSE switches
  /\ Len(scopes') = IF k \in Scoped THEN Len(scopes) + 1 ELSE Len(scopes)
  /\ KeepsLevels
  /\ k \in Scoped => scopes'[Len(scopes) + 1].level = IF k = "body" THEN "method" ELSE "block"
  /\ fn'.on = (fn.on \/ k = "body")

Leaves(k) == fn'.on = (fn.on /\ k # "body")
Closes(k) ==
  /\ Top.k = k
  /\ stack' = SubSeq(stack, 1, Len(stack) - 1)
  /\ loops' = IF k \in LoopKinds THEN SubSeq(loops, 1, Len(loops) - 1) ELSE loops
  /\ switches' = IF k = "switch" THEN SubSeq(switches, 1, Len(switches) - 1) ELSE switches
  /\ Len(scopes') = IF k \in Scoped THEN Len(scopes) - 1 ELSE Len(scopes)
  /\ KeepsLevels
  /\ Leaves(k)

ThenElse ==
  /\ Top.k = "then" /\ stack' = [stack EXCEPT ![Len(stack)].k = "else"]
  /\ UNCHANGED <<loops, switches, scopes, fn>>

(* A statement or block is begun in a function, a function on the unit.    *)
WhereItMay(k) ==
  /\ k = "body" => Len(stack) = 1
  /\ k \in {"block"} \cup Sub => InFunction

(* One step, of any production or of any but the members of a struct.      *)
StepOf(kinds) ==
  \/ Stays \/ ThenElse
  \/ \E k \in kinds : \E ty \in Nat : Opens(k, ty) /\ WhereItMay(k)
  \/ \E k \in FrameKinds \ {"unit"} : Closes(k)
StackStep == StepOf(FrameKinds \ {"unit"})
PlainStep == StepOf(FrameKinds \ {"unit", "struct"})

(* sh has what the productions of these kinds have, in the same order.     *)
Val(f, w) == IF w = "k" THEN f.k ELSE f.ty
Shadow(q, kinds, sh, w) ==
  /\ Len(sh) = Count(q, kinds, Len(q))
  /\ \A i \in DOMAIN q : q[i].k \in kinds => sh[Count(q, kinds, i)] = Val(q[i], w)

LEMMA ShadowPush ==
  ASSUME NEW q \in Seq(Frame), NEW f \in Frame, NEW kinds, NEW w,
         NEW S, NEW sh \in Seq(S), f.k \in kinds => Val(f, w) \in S, Shadow(q, kinds, sh, w)
  PROVE  Shadow(Append(q, f), kinds, IF f.k \in kinds THEN Append(sh, Val(f, w)) ELSE sh, w)
  <1> DEFINE r == Append(q, f)
             n == Len(q)
             new == IF f.k \in kinds THEN Append(sh, Val(f, w)) ELSE sh
  <1>1. /\ n \in Nat /\ DOMAIN q = 1..n /\ r \in Seq(Frame) /\ Len(r) = n + 1
        /\ DOMAIN r = 1..(n + 1) /\ r[n + 1] = f
        /\ \A i \in 1..n : r[i] = q[i]
    BY AppendProperties, LenProperties
  <1>2. /\ Len(sh) \in Nat
        /\ f.k \in kinds =>
             /\ Len(Append(sh, Val(f, w))) = Len(sh) + 1
             /\ Append(sh, Val(f, w))[Len(sh) + 1] = Val(f, w)
             /\ \A i \in 1..Len(sh) : Append(sh, Val(f, w))[i] = sh[i]
    BY AppendProperties, LenProperties
  <1> HIDE DEF r, n, new
  <1>3. \A i \in 1..n : Count(r, kinds, i) = Count(q, kinds, i)
    <2> TAKE i \in 1..n
    <2>1. \A j \in 1..i : r[j].k \in kinds <=> q[j].k \in kinds
      BY <1>1
    <2> QED
      BY <1>1, <2>1, CountSame
  <1>4. n = 0 => Count(r, kinds, n) = 0 /\ Count(q, kinds, n) = 0
    BY CountNone
  <1>5. Count(r, kinds, n) = Len(sh)
    BY <1>1, <1>3, <1>4 DEF Shadow, n
  <1>6. Count(r, kinds, n + 1) = IF f.k \in kinds THEN Len(sh) + 1 ELSE Len(sh)
    BY <1>1, <1>2, <1>5, CountNext
  <1>7. Len(new) = Count(r, kinds, n + 1)
    BY <1>2, <1>6 DEF new
  <1>8. ASSUME NEW i \in 1..n, r[i].k \in kinds
        PROVE  new[Count(r, kinds, i)] = Val(r[i], w)
    <2>1. Count(r, kinds, i) = Count(q, kinds, i) /\ sh[Count(q, kinds, i)] = Val(r[i], w)
      BY <1>1, <1>3, <1>8 DEF Shadow
    <2>2. Count(q, kinds, i) \in 1..Len(sh)
      <3>1. Count(q, kinds, i) <= Count(q, kinds, n) /\ Count(q, kinds, i) \in Nat
        BY <1>1, CountUp, CountType
      <3>2. Count(q, kinds, i) # 0
        BY <1>1, <1>8, CountNone
      <3> QED
        BY <3>1, <3>2, <1>2 DEF Shadow, n
    <2> QED
      BY <1>2, <2>1, <2>2 DEF new
  <1>9. f.k \in kinds => new[Count(r, kinds, n + 1)] = Val(r[n + 1], w)
    BY <1>1, <1>2, <1>6 DEF new
  <1>10. \A i \in DOMAIN r : r[i].k \in kinds => new[Count(r, kinds, i)] = Val(r[i], w)
    BY <1>1, <1>8, <1>9
  <1> QED
    BY <1>1, <1>7, <1>10 DEF Shadow, r, new

LEMMA ShadowPop ==
  ASSUME NEW q \in Seq(Frame), Len(q) > 0, NEW kinds, NEW w,
         NEW S, NEW sh \in Seq(S), Shadow(q, kinds, sh, w)
  PROVE  /\ q[Len(q)].k \in kinds => Len(sh) > 0
         /\ Shadow(SubSeq(q, 1, Len(q) - 1), kinds,
                   IF q[Len(q)].k \in kinds THEN SubSeq(sh, 1, Len(sh) - 1) ELSE sh, w)
  <1> DEFINE r == SubSeq(q, 1, Len(q) - 1)
             n == Len(q) - 1
             front == SubSeq(sh, 1, Len(sh) - 1)
             new == IF q[Len(q)].k \in kinds THEN front ELSE sh
  <1>1. /\ n \in Nat /\ DOMAIN q = 1..(n + 1) /\ r \in Seq(Frame) /\ Len(r) = n
        /\ DOMAIN r = 1..n /\ Len(q) = n + 1
        /\ \A i \in 1..n : r[i] = q[i]
    BY WithoutLast, LenProperties
  <1>2. /\ Len(sh) \in Nat
        /\ Len(sh) > 0 => Len(front) = Len(sh) - 1 /\ \A i \in 1..(Len(sh) - 1) : front[i] = sh[i]
    BY WithoutLast, LenProperties
  <1> HIDE DEF r, n, new, front
  <1>3. \A i \in 1..n : Count(r, kinds, i) = Count(q, kinds, i)
    <2> TAKE i \in 1..n
    <2>1. \A j \in 1..i : r[j].k \in kinds <=> q[j].k \in kinds
      BY <1>1
    <2> QED
      BY <1>1, <2>1, CountSame
  <1>4. Count(r, kinds, n) = Count(q, kinds, n) /\ Count(q, kinds, n) \in Nat
    <2>1. n = 0 => Count(r, kinds, n) = 0 /\ Count(q, kinds, n) = 0
      BY CountNone
    <2> QED
      BY <1>1, <1>3, <2>1, CountType
  <1>5. Len(sh) = Count(q, kinds, n) + (IF q[n + 1].k \in kinds THEN 1 ELSE 0)
    BY <1>1, CountNext DEF Shadow
  <1>6. Len(new) = Count(r, kinds, n) /\ (q[n + 1].k \in kinds => Len(sh) > 0)
    BY <1>1, <1>2, <1>4, <1>5 DEF new
  <1>7. ASSUME NEW i \in 1..n, r[i].k \in kinds
        PROVE  new[Count(r, kinds, i)] = Val(r[i], w)
    <2>1. Count(r, kinds, i) = Count(q, kinds, i) /\ sh[Count(q, kinds, i)] = Val(r[i], w)
      BY <1>1, <1>3, <1>7 DEF Shadow
    <2>2. Count(q, kinds, i) \in 1..Count(q, kinds, n)
      <3>1. Count(q, kinds, i) <= Count(q, kinds, n) /\ Count(q, kinds, i) \in Nat
        BY <1>1, CountUp, CountType
      <3>2. Count(q, kinds, i) # 0
        BY <1>1, <1>7, CountNone
      <3> QED
        BY <3>1, <3>2, <1>4
    <2> QED
      BY <1>1, <1>2, <1>4, <1>5, <2>1, <2>2 DEF new
  <1> QED
    BY <1>1, <1>6, <1>7 DEF Shadow, r, new, front

(* The stacks agree: each follows that of productions. *)
LEMMA AgreeIsShadow ==
  /\ LoopsAgree <=> Shadow(stack, LoopKinds, loops, "k")
  /\ SwitchesAgree <=> Shadow(stack, {"switch"}, switches, "ty")
  BY DEF LoopsAgree, SwitchesAgree, Shadow, Open, Val

LEMMA CountPush ==
  ASSUME NEW q \in Seq(Frame), NEW f \in Frame, NEW kinds
  PROVE  Count(Append(q, f), kinds, Len(q) + 1) =
           Count(q, kinds, Len(q)) + (IF f.k \in kinds THEN 1 ELSE 0)
  <1> DEFINE r == Append(q, f)
             n == Len(q)
  <1>1. n \in Nat /\ r[n + 1] = f /\ \A i \in 1..n : r[i] = q[i]
    BY AppendProperties, LenProperties
  <1> HIDE DEF r, n
  <1>2. Count(r, kinds, n) = Count(q, kinds, n)
    BY <1>1, CountSame
  <1>3. Count(r, kinds, n + 1) = Count(r, kinds, n) + (IF r[n + 1].k \in kinds THEN 1 ELSE 0)
    BY <1>1, CountNext
  <1>4. Count(r, kinds, n + 1) = Count(q, kinds, n) + (IF f.k \in kinds THEN 1 ELSE 0)
    BY <1>1, <1>2, <1>3
  <1> QED
    BY <1>4 DEF r, n

LEMMA CountPop ==
  ASSUME NEW q \in Seq(Frame), Len(q) > 0, NEW kinds
  PROVE  Count(SubSeq(q, 1, Len(q) - 1), kinds, Len(q) - 1) =
           Count(q, kinds, Len(q)) - (IF q[Len(q)].k \in kinds THEN 1 ELSE 0)
  <1> DEFINE r == SubSeq(q, 1, Len(q) - 1)
             n == Len(q) - 1
  <1>1. n \in Nat /\ Len(q) = n + 1 /\ \A i \in 1..n : r[i] = q[i]
    BY WithoutLast, LenProperties
  <1> HIDE DEF r, n
  <1>2. Count(r, kinds, n) = Count(q, kinds, n)
    BY <1>1, CountSame
  <1>3. Count(q, kinds, n + 1) = Count(q, kinds, n) + (IF q[n + 1].k \in kinds THEN 1 ELSE 0)
    BY <1>1, CountNext
  <1>4. Count(q, kinds, n) \in Nat
    BY <1>1, CountType
  <1> QED
    BY <1>1, <1>2, <1>3, <1>4 DEF r, n

(* Where the stack of productions can be. *)
LEMMA WhereOnStack ==
  ASSUME TypeOK, StackNests, NestingAgrees
  PROVE  /\ Top.k = "unit" <=> Len(stack) = 1
         /\ Top.k = "body" => Len(stack) = 2
         /\ InFunction => Len(stack) > 1 /\ stack[2].k = "body" /\ Len(scopes) > 1 /\ fn.on
         /\ Len(stack) = 1 => Len(scopes) = 1 /\ ~fn.on
         /\ Len(scopes) > 1 => fn.on
         /\ Top.k \in LoopKinds => Len(loops) > 0
         /\ Top.k = "switch" => Len(switches) > 0
         /\ Top.k \in Scoped => Len(scopes) > 1
  <1>1. Len(stack) \in Nat \ {0} /\ DOMAIN stack = 1..Len(stack) /\ Top = stack[Len(stack)]
    BY TopTypes
  <1>2. Len(stack) \in DOMAIN stack /\ 1 \in DOMAIN stack
    BY <1>1
  <1>3. /\ Top.k = "unit" <=> Len(stack) = 1
        /\ Top.k = "body" => Len(stack) = 2
        /\ InFunction => Len(stack) > 1 /\ stack[2].k = "body"
    BY <1>1, <1>2 DEF StackNests, InFunction, In
  <1>4. /\ Len(scopes) = 1 + Count(stack, Scoped, Len(stack))
        /\ Len(loops) = Count(stack, LoopKinds, Len(stack))
        /\ Len(switches) = Count(stack, {"switch"}, Len(stack))
        /\ \A kinds : Count(stack, kinds, Len(stack)) \in Nat
    BY <1>1, CountType DEF NestingAgrees, ScopesAgree, LoopsAgree, SwitchesAgree, Open
  <1>5. \A kinds : (\E i \in DOMAIN stack : stack[i].k \in kinds) <=> Count(stack, kinds, Len(stack)) # 0
    BY <1>1, CountNone
  <1>6. /\ Top.k \in LoopKinds => Len(loops) > 0
        /\ Top.k = "switch" => Len(switches) > 0
        /\ Top.k \in Scoped => Len(scopes) > 1
    <2>1. Top.k \in LoopKinds => Count(stack, LoopKinds, Len(stack)) # 0
      BY <1>1, <1>2, <1>5
    <2>2. Top.k \in {"switch"} => Count(stack, {"switch"}, Len(stack)) # 0
      BY <1>1, <1>2, <1>5
    <2>3. Top.k \in Scoped => Count(stack, Scoped, Len(stack)) # 0
      BY <1>1, <1>2, <1>5
    <2> QED
      BY <1>4, <2>1, <2>2, <2>3
  <1>7. InFunction => Len(scopes) > 1 /\ fn.on
    <2> SUFFICES ASSUME InFunction
                 PROVE  Len(scopes) > 1 /\ fn.on
      OBVIOUS
    <2>1. 2 \in DOMAIN stack /\ stack[2].k = "body"
      BY <1>1, <1>3
    <2>2. Count(stack, Scoped, Len(stack)) # 0
      BY <1>5, <2>1 DEF Scoped
    <2> QED
      BY <1>4, <2>1, <2>2 DEF NestingAgrees, ScopesAgree
  <1>8. Len(stack) = 1 => Len(scopes) = 1 /\ ~fn.on
    <2> SUFFICES ASSUME Len(stack) = 1
                 PROVE  Len(scopes) = 1 /\ ~fn.on
      OBVIOUS
    <2>1. \A i \in DOMAIN stack : stack[i].k = "unit"
      BY <1>1 DEF StackNests
    <2>2. Count(stack, Scoped, Len(stack)) = 0
      BY <1>5, <2>1 DEF Scoped
    <2> QED
      BY <1>4, <2>1, <2>2 DEF NestingAgrees, ScopesAgree
  <1>9. Len(scopes) > 1 => fn.on
    <2> SUFFICES ASSUME Len(scopes) > 1
                 PROVE  fn.on
      OBVIOUS
    <2>1. PICK i \in DOMAIN stack : stack[i].k \in Scoped
      BY <1>4, <1>5
    <2>2. stack[i].k = "body" \/ (stack[2].k = "body" /\ 2 \in DOMAIN stack)
      BY <1>1, <2>1 DEF StackNests, Scoped, Sub
    <2> QED
      BY <2>1, <2>2 DEF NestingAgrees, ScopesAgree
  <1> QED
    BY <1>3, <1>6, <1>7, <1>8, <1>9

LEMMA StackTypes ==
  ASSUME TypeOK, StackNests, NestingAgrees, StackStep
  PROVE  /\ stack' \in Seq(Frame) /\ Len(stack') > 0
         /\ loops' \in Seq(LoopKinds) /\ switches' \in Seq(Nat)
         /\ Len(scopes') > 0
  <1>1. /\ stack \in Seq(Frame) /\ Len(stack) \in Nat \ {0} /\ Top = stack[Len(stack)]
        /\ loops \in Seq(LoopKinds) /\ switches \in Seq(Nat)
        /\ Len(scopes) \in Nat \ {0} /\ DOMAIN stack = 1..Len(stack)
    BY TopTypes, LenProperties DEF TypeOK
  <1>2. CASE Stays
    BY <1>1, <1>2 DEF Stays, nesting
  <1>3. CASE ThenElse
    <2>0. stack[Len(stack)] \in Frame /\ "else" \in FrameKinds
      BY <1>1, TopTypes DEF FrameKinds, Sub
    <2>1. [stack[Len(stack)] EXCEPT !.k = "else"] \in Frame
      BY <2>0 DEF Frame
    <2>2. stack' = [stack EXCEPT ![Len(stack)] = [stack[Len(stack)] EXCEPT !.k = "else"]]
      BY <1>3 DEF ThenElse
    <2>3. stack' \in Seq(Frame) /\ Len(stack') = Len(stack)
      BY <1>1, <2>1, <2>2, ExceptSeq
    <2> QED
      BY <1>1, <1>3, <2>3 DEF ThenElse
  <1>4. ASSUME NEW k \in FrameKinds, NEW ty \in Nat, Opens(k, ty)
        PROVE  /\ stack' \in Seq(Frame) /\ Len(stack') > 0
               /\ loops' \in Seq(LoopKinds) /\ switches' \in Seq(Nat)
               /\ Len(scopes') > 0
    <2>1. stack' \in Seq(Frame) /\ Len(stack') > 0
      BY <1>4, PushTypes DEF Opens
    <2>2. loops' \in Seq(LoopKinds) /\ switches' \in Seq(Nat)
      BY <1>1, <1>4, AppendProperties DEF Opens
    <2> QED
      BY <1>1, <1>4, <2>1, <2>2 DEF Opens
  <1>5. ASSUME NEW k \in FrameKinds \ {"unit"}, Closes(k)
        PROVE  /\ stack' \in Seq(Frame) /\ Len(stack') > 0
               /\ loops' \in Seq(LoopKinds) /\ switches' \in Seq(Nat)
               /\ Len(scopes') > 0
    <2>1. Len(stack) > 1
      BY <1>1, <1>5, WhereOnStack DEF Closes
    <2>2. /\ k \in LoopKinds => Len(loops) > 0
          /\ k = "switch" => Len(switches) > 0
          /\ k \in Scoped => Len(scopes) > 1
      BY <1>5, WhereOnStack DEF Closes
    <2>3. stack' \in Seq(Frame) /\ Len(stack') > 0
      BY <1>1, <1>5, <2>1, WithoutLast DEF Closes
    <2>4. loops' \in Seq(LoopKinds) /\ switches' \in Seq(Nat)
      BY <1>1, <1>5, <2>2, WithoutLast DEF Closes
    <2> QED
      BY <1>1, <1>5, <2>2, <2>3, <2>4 DEF Closes
  <1> QED
    BY <1>2, <1>3, <1>4, <1>5 DEF StackStep, StepOf

(* The else of an if: nothing that is counted has changed. *)
LEMMA ElseCounts ==
  ASSUME TypeOK, ThenElse, NEW kinds, "then" \notin kinds, "else" \notin kinds
  PROVE  /\ Len(stack') = Len(stack) /\ DOMAIN stack' = DOMAIN stack
         /\ \A i \in DOMAIN stack : stack'[i].k \in kinds => stack'[i] = stack[i]
         /\ \A i \in DOMAIN stack : stack'[i].k \in kinds <=> stack[i].k \in kinds
         /\ \A i \in 0..Len(stack) : Count(stack', kinds, i) = Count(stack, kinds, i)
  <1>1. /\ Len(stack) \in Nat \ {0} /\ DOMAIN stack = 1..Len(stack) /\ Top = stack[Len(stack)]
        /\ stack \in Seq(Frame)
    BY TopTypes DEF TypeOK
  <1>2. stack' = [stack EXCEPT ![Len(stack)].k = "else"] /\ stack[Len(stack)].k = "then"
    BY <1>1 DEF ThenElse
  <1>3. DOMAIN stack' = DOMAIN stack /\ Len(stack') = Len(stack)
    BY <1>1, <1>2
  <1>4. \A i \in DOMAIN stack : i # Len(stack) => stack'[i] = stack[i]
    BY <1>1, <1>2
  <1>5. stack'[Len(stack)].k = "else"
    <2>1. stack[Len(stack)] \in Frame
      BY <1>1, TopTypes
    <2> QED
      BY <1>1, <1>2, <2>1 DEF Frame
  <1>6. \A i \in DOMAIN stack : stack'[i].k \in kinds <=> stack[i].k \in kinds
    BY <1>1, <1>2, <1>4, <1>5
  <1>7. \A i \in 0..Len(stack) : Count(stack', kinds, i) = Count(stack, kinds, i)
    <2> TAKE i \in 0..Len(stack)
    <2>1. i \in Nat /\ \A j \in 1..i : j \in DOMAIN stack
      BY <1>1
    <2> QED
      BY <1>6, <2>1, CountSame
  <1> QED
    BY <1>1, <1>3, <1>4, <1>5, <1>6, <1>7

(* A stack that is pushed and popped with its productions follows them.    *)
LEMMA ShadowKept ==
  ASSUME TypeOK, StackStep, NEW kinds, kinds \in {LoopKinds, {"switch"}},
         NEW w, w = IF kinds = LoopKinds THEN "k" ELSE "ty",
         NEW S, NEW sh \in Seq(S), NEW new, Shadow(stack, kinds, sh, w),
         \A f \in Frame : f.k \in kinds => Val(f, w) \in S,
         UNCHANGED nesting \/ ThenElse => new = sh,
         \A k \in FrameKinds, ty \in Nat : Opens(k, ty) =>
           new = IF k \in kinds THEN Append(sh, Val([k |-> k, ty |-> ty], w)) ELSE sh,
         \A k \in FrameKinds : Closes(k) =>
           new = IF k \in kinds THEN SubSeq(sh, 1, Len(sh) - 1) ELSE sh
  PROVE  Shadow(stack', kinds, new, w)
  <1>1. /\ stack \in Seq(Frame) /\ Len(stack) \in Nat \ {0} /\ Top = stack[Len(stack)]
        /\ DOMAIN stack = 1..Len(stack) /\ Len(stack) > 0
    BY TopTypes DEF TypeOK
  <1>2. CASE Stays
    BY <1>2 DEF Stays, nesting
  <1>3. CASE ThenElse
    <2>1. "then" \notin kinds /\ "else" \notin kinds
      BY DEF LoopKinds
    <2> QED
      BY <1>1, <1>3, <2>1, ElseCounts DEF Shadow, Val
  <1>4. ASSUME NEW k \in FrameKinds, NEW ty \in Nat, Opens(k, ty)
        PROVE  Shadow(stack', kinds, new, w)
    <2> DEFINE f == [k |-> k, ty |-> ty]
    <2>1. f \in Frame /\ f.k = k
      BY DEF Frame
    <2>2. stack' = Append(stack, f) /\ new = IF f.k \in kinds THEN Append(sh, Val(f, w)) ELSE sh
      BY <1>4, <2>1 DEF Opens
    <2> HIDE DEF f
    <2>3. f.k \in kinds => Val(f, w) \in S
      BY <2>1
    <2>4. Shadow(Append(stack, f), kinds, IF f.k \in kinds THEN Append(sh, Val(f, w)) ELSE sh, w)
      BY <1>1, <2>1, <2>3, ShadowPush
    <2> QED
      BY <2>2, <2>4
  <1>5. ASSUME NEW k \in FrameKinds \ {"unit"}, Closes(k)
        PROVE  Shadow(stack', kinds, new, w)
    <2>1. stack' = SubSeq(stack, 1, Len(stack) - 1) /\ stack[Len(stack)].k = k
      BY <1>1, <1>5 DEF Closes
    <2>2. new = IF stack[Len(stack)].k \in kinds THEN SubSeq(sh, 1, Len(sh) - 1) ELSE sh
      BY <1>5, <2>1
    <2> QED
      BY <1>1, <2>1, <2>2, ShadowPop
  <1> QED
    BY <1>2, <1>3, <1>4, <1>5 DEF StackStep, StepOf

LEMMA ScopesKept ==
  ASSUME TypeOK, StackNests, NestingAgrees, StackStep, scopes' \in Seq(Scope)
  PROVE  ScopesAgree'
  <1>1. /\ stack \in Seq(Frame) /\ Len(stack) \in Nat \ {0} /\ Top = stack[Len(stack)]
        /\ DOMAIN stack = 1..Len(stack) /\ Len(stack) > 0
        /\ Len(scopes) \in Nat \ {0} /\ DOMAIN scopes = 1..Len(scopes)
        /\ DOMAIN scopes' = 1..Len(scopes')
    BY TopTypes, LenProperties DEF TypeOK
  <1>2. /\ Len(scopes) = 1 + Count(stack, Scoped, Len(stack))
        /\ \A i \in DOMAIN scopes :
             scopes[i].level = IF i = 1 THEN "file" ELSE IF i = 2 THEN "method" ELSE "block"
        /\ fn.on <=> \E i \in DOMAIN stack : stack[i].k = "body"
    BY DEF NestingAgrees, ScopesAgree, Open
  <1>3. CASE Stays
    <2>1. stack' = stack /\ Len(scopes') = Len(scopes) /\ fn'.on = fn.on
      BY <1>3 DEF Stays, nesting
    <2>2. DOMAIN scopes' = DOMAIN scopes /\ \A i \in DOMAIN scopes : scopes'[i].level = scopes[i].level
      BY <1>1, <1>3, <2>1 DEF Stays, KeepsLevels
    <2> QED
      BY <1>2, <2>1, <2>2 DEF ScopesAgree, Open
  <1>4. CASE ThenElse
    <2>1. /\ scopes' = scopes /\ fn' = fn
          /\ DOMAIN stack' = DOMAIN stack
          /\ Count(stack', Scoped, Len(stack')) = Count(stack, Scoped, Len(stack))
      <3>1. "then" \notin Scoped /\ "else" \notin Scoped
        BY DEF Scoped
      <3>2. Len(stack) \in 0..Len(stack)
        BY <1>1
      <3>3. scopes' = scopes /\ fn' = fn
        BY <1>4 DEF ThenElse
      <3>4. /\ Len(stack') = Len(stack) /\ DOMAIN stack' = DOMAIN stack
            /\ \A i \in 0..Len(stack) : Count(stack', Scoped, i) = Count(stack, Scoped, i)
        BY <1>4, <3>1, ElseCounts
      <3> QED
        BY <3>2, <3>3, <3>4
    <2>2. \A i \in DOMAIN stack : stack'[i].k = "body" <=> stack[i].k = "body"
      <3>1. \A i \in DOMAIN stack : stack'[i].k \in {"body"} <=> stack[i].k \in {"body"}
        BY <1>4, ElseCounts
      <3> QED
        BY <3>1
    <2> QED
      BY <1>2, <2>1, <2>2 DEF ScopesAgree, Open
  <1>5. ASSUME NEW k \in FrameKinds, NEW ty \in Nat, Opens(k, ty), WhereItMay(k)
        PROVE  ScopesAgree'
    <2> DEFINE f == [k |-> k, ty |-> ty]
    <2>1. f \in Frame /\ f.k = k /\ stack' = Append(stack, f)
      BY <1>5 DEF Frame, Opens
    <2>2. /\ Len(stack') = Len(stack) + 1 /\ DOMAIN stack' = 1..(Len(stack) + 1)
          /\ stack'[Len(stack) + 1] = f /\ \A i \in DOMAIN stack : stack'[i] = stack[i]
      BY <1>1, <2>1, AppendProperties, LenProperties
    <2> HIDE DEF f
    <2>3. Count(stack', Scoped, Len(stack')) =
            Count(stack, Scoped, Len(stack)) + (IF k \in Scoped THEN 1 ELSE 0)
      BY <1>1, <2>1, <2>2, CountPush
    <2>4. Len(scopes') = 1 + Count(stack', Scoped, Len(stack'))
      <3>1. Len(scopes') = IF k \in Scoped THEN Len(scopes) + 1 ELSE Len(scopes)
        BY <1>5 DEF Opens
      <3>2. Count(stack, Scoped, Len(stack)) \in Nat
        BY <1>1, CountType
      <3> QED
        BY <1>2, <2>3, <3>1, <3>2
    <2>5. ASSUME NEW i \in DOMAIN scopes'
          PROVE  scopes'[i].level = IF i = 1 THEN "file" ELSE IF i = 2 THEN "method" ELSE "block"
      <3>1. CASE i \in DOMAIN scopes
        BY <1>2, <1>5, <3>1 DEF Opens, KeepsLevels
      <3>2. CASE i \notin DOMAIN scopes
        <4>1. k \in Scoped /\ i = Len(scopes) + 1
          BY <1>1, <1>5, <3>2 DEF Opens
        <4>2. scopes'[i].level = IF k = "body" THEN "method" ELSE "block"
          BY <1>5, <4>1 DEF Opens
        <4>0. WhereItMay(k)
          BY <1>5
        <4>3. k = "body" => Len(scopes) = 1
          BY <4>0, WhereOnStack DEF WhereItMay
        <4>4. k # "body" => Len(scopes) > 1
          <5>1. k # "body" => k \in {"block"} \cup Sub
            BY <4>1 DEF Scoped, Sub
          <5>2. InFunction => Len(scopes) > 1
            BY WhereOnStack
          <5> QED
            BY <4>0, <5>1, <5>2 DEF WhereItMay
        <4>5. CASE k = "body"
          <5>0. Len(scopes) = 1 /\ i = Len(scopes) + 1
            BY <4>1, <4>3, <4>5
          <5>1. i = 2
            BY <5>0
          <5> QED
            BY <4>2, <4>5, <5>1
        <4>6. CASE k # "body"
          <5>1. i # 1 /\ i # 2
            BY <1>1, <4>1, <4>4, <4>6
          <5> QED
            BY <4>2, <4>6, <5>1
        <4> QED
          BY <4>5, <4>6
      <3> QED
        BY <3>1, <3>2
    <2>6. fn'.on <=> \E i \in DOMAIN stack' : stack'[i].k = "body"
      <3>1. fn'.on = (fn.on \/ k = "body")
        BY <1>5 DEF Opens
      <3>2. \A i \in DOMAIN stack' : i \in DOMAIN stack \/ i = Len(stack) + 1
        BY <1>1, <2>2
      <3>3. \A i \in DOMAIN stack : i \in DOMAIN stack'
        BY <1>1, <2>2
      <3>4. Len(stack) + 1 \in DOMAIN stack' /\ stack'[Len(stack) + 1].k = k
        BY <1>1, <2>1, <2>2
      <3> QED
        BY <1>2, <2>2, <3>1, <3>2, <3>3, <3>4
    <2> QED
      BY <2>4, <2>5, <2>6 DEF ScopesAgree, Open
  <1>6. ASSUME NEW k \in FrameKinds \ {"unit"}, Closes(k)
        PROVE  ScopesAgree'
    <2>0. Top.k = k /\ k # "unit" /\ stack' = SubSeq(stack, 1, Len(stack) - 1)
      BY <1>6 DEF Closes
    <2>1. Len(stack) > 1 /\ stack[Len(stack)].k = k
      BY <1>1, <2>0, WhereOnStack
    <2>2. /\ Len(stack') = Len(stack) - 1 /\ DOMAIN stack' = 1..(Len(stack) - 1)
          /\ \A i \in DOMAIN stack' : stack'[i] = stack[i]
      <3>1. /\ stack' \in Seq(Frame) /\ Len(stack') = Len(stack) - 1
            /\ \A i \in 1..(Len(stack) - 1) : stack'[i] = stack[i]
        BY <1>1, <2>0, WithoutLast
      <3> QED
        BY <3>1, LenProperties
    <2>3. Count(stack', Scoped, Len(stack')) =
            Count(stack, Scoped, Len(stack)) - (IF k \in Scoped THEN 1 ELSE 0)
      BY <1>1, <2>0, <2>1, <2>2, CountPop
    <2>4. Len(scopes') = 1 + Count(stack', Scoped, Len(stack'))
      <3>1. Len(scopes') = IF k \in Scoped THEN Len(scopes) - 1 ELSE Len(scopes)
        BY <1>6 DEF Closes
      <3>2. Count(stack, Scoped, Len(stack)) \in Nat
        BY <1>1, CountType
      <3> QED
        BY <1>2, <2>3, <3>1, <3>2
    <2>5. \A i \in DOMAIN scopes' :
            scopes'[i].level = IF i = 1 THEN "file" ELSE IF i = 2 THEN "method" ELSE "block"
      <3>0. Len(scopes') <= Len(scopes)
        <4>1. Len(scopes') = IF k \in Scoped THEN Len(scopes) - 1 ELSE Len(scopes)
          BY <1>6 DEF Closes
        <4>2. Len(scopes) \in Nat
          BY <1>1
        <4> QED
          BY <4>1, <4>2
      <3>1. \A i \in DOMAIN scopes' : i \in DOMAIN scopes
        <4>1. DOMAIN scopes' = 1..Len(scopes') /\ DOMAIN scopes = 1..Len(scopes)
          BY <1>1
        <4>2. Len(scopes') \in Nat /\ Len(scopes) \in Nat
          BY <1>1, LenProperties
        <4> QED
          BY <3>0, <4>1, <4>2
      <3> QED
        BY <1>2, <1>6, <3>1 DEF Closes, KeepsLevels
    <2>6. fn'.on <=> \E i \in DOMAIN stack' : stack'[i].k = "body"
      <3>1. fn'.on = (fn.on /\ k # "body")
        BY <1>6 DEF Closes, Leaves
      <3>2. CASE k = "body"
        <4>1. Len(stack) = 2
          BY <1>6, <3>2, WhereOnStack DEF Closes
        <4>2. \A i \in DOMAIN stack' : i = 1 /\ stack'[i].k = "unit"
          BY <2>2, <4>1 DEF StackNests
        <4> QED
          BY <3>1, <3>2, <4>2
      <3>3. CASE k # "body"
        <4>1. \A i \in DOMAIN stack : i \in DOMAIN stack' \/ i = Len(stack)
          BY <1>1, <2>2
        <4>2. (\E i \in DOMAIN stack : stack[i].k = "body") <=> \E i \in DOMAIN stack' : stack'[i].k = "body"
          BY <1>1, <2>1, <2>2, <3>3, <4>1
        <4> QED
          BY <1>2, <3>1, <3>3, <4>2
      <3> QED
        BY <3>2, <3>3
    <2> QED
      BY <2>4, <2>5, <2>6 DEF ScopesAgree, Open
  <1> QED
    BY <1>3, <1>4, <1>5, <1>6 DEF StackStep, StepOf

LEMMA NestingKept ==
  ASSUME TypeOK, StackNests, NestingAgrees, StackStep, scopes' \in Seq(Scope)
  PROVE  NestingAgrees'
  <1>1. ScopesAgree'
    BY ScopesKept
  <1>2. /\ loops \in Seq(LoopKinds) /\ Shadow(stack, LoopKinds, loops, "k")
        /\ switches \in Seq(Nat) /\ Shadow(stack, {"switch"}, switches, "ty")
    BY AgreeIsShadow DEF NestingAgrees, TypeOK
  <1>3. Shadow(stack', LoopKinds, loops', "k")
    <2>1. \A f \in Frame : f.k \in LoopKinds => Val(f, "k") \in LoopKinds
      BY DEF Val
    <2>2. UNCHANGED nesting \/ ThenElse => loops' = loops
      BY DEF nesting, ThenElse
    <2>3. \A k \in FrameKinds, ty \in Nat : Opens(k, ty) =>
            loops' = IF k \in LoopKinds THEN Append(loops, Val([k |-> k, ty |-> ty], "k")) ELSE loops
      BY DEF Opens, Val
    <2>4. \A k \in FrameKinds : Closes(k) =>
            loops' = IF k \in LoopKinds THEN SubSeq(loops, 1, Len(loops) - 1) ELSE loops
      BY DEF Closes
    <2> QED
      BY <1>2, <2>1, <2>2, <2>3, <2>4, ShadowKept
  <1>4. Shadow(stack', {"switch"}, switches', "ty")
    <2>0. {"switch"} # LoopKinds
      BY DEF LoopKinds
    <2>1. \A f \in Frame : f.k \in {"switch"} => Val(f, "ty") \in Nat
      BY DEF Val, Frame
    <2>2. UNCHANGED nesting \/ ThenElse => switches' = switches
      BY DEF nesting, ThenElse
    <2>3. \A k \in FrameKinds, ty \in Nat : Opens(k, ty) =>
            switches' = IF k \in {"switch"}
                        THEN Append(switches, Val([k |-> k, ty |-> ty], "ty")) ELSE switches
      BY DEF Opens, Val
    <2>4. \A k \in FrameKinds : Closes(k) =>
            switches' = IF k \in {"switch"} THEN SubSeq(switches, 1, Len(switches) - 1) ELSE switches
      BY DEF Closes
    <2> QED
      BY <1>2, <2>0, <2>1, <2>2, <2>3, <2>4, ShadowKept
  <1>5. LoopsAgree' /\ SwitchesAgree'
    BY <1>3, <1>4 DEF LoopsAgree, SwitchesAgree, Shadow, Open, Val
  <1> QED
    BY <1>1, <1>5 DEF NestingAgrees

(* Nothing but a struct is read in a struct. *)
LEMMA NoStructs ==
  ASSUME TypeOK, StackNests, Top.k # "struct"
  PROVE  \A i \in DOMAIN stack : stack[i].k # "struct"
  <1>1. /\ Len(stack) \in Nat \ {0} /\ DOMAIN stack = 1..Len(stack)
        /\ Top = stack[Len(stack)]
    BY TopTypes
  <1>2. \A i \in DOMAIN stack : Len(stack) \in i..Len(stack)
    BY <1>1
  <1> QED
    BY <1>1, <1>2 DEF StackNests

StatementsInFunction ==
  /\ tok.k \in StatementKinds \/ mode = "default" => InFunction
  /\ mode = "dosemi" => In({"do"})

LEMMA NestsKept ==
  ASSUME TypeOK, StackNests, NestingAgrees, StackStep, StatementsInFunction'
  PROVE  StackNests'
  <1> DEFINE Nests(q) ==
        /\ q[1].k = "unit"
        /\ \A i \in DOMAIN q :
             /\ q[i].k = "unit" => i = 1
             /\ q[i].k = "body" => i = 2
             /\ q[i].k \in Sub \cup {"block"} => i > 2 /\ q[2].k = "body"
             /\ q[i].k = "struct" => \A j \in i..Len(q) : q[j].k = "struct"
  <1>0. Nests(stack)
    BY DEF StackNests
  <1>1. /\ stack \in Seq(Frame) /\ Len(stack) \in Nat \ {0} /\ Top = stack[Len(stack)]
        /\ DOMAIN stack = 1..Len(stack) /\ Len(stack) > 0
    BY TopTypes DEF TypeOK
  <1>2. SUFFICES Nests(stack')
    BY DEF StackNests, StatementsInFunction
  <1>3. CASE Stays
    BY <1>0, <1>3 DEF Stays, nesting
  <1>4. CASE ThenElse
    <2>1. /\ stack' = [stack EXCEPT ![Len(stack)].k = "else"] /\ stack[Len(stack)].k = "then"
          /\ DOMAIN stack' = DOMAIN stack /\ Len(stack') = Len(stack)
      BY <1>1, <1>4, ElseCounts DEF ThenElse
    <2>2. \A i \in DOMAIN stack : i # Len(stack) => stack'[i] = stack[i]
      BY <1>1, <2>1
    <2>3. stack'[Len(stack)].k = "else"
      <3>1. stack[Len(stack)] \in Frame
        BY <1>1, TopTypes
      <3> QED
        BY <1>1, <2>1, <3>1 DEF Frame
    <2>4. Len(stack) > 2 /\ stack[2].k = "body" /\ 1 \in DOMAIN stack /\ 2 \in DOMAIN stack
      BY <1>0, <1>1, <2>1 DEF Sub
    <2>5. \A i \in DOMAIN stack : stack[i].k # "struct" /\ stack'[i].k # "struct"
      <3>1. Top.k # "struct"
        BY <1>1, <2>1
      <3> QED
        BY <1>1, <2>1, <2>2, <2>3, <3>1, NoStructs
    <2> QED
      BY <1>0, <1>1, <2>1, <2>2, <2>3, <2>4, <2>5 DEF Sub
  <1>5. ASSUME NEW k \in FrameKinds \ {"unit"}, NEW ty \in Nat, Opens(k, ty), WhereItMay(k)
        PROVE  Nests(stack')
    <2>1. stack' = Append(stack, [k |-> k, ty |-> ty]) /\ WhereItMay(k)
      BY <1>5 DEF Opens
    <2>2. /\ Len(stack') = Len(stack) + 1 /\ DOMAIN stack' = 1..(Len(stack) + 1)
          /\ stack'[Len(stack) + 1].k = k /\ \A i \in 1..Len(stack) : stack'[i] = stack[i]
      BY <1>1, <2>1, PushTypes, LenProperties
    <2>3. /\ k = "body" => Len(stack) = 1
          /\ k \in {"block"} \cup Sub => Len(stack) > 1 /\ stack[2].k = "body"
      BY <2>1, WhereOnStack DEF WhereItMay
    <2>4. k # "struct" => \A i \in DOMAIN stack : stack[i].k # "struct"
      <3>1. k # "struct" => k \in {"body", "block"} \cup Sub
        BY DEF FrameKinds, DeclKinds
      <3>2. k # "struct" => Top.k # "struct"
        BY <1>0, <1>1, <2>1, <3>1 DEF WhereItMay, InFunction, In, Sub
      <3> QED
        BY <3>2, NoStructs
    <2>5. ASSUME NEW i \in DOMAIN stack'
          PROVE  /\ stack'[i].k = "unit" => i = 1
                 /\ stack'[i].k = "body" => i = 2
                 /\ stack'[i].k \in Sub \cup {"block"} => i > 2 /\ stack'[2].k = "body"
                 /\ stack'[i].k = "struct" => \A j \in i..Len(stack') : stack'[j].k = "struct"
      <3>1. CASE i = Len(stack) + 1
        BY <1>1, <2>2, <2>3, <3>1
      <3>2. CASE i \in DOMAIN stack
        <4>1. /\ stack'[i] = stack[i] /\ (i > 2 => stack'[2] = stack[2])
              /\ \A j \in i..Len(stack') : j \in 1..Len(stack) \/ j = Len(stack) + 1
          BY <1>1, <2>2, <3>2
        <4>2. stack[i].k = "struct" => k = "struct" /\ \A j \in i..Len(stack) : stack[j].k = "struct"
          BY <1>0, <2>4, <3>2
        <4>3. stack[i].k = "struct" => \A j \in i..Len(stack') : stack'[j].k = "struct"
          BY <1>1, <2>2, <3>2, <4>1, <4>2
        <4> QED
          BY <1>0, <3>2, <4>1, <4>3
      <3> QED
        BY <1>1, <2>2, <3>1, <3>2
    <2>6. stack'[1].k = "unit"
      BY <1>0, <1>1, <2>2
    <2> QED
      BY <2>5, <2>6
  <1>6. ASSUME NEW k \in FrameKinds \ {"unit"}, Closes(k)
        PROVE  Nests(stack')
    <2>1. Top.k = k /\ k # "unit" /\ stack' = SubSeq(stack, 1, Len(stack) - 1)
      BY <1>6 DEF Closes
    <2>2. Len(stack) > 1
      BY <1>1, <2>1, WhereOnStack
    <2>3. /\ Len(stack') = Len(stack) - 1 /\ DOMAIN stack' = 1..(Len(stack) - 1)
          /\ \A i \in DOMAIN stack' : i \in DOMAIN stack /\ stack'[i] = stack[i]
      <3>1. /\ stack' \in Seq(Frame) /\ Len(stack') = Len(stack) - 1
            /\ \A i \in 1..(Len(stack) - 1) : stack'[i] = stack[i]
        BY <1>1, <2>1, WithoutLast
      <3> QED
        BY <1>1, <3>1, LenProperties
    <2>4. \A i \in DOMAIN stack' : \A j \in i..Len(stack') : j \in i..Len(stack) /\ j \in DOMAIN stack'
      BY <1>1, <2>3
    <2>5. \A i \in DOMAIN stack' : (i > 2 => stack'[2] = stack[2]) /\ stack'[1] = stack[1]
      BY <1>1, <2>2, <2>3
    <2>6. 1 \in DOMAIN stack'
      BY <1>1, <2>2, <2>3
    <2>7. ASSUME NEW i \in DOMAIN stack'
          PROVE  /\ stack'[i].k = "unit" => i = 1
                 /\ stack'[i].k = "body" => i = 2
                 /\ stack'[i].k \in Sub \cup {"block"} => i > 2 /\ stack'[2].k = "body"
                 /\ stack'[i].k = "struct" => \A j \in i..Len(stack') : stack'[j].k = "struct"
      <3>1. i \in DOMAIN stack /\ stack'[i] = stack[i] /\ (i > 2 => stack'[2] = stack[2])
        BY <2>3, <2>5
      <3>2. /\ stack[i].k = "unit" => i = 1
            /\ stack[i].k = "body" => i = 2
            /\ stack[i].k \in Sub \cup {"block"} => i > 2 /\ stack[2].k = "body"
            /\ stack[i].k = "struct" => \A j \in i..Len(stack) : stack[j].k = "struct"
        BY <1>0, <3>1
      <3>3. stack[i].k = "struct" => \A j \in i..Len(stack') : stack'[j].k = "struct"
        BY <2>3, <2>4, <3>2
      <3> QED
        BY <3>1, <3>2, <3>3
    <2>8. stack'[1].k = "unit"
      BY <1>0, <2>5, <2>6
    <2> QED
      BY <2>7, <2>8
  <1> HIDE DEF Nests
  <1> QED
    BY <1>3, <1>4, <1>5, <1>6 DEF StackStep, StepOf

(* When a statement is over, what it was the body of is in a function.     *)
LEMMA PoppedInFunction ==
  ASSUME TypeOK, StackNests, Top.k \in Sub \cup {"block"},
         stack' = SubSeq(stack, 1, Len(stack) - 1)
  PROVE  InFunction'
  <1>1. /\ stack \in Seq(Frame) /\ Len(stack) \in Nat \ {0} /\ Top = stack[Len(stack)]
        /\ DOMAIN stack = 1..Len(stack) /\ Len(stack) > 0
    BY TopTypes DEF TypeOK
  <1>2. Len(stack) > 2 /\ stack[2].k = "body"
    BY <1>1 DEF StackNests
  <1>3. /\ Len(stack') = Len(stack) - 1 /\ stack'[Len(stack) - 1] = stack[Len(stack) - 1]
        /\ Len(stack) - 1 \in DOMAIN stack
    BY <1>1, <1>2, WithoutLast
  <1>4. \A i \in DOMAIN stack : stack[i].k # "struct"
    <2>1. Top.k # "struct"
      BY DEF Sub
    <2> QED
      BY <2>1, NoStructs
  <1>5. stack[Len(stack) - 1].k \in FrameKinds
    <2>1. stack[Len(stack) - 1] \in Frame
      BY <1>1, <1>3
    <2> QED
      BY <2>1 DEF Frame
  <1>6. stack[Len(stack) - 1].k # "unit" /\ stack[Len(stack) - 1].k # "struct"
    <2>1. Len(stack) - 1 # 1
      BY <1>1, <1>2
    <2> QED
      BY <1>3, <1>4, <2>1 DEF StackNests
  <1>7. Top'.k \in {"body", "block"} \cup Sub
    BY <1>3, <1>5, <1>6 DEF Top, FrameKinds, DeclKinds
  <1> QED
    BY <1>7 DEF InFunction, In

-----------------------------------------------------------------------------
(* What the operations on the tables keep                                  *)

Has(l, id) == \E h \in DOMAIN l : l[h] = id
Lists(m, l) == \A j \in DOMAIN l : Has(m, l[j])
LocalsIn(sc, locals) ==
  \A i \in 2..Len(sc) : \A n \in Names :
    sc[i].syms[n].id # 0 /\ sc[i].syms[n].ty # "constant"
      => \E j \in DOMAIN locals : locals[j] = sc[i].syms[n].id
TagsIn(sc, types) ==
  \A i \in DOMAIN sc : \A s \in Tags :
    sc[i].tags[s] # 0 => sc[i].tags[s] \in DOMAIN types /\ types[sc[i].tags[s]].s = s
NoTypedefs(sc, n) == \A i \in DOMAIN sc : sc[i].types[n].id = 0
NoSyms(sc, n) == \A i \in DOMAIN sc : sc[i].syms[n].id = 0
OneRole(sc) == \A n \in Names : NoTypedefs(sc, n) \/ NoSyms(sc, n)

LEMMA TablesIn ==
  /\ LocalsRecorded <=> LocalsIn(scopes, fn.locals)
  /\ TagsKnown <=> TagsIn(scopes, ctypes)
  /\ Unmixed <=> ("mixed" \notin events => OneRole(scopes))
  /\ LocalsRecorded' <=> LocalsIn(scopes', fn'.locals)
  /\ TagsKnown' <=> TagsIn(scopes', ctypes')
  /\ Unmixed' <=> ("mixed" \notin events' => OneRole(scopes'))
  BY DEF LocalsRecorded, LocalsIn, TagsKnown, TagsIn, Unmixed, OneRole, NoTypedefs, NoSyms

(* A name is visible where some scope has it. *)
LEMMA VisibleIs ==
  ASSUME NEW sc \in Seq(Scope), NEW n \in Names
  PROVE  /\ Sym(sc, n).id = 0 <=> NoSyms(sc, n)
         /\ IsTypedefName(sc, n) <=> ~NoTypedefs(sc, n)
  <1>1. DOMAIN sc = 1..Len(sc) /\ Len(sc) \in Nat
    BY LenProperties
  <1>2. Sym(sc, n).id = 0 <=> NoSyms(sc, n)
    <2> DEFINE D == {i \in DOMAIN sc : sc[i].syms[n].id # 0}
    <2>1. D # {} => LastOf(D) \in D
      BY <1>1, Greatest
    <2>2. D = {} <=> NoSyms(sc, n)
      BY DEF NoSyms
    <2>3. Sym(sc, n) = IF D = {} THEN NoEntry ELSE sc[LastOf(D)].syms[n]
      BY DEF Sym
    <2>4. \A k \in D : sc[k].syms[n].id # 0
      OBVIOUS
    <2> HIDE DEF D
    <2>5. CASE D = {}
      BY <2>2, <2>3, <2>5 DEF NoEntry
    <2>6. CASE D # {}
      BY <2>1, <2>2, <2>3, <2>4, <2>6 DEF NoEntry
    <2> QED
      BY <2>5, <2>6
  <1>3. IsTypedefName(sc, n) <=> ~NoTypedefs(sc, n)
    <2> DEFINE D == {i \in DOMAIN sc : sc[i].types[n].id # 0}
    <2>1. D # {} => LastOf(D) \in D
      BY <1>1, Greatest
    <2>2. D = {} <=> NoTypedefs(sc, n)
      BY DEF NoTypedefs
    <2>3. Typedef(sc, n) = IF D = {} THEN NoEntry ELSE sc[LastOf(D)].types[n]
      BY DEF Typedef
    <2>4. \A k \in D : sc[k].types[n].id # 0
      OBVIOUS
    <2> HIDE DEF D
    <2>5. CASE D = {}
      BY <2>2, <2>3, <2>5 DEF NoEntry, IsTypedefName
    <2>6. CASE D # {}
      BY <2>1, <2>2, <2>3, <2>4, <2>6 DEF NoEntry, IsTypedefName
    <2> QED
      BY <2>5, <2>6
  <1> QED
    BY <1>2, <1>3

(* One more declaration in the innermost scope. *)
LEMMA AddSymKeeps ==
  ASSUME NEW sc \in Seq(Scope), Len(sc) > 0, NEW n \in Names, NEW e \in Entry
  PROVE  /\ \A l, m : LocalsIn(sc, l) /\ Lists(m, l)
                      /\ (Len(sc) = 1 \/ e.ty = "constant" \/ Has(m, e.id))
                   => LocalsIn(AddSym(sc, n, e), m)
         /\ \A types : TagsIn(sc, types) <=> TagsIn(AddSym(sc, n, e), types)
         /\ \A m \in Names : NoTypedefs(sc, m) => NoTypedefs(AddSym(sc, n, e), m)
         /\ OneRole(sc) /\ NoTypedefs(sc, n) => OneRole(AddSym(sc, n, e))
         /\ \A s \in Tags : CurrentTag(AddSym(sc, n, e), s) = CurrentTag(sc, s)
  <1> DEFINE new == AddSym(sc, n, e)
  <1>1. /\ new \in Seq(Scope) /\ Len(new) = Len(sc)
        /\ \A i \in DOMAIN sc :
             /\ new[i].level = sc[i].level /\ new[i].types = sc[i].types
             /\ new[i].tags = sc[i].tags
             /\ \A m \in Names : new[i].syms[m] =
                       IF i = Len(sc) /\ m = n THEN e ELSE sc[i].syms[m]
    BY AddSymIs
  <1>2. DOMAIN new = DOMAIN sc /\ DOMAIN sc = 1..Len(sc) /\ Len(sc) \in Nat
    BY <1>1, LenProperties
  <1> HIDE DEF new
  <1>3. ASSUME NEW l, NEW m, LocalsIn(sc, l), Lists(m, l),
               Len(sc) = 1 \/ e.ty = "constant" \/ Has(m, e.id)
        PROVE  LocalsIn(new, m)
    <2> SUFFICES ASSUME NEW i \in 2..Len(new), NEW x \in Names,
                        new[i].syms[x].id # 0, new[i].syms[x].ty # "constant"
                 PROVE  \E j \in DOMAIN m : m[j] = new[i].syms[x].id
      BY DEF LocalsIn
    <2>1. i \in DOMAIN sc /\ i \in 2..Len(sc) /\ Len(sc) # 1
      BY <1>1, <1>2
    <2>2. CASE i = Len(sc) /\ x = n
      BY <1>1, <1>3, <2>1, <2>2 DEF Has
    <2>3. CASE ~(i = Len(sc) /\ x = n)
      <3>1. new[i].syms[x] = sc[i].syms[x]
        BY <1>1, <2>1, <2>3
      <3>2. PICK j \in DOMAIN l : l[j] = new[i].syms[x].id
        BY <1>3, <2>1, <3>1 DEF LocalsIn
      <3> QED
        BY <1>3, <3>2 DEF Lists, Has
    <2> QED
      BY <2>2, <2>3
  <1>4. \A types : TagsIn(sc, types) <=> TagsIn(new, types)
    BY <1>1, <1>2 DEF TagsIn
  <1>5. \A m \in Names : NoTypedefs(sc, m) => NoTypedefs(new, m)
    BY <1>1, <1>2 DEF NoTypedefs
  <1>6. OneRole(sc) /\ NoTypedefs(sc, n) => OneRole(new)
    <2>1. \A m \in Names : m # n /\ NoSyms(sc, m) => NoSyms(new, m)
      BY <1>1, <1>2 DEF NoSyms
    <2> QED
      BY <1>5, <2>1 DEF OneRole
  <1>7. \A s \in Tags : CurrentTag(new, s) = CurrentTag(sc, s)
    BY <1>1, <1>2 DEF CurrentTag, Inner
  <1> QED
    BY <1>3, <1>4, <1>5, <1>6, <1>7 DEF new

LEMMA AddTypeKeeps ==
  ASSUME NEW sc \in Seq(Scope), Len(sc) > 0, NEW n \in Names, NEW e \in Entry
  PROVE  /\ \A l : LocalsIn(sc, l) => LocalsIn(AddType(sc, n, e), l)
         /\ \A types : TagsIn(sc, types) <=> TagsIn(AddType(sc, n, e), types)
         /\ OneRole(sc) /\ NoSyms(sc, n) => OneRole(AddType(sc, n, e))
         /\ \A s \in Tags : CurrentTag(AddType(sc, n, e), s) = CurrentTag(sc, s)
  <1> DEFINE new == AddType(sc, n, e)
  <1>1. /\ new \in Seq(Scope) /\ Len(new) = Len(sc)
        /\ \A i \in DOMAIN sc :
             /\ new[i].level = sc[i].level /\ new[i].syms = sc[i].syms
             /\ new[i].tags = sc[i].tags
             /\ \A m \in Names : new[i].types[m] =
                       IF i = Len(sc) /\ m = n THEN e ELSE sc[i].types[m]
    BY AddTypeIs
  <1>2. DOMAIN new = DOMAIN sc /\ DOMAIN sc = 1..Len(sc) /\ Len(sc) \in Nat
    BY <1>1, LenProperties
  <1> HIDE DEF new
  <1>3. \A l : LocalsIn(sc, l) => LocalsIn(new, l)
    <2>1. \A i \in 2..Len(new) : i \in DOMAIN sc /\ i \in 2..Len(sc)
      BY <1>1, <1>2
    <2> QED
      BY <1>1, <2>1 DEF LocalsIn
  <1>4. \A types : TagsIn(sc, types) <=> TagsIn(new, types)
    BY <1>1, <1>2 DEF TagsIn
  <1>5. OneRole(sc) /\ NoSyms(sc, n) => OneRole(new)
    <2>1. \A m \in Names : NoSyms(sc, m) => NoSyms(new, m)
      BY <1>1, <1>2 DEF NoSyms
    <2>2. \A m \in Names : m # n /\ NoTypedefs(sc, m) => NoTypedefs(new, m)
      BY <1>1, <1>2 DEF NoTypedefs
    <2> QED
      BY <2>1, <2>2 DEF OneRole
  <1>6. \A s \in Tags : CurrentTag(new, s) = CurrentTag(sc, s)
    BY <1>1, <1>2 DEF CurrentTag, Inner
  <1> QED
    BY <1>3, <1>4, <1>5, <1>6 DEF new

(* A scope that is opened or closed. *)
LEMMA PushKeeps ==
  ASSUME NEW sc \in Seq(Scope), Len(sc) > 0, NEW level \in Levels
  PROVE  /\ \A l : LocalsIn(sc, l) => LocalsIn(Push(sc, level), l)
         /\ \A types : TagsIn(sc, types) => TagsIn(Push(sc, level), types)
         /\ \A m \in Names : NoTypedefs(sc, m) => NoTypedefs(Push(sc, level), m)
         /\ OneRole(sc) => OneRole(Push(sc, level))
  <1> DEFINE new == Push(sc, level)
             L == Len(sc) + 1
  <1>1. /\ new \in Seq(Scope) /\ Len(new) = L
        /\ \A i \in DOMAIN sc : new[i] = sc[i]
    BY PushIs
  <1>2. /\ \A n \in Names : new[L].syms[n].id = 0 /\ new[L].types[n].id = 0
        /\ \A s \in Tags : new[L].tags[s] = 0
    <2>1. new[L] = NewScope(level)
      BY PushIs
    <2> QED
      BY <2>1 DEF NewScope, NoEntry
  <1>3. /\ \A i \in DOMAIN new : i \in DOMAIN sc \/ i = L
        /\ \A i \in DOMAIN sc : i \in DOMAIN new
        /\ \A i \in 2..L : (i \in 2..Len(sc) /\ i \in DOMAIN sc) \/ i = L
    BY <1>1, LenProperties
  <1> HIDE DEF new, L
  <1>4. \A l : LocalsIn(sc, l) => LocalsIn(new, l)
    BY <1>1, <1>2, <1>3 DEF LocalsIn
  <1>5. \A types : TagsIn(sc, types) => TagsIn(new, types)
    BY <1>1, <1>2, <1>3 DEF TagsIn
  <1>6. \A m \in Names : /\ NoTypedefs(sc, m) => NoTypedefs(new, m)
                         /\ NoSyms(sc, m) => NoSyms(new, m)
    BY <1>1, <1>2, <1>3 DEF NoTypedefs, NoSyms
  <1>7. OneRole(sc) => OneRole(new)
    BY <1>6 DEF OneRole
  <1> QED
    BY <1>4, <1>5, <1>6, <1>7 DEF new

LEMMA PopKeeps ==
  ASSUME NEW sc \in Seq(Scope), Len(sc) > 1
  PROVE  /\ \A l : LocalsIn(sc, l) => LocalsIn(Pop(sc), l)
         /\ \A types : TagsIn(sc, types) => TagsIn(Pop(sc), types)
         /\ OneRole(sc) => OneRole(Pop(sc))
  <1> DEFINE new == Pop(sc)
  <1>1. /\ new \in Seq(Scope) /\ Len(new) = Len(sc) - 1 /\ Len(sc) \in Nat
        /\ \A i \in 1..(Len(sc) - 1) : new[i] = sc[i]
    BY PopIs, LenProperties
  <1>2. /\ \A i \in DOMAIN new : i \in DOMAIN sc /\ new[i] = sc[i]
        /\ \A i \in 2..Len(new) : i \in 2..Len(sc) /\ new[i] = sc[i]
    BY <1>1, LenProperties
  <1> HIDE DEF new
  <1>3. \A l : LocalsIn(sc, l) => LocalsIn(new, l)
    BY <1>2 DEF LocalsIn
  <1>4. \A types : TagsIn(sc, types) => TagsIn(new, types)
    BY <1>2 DEF TagsIn
  <1>5. \A m \in Names : /\ NoTypedefs(sc, m) => NoTypedefs(new, m)
                         /\ NoSyms(sc, m) => NoSyms(new, m)
    BY <1>2 DEF NoTypedefs, NoSyms
  <1>6. OneRole(sc) => OneRole(new)
    BY <1>5 DEF OneRole
  <1> QED
    BY <1>3, <1>4, <1>6 DEF new

(* A declaration is listed with the function's objects, in a function.     *)
LEMMA LocalListed ==
  ASSUME NEW f \in Function, NEW e \in Entry, NEW isFile \in BOOLEAN
  PROVE  LET g == WithLocal(f, e, isFile)
         IN  /\ g \in Function /\ g.on = f.on
             /\ Lists(g.locals, f.locals)
             /\ f.on /\ ~isFile /\ e.ty # "constant" => Has(g.locals, e.id)
  <1>1. AsLocal(e) \in Nat /\ f.locals \in Seq(Nat) /\ Len(f.locals) \in Nat
    BY LenProperties DEF AsLocal, Entry, Function
  <1>2. /\ Append(f.locals, AsLocal(e)) \in Seq(Nat)
        /\ DOMAIN Append(f.locals, AsLocal(e)) = 1..(Len(f.locals) + 1)
        /\ Append(f.locals, AsLocal(e))[Len(f.locals) + 1] = AsLocal(e)
        /\ DOMAIN f.locals = 1..Len(f.locals)
        /\ \A j \in 1..Len(f.locals) : Append(f.locals, AsLocal(e))[j] = f.locals[j]
    BY <1>1, AppendProperties, LenProperties
  <1>3. CASE f.on /\ ~isFile
    <2>1. /\ WithLocal(f, e, isFile) \in Function
          /\ WithLocal(f, e, isFile).on = f.on
          /\ WithLocal(f, e, isFile).locals = Append(f.locals, AsLocal(e))
      BY <1>2, <1>3 DEF WithLocal, Function
    <2>2. Len(f.locals) + 1 \in 1..(Len(f.locals) + 1)
      BY <1>1
    <2>3. \A j \in DOMAIN f.locals : j \in 1..(Len(f.locals) + 1)
      BY <1>1, <1>2
    <2>4. e.ty # "constant" => AsLocal(e) = e.id
      BY DEF AsLocal
    <2> QED
      BY <1>2, <2>1, <2>2, <2>3, <2>4 DEF Has, Lists
  <1>4. CASE ~(f.on /\ ~isFile)
    <2>1. WithLocal(f, e, isFile) = f
      BY <1>4 DEF WithLocal
    <2> QED
      BY <1>4, <2>1 DEF Has, Lists
  <1> QED
    BY <1>3, <1>4

(* A new type for a tag, if its tag has none that counts here. *)
LEMMA TagStep ==
  ASSUME TypeOK, TagsKnown, NEW s \in Tags, NEW kw \in {"struct", "enum"}, NEW next, NEW t,
         t = TypeFor(CurrentTag(scopes, s), TagOf(scopes, s), next)
  PROVE  /\ ScopesWith(t, s) \in Seq(Scope) /\ Len(ScopesWith(t, s)) = Len(scopes)
         /\ TypesWith(t, kw, s) \in Seq(CType)
         /\ DOMAIN ctypes \subseteq DOMAIN TypesWith(t, kw, s)
         /\ \A u \in DOMAIN ctypes : TypesWith(t, kw, s)[u] = ctypes[u]
         /\ \A u \in DOMAIN TypesWith(t, kw, s) :
              u \notin DOMAIN ctypes => ~TypesWith(t, kw, s)[u].complete
         /\ IdOf(t) \in DOMAIN TypesWith(t, kw, s) /\ IdOf(t) \in Nat
         /\ TypesWith(t, kw, s)[IdOf(t)].s = s
         /\ next \in {"lbrace", "semi"} => CurrentTag(ScopesWith(t, s), s) = IdOf(t)
         /\ \A r \in Tags : CurrentTag(scopes, r) # 0 =>
              CurrentTag(ScopesWith(t, s), r) = CurrentTag(scopes, r)
         /\ TagsIn(ScopesWith(t, s), TypesWith(t, kw, s))
         /\ \A i \in DOMAIN scopes :
              /\ ScopesWith(t, s)[i].level = scopes[i].level
              /\ ScopesWith(t, s)[i].syms = scopes[i].syms
              /\ ScopesWith(t, s)[i].types = scopes[i].types
  <1> DEFINE cur == CurrentTag(scopes, s)
             all == TagOf(scopes, s)
             fresh == Len(ctypes) + 1
  <1>1. /\ scopes \in Seq(Scope) /\ Len(scopes) > 0 /\ ctypes \in Seq(CType)
        /\ Len(ctypes) \in Nat /\ DOMAIN ctypes = 1..Len(ctypes)
        /\ Len(scopes) \in Nat /\ DOMAIN scopes = 1..Len(scopes)
        /\ Len(scopes) \in DOMAIN scopes
    BY LenProperties DEF TypeOK
  <1>2. cur \in Nat /\ all \in Nat
    BY <1>1, LookupTypes
  <1>3. cur # 0 => all = cur
    BY <1>1, CurrentFound
  <1>4. all # 0 => all \in DOMAIN ctypes /\ ctypes[all].s = s
    <2> DEFINE D == {i \in DOMAIN scopes : scopes[i].tags[s] # 0}
    <2>1. D # {} => LastOf(D) \in D
      BY <1>1, Greatest
    <2>2. all = IF D = {} THEN 0 ELSE scopes[LastOf(D)].tags[s]
      BY DEF TagOf
    <2> QED
      BY <2>1, <2>2 DEF TagsKnown
  <1>5. t = IF all = 0 \/ (cur = 0 /\ next \in {"semi", "lbrace"}) THEN 0 ELSE all
    BY DEF TypeFor
  <1> HIDE DEF cur, all
  <1>6. CASE t = 0
    <2>1. cur = 0
      BY <1>2, <1>3, <1>5, <1>6
    <2>2. NewType(kw, s) \in CType /\ NewType(kw, s).s = s /\ ~NewType(kw, s).complete
      BY DEF NewType, CType
    <2>3. /\ TypesWith(t, kw, s) = Append(ctypes, NewType(kw, s))
          /\ ScopesWith(t, s) = AddTag(scopes, s, fresh) /\ IdOf(t) = fresh
          /\ fresh \in Nat
      BY <1>1, <1>6 DEF TypesWith, ScopesWith, IdOf
    <2> DEFINE new == Append(ctypes, NewType(kw, s))
               sc == AddTag(scopes, s, fresh)
    <2>4. /\ new \in Seq(CType) /\ DOMAIN new = 1..fresh /\ fresh \in DOMAIN new
          /\ \A u \in DOMAIN ctypes : u \in DOMAIN new /\ new[u] = ctypes[u]
          /\ \A u \in DOMAIN new : u \notin DOMAIN ctypes => u = fresh
          /\ new[fresh] = NewType(kw, s)
      BY <1>1, <2>2, AppendProperties, LenProperties
    <2> HIDE DEF fresh, new
    <2>5. /\ sc \in Seq(Scope) /\ Len(sc) = Len(scopes)
          /\ \A i \in DOMAIN scopes :
               /\ sc[i].level = scopes[i].level /\ sc[i].syms = scopes[i].syms
               /\ sc[i].types = scopes[i].types
               /\ \A r \in Tags : sc[i].tags[r] =
                       IF i = Len(scopes) /\ r = s THEN fresh ELSE scopes[i].tags[r]
      BY <1>1, <2>3, AddTagIs
    <2> HIDE DEF sc
    <2>6. DOMAIN sc = DOMAIN scopes
      BY <1>1, <2>5, LenProperties
    <2>7. TagsIn(sc, new)
      <3> SUFFICES ASSUME NEW i \in DOMAIN scopes, NEW r \in Tags, sc[i].tags[r] # 0
                   PROVE  sc[i].tags[r] \in DOMAIN new /\ new[sc[i].tags[r]].s = r
        BY <2>6 DEF TagsIn
      <3>1. CASE i = Len(scopes) /\ r = s
        BY <2>2, <2>4, <2>5, <3>1
      <3>2. CASE ~(i = Len(scopes) /\ r = s)
        <4>1. sc[i].tags[r] = scopes[i].tags[r]
          BY <2>5, <3>2
        <4> QED
          BY <2>4, <4>1 DEF TagsKnown
      <3> QED
        BY <3>1, <3>2
    <2>8. /\ CurrentTag(sc, s) = fresh
          /\ \A r \in Tags : r # s => CurrentTag(sc, r) = CurrentTag(scopes, r)
      BY <1>1, <2>5 DEF CurrentTag, Inner
    <2>9. \A r \in Tags : CurrentTag(scopes, r) # 0 => CurrentTag(sc, r) = CurrentTag(scopes, r)
      BY <2>1, <2>8 DEF cur
    <2> QED
      BY <2>2, <2>3, <2>4, <2>5, <2>7, <2>8, <2>9 DEF new, sc
  <1>7. CASE t # 0
    <2>1. TypesWith(t, kw, s) = ctypes /\ ScopesWith(t, s) = scopes /\ IdOf(t) = t /\ t = all
      BY <1>5, <1>7 DEF TypesWith, ScopesWith, IdOf
    <2>2. next \in {"lbrace", "semi"} => cur = t
      BY <1>3, <1>5, <1>7
    <2>3. t \in DOMAIN ctypes /\ ctypes[t].s = s /\ t \in Nat
      BY <1>2, <1>4, <1>7, <2>1
    <2>4. TagsIn(scopes, ctypes)
      BY TablesIn
    <2> QED
      BY <1>1, <2>1, <2>2, <2>3, <2>4 DEF cur
  <1> QED
    BY <1>6, <1>7

(* A type whose members are known is the same type. *)
LEMMA CompletedIs ==
  ASSUME NEW types \in Seq(CType), NEW t \in DOMAIN types
  PROVE  /\ Completed(types, t) \in Seq(CType)
         /\ DOMAIN Completed(types, t) = DOMAIN types
         /\ \A u \in DOMAIN types : /\ Completed(types, t)[u].s = types[u].s
                                    /\ Completed(types, t)[u].kw = types[u].kw
                                    /\ u # t => Completed(types, t)[u] = types[u]
         /\ \A sc : TagsIn(sc, types) => TagsIn(sc, Completed(types, t))
  <1> DEFINE new == [types[t] EXCEPT !.complete = TRUE]
  <1>1. types[t] \in CType
    OBVIOUS
  <1>2. new \in CType /\ new.s = types[t].s /\ new.kw = types[t].kw
    BY <1>1 DEF CType
  <1>3. Completed(types, t) = [types EXCEPT ![t] = new]
    BY DEF Completed
  <1> HIDE DEF new
  <1>4. /\ Completed(types, t) \in Seq(CType)
        /\ DOMAIN Completed(types, t) = DOMAIN types
    BY <1>2, <1>3, ExceptSeq
  <1>5. \A u \in DOMAIN types : /\ Completed(types, t)[u].s = types[u].s
                                /\ Completed(types, t)[u].kw = types[u].kw
                                /\ u # t => Completed(types, t)[u] = types[u]
    BY <1>2, <1>3
  <1>6. \A sc : TagsIn(sc, types) => TagsIn(sc, Completed(types, t))
    BY <1>4, <1>5 DEF TagsIn
  <1> QED
    BY <1>4, <1>5, <1>6

-----------------------------------------------------------------------------
(* What keeps the invariant                                                *)

LEMMA HeadKept ==
  ASSUME HeadIsCurrent,
         \/ mode' # "tag" /\ head' \in {head, NoHead}
         \/ UNCHANGED <<mode, head, scopes>>
  PROVE  HeadIsCurrent'
  <1>1. NoHead \in [s : Tags \cup {NoName}, cur : Nat, all : Nat]
    BY DEF NoHead
  <1>2. CASE mode' # "tag" /\ head' \in {head, NoHead}
    BY <1>1, <1>2 DEF HeadIsCurrent
  <1>3. CASE UNCHANGED <<mode, head, scopes>>
    BY <1>3 DEF HeadIsCurrent
  <1> QED
    BY <1>2, <1>3

(* A struct whose members are read is still what its tag stands for.       *)
LEMMA MembersKept ==
  ASSUME TypeOK, StackNests, NestingAgrees, MembersOfOwnTag, PlainStep,
         \/ Top.k # "struct"
         \/ /\ \A t \in DOMAIN ctypes : t \in DOMAIN ctypes' /\ ctypes'[t].s = ctypes[t].s
            /\ \A s \in Tags : CurrentTag(scopes, s) # 0 =>
                                 CurrentTag(scopes', s) = CurrentTag(scopes, s)
  PROVE  MembersOfOwnTag'
  <1>1. /\ stack \in Seq(Frame) /\ Len(stack) \in Nat \ {0} /\ Top = stack[Len(stack)]
        /\ DOMAIN stack = 1..Len(stack) /\ Len(stack) > 0
        /\ ctypes \in Seq(CType) /\ DOMAIN ctypes = 1..Len(ctypes)
    BY TopTypes, LenProperties DEF TypeOK
  <1>2. \A i \in DOMAIN stack' : stack'[i].k = "struct" => i \in DOMAIN stack /\ stack'[i] = stack[i]
    <2>1. CASE Stays
      BY <2>1 DEF Stays, nesting
    <2>2. CASE ThenElse
      <3>1. /\ DOMAIN stack' = DOMAIN stack
            /\ \A i \in DOMAIN stack : stack'[i].k \in {"struct"} => stack'[i] = stack[i]
        <4> DEFINE kinds == {"struct"}
        <4>1. "then" \notin kinds /\ "else" \notin kinds
          OBVIOUS
        <4>2. \A i \in DOMAIN stack : stack'[i].k \in kinds => stack'[i] = stack[i]
          <5> HIDE DEF kinds
          <5> QED
            BY <2>2, <4>1, ElseCounts
        <4>3. DOMAIN stack' = DOMAIN stack
          <5> HIDE DEF kinds
          <5> QED
            BY <2>2, <4>1, ElseCounts
        <4> QED
          BY <4>2, <4>3
      <3> QED
        BY <3>1
    <2>3. ASSUME NEW k \in FrameKinds \ {"unit", "struct"}, NEW ty \in Nat, Opens(k, ty)
          PROVE  \A i \in DOMAIN stack' : stack'[i].k = "struct" => i \in DOMAIN stack /\ stack'[i] = stack[i]
      <3>1. stack' = Append(stack, [k |-> k, ty |-> ty])
        BY <2>3 DEF Opens
      <3>2. /\ DOMAIN stack' = 1..(Len(stack) + 1)
            /\ stack'[Len(stack) + 1].k = k /\ \A i \in 1..Len(stack) : stack'[i] = stack[i]
        BY <1>1, <3>1, PushTypes, LenProperties
      <3>3. \A i \in 1..(Len(stack) + 1) : i \in 1..Len(stack) \/ i = Len(stack) + 1
        BY <1>1
      <3> QED
        BY <1>1, <3>2, <3>3
    <2>4. ASSUME NEW k \in FrameKinds \ {"unit"}, Closes(k)
          PROVE  \A i \in DOMAIN stack' : i \in DOMAIN stack /\ stack'[i] = stack[i]
      <3>1. stack' = SubSeq(stack, 1, Len(stack) - 1)
        BY <2>4 DEF Closes
      <3>2. /\ stack' \in Seq(Frame) /\ Len(stack') = Len(stack) - 1
            /\ \A i \in 1..(Len(stack) - 1) : stack'[i] = stack[i]
        BY <1>1, <3>1, WithoutLast
      <3> QED
        BY <1>1, <3>2, LenProperties
    <2> QED
      BY <2>1, <2>2, <2>3, <2>4 DEF PlainStep, StepOf
  <1>3. CASE Top.k # "struct"
    BY <1>2, <1>3, NoStructs DEF MembersOfOwnTag
  <1>4. CASE /\ \A t \in DOMAIN ctypes : t \in DOMAIN ctypes' /\ ctypes'[t].s = ctypes[t].s
             /\ \A s \in Tags : CurrentTag(scopes, s) # 0 =>
                                  CurrentTag(scopes', s) = CurrentTag(scopes, s)
    <2> SUFFICES ASSUME NEW i \in DOMAIN stack', stack'[i].k = "struct"
                 PROVE  LET t == stack'[i].ty
                        IN  /\ t \in DOMAIN ctypes' /\ ctypes'[t].s \in Tags
                            /\ CurrentTag(scopes', ctypes'[t].s) = t
      BY DEF MembersOfOwnTag
    <2> DEFINE t == stack'[i].ty
    <2>1. t \in DOMAIN ctypes /\ ctypes[t].s \in Tags /\ CurrentTag(scopes, ctypes[t].s) = t
      BY <1>2 DEF MembersOfOwnTag
    <2>2. t # 0
      BY <1>1, <2>1
    <2> HIDE DEF t
    <2>3. t \in DOMAIN ctypes' /\ ctypes'[t].s = ctypes[t].s
      BY <1>4, <2>1
    <2>4. CurrentTag(scopes', ctypes'[t].s) = t
      BY <1>4, <2>1, <2>2, <2>3
    <2> QED
      BY <2>1, <2>3, <2>4 DEF t
  <1> QED
    BY <1>3, <1>4

LEMMA PlainIsStep ==
  PlainStep => StackStep
  BY DEF PlainStep, StackStep, StepOf

LEMMA InvariantKept ==
  ASSUME IInv, StackStep, StatementsInFunction',
         scopes' \in Seq(Scope), ctypes' \in Seq(CType), fn' \in Function,
         mode' \in Modes, tok' \in SourceItems \cup {NoTok, Eof},
         items' \in 0..MaxItems, lastid' \in Nat, events' \subseteq {"mixed", "twice", "own"},
         LocalsRecorded', TagsKnown', HeadIsCurrent', MembersOfOwnTag', Unmixed'
  PROVE  IInv'
  <1>1. TypeOK /\ StackNests /\ NestingAgrees
    BY DEF IInv
  <1>2. /\ stack' \in Seq(Frame) /\ Len(stack') > 0
        /\ loops' \in Seq(LoopKinds) /\ switches' \in Seq(Nat)
        /\ Len(scopes') > 0
    BY <1>1, StackTypes
  <1>3. TypeOK'
    BY <1>2 DEF TypeOK
  <1>4. StackNests'
    BY <1>1, NestsKept
  <1>5. NestingAgrees'
    BY <1>1, NestingKept
  <1> QED
    BY <1>3, <1>4, <1>5 DEF IInv

(* Nothing has been declared, opened or closed. *)
LEMMA QuietKeeps ==
  ASSUME IInv, PlainStep, UNCHANGED <<tables, lastid, events>>,
         fn' \in Function, fn'.locals = fn.locals,
         mode' \in Modes, tok' \in SourceItems \cup {NoTok, Eof}, items' \in 0..MaxItems,
         HeadIsCurrent', StatementsInFunction'
  PROVE  IInv'
  <1>1. /\ TypeOK /\ StackNests /\ NestingAgrees /\ MembersOfOwnTag
        /\ LocalsRecorded /\ TagsKnown /\ Unmixed
    BY DEF IInv
  <1>2. /\ scopes' = scopes /\ ctypes' = ctypes /\ lastid' = lastid /\ events' = events
    BY DEF tables
  <1>3. LocalsRecorded' /\ TagsKnown' /\ Unmixed'
    BY <1>1, <1>2, TablesIn
  <1>4. MembersOfOwnTag'
    BY <1>1, <1>2, MembersKept
  <1>5. /\ scopes' \in Seq(Scope) /\ ctypes' \in Seq(CType) /\ lastid' \in Nat
        /\ events' \subseteq {"mixed", "twice", "own"}
    BY <1>1, <1>2 DEF TypeOK
  <1>6. StackStep
    BY PlainIsStep
  <1> QED
    BY <1>3, <1>4, <1>5, <1>6, InvariantKept

(* Nor has a statement begun or ended. *)
LEMMA StillKeeps ==
  ASSUME IInv, UNCHANGED <<tables, nesting, lastid, events>>,
         fn' \in Function, fn'.on = fn.on, fn'.locals = fn.locals,
         mode' \in Modes, tok' \in SourceItems \cup {NoTok, Eof}, items' \in 0..MaxItems,
         \/ mode' # "tag" /\ head' \in {head, NoHead}
         \/ UNCHANGED <<mode, head, scopes>>
         \/ HeadIsCurrent',
         tok' \in {NoTok, Eof, tok} \/ tok'.k \notin StatementKinds \/ InFunction,
         mode' = "default" => mode' = mode \/ InFunction,
         mode' = "dosemi" => mode' = mode \/ In({"do"})
  PROVE  IInv'
  <1>1. TypeOK /\ StackNests /\ HeadIsCurrent
    BY DEF IInv
  <1>2. PlainStep
    <2>1. /\ UNCHANGED nesting /\ scopes' = scopes
      BY DEF tables
    <2> QED
      BY <2>1 DEF PlainStep, StepOf, Stays, KeepsLevels
  <1>3. (InFunction' <=> InFunction) /\ (In({"do"})' <=> In({"do"}))
    BY DEF nesting, InFunction, In, Top
  <1>4. StatementsInFunction'
    <2>1. tok' \in {NoTok, Eof} => tok'.k \notin StatementKinds
      BY DEF NoTok, Eof, StatementKinds
    <2> QED
      BY <1>1, <1>3, <2>1 DEF StatementsInFunction, StackNests
  <1>5. HeadIsCurrent'
    BY <1>1, HeadKept
  <1> QED
    BY <1>2, <1>4, <1>5, QuietKeeps

LEMMA RaiseKeeps ==
  ASSUME IInv, NEW e, NEW n, RaiseAt(e, n)
  PROVE  IInv'
  <1>1. /\ UNCHANGED <<tables, nesting, lastid, events>> /\ fn' = fn
        /\ mode' = mode /\ tok' = tok /\ items' = items /\ head' = head
    BY DEF RaiseAt, history
  <1>2. scopes' = scopes
    BY <1>1 DEF tables
  <1>3. TypeOK
    BY DEF IInv
  <1>4. /\ fn \in Function /\ mode \in Modes /\ tok \in SourceItems \cup {NoTok, Eof}
        /\ items \in 0..MaxItems
    BY <1>3 DEF TypeOK
  <1> QED
    BY <1>1, <1>2, <1>4, StillKeeps

(* The token has been read, and the statement or declaration is complete.  *)
LEMMA ConsumeKeeps ==
  ASSUME IInv, UNCHANGED <<tables, fn, nesting, items, lastid, events>>, tok' = NoTok,
         mode' \in {"done", "start", "stray", "leading"}, head' \in {head, NoHead}
  PROVE  IInv'
  <1>1. TypeOK
    BY DEF IInv
  <1>2. /\ fn' \in Function /\ fn'.on = fn.on /\ fn'.locals = fn.locals
        /\ items' \in 0..MaxItems
    BY <1>1 DEF TypeOK
  <1>3. mode' \in Modes /\ mode' # "tag" /\ mode' # "default" /\ mode' # "dosemi"
    BY DEF Modes
  <1> QED
    BY <1>2, <1>3, StillKeeps

LEMMA SkipKeeps ==
  ASSUME IInv, Skip
  PROVE  IInv'
  <1>1. /\ UNCHANGED <<tables, fn, nesting, items, lastid, events>> /\ tok' = NoTok
        /\ mode' = "done" /\ head' = head
    BY DEF Skip, Consume, Done, history
  <1> QED
    BY <1>1, ConsumeKeeps

LEMMA MentionKeeps ==
  ASSUME IInv, Mention
  PROVE  IInv'
  <1>1. CASE Sym(scopes, tok.n).id = 0
    <2>1. RaiseAt("undeclared", tok.n)
      BY <1>1 DEF Mention
    <2> QED
      BY <2>1, RaiseKeeps
  <1>2. CASE Sym(scopes, tok.n).id # 0
    <2>1. /\ UNCHANGED <<tables, fn, nesting, items, lastid, events>> /\ tok' = NoTok
          /\ mode' = "done" /\ head' = head
      BY <1>2 DEF Mention, Consume, Done
    <2> QED
      BY <2>1, ConsumeKeeps
  <1> QED
    BY <1>1, <1>2

(* The action of a token that is read, or that changes only what is next.  *)
LEMMA ReadKeeps ==
  ASSUME IInv, Read
  PROVE  IInv'
  <1>1. /\ UNCHANGED <<tables, nesting, lastid, events>> /\ fn' = fn
        /\ mode' = mode /\ head' = head
    BY DEF Read, history
  <1>2. scopes' = scopes
    BY <1>1 DEF tables
  <1>3. /\ TypeOK /\ MaxItems \in Nat
    BY ParserAssumption DEF IInv
  <1>4. /\ fn \in Function /\ mode \in Modes /\ items \in 0..MaxItems
    BY <1>3 DEF TypeOK
  <1>5. /\ tok' \in SourceItems \cup {NoTok, Eof} /\ items' \in 0..MaxItems
        /\ tok' = Eof \/ tok'.k \notin StatementKinds \/ InFunction
    <2>1. CASE tok' = Eof /\ UNCHANGED items
      BY <1>4, <2>1
    <2>2. CASE items < MaxItems /\ items' = items + 1 /\
               \E it \in SourceItems : (it.k \in StatementKinds => InFunction) /\ tok' = it
      BY <1>3, <1>4, <2>2
    <2> QED
      BY <2>1, <2>2 DEF Read
  <1> QED
    BY <1>1, <1>2, <1>4, <1>5, StillKeeps

LEMMA LookKeeps ==
  ASSUME IInv, UNCHANGED <<tables, fn, nesting, items, lastid, events>>,
         tok' \in {tok, NoTok}, mode' \in Modes, head' \in {head, NoHead}, mode' # "tag",
         mode' = "default" => InFunction, mode' = "dosemi" => In({"do"})
  PROVE  IInv'
  <1>1. TypeOK
    BY DEF IInv
  <1>2. /\ fn' \in Function /\ fn'.on = fn.on /\ fn'.locals = fn.locals
        /\ items' \in 0..MaxItems /\ tok' \in SourceItems \cup {NoTok, Eof}
    BY <1>1 DEF TypeOK
  <1> QED
    BY <1>2, StillKeeps

LEMMA BeginDeclarationKeeps ==
  ASSUME IInv, BeginDeclaration
  PROVE  IInv'
  <1>1. /\ UNCHANGED <<tables, fn, nesting, items, lastid, events>> /\ tok' = tok
        /\ mode' = "start" /\ head' = head
    BY DEF BeginDeclaration, history
  <1> QED
    BY <1>1, LookKeeps DEF Modes

LEMMA StraySemicolonKeeps ==
  ASSUME IInv, StraySemicolon
  PROVE  IInv'
  <1>1. /\ UNCHANGED <<tables, fn, nesting, items, lastid, events>> /\ tok' = NoTok
        /\ mode' \in {"leading", "stray"} /\ head' = head
    BY DEF StraySemicolon, history, Consume
  <1> QED
    BY <1>1, ConsumeKeeps

LEMMA NextInListKeeps ==
  ASSUME IInv, NextInList
  PROVE  IInv'
  <1>1. /\ UNCHANGED <<tables, fn, nesting, items, lastid, events>> /\ tok' = tok
        /\ mode' = "start" /\ head' = head
    BY DEF NextInList, Keep, tables
  <1> QED
    BY <1>1, LookKeeps DEF Modes

LEMMA DefaultKeeps ==
  ASSUME IInv, Default
  PROVE  IInv'
  <1>1. /\ UNCHANGED <<tables, fn, nesting, items, lastid, events>> /\ tok' = NoTok
        /\ mode' = "default" /\ head' = head /\ tok.k = "default"
    BY DEF Default, Keep, Consume, At, tables
  <1>2. InFunction
    BY <1>1 DEF IInv, StackNests, StatementKinds
  <1> QED
    BY <1>1, <1>2, LookKeeps DEF Modes

LEMMA DoWhileKeeps ==
  ASSUME IInv, DoWhile
  PROVE  IInv'
  <1>1. CASE tok.k # "while"
    <2>1. RaiseAt("syntax", NoName)
      BY <1>1 DEF DoWhile, Raise
    <2> QED
      BY <2>1, RaiseKeeps
  <1>2. CASE tok.k = "while"
    <2>1. /\ UNCHANGED <<tables, fn, nesting, items, lastid, events>> /\ tok' = NoTok
          /\ mode' = "dosemi" /\ head' = head /\ In({"do"})
      BY <1>2 DEF DoWhile, Keep, Consume, tables
    <2> QED
      BY <2>1, LookKeeps DEF Modes
  <1> QED
    BY <1>1, <1>2

LEMMA GotoKeeps ==
  ASSUME IInv, Goto
  PROVE  IInv'
  <1>1. /\ UNCHANGED <<tables, nesting, items, lastid, events>> /\ tok' = NoTok
        /\ mode' = "done" /\ head' = head /\ tok.k = "goto"
        /\ fn' = [fn EXCEPT !.gotos = @ \cup {tok.l}]
    BY DEF Goto, Keep, Consume, Done, At, tables
  <1>2. TypeOK
    BY DEF IInv
  <1>3. fn \in Function /\ tok.l \in Labels /\ items' \in 0..MaxItems
    BY <1>1, <1>2, TokenFields DEF TypeOK
  <1>4. fn' \in Function /\ fn'.on = fn.on /\ fn'.locals = fn.locals
    BY <1>1, <1>3 DEF Function
  <1>5. mode' \in Modes /\ mode' # "tag" /\ mode' # "default" /\ mode' # "dosemi"
    BY <1>1 DEF Modes
  <1> QED
    BY <1>1, <1>3, <1>4, <1>5, StillKeeps

LEMMA AssertAsSpecifierKeeps ==
  ASSUME IInv, AssertAsSpecifier
  PROVE  IInv'
  <1>1. CASE In(Sub)
    <2>1. RaiseAt("expression", NoName)
      BY <1>1 DEF AssertAsSpecifier, Raise
    <2> QED
      BY <2>1, RaiseKeeps
  <1>2. CASE ~In(Sub)
    <2>1. /\ UNCHANGED <<tables, fn, nesting, items, lastid, events>> /\ tok' = tok
          /\ mode' = "spin" /\ head' = head
      BY <1>2 DEF AssertAsSpecifier, history
    <2> QED
      BY <2>1, LookKeeps DEF Modes
  <1> QED
    BY <1>1, <1>2

LEMMA StructHeadKeeps ==
  ASSUME IInv, StructHead
  PROVE  IInv'
  <1>1. TypeOK
    BY DEF IInv
  <1>2. /\ UNCHANGED <<tables, nesting, items, lastid, events>> /\ tok' = NoTok /\ fn' = fn
        /\ mode' = "tag" /\ tok.k = "struct"
        /\ head' = [s |-> tok.s, cur |-> CurrentTag(scopes, tok.s), all |-> TagOf(scopes, tok.s)]
    BY DEF StructHead, Consume, At, history
  <1>3. tok.s \in Tags /\ scopes' = scopes
    BY <1>1, <1>2, TokenFields DEF tables
  <1>4. CurrentTag(scopes, tok.s) \in Nat /\ TagOf(scopes, tok.s) \in Nat
    BY <1>1, <1>3, LookupTypes DEF TypeOK
  <1>5. HeadIsCurrent'
    <2>1. head' \in [s : Tags \cup {NoName}, cur : Nat, all : Nat]
      BY <1>2, <1>3, <1>4
    <2>2. head'.s = tok.s /\ head'.cur = CurrentTag(scopes, tok.s) /\ head'.all = TagOf(scopes, tok.s)
      BY <1>2
    <2> QED
      BY <1>3, <2>1, <2>2 DEF HeadIsCurrent
  <1>6. fn' \in Function /\ items' \in 0..MaxItems
    BY <1>1, <1>2 DEF TypeOK
  <1>7. mode' \in Modes /\ mode' # "default" /\ mode' # "dosemi"
    BY <1>2 DEF Modes
  <1> QED
    BY <1>2, <1>5, <1>6, <1>7, StillKeeps

(* A statement begins, which opens no scope. *)
LEMMA BeginKeeps ==
  ASSUME IInv, InFunction, NEW k \in Sub \ {"for", "else"}, NEW ty \in Nat,
         UNCHANGED <<tables, lastid, events, head, items>>,
         fn' \in Function, fn'.on = fn.on, fn'.locals = fn.locals,
         stack' = Append(stack, [k |-> k, ty |-> ty]),
         loops' = IF k \in LoopKinds THEN Append(loops, k) ELSE loops,
         switches' = IF k = "switch" THEN Append(switches, ty) ELSE switches,
         tok' \in {tok, NoTok}, mode' = "start"
  PROVE  IInv'
  <1>1. TypeOK /\ HeadIsCurrent
    BY DEF IInv
  <1>2. /\ k \in FrameKinds \ {"unit", "struct"} /\ k \notin Scoped /\ k # "body"
        /\ k \in {"block"} \cup Sub
    BY DEF FrameKinds, Sub, Scoped
  <1>3. scopes' = scopes
    BY DEF tables
  <1>4. Opens(k, ty) /\ WhereItMay(k)
    <2>1. fn'.on = (fn.on \/ k = "body")
      BY <1>1, <1>2 DEF TypeOK, Function
    <2>2. KeepsLevels
      BY <1>3 DEF KeepsLevels
    <2>3. Opens(k, ty)
      BY <1>2, <1>3, <2>1, <2>2 DEF Opens
    <2> QED
      BY <1>2, <2>3 DEF WhereItMay
  <1>5. PlainStep
    BY <1>2, <1>4 DEF PlainStep, StepOf
  <1>6. /\ Len(stack') = Len(stack) + 1 /\ stack'[Len(stack')].k = k
    BY <1>1, <1>2, PushTypes
  <1>7. InFunction'
    BY <1>2, <1>6 DEF InFunction, In, Top
  <1>8. StatementsInFunction'
    BY <1>7 DEF StatementsInFunction
  <1>9. HeadIsCurrent'
    BY <1>1, HeadKept
  <1>10. mode' \in Modes /\ tok' \in SourceItems \cup {NoTok, Eof} /\ items' \in 0..MaxItems
    BY <1>1 DEF TypeOK, Modes
  <1> QED
    BY <1>5, <1>8, <1>9, <1>10, QuietKeeps

(* One is over, with no scope of its own. *)
LEMMA EndKeeps ==
  ASSUME IInv, NEW k \in Sub \ {"for"}, Top.k = k,
         UNCHANGED <<tables, fn, lastid, events, head, items>>,
         stack' = SubSeq(stack, 1, Len(stack) - 1),
         loops' = IF k \in LoopKinds THEN SubSeq(loops, 1, Len(loops) - 1) ELSE loops,
         switches' = IF k = "switch" THEN SubSeq(switches, 1, Len(switches) - 1) ELSE switches,
         tok' \in {tok, NoTok}, mode' = "done"
  PROVE  IInv'
  <1>1. TypeOK /\ HeadIsCurrent /\ StackNests
    BY DEF IInv
  <1>2. /\ k \in FrameKinds \ {"unit"} /\ k \notin Scoped /\ k # "body"
        /\ k \in Sub \cup {"block"}
    BY DEF FrameKinds, Sub, Scoped
  <1>3. scopes' = scopes
    BY DEF tables
  <1>4. Closes(k)
    BY <1>2, <1>3, <1>1 DEF Closes, Leaves, KeepsLevels, TypeOK, Function
  <1>5. PlainStep
    BY <1>2, <1>4 DEF PlainStep, StepOf
  <1>6. InFunction'
    BY <1>1, <1>2, PoppedInFunction
  <1>7. StatementsInFunction'
    BY <1>6 DEF StatementsInFunction
  <1>8. HeadIsCurrent'
    BY <1>1, HeadKept
  <1>9. /\ mode' \in Modes /\ tok' \in SourceItems \cup {NoTok, Eof} /\ items' \in 0..MaxItems
        /\ fn' \in Function /\ fn'.locals = fn.locals
    BY <1>1 DEF TypeOK, Modes
  <1> QED
    BY <1>5, <1>7, <1>8, <1>9, QuietKeeps

LEMMA IfKeeps ==
  ASSUME IInv, If
  PROVE  IInv'
  <1>1. /\ UNCHANGED <<tables, lastid, events, head, items>> /\ fn' = fn
        /\ stack' = Append(stack, [k |-> "then", ty |-> 0]) /\ loops' = loops
        /\ switches' = switches /\ tok' = NoTok /\ mode' = "start" /\ tok.k = "if"
    BY DEF If, Keep, Consume, PushFrame, At, tables
  <1>2. InFunction /\ fn \in Function
    BY <1>1 DEF IInv, StackNests, StatementKinds, TypeOK
  <1>3. "then" \in Sub \ {"for", "else"} /\ "then" \notin LoopKinds
    BY DEF Sub, LoopKinds
  <1> QED
    BY <1>1, <1>2, <1>3, BeginKeeps

LEMMA LoopKeeps ==
  ASSUME IInv, Loop
  PROVE  IInv'
  <1>1. /\ UNCHANGED <<tables, lastid, events, head, items>> /\ fn' = fn
        /\ stack' = Append(stack, [k |-> tok.k, ty |-> 0]) /\ loops' = Append(loops, tok.k)
        /\ switches' = switches /\ tok' = NoTok /\ mode' = "start" /\ tok.k \in {"while", "do"}
    BY DEF Loop, Keep, Consume, PushFrame, At, tables
  <1>2. InFunction /\ fn \in Function
    BY <1>1 DEF IInv, StackNests, StatementKinds, TypeOK
  <1>3. tok.k \in Sub \ {"for", "else"} /\ tok.k \in LoopKinds /\ tok.k # "switch"
    BY <1>1 DEF Sub, LoopKinds
  <1> QED
    BY <1>1, <1>2, <1>3, BeginKeeps

LEMMA SwitchKeeps ==
  ASSUME IInv, Switch
  PROVE  IInv'
  <1>1. /\ UNCHANGED <<tables, lastid, events, head, items>> /\ fn' = fn
        /\ stack' = Append(stack, [k |-> "switch", ty |-> items]) /\ loops' = loops
        /\ switches' = Append(switches, items) /\ tok' = NoTok /\ mode' = "start"
        /\ tok.k = "switch"
    BY DEF Switch, Keep, Consume, PushFrame, At, tables
  <1>2. InFunction /\ fn \in Function /\ items \in Nat
    BY <1>1, ParserAssumption DEF IInv, StackNests, StatementKinds, TypeOK
  <1>3. "switch" \in Sub \ {"for", "else"} /\ "switch" \notin LoopKinds
    BY DEF Sub, LoopKinds
  <1> QED
    BY <1>1, <1>2, <1>3, BeginKeeps

LEMMA LabelKeeps ==
  ASSUME IInv, Label
  PROVE  IInv'
  <1>1. /\ UNCHANGED <<tables, lastid, events, head, items>>
        /\ fn' = [fn EXCEPT !.labels = @ \cup {tok.l}]
        /\ stack' = Append(stack, [k |-> "label", ty |-> 0]) /\ loops' = loops
        /\ switches' = switches /\ tok' = NoTok /\ mode' = "start" /\ tok.k = "label"
    BY DEF Label, Keep, Consume, PushFrame, At, tables
  <1>2. InFunction /\ fn \in Function /\ TypeOK
    BY <1>1 DEF IInv, StackNests, StatementKinds, TypeOK
  <1>3. tok.l \in Labels
    BY <1>1, <1>2, TokenFields
  <1>4. fn' \in Function /\ fn'.on = fn.on /\ fn'.locals = fn.locals
    BY <1>1, <1>2, <1>3 DEF Function
  <1>5. "label" \in Sub \ {"for", "else"} /\ "label" \notin LoopKinds
    BY DEF Sub, LoopKinds
  <1> QED
    BY <1>1, <1>2, <1>4, <1>5, BeginKeeps

LEMMA PushCaseKeeps ==
  ASSUME IInv, InFunction, NEW kind \in {"case", "default"}, PushCase(kind),
         tok' \in {tok, NoTok}
  PROVE  IInv'
  <1>1. /\ UNCHANGED <<tables, lastid, events, head, items>> /\ fn' = fn
        /\ stack' = Append(stack, [k |-> kind, ty |-> 0]) /\ loops' = loops
        /\ switches' = switches /\ mode' = "start"
    BY DEF PushCase, Keep, PushFrame, tables
  <1>2. fn \in Function
    BY DEF IInv, TypeOK
  <1>3. kind \in Sub \ {"for", "else"} /\ kind \notin LoopKinds /\ kind # "switch"
    BY DEF Sub, LoopKinds
  <1> QED
    BY <1>1, <1>2, <1>3, BeginKeeps

LEMMA CaseKeeps ==
  ASSUME IInv, Case
  PROVE  IInv'
  <1>1. CASE switches = <<>>
    <2>1. RaiseAt("stray", NoName)
      BY <1>1 DEF Case, Raise
    <2> QED
      BY <2>1, RaiseKeeps
  <1>2. CASE switches # <<>>
    <2>1. PushCase("case") /\ tok' = NoTok /\ tok.k = "case"
      BY <1>2 DEF Case, Consume, At
    <2>2. InFunction
      BY <2>1 DEF IInv, StackNests, StatementKinds
    <2> QED
      BY <2>1, <2>2, PushCaseKeeps
  <1> QED
    BY <1>1, <1>2

LEMMA DefaultStatementKeeps ==
  ASSUME IInv, DefaultStatement
  PROVE  IInv'
  <1>1. mode = "default"
    BY DEF DefaultStatement
  <1>2. CASE tok.k = "rbrace"
    <2>1. RaiseAt("syntax", NoName)
      BY <1>2 DEF DefaultStatement, Raise
    <2> QED
      BY <2>1, RaiseKeeps
  <1>3. CASE tok.k # "rbrace" /\ switches = <<>>
    <2>1. RaiseAt("stray", NoName)
      BY <1>3 DEF DefaultStatement, Raise
    <2> QED
      BY <2>1, RaiseKeeps
  <1>4. CASE tok.k # "rbrace" /\ switches # <<>>
    <2>1. PushCase("default") /\ tok' = tok
      BY <1>4 DEF DefaultStatement
    <2>2. InFunction
      BY <1>1 DEF IInv, StackNests
    <2> QED
      BY <2>1, <2>2, PushCaseKeeps
  <1> QED
    BY <1>2, <1>3, <1>4

LEMMA EndLabelledKeeps ==
  ASSUME IInv, EndLabelled
  PROVE  IInv'
  <1>1. /\ UNCHANGED <<tables, fn, lastid, events, head, items>>
        /\ stack' = SubSeq(stack, 1, Len(stack) - 1) /\ loops' = loops
        /\ switches' = switches /\ tok' = tok /\ mode' = "done"
        /\ Top.k \in {"label", "case", "default", "else"}
    BY DEF EndLabelled, Keep, PopFrame, In, tables
  <1>2. Top.k \in Sub \ {"for"} /\ Top.k \notin LoopKinds /\ Top.k # "switch"
    BY <1>1 DEF Sub, LoopKinds
  <1> QED
    BY <1>1, <1>2, EndKeeps

LEMMA EndWhileKeeps ==
  ASSUME IInv, EndWhile
  PROVE  IInv'
  <1>1. /\ UNCHANGED <<tables, fn, lastid, events, head, items>>
        /\ stack' = SubSeq(stack, 1, Len(stack) - 1)
        /\ loops' = SubSeq(loops, 1, Len(loops) - 1)
        /\ switches' = switches /\ tok' = tok /\ mode' = "done" /\ Top.k = "while"
    BY DEF EndWhile, Keep, PopFrame, Front, In, tables
  <1>2. "while" \in Sub \ {"for"} /\ "while" \in LoopKinds
    BY DEF Sub, LoopKinds
  <1> QED
    BY <1>1, <1>2, EndKeeps

LEMMA EndSwitchKeeps ==
  ASSUME IInv, EndSwitch
  PROVE  IInv'
  <1>1. /\ UNCHANGED <<tables, fn, lastid, events, head, items>>
        /\ stack' = SubSeq(stack, 1, Len(stack) - 1)
        /\ switches' = SubSeq(switches, 1, Len(switches) - 1)
        /\ loops' = loops /\ tok' = tok /\ mode' = "done" /\ Top.k = "switch"
    BY DEF EndSwitch, Keep, PopFrame, Front, In, tables
  <1>2. "switch" \in Sub \ {"for"} /\ "switch" \notin LoopKinds
    BY DEF Sub, LoopKinds
  <1> QED
    BY <1>1, <1>2, EndKeeps

LEMMA EndDoKeeps ==
  ASSUME IInv, EndDo
  PROVE  IInv'
  <1>1. CASE tok.k # "semi"
    <2>1. RaiseAt("syntax", NoName)
      BY <1>1 DEF EndDo, Raise
    <2> QED
      BY <2>1, RaiseKeeps
  <1>2. CASE tok.k = "semi"
    <2>1. /\ UNCHANGED <<tables, fn, lastid, events, head, items>>
          /\ stack' = SubSeq(stack, 1, Len(stack) - 1)
          /\ loops' = SubSeq(loops, 1, Len(loops) - 1)
          /\ switches' = switches /\ tok' = NoTok /\ mode' = "done" /\ mode = "dosemi"
      BY <1>2 DEF EndDo, Keep, Consume, Done, PopFrame, Front, tables
    <2>2. Top.k = "do"
      BY <2>1 DEF IInv, StackNests, In
    <2>3. "do" \in Sub \ {"for"} /\ "do" \in LoopKinds
      BY DEF Sub, LoopKinds
    <2> QED
      BY <2>1, <2>2, <2>3, EndKeeps
  <1> QED
    BY <1>1, <1>2

LEMMA EndThenKeeps ==
  ASSUME IInv, EndThen
  PROVE  IInv'
  <1>1. Top.k = "then" /\ mode = "done" /\ UNCHANGED <<tables, fn, loops, switches, lastid, events, head, items>>
    BY DEF EndThen, In, Keep, tables
  <1>2. CASE tok.k = "else"
    <2>1. /\ stack' = [stack EXCEPT ![Len(stack)].k = "else"]
          /\ tok' = NoTok /\ mode' = "start"
      BY <1>2 DEF EndThen, Consume
    <2>2. PlainStep
      BY <1>1, <2>1 DEF PlainStep, StepOf, ThenElse, tables
    <2>3. StatementsInFunction'
      BY <2>1 DEF StatementsInFunction, NoTok, StatementKinds
    <2>4. HeadIsCurrent'
      BY <1>1, <2>1, HeadKept DEF IInv
    <2>5. /\ mode' \in Modes /\ tok' \in SourceItems \cup {NoTok, Eof} /\ items' \in 0..MaxItems
          /\ fn' \in Function
      BY <1>1, <2>1 DEF IInv, TypeOK, Modes
    <2> QED
      BY <1>1, <2>2, <2>3, <2>4, <2>5, QuietKeeps
  <1>3. CASE tok.k # "else"
    <2>1. /\ stack' = SubSeq(stack, 1, Len(stack) - 1)
          /\ tok' = tok /\ mode' = "done"
      BY <1>1, <1>3 DEF EndThen, PopFrame
    <2>2. "then" \in Sub \ {"for"} /\ "then" \notin LoopKinds
      BY DEF Sub, LoopKinds
    <2> QED
      BY <1>1, <2>1, <2>2, EndKeeps
  <1> QED
    BY <1>2, <1>3

(* A production begins that has a scope. *)
LEMMA ScopeOpened ==
  ASSUME IInv, NEW k \in Scoped, WhereItMay(k), Top.k # "struct",
         stack' = Append(stack, [k |-> k, ty |-> 0]),
         loops' = IF k \in LoopKinds THEN Append(loops, k) ELSE loops, switches' = switches,
         scopes' \in Seq(Scope), Len(scopes') = Len(scopes) + 1,
         \A i \in DOMAIN scopes : scopes'[i].level = scopes[i].level,
         scopes'[Len(scopes) + 1].level = IF k = "body" THEN "method" ELSE "block",
         fn' \in Function, fn'.on = (fn.on \/ k = "body"), ctypes' = ctypes,
         lastid' \in Nat, events' \subseteq {"mixed", "twice", "own"}, items' = items,
         tok' = NoTok, mode' = "start", head' = head,
         LocalsRecorded', TagsKnown', Unmixed'
  PROVE  IInv'
  <1>1. TypeOK /\ HeadIsCurrent /\ StackNests /\ NestingAgrees /\ MembersOfOwnTag
    BY DEF IInv
  <1>2. k \in FrameKinds \ {"unit", "struct"} /\ k # "switch"
    BY DEF FrameKinds, Sub, DeclKinds, Scoped
  <1>3. Opens(k, 0)
    BY <1>2 DEF Opens, KeepsLevels
  <1>4. PlainStep
    BY <1>2, <1>3 DEF PlainStep, StepOf
  <1>5. StatementsInFunction'
    BY DEF StatementsInFunction, NoTok, StatementKinds
  <1>6. HeadIsCurrent'
    BY <1>1, HeadKept
  <1>7. MembersOfOwnTag'
    BY <1>1, <1>4, MembersKept
  <1>8. /\ mode' \in Modes /\ tok' \in SourceItems \cup {NoTok, Eof} /\ items' \in 0..MaxItems
        /\ ctypes' \in Seq(CType)
    BY <1>1 DEF TypeOK, Modes
  <1> QED
    BY <1>4, <1>5, <1>6, <1>7, <1>8, PlainIsStep, InvariantKept

(* One that has a scope is over. *)
LEMMA ScopeClosed ==
  ASSUME IInv, NEW k \in Scoped, Top.k = k, scopes' = Pop(scopes),
         stack' = SubSeq(stack, 1, Len(stack) - 1),
         loops' = IF k \in LoopKinds THEN SubSeq(loops, 1, Len(loops) - 1) ELSE loops,
         switches' = switches,
         fn' \in Function, Leaves(k), k # "body" => fn'.locals = fn.locals,
         UNCHANGED <<ctypes, lastid, events, items, head>>,
         tok' = NoTok \/ (tok' = tok /\ k # "body"), mode' = "done"
  PROVE  IInv'
  <1>1. /\ TypeOK /\ HeadIsCurrent /\ StackNests /\ NestingAgrees /\ MembersOfOwnTag
        /\ LocalsRecorded /\ TagsKnown /\ Unmixed
    BY DEF IInv
  <1>2. k \in FrameKinds \ {"unit"} /\ k # "switch" /\ (k # "body" => k \in Sub \cup {"block"})
        /\ k # "struct"
    BY DEF FrameKinds, Sub, DeclKinds, Scoped
  <1>3. scopes \in Seq(Scope) /\ Len(scopes) > 1 /\ Len(scopes) \in Nat
        /\ DOMAIN scopes = 1..Len(scopes)
    BY <1>1, WhereOnStack, LenProperties DEF TypeOK
  <1>4. /\ scopes' \in Seq(Scope) /\ Len(scopes') = Len(scopes) - 1
        /\ \A i \in 1..(Len(scopes) - 1) : scopes'[i] = scopes[i]
    <2>1. Len(scopes) > 0
      BY <1>3
    <2>2. /\ Pop(scopes) \in Seq(Scope) /\ Len(Pop(scopes)) = Len(scopes) - 1
          /\ \A i \in 1..(Len(scopes) - 1) : Pop(scopes)[i] = scopes[i]
      BY <1>3, <2>1, PopIs
    <2> QED
      BY <2>2
  <1>5. KeepsLevels
    <2>1. \A i \in DOMAIN scopes' : i \in 1..(Len(scopes) - 1)
      BY <1>4, LenProperties
    <2> QED
      BY <1>4, <2>1 DEF KeepsLevels
  <1>6. Closes(k)
    BY <1>2, <1>4, <1>5 DEF Closes
  <1>7. PlainStep
    BY <1>2, <1>6 DEF PlainStep, StepOf
  <1>8. StatementsInFunction'
    <2>1. CASE tok' = NoTok
      BY <2>1 DEF StatementsInFunction, NoTok, StatementKinds
    <2>2. CASE tok' = tok /\ k # "body"
      <3>1. InFunction'
        BY <1>1, <1>2, <2>2, PoppedInFunction
      <3> QED
        BY <3>1 DEF StatementsInFunction
    <2> QED
      BY <2>1, <2>2
  <1>9. HeadIsCurrent'
    BY <1>1, HeadKept
  <1>10. MembersOfOwnTag'
    BY <1>1, <1>2, <1>7, MembersKept
  <1>11. LocalsRecorded'
    <2>1. CASE k = "body"
      <3>1. Len(stack) = 2
        BY <1>1, <2>1, WhereOnStack
      <3>2. Len(scopes) = 2
        <4>1. Len(scopes) = 1 + Count(stack, Scoped, Len(stack))
          BY <1>1 DEF NestingAgrees, ScopesAgree, Open
        <4>2. stack[1].k = "unit" /\ stack[2].k = "body"
          BY <1>1, <2>1, <3>1, TopTypes DEF StackNests
        <4>3. Count(stack, Scoped, 2) = 1
          <5>1. /\ Count(stack, Scoped, 0 + 1) = Count(stack, Scoped, 0)
                     + (IF stack[0 + 1].k \in Scoped THEN 1 ELSE 0)
                /\ Count(stack, Scoped, 1 + 1) = Count(stack, Scoped, 1)
                     + (IF stack[1 + 1].k \in Scoped THEN 1 ELSE 0)
                /\ Count(stack, Scoped, 0) = 0
            BY CountNext, CountNone
          <5>2. "unit" \notin Scoped /\ "body" \in Scoped
            BY DEF Scoped
          <5>3. 0 + 1 = 1 /\ 1 + 1 = 2
            OBVIOUS
          <5> QED
            BY <4>2, <5>1, <5>2, <5>3
        <4> QED
          BY <3>1, <4>1, <4>3
      <3>3. LocalsIn(scopes', fn'.locals)
        <4>1. Len(scopes') = 1
          BY <1>4, <3>2
        <4>2. 2..1 = {}
          OBVIOUS
        <4> QED
          BY <4>1, <4>2 DEF LocalsIn
      <3> QED
        BY <3>3, TablesIn
    <2>2. CASE k # "body"
      BY <1>1, <1>3, <2>2, PopKeeps, TablesIn
    <2> QED
      BY <2>1, <2>2
  <1>12. TagsKnown' /\ Unmixed'
    BY <1>1, <1>3, PopKeeps, TablesIn
  <1>13. /\ mode' \in Modes /\ tok' \in SourceItems \cup {NoTok, Eof} /\ items' \in 0..MaxItems
         /\ ctypes' \in Seq(CType) /\ lastid' \in Nat /\ events' \subseteq {"mixed", "twice", "own"}
    BY <1>1 DEF TypeOK, Modes
  <1> QED
    BY <1>4, <1>7, <1>8, <1>9, <1>10, <1>11, <1>12, <1>13, PlainIsStep, InvariantKept

LEMMA BlockStartKeeps ==
  ASSUME IInv, BlockStart
  PROVE  IInv'
  <1>1. /\ UNCHANGED <<ctypes, fn, lastid, events, head, items>>
        /\ stack' = Append(stack, [k |-> "block", ty |-> 0]) /\ loops' = loops
        /\ switches' = switches /\ tok' = NoTok /\ mode' = "start"
        /\ scopes' = Push(scopes, "block") /\ InFunction
    BY DEF BlockStart, Keep, Consume, PushFrame, At
  <1>2. TypeOK /\ LocalsRecorded /\ TagsKnown /\ Unmixed
    BY DEF IInv
  <1>3. scopes \in Seq(Scope) /\ Len(scopes) > 0 /\ "block" \in Levels
    BY <1>2 DEF TypeOK, Levels
  <1>4. /\ scopes' \in Seq(Scope) /\ Len(scopes') = Len(scopes) + 1
        /\ \A i \in DOMAIN scopes : scopes'[i] = scopes[i]
        /\ scopes'[Len(scopes) + 1].level = "block"
    <2>1. /\ Push(scopes, "block") \in Seq(Scope)
          /\ Len(Push(scopes, "block")) = Len(scopes) + 1
          /\ \A i \in DOMAIN scopes : Push(scopes, "block")[i] = scopes[i]
          /\ Push(scopes, "block")[Len(scopes) + 1] = NewScope("block")
      BY <1>3, PushIs
    <2> QED
      BY <1>1, <2>1 DEF NewScope
  <1>5. LocalsRecorded' /\ TagsKnown' /\ Unmixed'
    BY <1>1, <1>2, <1>3, PushKeeps, TablesIn
  <1>6. "block" \in Scoped /\ "block" \notin LoopKinds
    BY DEF Scoped, LoopKinds
  <1>7. Top.k # "struct" /\ WhereItMay("block")
    BY <1>1 DEF InFunction, In, Sub, WhereItMay
  <1>8. /\ fn' \in Function /\ fn'.on = (fn.on \/ "block" = "body")
        /\ lastid' \in Nat /\ events' \subseteq {"mixed", "twice", "own"}
    BY <1>1, <1>2 DEF TypeOK, Function
  <1> QED
    BY <1>1, <1>4, <1>5, <1>6, <1>7, <1>8, ScopeOpened

LEMMA BlockEndKeeps ==
  ASSUME IInv, BlockEnd
  PROVE  IInv'
  <1>1. /\ UNCHANGED <<ctypes, lastid, events, head, items>> /\ fn' = fn
        /\ stack' = SubSeq(stack, 1, Len(stack) - 1) /\ loops' = loops
        /\ switches' = switches /\ tok' = NoTok /\ mode' = "done"
        /\ scopes' = Pop(scopes) /\ Top.k = "block"
    BY DEF BlockEnd, Keep, Consume, PopFrame, Done, At, In
  <1>2. "block" \in Scoped /\ "block" \notin LoopKinds
    BY DEF Scoped, LoopKinds
  <1>3. fn' \in Function /\ Leaves("block")
    BY <1>1 DEF IInv, TypeOK, Function, Leaves
  <1> QED
    BY <1>1, <1>2, <1>3, ScopeClosed

LEMMA EndForKeeps ==
  ASSUME IInv, EndFor
  PROVE  IInv'
  <1>1. /\ UNCHANGED <<ctypes, lastid, events, head, items>> /\ fn' = fn
        /\ stack' = SubSeq(stack, 1, Len(stack) - 1)
        /\ loops' = SubSeq(loops, 1, Len(loops) - 1)
        /\ switches' = switches /\ tok' = tok /\ mode' = "done"
        /\ scopes' = Pop(scopes) /\ Top.k = "for"
    BY DEF EndFor, Keep, PopFrame, Front, In
  <1>2. "for" \in Scoped /\ "for" \in LoopKinds
    BY DEF Scoped, LoopKinds
  <1>3. fn' \in Function /\ Leaves("for")
    BY <1>1 DEF IInv, TypeOK, Function, Leaves
  <1> QED
    BY <1>1, <1>2, <1>3, ScopeClosed

LEMMA FunctionEndKeeps ==
  ASSUME IInv, FunctionEnd
  PROVE  IInv'
  <1>1. CASE ~(fn.gotos \subseteq fn.labels)
    <2>1. RaiseAt("label", NoName)
      BY <1>1 DEF FunctionEnd, Raise
    <2> QED
      BY <2>1, RaiseKeeps
  <1>2. CASE fn.gotos \subseteq fn.labels
    <2>1. /\ UNCHANGED <<ctypes, lastid, events, head, items>> /\ fn' = NoFunction
          /\ stack' = SubSeq(stack, 1, Len(stack) - 1) /\ loops' = loops
          /\ switches' = switches /\ tok' = NoTok /\ mode' = "done"
          /\ scopes' = Pop(scopes) /\ Top.k = "body"
      BY <1>2 DEF FunctionEnd, Consume, PopFrame, Done, At, In, history
    <2>2. "body" \in Scoped /\ "body" \notin LoopKinds
      BY DEF Scoped, LoopKinds
    <2>3. fn' \in Function /\ Leaves("body")
      <3>1. <<>> \in Seq(Nat)
        OBVIOUS
      <3> QED
        BY <2>1, <3>1 DEF NoFunction, Function, Leaves
    <2> QED
      BY <2>1, <2>2, <2>3, ScopeClosed
  <1> QED
    BY <1>1, <1>2

(* A declaration in a scope that has just been opened. *)
LEMMA OpenedWith ==
  ASSUME NEW sc \in Seq(Scope), Len(sc) > 0, NEW level \in Levels,
         NEW n \in Names, NEW e \in Entry
  PROVE  LET new == AddSym(Push(sc, level), n, e)
         IN  /\ new \in Seq(Scope) /\ Len(new) = Len(sc) + 1
             /\ \A i \in DOMAIN sc : new[i].level = sc[i].level
             /\ new[Len(sc) + 1].level = level
             /\ \A l, m : LocalsIn(sc, l) /\ Lists(m, l) /\ (e.ty = "constant" \/ Has(m, e.id))
                       => LocalsIn(new, m)
             /\ \A types : TagsIn(sc, types) => TagsIn(new, types)
             /\ OneRole(sc) /\ NoTypedefs(sc, n) => OneRole(new)
  <1> DEFINE in == Push(sc, level)
             new == AddSym(in, n, e)
  <1>1. /\ in \in Seq(Scope) /\ Len(in) = Len(sc) + 1 /\ Len(sc) \in Nat
        /\ \A i \in DOMAIN sc : in[i] = sc[i]
        /\ in[Len(sc) + 1] = NewScope(level)
    BY PushIs, LenProperties
  <1>2. /\ DOMAIN sc = 1..Len(sc) /\ DOMAIN in = 1..(Len(sc) + 1) /\ Len(in) > 0
        /\ in[Len(sc) + 1].level = level
    BY <1>1, LenProperties DEF NewScope
  <1>3. /\ \A l : LocalsIn(sc, l) => LocalsIn(in, l)
        /\ \A types : TagsIn(sc, types) => TagsIn(in, types)
        /\ \A m \in Names : NoTypedefs(sc, m) => NoTypedefs(in, m)
        /\ OneRole(sc) => OneRole(in)
    BY PushKeeps
  <1> HIDE DEF in
  <1>4. /\ new \in Seq(Scope) /\ Len(new) = Len(in)
        /\ \A i \in DOMAIN in : new[i].level = in[i].level
    BY <1>1, <1>2, AddSymIs
  <1>5. /\ \A l, m : LocalsIn(in, l) /\ Lists(m, l)
                      /\ (Len(in) = 1 \/ e.ty = "constant" \/ Has(m, e.id))
                   => LocalsIn(new, m)
        /\ \A types : TagsIn(in, types) <=> TagsIn(new, types)
        /\ OneRole(in) /\ NoTypedefs(in, n) => OneRole(new)
    BY <1>1, <1>2, AddSymKeeps
  <1>6. /\ \A i \in DOMAIN sc : i \in DOMAIN in
        /\ Len(sc) + 1 \in DOMAIN in
    BY <1>1, <1>2
  <1> HIDE DEF new
  <1>7. /\ \A i \in DOMAIN sc : new[i].level = sc[i].level
        /\ new[Len(sc) + 1].level = level
    BY <1>1, <1>2, <1>4, <1>6
  <1>8. \A l, m : LocalsIn(sc, l) /\ Lists(m, l) /\ (e.ty = "constant" \/ Has(m, e.id))
               => LocalsIn(new, m)
    BY <1>3, <1>5
  <1>9. /\ \A types : TagsIn(sc, types) => TagsIn(new, types)
        /\ OneRole(sc) /\ NoTypedefs(sc, n) => OneRole(new)
    BY <1>3, <1>5
  <1> QED
    BY <1>1, <1>4, <1>7, <1>8, <1>9 DEF new, in

LEMMA ForKeeps ==
  ASSUME IInv, For
  PROVE  IInv'
  <1>1. TypeOK /\ LocalsRecorded /\ TagsKnown /\ Unmixed /\ StackNests /\ NestingAgrees
    BY DEF IInv
  <1>2. scopes \in Seq(Scope) /\ Len(scopes) > 0 /\ "block" \in Levels
    BY <1>1 DEF TypeOK, Levels
  <1>3. /\ UNCHANGED <<ctypes, head, items>>
        /\ stack' = Append(stack, [k |-> "for", ty |-> 0]) /\ loops' = Append(loops, "for")
        /\ switches' = switches /\ tok' = NoTok /\ mode' = "start" /\ tok.k = "for"
    BY DEF For, Consume, PushFrame, At
  <1>4. InFunction
    BY <1>1, <1>3 DEF StackNests, StatementKinds
  <1>5. "for" \in Scoped /\ "for" \in LoopKinds
    BY DEF Scoped, LoopKinds
  <1>6. Top.k # "struct" /\ WhereItMay("for")
    BY <1>4 DEF InFunction, In, Sub, WhereItMay
  <1>7. fn.on
    BY <1>1, <1>4, WhereOnStack
  <1>8. /\ scopes' \in Seq(Scope) /\ Len(scopes') = Len(scopes) + 1
        /\ \A i \in DOMAIN scopes : scopes'[i].level = scopes[i].level
        /\ scopes'[Len(scopes) + 1].level = "block"
        /\ LocalsRecorded' /\ TagsKnown' /\ Unmixed'
        /\ fn' \in Function /\ fn'.on = (fn.on \/ "for" = "body")
        /\ lastid' \in Nat /\ events' \subseteq {"mixed", "twice", "own"}
    <2>1. CASE tok.n = NoName
      <3>1. scopes' = Push(scopes, "block") /\ fn' = fn /\ lastid' = lastid /\ events' = events
        BY <2>1 DEF For
      <3>2. /\ scopes' \in Seq(Scope) /\ Len(scopes') = Len(scopes) + 1
            /\ \A i \in DOMAIN scopes : scopes'[i] = scopes[i]
            /\ scopes'[Len(scopes) + 1] = NewScope("block")
        BY <1>2, <3>1, PushIs
      <3>3. LocalsRecorded' /\ TagsKnown' /\ Unmixed'
        BY <1>1, <1>2, <1>3, <3>1, PushKeeps, TablesIn
      <3>4. /\ \A i \in DOMAIN scopes : scopes'[i].level = scopes[i].level
            /\ scopes'[Len(scopes) + 1].level = "block"
        BY <3>2 DEF NewScope
      <3>5. /\ fn' \in Function /\ fn'.on = (fn.on \/ "for" = "body")
            /\ lastid' \in Nat /\ events' \subseteq {"mixed", "twice", "own"}
        BY <1>1, <3>1 DEF TypeOK, Function
      <3> QED
        BY <3>2, <3>3, <3>4, <3>5
    <2>2. CASE tok.n # NoName
      <3> DEFINE e == [id |-> lastid + 1, st |-> "none", ty |-> "int"]
      <3>1. /\ scopes' = AddSym(Push(scopes, "block"), tok.n, e)
            /\ fn' = WithLocal(fn, e, FALSE) /\ lastid' = lastid + 1
            /\ events' = events \cup (IF IsTypedefName(scopes, tok.n) THEN {"mixed"} ELSE {})
        BY <2>2 DEF For
      <3>2. e \in Entry /\ tok.n \in Names /\ e.ty # "constant"
        BY <1>1, <1>3, <2>2, TokenFields, NewEntry DEF TypeOK, Types
      <3> HIDE DEF e
      <3>3. /\ scopes' \in Seq(Scope) /\ Len(scopes') = Len(scopes) + 1
            /\ \A i \in DOMAIN scopes : scopes'[i].level = scopes[i].level
            /\ scopes'[Len(scopes) + 1].level = "block"
            /\ \A l, m : LocalsIn(scopes, l) /\ Lists(m, l) /\ (e.ty = "constant" \/ Has(m, e.id))
                      => LocalsIn(scopes', m)
            /\ \A types : TagsIn(scopes, types) => TagsIn(scopes', types)
            /\ OneRole(scopes) /\ NoTypedefs(scopes, tok.n) => OneRole(scopes')
        BY <1>2, <3>1, <3>2, OpenedWith
      <3>4. /\ fn' \in Function /\ fn'.on = fn.on
            /\ Lists(fn'.locals, fn.locals) /\ Has(fn'.locals, e.id)
        <4>1. fn \in Function /\ FALSE \in BOOLEAN
          BY <1>1 DEF TypeOK
        <4> QED
          BY <1>7, <3>1, <3>2, <4>1, LocalListed
      <3>5. LocalsRecorded'
        BY <1>1, <3>3, <3>4, TablesIn
      <3>6. TagsKnown'
        BY <1>1, <1>3, <3>3, TablesIn
      <3>7. Unmixed'
        BY <1>1, <1>2, <3>1, <3>2, <3>3, VisibleIs, TablesIn
      <3>8. fn'.on = (fn.on \/ "for" = "body")
        BY <1>1, <3>4 DEF TypeOK, Function
      <3>9. lastid' \in Nat /\ events' \subseteq {"mixed", "twice", "own"}
        BY <1>1, <3>1 DEF TypeOK
      <3> QED
        BY <3>3, <3>4, <3>5, <3>6, <3>7, <3>8, <3>9
    <2> QED
      BY <2>1, <2>2
  <1> QED
    BY <1>3, <1>5, <1>6, <1>8, ScopeOpened

LEMMA FunctionStartKeeps ==
  ASSUME IInv, FunctionStart
  PROVE  IInv'
  <1> DEFINE e == [id |-> lastid + 1, st |-> "none", ty |-> "fn"]
             p == [id |-> lastid + 2, st |-> "auto", ty |-> "int"]
  <1>1. TypeOK /\ LocalsRecorded /\ TagsKnown /\ Unmixed /\ StackNests /\ NestingAgrees
    BY DEF IInv
  <1>2. scopes \in Seq(Scope) /\ Len(scopes) > 0 /\ "method" \in Levels
    BY <1>1 DEF TypeOK, Levels
  <1>3. CASE In(Sub) \/ ~In({"unit"}) \/ Redefines(scopes, tok.n, e)
    <2>1. \/ RaiseAt("expression", NoName) \/ RaiseAt("redefinition", tok.n)
          \/ RaiseAt("syntax", NoName)
      BY <1>3 DEF FunctionStart, Raise, In, Sub
    <2> QED
      BY <2>1, RaiseKeeps
  <1>4. CASE ~(In(Sub) \/ ~In({"unit"}) \/ Redefines(scopes, tok.n, e))
    <2>1. /\ tok.k = "function"
          /\ UNCHANGED <<ctypes, head, items>>
          /\ stack' = Append(stack, [k |-> "body", ty |-> 0]) /\ loops' = loops
          /\ switches' = switches /\ tok' = NoTok /\ mode' = "start" /\ Top.k = "unit"
      BY <1>4 DEF FunctionStart, Consume, PushFrame, At, In
    <2>2. /\ scopes' = AddSym(Push(AddSym(scopes, tok.n, e), "method"), tok.p, p)
          /\ fn' = [NewFunction EXCEPT !.locals = <<p.id>>]
          /\ lastid' = lastid + 2
          /\ events' = events \cup SymEvents(tok.n, e)
                         \cup (IF IsTypedefName(scopes, tok.p) THEN {"mixed"} ELSE {})
      BY <1>4 DEF FunctionStart, In
    <2>3. e \in Entry /\ p \in Entry /\ p.ty # "constant" /\ p.id \in Nat
          /\ tok.n \in Names /\ tok.p \in Names
      BY <1>1, <2>1, TokenFields, NewEntry DEF TypeOK, Types
    <2>4. SymEvents(tok.n, e) \subseteq {"mixed", "twice"}
          /\ (IsTypedefName(scopes, tok.n) => "mixed" \in SymEvents(tok.n, e))
      BY EventTypes DEF SymEvents
    <2>5. /\ fn' \in Function /\ fn'.on = (fn.on \/ "body" = "body") /\ fn'.locals = <<p.id>>
      <3>1. <<p.id>> \in Seq(Nat)
        BY <2>3
      <3>2. fn' = [on |-> TRUE, labels |-> {}, gotos |-> {}, locals |-> <<p.id>>]
        BY <2>2 DEF NewFunction, NoFunction
      <3> HIDE DEF p
      <3> QED
        BY <3>1, <3>2 DEF Function
    <2> HIDE DEF e, p
    <2> DEFINE sc == AddSym(scopes, tok.n, e)
    <2>6. /\ sc \in Seq(Scope) /\ Len(sc) = Len(scopes)
          /\ \A i \in DOMAIN scopes : sc[i].level = scopes[i].level
          /\ \A types : TagsIn(scopes, types) <=> TagsIn(sc, types)
          /\ \A m \in Names : NoTypedefs(scopes, m) => NoTypedefs(sc, m)
          /\ OneRole(scopes) /\ NoTypedefs(scopes, tok.n) => OneRole(sc)
      <3>1. /\ sc \in Seq(Scope) /\ Len(sc) = Len(scopes)
            /\ \A i \in DOMAIN scopes : sc[i].level = scopes[i].level
        <4> HIDE DEF sc
        <4>1. sc = AddSym(scopes, tok.n, e) /\ tok.n \in Names /\ e \in Entry
          BY <2>3 DEF sc
        <4> QED
          BY <1>2, <4>1, AddSymIs
      <3>2. /\ \A types : TagsIn(scopes, types) <=> TagsIn(sc, types)
            /\ \A m \in Names : NoTypedefs(scopes, m) => NoTypedefs(sc, m)
            /\ OneRole(scopes) /\ NoTypedefs(scopes, tok.n) => OneRole(sc)
        BY <1>2, <2>3, AddSymKeeps
      <3> QED
        BY <3>1, <3>2
    <2>7. scopes' = AddSym(Push(sc, "method"), tok.p, p) /\ Len(sc) > 0
      BY <1>2, <2>2, <2>6
    <2> HIDE DEF sc
    <2>8. /\ scopes' \in Seq(Scope) /\ Len(scopes') = Len(sc) + 1
          /\ \A i \in DOMAIN sc : scopes'[i].level = sc[i].level
          /\ scopes'[Len(sc) + 1].level = "method"
          /\ \A l, m : LocalsIn(sc, l) /\ Lists(m, l) /\ (p.ty = "constant" \/ Has(m, p.id))
                    => LocalsIn(scopes', m)
          /\ \A types : TagsIn(sc, types) => TagsIn(scopes', types)
          /\ OneRole(sc) /\ NoTypedefs(sc, tok.p) => OneRole(scopes')
      BY <1>2, <2>3, <2>6, <2>7, OpenedWith
    <2>9. Len(stack) = 1 /\ Len(scopes) = 1
      BY <1>1, <2>1, WhereOnStack
    <2>10. DOMAIN sc = DOMAIN scopes
      BY <2>6, LenProperties
    <2>11. /\ Len(scopes') = Len(scopes) + 1
           /\ \A i \in DOMAIN scopes : scopes'[i].level = scopes[i].level
           /\ scopes'[Len(scopes) + 1].level = IF "body" = "body" THEN "method" ELSE "block"
      BY <2>6, <2>8, <2>10
    <2>12. LocalsRecorded'
      <3>1. LocalsIn(sc, <<>>)
        <4>1. 2..1 = {}
          OBVIOUS
        <4> QED
          BY <2>6, <2>9, <4>1 DEF LocalsIn
      <3>2. Has(fn'.locals, p.id)
        BY <2>5 DEF Has
      <3>3. Lists(fn'.locals, <<>>)
        BY DEF Lists
      <3>4. LocalsIn(scopes', fn'.locals)
        BY <2>8, <3>1, <3>2, <3>3
      <3> QED
        BY <3>4, TablesIn
    <2>13. TagsKnown'
      BY <1>1, <2>1, <2>6, <2>8, TablesIn
    <2>14. Unmixed'
      <3> SUFFICES ASSUME "mixed" \notin events'
                   PROVE  OneRole(scopes')
        BY TablesIn
      <3>1. /\ "mixed" \notin events /\ ~IsTypedefName(scopes, tok.n)
            /\ ~IsTypedefName(scopes, tok.p)
        BY <2>2, <2>4
      <3>2. NoTypedefs(scopes, tok.n) /\ NoTypedefs(scopes, tok.p)
        BY <1>2, <2>3, <3>1, VisibleIs
      <3>3. OneRole(scopes)
        BY <1>1, <3>1, TablesIn
      <3> QED
        BY <2>3, <2>6, <2>8, <3>2, <3>3
    <2>15. lastid' \in Nat /\ events' \subseteq {"mixed", "twice", "own"}
      BY <1>1, <2>2, <2>4 DEF TypeOK
    <2>16. "body" \in Scoped /\ "body" \notin LoopKinds /\ WhereItMay("body")
      BY <2>9 DEF Scoped, LoopKinds, WhereItMay, Sub
    <2> QED
      BY <2>1, <2>5, <2>8, <2>11, <2>12, <2>13, <2>14, <2>15, <2>16, ScopeOpened
  <1> QED
    BY <1>3, <1>4

-----------------------------------------------------------------------------
(* Declarations and tags                                                   *)

(* The types of an outer scope and its tags are what they were. *)
TypesStay(types) ==
  \A t \in DOMAIN ctypes : t \in DOMAIN types /\ types[t].s = ctypes[t].s
TagsStay(sc) ==
  \A s \in Tags : CurrentTag(scopes, s) # 0 => CurrentTag(sc, s) = CurrentTag(scopes, s)

(* sc has the scopes that are open, but for tags. *)
SameButTags(sc) ==
  /\ sc \in Seq(Scope) /\ Len(sc) = Len(scopes)
  /\ \A i \in DOMAIN scopes :
       /\ sc[i].level = scopes[i].level /\ sc[i].syms = scopes[i].syms
       /\ sc[i].types = scopes[i].types

(* One more declaration, in the innermost scope: whatever a type before it *)
(* has done to the tags.                                                   *)
LEMMA DeclareKeeps ==
  ASSUME IInv, NEW sc, SameButTags(sc), TagsStay(sc), NEW n \in Names, NEW e \in Entry,
         scopes' = AddSym(sc, n, e), ctypes' \in Seq(CType), TypesStay(ctypes'),
         TagsIn(sc, ctypes'),
         fn' = WithLocal(fn, e, IsFileScope(scopes)), lastid' \in Nat,
         events' \subseteq {"mixed", "twice", "own"}, events \subseteq events',
         "mixed" \notin events' => ~IsTypedefName(scopes, n),
         UNCHANGED <<nesting, items>>, tok' = NoTok, mode' = "done", head' \in {head, NoHead}
  PROVE  IInv'
  <1>1. /\ TypeOK /\ StackNests /\ NestingAgrees /\ LocalsRecorded /\ MembersOfOwnTag /\ Unmixed
        /\ HeadIsCurrent
    BY DEF IInv
  <1>2. /\ scopes \in Seq(Scope) /\ Len(scopes) > 0 /\ sc \in Seq(Scope) /\ Len(sc) > 0
        /\ Len(sc) = Len(scopes) /\ DOMAIN sc = DOMAIN scopes /\ DOMAIN scopes = 1..Len(scopes)
        /\ Len(scopes) \in Nat
    BY <1>1, LenProperties DEF TypeOK, SameButTags
  <1>3. /\ scopes' \in Seq(Scope) /\ Len(scopes') = Len(scopes)
        /\ \A i \in DOMAIN scopes : scopes'[i].level = scopes[i].level
    <2>1. /\ scopes' \in Seq(Scope) /\ Len(scopes') = Len(sc)
          /\ \A i \in DOMAIN sc : scopes'[i].level = sc[i].level
      BY <1>2, AddSymIs
    <2> QED
      BY <1>2, <2>1 DEF SameButTags
  <1>4. /\ \A l, m : LocalsIn(sc, l) /\ Lists(m, l)
                      /\ (Len(sc) = 1 \/ e.ty = "constant" \/ Has(m, e.id))
                   => LocalsIn(scopes', m)
        /\ \A types : TagsIn(sc, types) <=> TagsIn(scopes', types)
        /\ OneRole(sc) /\ NoTypedefs(sc, n) => OneRole(scopes')
        /\ \A s \in Tags : CurrentTag(scopes', s) = CurrentTag(sc, s)
    BY <1>2, AddSymKeeps
  <1>5. LocalsIn(sc, fn.locals)
    <2>1. LocalsIn(scopes, fn.locals)
      BY <1>1, TablesIn
    <2>2. \A i \in 2..Len(sc) : i \in DOMAIN scopes
      BY <1>2
    <2> QED
      BY <1>2, <2>1, <2>2 DEF LocalsIn, SameButTags
  <1>6. fn \in Function /\ IsFileScope(scopes) \in BOOLEAN
    BY <1>1 DEF TypeOK, IsFileScope
  <1>7. /\ fn' \in Function /\ fn'.on = fn.on /\ Lists(fn'.locals, fn.locals)
        /\ fn.on /\ ~IsFileScope(scopes) /\ e.ty # "constant" => Has(fn'.locals, e.id)
    BY <1>6, LocalListed
  <1>8. Len(sc) = 1 \/ (fn.on /\ ~IsFileScope(scopes))
    <2> SUFFICES ASSUME Len(scopes) # 1
                 PROVE  fn.on /\ ~IsFileScope(scopes)
      BY <1>2
    <2>1. Len(scopes) > 1 /\ Len(scopes) \in DOMAIN scopes
      BY <1>2
    <2>2. fn.on
      BY <1>1, <2>1, WhereOnStack
    <2>3. scopes[Len(scopes)].level # "file"
      BY <1>1, <2>1 DEF NestingAgrees, ScopesAgree
    <2> QED
      BY <2>2, <2>3 DEF IsFileScope, Inner
  <1>9. LocalsRecorded'
    <2>1. LocalsIn(scopes', fn'.locals)
      BY <1>4, <1>5, <1>7, <1>8
    <2> QED
      BY <2>1, TablesIn
  <1>10. TagsKnown'
    BY <1>4, TablesIn
  <1>11. Unmixed'
    <2> SUFFICES ASSUME "mixed" \notin events'
                 PROVE  OneRole(scopes')
      BY TablesIn
    <2>1. OneRole(scopes) /\ NoTypedefs(scopes, n)
      BY <1>1, <1>2, VisibleIs, TablesIn
    <2>2. \A m \in Names : /\ NoTypedefs(scopes, m) => NoTypedefs(sc, m)
                           /\ NoSyms(scopes, m) => NoSyms(sc, m)
      BY <1>2 DEF NoTypedefs, NoSyms, SameButTags
    <2>3. OneRole(sc) /\ NoTypedefs(sc, n)
      BY <2>1, <2>2 DEF OneRole
    <2> QED
      BY <1>4, <2>3
  <1>12. PlainStep
    BY <1>3, <1>7 DEF PlainStep, StepOf, Stays, KeepsLevels
  <1>13. MembersOfOwnTag'
    <2>1. /\ \A t \in DOMAIN ctypes : t \in DOMAIN ctypes' /\ ctypes'[t].s = ctypes[t].s
          /\ \A s \in Tags : CurrentTag(scopes, s) # 0 =>
                               CurrentTag(scopes', s) = CurrentTag(scopes, s)
      BY <1>4 DEF TypesStay, TagsStay
    <2> QED
      BY <1>1, <1>12, <2>1, MembersKept
  <1>14. StatementsInFunction'
    BY DEF StatementsInFunction, NoTok, StatementKinds
  <1>15. HeadIsCurrent'
    BY <1>1, HeadKept
  <1>16. /\ mode' \in Modes /\ tok' \in SourceItems \cup {NoTok, Eof} /\ items' \in 0..MaxItems
    BY <1>1 DEF TypeOK, Modes
  <1> QED
    BY <1>3, <1>7, <1>9, <1>10, <1>11, <1>12, <1>13, <1>14, <1>15, <1>16, PlainIsStep, InvariantKept

LEMMA SameScopes ==
  ASSUME IInv
  PROVE  /\ SameButTags(scopes) /\ TagsStay(scopes) /\ TypesStay(ctypes)
         /\ TagsIn(scopes, ctypes) /\ ctypes \in Seq(CType)
  <1>1. TypeOK /\ TagsKnown
    BY DEF IInv
  <1> QED
    BY <1>1, TablesIn DEF SameButTags, TagsStay, TypesStay, TypeOK

LEMMA SymEventsAre ==
  ASSUME NEW n, NEW e
  PROVE  /\ SymEvents(n, e) \subseteq {"mixed", "twice"}
         /\ IsTypedefName(scopes, n) => "mixed" \in SymEvents(n, e)
  BY DEF SymEvents

LEMMA DefineSymKeeps ==
  ASSUME IInv, NEW n \in Names, NEW st \in {"none", "extern", "auto"}, NEW ty \in Types,
         DefineSym(n, st, ty)
  PROVE  IInv'
  <1> DEFINE e == [id |-> lastid + 1, st |-> st, ty |-> ty]
  <1>1. CASE Redefines(scopes, n, e)
    <2>1. RaiseAt("redefinition", n)
      BY <1>1 DEF DefineSym
    <2> QED
      BY <2>1, RaiseKeeps
  <1>2. CASE ~Redefines(scopes, n, e)
    <2>1. /\ scopes' = AddSym(scopes, n, e) /\ ctypes' = ctypes
          /\ fn' = WithLocal(fn, e, IsFileScope(scopes)) /\ lastid' = lastid + 1
          /\ events' = events \cup SymEvents(n, e)
          /\ UNCHANGED <<nesting, items>> /\ tok' = NoTok /\ mode' = "done" /\ head' = head
      BY <1>2 DEF DefineSym, Consume, Done
    <2>2. lastid \in Nat /\ events \subseteq {"mixed", "twice", "own"}
      BY DEF IInv, TypeOK
    <2>3. e \in Entry
      BY <2>2, NewEntry
    <2> HIDE DEF e
    <2>4. /\ lastid' \in Nat /\ events' \subseteq {"mixed", "twice", "own"}
          /\ events \subseteq events' /\ ("mixed" \notin events' => ~IsTypedefName(scopes, n))
      <3>1. SymEvents(n, e) \subseteq {"mixed", "twice"}
        BY SymEventsAre
      <3>2. IsTypedefName(scopes, n) => "mixed" \in SymEvents(n, e)
        BY SymEventsAre
      <3>3. lastid' \in Nat
        BY <2>1, <2>2
      <3>4. events' = events \cup SymEvents(n, e)
        BY <2>1
      <3>5. events \subseteq {"mixed", "twice", "own"}
        BY <2>1, <2>2
      <3>6. events' \subseteq {"mixed", "twice", "own"}
        BY <3>1, <3>4, <3>5
      <3>7. "mixed" \notin events' => ~IsTypedefName(scopes, n)
        BY <3>2, <3>4
      <3> QED
        BY <3>3, <3>4, <3>6, <3>7
    <2> QED
      BY <2>1, <2>3, <2>4, SameScopes, DeclareKeeps
  <1> QED
    BY <1>1, <1>2

LEMMA ObjectKeeps ==
  ASSUME IInv, Object
  PROVE  IInv'
  <1>1. tok.k = "object" /\ TypeOK
    BY DEF Object, At, IInv
  <1>2. tok.n \in Names /\ tok.st \in {"none", "extern", "auto"} /\ tok.ty \in Types
    BY <1>1, TokenFields
  <1>3. \/ DefineSym(tok.n, tok.st, tok.ty) \/ Skip \/ RaiseAt("expression", NoName)
    BY DEF Object, Raise
  <1> QED
    BY <1>2, <1>3, DefineSymKeeps, SkipKeeps, RaiseKeeps

LEMMA AliasKeeps ==
  ASSUME IInv, Alias
  PROVE  IInv'
  <1>1. tok.k = "alias" /\ TypeOK
    BY DEF Alias, At, IInv
  <1>2. tok.n \in Names /\ tok.t \in Names
    BY <1>1, TokenFields
  <1>3. Typedef(scopes, tok.t).ty \in Types
    BY <1>1, <1>2, LookupTypes DEF TypeOK, Entry
  <1>4. \/ DefineSym(tok.n, "none", Typedef(scopes, tok.t).ty) \/ Skip
        \/ RaiseAt("undeclared", tok.t) \/ RaiseAt("redefinition", tok.t)
        \/ RaiseAt("syntax", NoName)
    BY DEF Alias, Raise
  <1> QED
    BY <1>2, <1>3, <1>4, DefineSymKeeps, SkipKeeps, RaiseKeeps

LEMMA UseNameKeeps ==
  ASSUME IInv, UseName
  PROVE  IInv'
  <1>1. tok.k = "use" /\ TypeOK
    BY DEF UseName, At, IInv
  <1>2. tok.n \in Names /\ "int" \in Types
    BY <1>1, TokenFields DEF Types
  <1>3. DefineSym(tok.n, "none", "int") \/ Skip \/ Mention
    BY DEF UseName
  <1> QED
    BY <1>2, <1>3, DefineSymKeeps, SkipKeeps, MentionKeeps

LEMMA InitializedKeeps ==
  ASSUME IInv, Initialized
  PROVE  IInv'
  <1> DEFINE e == [id |-> lastid + 1, st |-> "none", ty |-> "int"]
  <1>1. tok.k = "init" /\ TypeOK
    BY DEF Initialized, At, IInv
  <1>2. tok.n \in Names /\ lastid \in Nat /\ events \subseteq {"mixed", "twice", "own"}
    BY <1>1, TokenFields DEF TypeOK
  <1>3. CASE RaiseAt("undeclared", tok.m) \/ RaiseAt("redefinition", tok.n)
    BY <1>3, RaiseKeeps
  <1>4. CASE InitializedOk
    <2>1. /\ scopes' = AddSym(scopes, tok.n, e) /\ ctypes' = ctypes
          /\ fn' = WithLocal(fn, e, IsFileScope(scopes)) /\ lastid' = lastid + 1
          /\ events' = events \cup SymEvents(tok.n, e)
                          \cup (IF tok.n = tok.m THEN {"own"} ELSE {})
          /\ UNCHANGED <<nesting, items>> /\ tok' = NoTok /\ mode' = "done" /\ head' = head
      BY <1>4 DEF InitializedOk, Consume, Done
    <2>2. e \in Entry
      BY <1>2, NewEntry DEF Types
    <2> HIDE DEF e
    <2>3. /\ lastid' \in Nat /\ events' \subseteq {"mixed", "twice", "own"}
          /\ events \subseteq events' /\ ("mixed" \notin events' => ~IsTypedefName(scopes, tok.n))
      <3>1. SymEvents(tok.n, e) \subseteq {"mixed", "twice"}
        BY SymEventsAre
      <3>2. IsTypedefName(scopes, tok.n) => "mixed" \in SymEvents(tok.n, e)
        BY SymEventsAre
      <3>3. lastid' \in Nat
        BY <1>2, <2>1
      <3>4. events' = events \cup SymEvents(tok.n, e)
                           \cup (IF tok.n = tok.m THEN {"own"} ELSE {})
        BY <2>1
      <3>5. events \subseteq {"mixed", "twice", "own"}
        BY <1>2, <2>1
      <3>6. events' \subseteq {"mixed", "twice", "own"}
        BY <3>1, <3>4, <3>5
      <3>7. "mixed" \notin events' => ~IsTypedefName(scopes, tok.n)
        BY <3>2, <3>4
      <3> QED
        BY <3>3, <3>4, <3>6, <3>7
    <2> QED
      BY <1>2, <2>1, <2>2, <2>3, SameScopes, DeclareKeeps
  <1> QED
    BY <1>3, <1>4 DEF Initialized

LEMMA TypedefDeclKeeps ==
  ASSUME IInv, TypedefDecl
  PROVE  IInv'
  <1> DEFINE e == [id |-> lastid + 1, st |-> "none", ty |-> tok.ty]
  <1>1. /\ TypeOK /\ StackNests /\ NestingAgrees /\ LocalsRecorded /\ TagsKnown
        /\ MembersOfOwnTag /\ Unmixed /\ HeadIsCurrent
    BY DEF IInv
  <1>2. tok.k = "typedef"
    BY DEF TypedefDecl, At
  <1>3. tok.n \in Names /\ tok.ty \in Types
    BY <1>1, <1>2, TokenFields
  <1>4. CASE Skip
    BY <1>4, SkipKeeps
  <1>5. CASE RaiseAt("expression", NoName) \/ RaiseAt("redefinition", tok.n)
    BY <1>5, RaiseKeeps
  <1>6. CASE /\ scopes' = AddType(scopes, tok.n, e) /\ lastid' = lastid + 1
             /\ events' = events \cup (IF Sym(scopes, tok.n).id # 0 THEN {"mixed"} ELSE {})
             /\ tok' = NoTok /\ mode' = "done"
             /\ UNCHANGED <<ctypes, fn, nesting, head, items>>
    <2>1. e \in Entry
      BY <1>1, <1>3, NewEntry DEF TypeOK
    <2>2. scopes \in Seq(Scope) /\ Len(scopes) > 0
      BY <1>1 DEF TypeOK
    <2>3. scopes' = AddType(scopes, tok.n, e)
      BY <1>6
    <2> HIDE DEF e
    <2>4. /\ scopes' \in Seq(Scope) /\ Len(scopes') = Len(scopes)
          /\ \A i \in DOMAIN scopes : scopes'[i].level = scopes[i].level
      BY <1>3, <2>1, <2>2, <2>3, AddTypeIs
    <2>5. /\ \A l : LocalsIn(scopes, l) => LocalsIn(scopes', l)
          /\ \A types : TagsIn(scopes, types) <=> TagsIn(scopes', types)
          /\ OneRole(scopes) /\ NoSyms(scopes, tok.n) => OneRole(scopes')
          /\ \A s \in Tags : CurrentTag(scopes', s) = CurrentTag(scopes, s)
      BY <1>3, <2>1, <2>2, <2>3, AddTypeKeeps
    <2>6. LocalsRecorded' /\ TagsKnown'
      BY <1>1, <1>6, <2>5, TablesIn
    <2>7. Unmixed'
      <3> SUFFICES ASSUME "mixed" \notin events'
                   PROVE  OneRole(scopes')
        BY TablesIn
      <3>1. "mixed" \notin events /\ Sym(scopes, tok.n).id = 0
        BY <1>6
      <3>2. OneRole(scopes) /\ NoSyms(scopes, tok.n)
        BY <1>1, <1>3, <2>2, <3>1, VisibleIs, TablesIn
      <3> QED
        BY <2>5, <3>2
    <2>8. PlainStep
      BY <1>6, <2>4 DEF PlainStep, StepOf, Stays, KeepsLevels
    <2>9. MembersOfOwnTag'
      <3>1. /\ \A t \in DOMAIN ctypes : t \in DOMAIN ctypes' /\ ctypes'[t].s = ctypes[t].s
            /\ \A s \in Tags : CurrentTag(scopes, s) # 0 =>
                                 CurrentTag(scopes', s) = CurrentTag(scopes, s)
        BY <1>6, <2>5
      <3> QED
        BY <1>1, <2>8, <3>1, MembersKept
    <2>10. StatementsInFunction'
      BY <1>6 DEF StatementsInFunction, NoTok, StatementKinds
    <2>11. HeadIsCurrent'
      BY <1>1, <1>6, HeadKept
    <2>12. /\ mode' \in Modes /\ tok' \in SourceItems \cup {NoTok, Eof} /\ items' \in 0..MaxItems
           /\ ctypes' \in Seq(CType) /\ fn' \in Function
           /\ lastid' \in Nat /\ events' \subseteq {"mixed", "twice", "own"}
      BY <1>1, <1>6 DEF TypeOK, Modes
    <2> QED
      BY <2>4, <2>6, <2>7, <2>8, <2>9, <2>10, <2>11, <2>12, PlainIsStep, InvariantKept
  <1> QED
    BY <1>4, <1>5, <1>6 DEF TypedefDecl, Raise, Consume, Done

LEMMA SameNames ==
  ASSUME IInv, NEW sc, SameButTags(sc)
  PROVE  /\ LocalsIn(sc, fn.locals) /\ ("mixed" \notin events => OneRole(sc))
         /\ DOMAIN sc = DOMAIN scopes
  <1>1. TypeOK /\ LocalsRecorded /\ Unmixed
    BY DEF IInv
  <1>2. /\ DOMAIN sc = DOMAIN scopes /\ DOMAIN scopes = 1..Len(scopes) /\ Len(sc) = Len(scopes)
        /\ Len(scopes) \in Nat
    BY <1>1, LenProperties DEF TypeOK, SameButTags
  <1>3. LocalsIn(sc, fn.locals)
    <2>1. LocalsIn(scopes, fn.locals)
      BY <1>1, TablesIn
    <2>2. \A i \in 2..Len(sc) : i \in DOMAIN scopes
      BY <1>2
    <2> QED
      BY <1>2, <2>1, <2>2 DEF LocalsIn, SameButTags
  <1>4. \A m \in Names : /\ NoTypedefs(scopes, m) => NoTypedefs(sc, m)
                         /\ NoSyms(scopes, m) => NoSyms(sc, m)
    BY <1>2 DEF NoTypedefs, NoSyms, SameButTags
  <1>5. "mixed" \notin events => OneRole(scopes)
    BY <1>1, TablesIn
  <1> QED
    BY <1>2, <1>3, <1>4, <1>5 DEF OneRole

(* A struct or enum with no declarator. *)
LEMMA TagKeeps ==
  ASSUME IInv, NEW sc, SameButTags(sc), TagsStay(sc), scopes' = sc,
         ctypes' \in Seq(CType), TypesStay(ctypes'), TagsIn(sc, ctypes'),
         UNCHANGED <<fn, nesting, items, lastid, events>>,
         tok' \in {tok, NoTok}, mode' \in {"done", "again"}, head' \in {head, NoHead}
  PROVE  IInv'
  <1>1. /\ TypeOK /\ StackNests /\ NestingAgrees /\ MembersOfOwnTag /\ HeadIsCurrent
    BY DEF IInv
  <1>2. /\ LocalsIn(sc, fn.locals) /\ ("mixed" \notin events => OneRole(sc))
        /\ DOMAIN sc = DOMAIN scopes
    BY SameNames
  <1>3. LocalsRecorded' /\ TagsKnown' /\ Unmixed'
    BY <1>2, TablesIn
  <1>4. PlainStep
    BY DEF PlainStep, StepOf, Stays, KeepsLevels, SameButTags
  <1>5. MembersOfOwnTag'
    <2>1. /\ \A t \in DOMAIN ctypes : t \in DOMAIN ctypes' /\ ctypes'[t].s = ctypes[t].s
          /\ \A s \in Tags : CurrentTag(scopes, s) # 0 =>
                               CurrentTag(scopes', s) = CurrentTag(scopes, s)
      BY DEF TypesStay, TagsStay
    <2> QED
      BY <1>1, <1>4, <2>1, MembersKept
  <1>6. StatementsInFunction'
    <2>1. InFunction' <=> InFunction
      BY DEF nesting, InFunction, In, Top
    <2> QED
      BY <1>1, <2>1 DEF StackNests, StatementsInFunction, NoTok, StatementKinds
  <1>7. HeadIsCurrent'
    BY <1>1, HeadKept
  <1>8. /\ mode' \in Modes /\ tok' \in SourceItems \cup {NoTok, Eof} /\ items' \in 0..MaxItems
        /\ fn' \in Function /\ lastid' \in Nat /\ events' \subseteq {"mixed", "twice", "own"}
        /\ scopes' \in Seq(Scope)
    BY <1>1 DEF TypeOK, Modes, SameButTags
  <1> QED
    BY <1>3, <1>4, <1>5, <1>6, <1>7, <1>8, PlainIsStep, InvariantKept

(* What TagStep says of the tables. *)
LEMMA TagTables ==
  ASSUME IInv, NEW s \in Tags, NEW kw \in {"struct", "enum"}, NEW next, NEW t,
         t = TypeFor(CurrentTag(scopes, s), TagOf(scopes, s), next)
  PROVE  /\ SameButTags(ScopesWith(t, s)) /\ TagsStay(ScopesWith(t, s))
         /\ TypesWith(t, kw, s) \in Seq(CType) /\ TypesStay(TypesWith(t, kw, s))
         /\ TagsIn(ScopesWith(t, s), TypesWith(t, kw, s))
         /\ IdOf(t) \in DOMAIN TypesWith(t, kw, s)
         /\ Completed(TypesWith(t, kw, s), IdOf(t)) \in Seq(CType)
         /\ TypesStay(Completed(TypesWith(t, kw, s), IdOf(t)))
         /\ TagsIn(ScopesWith(t, s), Completed(TypesWith(t, kw, s), IdOf(t)))
  <1>1. TypeOK /\ TagsKnown
    BY DEF IInv
  <1> DEFINE sc == ScopesWith(t, s)
             types == TypesWith(t, kw, s)
  <1>2. /\ sc \in Seq(Scope) /\ Len(sc) = Len(scopes) /\ types \in Seq(CType)
        /\ DOMAIN ctypes \subseteq DOMAIN types
        /\ \A u \in DOMAIN ctypes : types[u] = ctypes[u]
        /\ IdOf(t) \in DOMAIN types
    BY <1>1, TagStep
  <1>3. /\ \A r \in Tags : CurrentTag(scopes, r) # 0 => CurrentTag(sc, r) = CurrentTag(scopes, r)
        /\ TagsIn(sc, types)
        /\ \A i \in DOMAIN scopes :
              /\ sc[i].level = scopes[i].level /\ sc[i].syms = scopes[i].syms
              /\ sc[i].types = scopes[i].types
    BY <1>1, TagStep
  <1> HIDE DEF sc, types
  <1>4. SameButTags(sc) /\ TagsStay(sc) /\ TypesStay(types)
    BY <1>2, <1>3 DEF SameButTags, TagsStay, TypesStay
  <1>5. /\ Completed(types, IdOf(t)) \in Seq(CType)
        /\ DOMAIN Completed(types, IdOf(t)) = DOMAIN types
        /\ \A u \in DOMAIN types : Completed(types, IdOf(t))[u].s = types[u].s
        /\ \A q : TagsIn(q, types) => TagsIn(q, Completed(types, IdOf(t)))
    BY <1>2, CompletedIs
  <1>6. TypesStay(Completed(types, IdOf(t))) /\ TagsIn(sc, Completed(types, IdOf(t)))
    BY <1>2, <1>3, <1>5 DEF TypesStay
  <1> QED
    BY <1>2, <1>3, <1>4, <1>5, <1>6 DEF sc, types

LEMMA EnumDeclKeeps ==
  ASSUME IInv, EnumDecl
  PROVE  IInv'
  <1> DEFINE t == TypeFor(CurrentTag(scopes, tok.s), TagOf(scopes, tok.s), "lbrace")
             sc == ScopesWith(t, tok.s)
             types == Completed(TypesWith(t, "enum", tok.s), IdOf(t))
             e == [id |-> lastid + 1, st |-> "extern", ty |-> "constant"]
  <1>1. tok.k = "enum" /\ TypeOK
    BY DEF EnumDecl, At, IInv
  <1>2. /\ tok.n \in Names /\ tok.s \in Tags /\ lastid \in Nat
        /\ events \subseteq {"mixed", "twice", "own"}
    BY <1>1, TokenFields DEF TypeOK
  <1>3. CASE RaiseAt("tag", NoName) \/ RaiseAt("null", NoName) \/ RaiseAt("redefinition", tok.n)
    BY <1>3, RaiseKeeps
  <1>4. CASE /\ ctypes' = types /\ scopes' = AddSym(sc, tok.n, e)
             /\ fn' = WithLocal(fn, e, IsFileScope(scopes)) /\ lastid' = lastid + 1
             /\ events' = events \cup SymEvents(tok.n, e)
             /\ UNCHANGED <<nesting, items>> /\ tok' = NoTok /\ mode' = "done" /\ head' = head
    <2>1. e \in Entry
      BY <1>2, NewEntry DEF Types
    <2>2. /\ SameButTags(sc) /\ TagsStay(sc) /\ types \in Seq(CType) /\ TypesStay(types)
          /\ TagsIn(sc, types)
      BY <1>2, TagTables
    <2> HIDE DEF e, sc, types, t
    <2>3. /\ lastid' \in Nat /\ events' \subseteq {"mixed", "twice", "own"}
          /\ events \subseteq events' /\ ("mixed" \notin events' => ~IsTypedefName(scopes, tok.n))
      <3>1. SymEvents(tok.n, e) \subseteq {"mixed", "twice"}
        BY SymEventsAre
      <3>2. IsTypedefName(scopes, tok.n) => "mixed" \in SymEvents(tok.n, e)
        BY SymEventsAre
      <3>3. lastid' \in Nat /\ events' = events \cup SymEvents(tok.n, e)
        BY <1>2, <1>4
      <3>4. events' \subseteq {"mixed", "twice", "own"}
        BY <1>2, <3>1, <3>3
      <3>5. "mixed" \notin events' => ~IsTypedefName(scopes, tok.n)
        BY <3>2, <3>3
      <3> QED
        BY <3>3, <3>4, <3>5
    <2> QED
      BY <1>2, <1>4, <2>1, <2>2, <2>3, DeclareKeeps
  <1> QED
    BY <1>3, <1>4 DEF EnumDecl, Raise, Consume, Done

(* The tag whose declaration goes on. *)
LEMMA HeadOf ==
  ASSUME IInv, mode = "tag", NEW next
  PROVE  head.s \in Tags
         /\ HeadType(next) = TypeFor(CurrentTag(scopes, head.s), TagOf(scopes, head.s), next)
  BY DEF IInv, HeadIsCurrent, HeadType

LEMMA DeclaratorKeeps ==
  ASSUME IInv, Declarator
  PROVE  IInv'
  <1> DEFINE t == HeadType("ident")
             e == [id |-> lastid + 1, st |-> "none", ty |-> "struct"]
             sc == IF mode = "typed" THEN scopes ELSE ScopesWith(t, head.s)
             ct == IF mode = "typed" THEN ctypes ELSE TypesWith(t, "struct", head.s)
  <1>1. tok.k = "use" /\ TypeOK /\ mode \in {"tag", "typed"}
    BY DEF Declarator, At, IInv
  <1>2. tok.n \in Names /\ lastid \in Nat /\ events \subseteq {"mixed", "twice", "own"}
    BY <1>1, TokenFields DEF TypeOK
  <1>3. CASE RaiseAt("incomplete", NoName) \/ RaiseAt("redefinition", tok.n)
    BY <1>3, RaiseKeeps
  <1>4. CASE /\ head' = NoHead /\ tok' = NoTok /\ mode' = "done"
             /\ UNCHANGED <<tables, fn, nesting, items, saved, history, err, events>>
    BY <1>4, ConsumeKeeps DEF history
  <1>5. CASE /\ ctypes' = ct /\ scopes' = AddSym(sc, tok.n, e)
             /\ fn' = WithLocal(fn, e, IsFileScope(scopes)) /\ lastid' = lastid + 1
             /\ events' = events \cup SymEvents(tok.n, e)
             /\ UNCHANGED <<nesting, items>> /\ tok' = NoTok /\ mode' = "done" /\ head' = NoHead
    <2>1. e \in Entry
      BY <1>2, NewEntry DEF Types
    <2>2. /\ SameButTags(sc) /\ TagsStay(sc) /\ ct \in Seq(CType) /\ TypesStay(ct)
          /\ TagsIn(sc, ct)
      <3>1. CASE mode = "typed"
        BY <3>1, SameScopes
      <3>2. CASE mode = "tag"
        <4>1. head.s \in Tags
              /\ t = TypeFor(CurrentTag(scopes, head.s), TagOf(scopes, head.s), "ident")
          BY <3>2, HeadOf
        <4> HIDE DEF t
        <4>2. LET c == ScopesWith(t, head.s)
                  y == TypesWith(t, "struct", head.s)
              IN  /\ SameButTags(c) /\ TagsStay(c) /\ y \in Seq(CType) /\ TypesStay(y)
                  /\ TagsIn(c, y)
          BY <4>1, TagTables
        <4> QED
          BY <3>2, <4>2
      <3> QED
        BY <1>1, <3>1, <3>2
    <2> HIDE DEF e, sc, ct, t
    <2>3. /\ lastid' \in Nat /\ events' \subseteq {"mixed", "twice", "own"}
          /\ events \subseteq events' /\ ("mixed" \notin events' => ~IsTypedefName(scopes, tok.n))
      <3>1. SymEvents(tok.n, e) \subseteq {"mixed", "twice"}
        BY SymEventsAre
      <3>2. IsTypedefName(scopes, tok.n) => "mixed" \in SymEvents(tok.n, e)
        BY SymEventsAre
      <3>3. lastid' \in Nat /\ events' = events \cup SymEvents(tok.n, e)
        BY <1>2, <1>5
      <3>4. events' \subseteq {"mixed", "twice", "own"}
        BY <1>2, <3>1, <3>3
      <3>5. "mixed" \notin events' => ~IsTypedefName(scopes, tok.n)
        BY <3>2, <3>3
      <3> QED
        BY <3>3, <3>4, <3>5
    <2> QED
      BY <1>2, <1>5, <2>1, <2>2, <2>3, DeclareKeeps
  <1> QED
    BY <1>3, <1>4, <1>5 DEF Declarator, Raise, Consume, Done

LEMMA NoDeclaratorKeeps ==
  ASSUME IInv, NoDeclarator
  PROVE  IInv'
  <1> DEFINE t == HeadType("semi")
  <1>1. /\ mode \in {"tag", "typed"} /\ head' = NoHead /\ tok' = NoTok /\ mode' = "done"
        /\ UNCHANGED <<fn, nesting, items, lastid, events>>
    BY DEF NoDeclarator, At, Consume, Done, history
  <1>2. CASE mode = "typed"
    BY <1>1, <1>2, ConsumeKeeps DEF NoDeclarator
  <1>3. CASE mode = "tag"
    <2>1. ctypes' = TypesWith(t, "struct", head.s) /\ scopes' = ScopesWith(t, head.s)
      BY <1>3 DEF NoDeclarator
    <2>2. head.s \in Tags
          /\ t = TypeFor(CurrentTag(scopes, head.s), TagOf(scopes, head.s), "semi")
      BY <1>3, HeadOf
    <2> HIDE DEF t
    <2>3. LET c == ScopesWith(t, head.s)
              y == TypesWith(t, "struct", head.s)
          IN  /\ SameButTags(c) /\ TagsStay(c) /\ y \in Seq(CType) /\ TypesStay(y)
              /\ TagsIn(c, y)
      BY <2>2, TagTables
    <2> QED
      BY <1>1, <2>1, <2>3, TagKeeps
  <1> QED
    BY <1>1, <1>2, <1>3

LEMMA BadDeclarationKeeps ==
  ASSUME IInv, BadDeclaration
  PROVE  IInv'
  BY RaiseKeeps DEF BadDeclaration, Raise

LEMMA StructBodyKeeps ==
  ASSUME IInv, StructBody
  PROVE  IInv'
  <1> DEFINE t == HeadType("lbrace")
             sc == ScopesWith(t, head.s)
             types == TypesWith(t, "struct", head.s)
  <1>1. /\ TypeOK /\ StackNests /\ NestingAgrees /\ MembersOfOwnTag /\ TagsKnown /\ HeadIsCurrent
        /\ mode = "tag"
    BY DEF IInv, StructBody, At
  <1>2. CASE head.cur # 0 /\ ctypes[head.cur].complete
    <2>1. RaiseAt("tag", NoName)
      BY <1>2 DEF StructBody, Raise
    <2> QED
      BY <2>1, RaiseKeeps
  <1>3. CASE ~(head.cur # 0 /\ ctypes[head.cur].complete)
    <2>1. /\ ctypes' = types /\ scopes' = sc
          /\ stack' = Append(stack, [k |-> "struct", ty |-> IdOf(t)])
          /\ head' = NoHead /\ tok' = NoTok /\ mode' = "start"
          /\ UNCHANGED <<fn, loops, switches, items, lastid, events>>
      BY <1>3 DEF StructBody, PushFrame, Consume, history
    <2>2. head.s \in Tags
          /\ t = TypeFor(CurrentTag(scopes, head.s), TagOf(scopes, head.s), "lbrace")
      BY <1>1, HeadOf
    <2> HIDE DEF t
    <2>3. /\ SameButTags(sc) /\ TagsStay(sc) /\ types \in Seq(CType) /\ TypesStay(types)
          /\ TagsIn(sc, types)
      BY <2>2, TagTables
    <2>4. /\ IdOf(t) \in DOMAIN types /\ IdOf(t) \in Nat /\ types[IdOf(t)].s = head.s
          /\ CurrentTag(sc, head.s) = IdOf(t)
      <3>1. "lbrace" \in {"lbrace", "semi"} /\ "struct" \in {"struct", "enum"}
        OBVIOUS
      <3> QED
        BY <1>1, <2>2, <3>1, TagStep
    <2> HIDE DEF sc, types
    <2>5. /\ LocalsIn(sc, fn.locals) /\ ("mixed" \notin events => OneRole(sc))
      BY <2>3, SameNames
    <2>6. LocalsRecorded' /\ TagsKnown' /\ Unmixed'
      BY <2>1, <2>3, <2>5, TablesIn
    <2>7. Opens("struct", IdOf(t)) /\ WhereItMay("struct") /\ "struct" \in FrameKinds \ {"unit"}
      <3>1. "struct" \notin LoopKinds /\ "struct" \notin Scoped /\ "struct" \notin Sub
            /\ "struct" \in FrameKinds
        BY DEF LoopKinds, Scoped, Sub, FrameKinds
      <3>2. Len(scopes') = Len(scopes) /\ KeepsLevels
        BY <2>1, <2>3 DEF SameButTags, KeepsLevels
      <3>3. fn'.on = (fn.on \/ "struct" = "body")
        BY <1>1, <2>1 DEF TypeOK, Function
      <3> QED
        BY <2>1, <3>1, <3>2, <3>3 DEF Opens, WhereItMay
    <2>8. StackStep
      BY <2>4, <2>7 DEF StackStep, StepOf
    <2>9. MembersOfOwnTag'
      <3>1. /\ stack \in Seq(Frame) /\ Len(stack) \in Nat \ {0} /\ DOMAIN stack = 1..Len(stack)
            /\ ctypes \in Seq(CType) /\ DOMAIN ctypes = 1..Len(ctypes)
        BY <1>1, TopTypes, LenProperties DEF TypeOK
      <3>2. /\ DOMAIN stack' = 1..(Len(stack) + 1)
            /\ stack'[Len(stack) + 1] = [k |-> "struct", ty |-> IdOf(t)]
            /\ \A i \in 1..Len(stack) : stack'[i] = stack[i]
        BY <2>1, <2>4, <3>1 DEF Frame, FrameKinds
      <3> SUFFICES ASSUME NEW i \in DOMAIN stack', stack'[i].k = "struct"
                   PROVE  LET u == stack'[i].ty
                          IN  /\ u \in DOMAIN ctypes' /\ ctypes'[u].s \in Tags
                              /\ CurrentTag(scopes', ctypes'[u].s) = u
        BY DEF MembersOfOwnTag
      <3>3. CASE i = Len(stack) + 1
        <4>1. stack'[i].ty = IdOf(t)
          BY <3>2, <3>3
        <4> QED
          BY <2>1, <2>2, <2>4, <4>1
      <3>4. CASE i # Len(stack) + 1
        <4>1. i \in DOMAIN stack /\ stack'[i] = stack[i]
          BY <3>1, <3>2, <3>4
        <4> DEFINE u == stack[i].ty
        <4>2. u \in DOMAIN ctypes /\ ctypes[u].s \in Tags /\ CurrentTag(scopes, ctypes[u].s) = u
          BY <1>1, <4>1 DEF MembersOfOwnTag
        <4>3. u # 0
          BY <3>1, <4>2
        <4> HIDE DEF u
        <4>4. u \in DOMAIN ctypes' /\ ctypes'[u].s = ctypes[u].s
          BY <2>1, <2>3, <4>2 DEF TypesStay
        <4>5. CurrentTag(scopes', ctypes'[u].s) = u
          BY <2>1, <2>3, <4>2, <4>3, <4>4 DEF TagsStay
        <4> QED
          BY <4>1, <4>2, <4>4, <4>5 DEF u
      <3> QED
        BY <3>3, <3>4
    <2>10. StatementsInFunction'
      BY <2>1 DEF StatementsInFunction, NoTok, StatementKinds
    <2>11. HeadIsCurrent'
      BY <1>1, <2>1, HeadKept
    <2>12. /\ mode' \in Modes /\ tok' \in SourceItems \cup {NoTok, Eof} /\ items' \in 0..MaxItems
           /\ fn' \in Function /\ lastid' \in Nat /\ events' \subseteq {"mixed", "twice", "own"}
           /\ scopes' \in Seq(Scope) /\ ctypes' \in Seq(CType)
      BY <1>1, <2>1, <2>3 DEF TypeOK, Modes, SameButTags
    <2> QED
      BY <2>6, <2>8, <2>9, <2>10, <2>11, <2>12, InvariantKept
  <1> QED
    BY <1>2, <1>3

(* The members that are read are those of a type of the tables. *)
LEMMA TopIsOwnTag ==
  ASSUME IInv, Top.k = "struct"
  PROVE  /\ Top.ty \in DOMAIN ctypes /\ ctypes[Top.ty].s \in Tags
         /\ CurrentTag(scopes, ctypes[Top.ty].s) = Top.ty
  <1>1. TypeOK /\ MembersOfOwnTag
    BY DEF IInv
  <1>2. Len(stack) \in DOMAIN stack /\ Top = stack[Len(stack)]
    BY <1>1, TopTypes
  <1> QED
    BY <1>1, <1>2 DEF MembersOfOwnTag

LEMMA StructEndKeeps ==
  ASSUME IInv, StructEnd
  PROVE  IInv'
  <1>1. /\ TypeOK /\ StackNests /\ NestingAgrees /\ MembersOfOwnTag /\ TagsKnown /\ HeadIsCurrent
        /\ LocalsRecorded /\ Unmixed
    BY DEF IInv
  <1>2. CASE ctypes[Top.ty].kw # "struct"
    <2>1. RaiseAt("null", NoName)
      BY <1>2 DEF StructEnd, Raise
    <2> QED
      BY <2>1, RaiseKeeps
  <1>3. CASE ctypes[Top.ty].kw = "struct"
    <2>1. /\ ctypes' = Completed(ctypes, Top.ty) /\ scopes' = scopes /\ Top.k = "struct"
          /\ stack' = SubSeq(stack, 1, Len(stack) - 1) /\ tok' = NoTok /\ mode' = "typed"
          /\ UNCHANGED <<fn, loops, switches, head, items, lastid, events>>
      BY <1>3 DEF StructEnd, PopFrame, Consume, history, In
    <2>2. Top.ty \in DOMAIN ctypes
      BY <2>1, TopIsOwnTag
    <2>3. ctypes \in Seq(CType)
      BY <1>1 DEF TypeOK
    <2>4. /\ ctypes' \in Seq(CType) /\ DOMAIN ctypes' = DOMAIN ctypes
          /\ \A u \in DOMAIN ctypes : ctypes'[u].s = ctypes[u].s
          /\ \A sc : TagsIn(sc, ctypes) => TagsIn(sc, ctypes')
      BY <2>1, <2>2, <2>3, CompletedIs
    <2>5. LocalsRecorded' /\ TagsKnown' /\ Unmixed'
      BY <1>1, <2>1, <2>4, TablesIn
    <2>6. Closes("struct") /\ "struct" \in FrameKinds \ {"unit"}
      <3>1. "struct" \notin LoopKinds /\ "struct" \notin Scoped /\ "struct" \in FrameKinds
        BY DEF LoopKinds, Scoped, FrameKinds
      <3>2. KeepsLevels
        BY <2>1 DEF KeepsLevels
      <3>3. Leaves("struct")
        BY <1>1, <2>1 DEF Leaves, TypeOK, Function
      <3> QED
        BY <2>1, <3>1, <3>2, <3>3 DEF Closes
    <2>7. PlainStep
      BY <2>6 DEF PlainStep, StepOf
    <2>8. MembersOfOwnTag'
      <3>1. /\ \A t \in DOMAIN ctypes : t \in DOMAIN ctypes' /\ ctypes'[t].s = ctypes[t].s
            /\ \A s \in Tags : CurrentTag(scopes, s) # 0 =>
                                 CurrentTag(scopes', s) = CurrentTag(scopes, s)
        BY <2>1, <2>4
      <3> QED
        BY <1>1, <2>7, <3>1, MembersKept
    <2>9. StatementsInFunction'
      BY <2>1 DEF StatementsInFunction, NoTok, StatementKinds
    <2>10. HeadIsCurrent'
      BY <1>1, <2>1, HeadKept
    <2>11. /\ mode' \in Modes /\ tok' \in SourceItems \cup {NoTok, Eof} /\ items' \in 0..MaxItems
           /\ fn' \in Function /\ lastid' \in Nat /\ events' \subseteq {"mixed", "twice", "own"}
           /\ scopes' \in Seq(Scope)
      BY <1>1, <2>1 DEF TypeOK, Modes
    <2> QED
      BY <2>4, <2>5, <2>7, <2>8, <2>9, <2>10, <2>11, PlainIsStep, InvariantKept
  <1> QED
    BY <1>2, <1>3

(* A type without a tag is in no table. *)
LEMMA Untagged ==
  ASSUME IInv
  PROVE  LET types == TypesWith(0, "struct", NoName)
         IN  /\ types \in Seq(CType) /\ TypesStay(types) /\ TagsIn(scopes, types)
             /\ Len(types) = Len(ctypes) + 1 /\ Len(ctypes) \in Nat
             /\ DOMAIN types = 1..(Len(ctypes) + 1) /\ DOMAIN ctypes = 1..Len(ctypes)
             /\ types[Len(ctypes) + 1].s = NoName
             /\ \A t \in DOMAIN ctypes : types[t] = ctypes[t]
  <1>1. TypeOK /\ TagsKnown
    BY DEF IInv
  <1>2. ctypes \in Seq(CType) /\ TagsIn(scopes, ctypes)
    BY <1>1, TablesIn DEF TypeOK
  <1>3. NewType("struct", NoName) \in CType
    BY DEF NewType, CType
  <1> DEFINE types == TypesWith(0, "struct", NoName)
  <1>4. types = Append(ctypes, NewType("struct", NoName))
    BY DEF TypesWith
  <1> HIDE DEF types
  <1>5. /\ types \in Seq(CType) /\ Len(types) = Len(ctypes) + 1 /\ Len(ctypes) \in Nat
        /\ DOMAIN types = 1..(Len(ctypes) + 1) /\ DOMAIN ctypes = 1..Len(ctypes)
        /\ types[Len(ctypes) + 1] = NewType("struct", NoName)
        /\ \A t \in 1..Len(ctypes) : types[t] = ctypes[t]
    BY <1>2, <1>3, <1>4
  <1>6. types[Len(ctypes) + 1].s = NoName
    BY <1>5 DEF NewType
  <1>7. \A t \in DOMAIN ctypes : t \in DOMAIN types /\ types[t] = ctypes[t]
    BY <1>5
  <1>8. TypesStay(types) /\ TagsIn(scopes, types)
    BY <1>2, <1>7 DEF TypesStay, TagsIn
  <1> QED
    BY <1>5, <1>6, <1>7, <1>8 DEF types

LEMMA ParseTypenameKeeps ==
  ASSUME IInv, tok.k = "literal", ParseTypename
  PROVE  IInv'
  <1>1. TypeOK
    BY DEF IInv
  <1>2. tok.s \in Tags \cup {NoName}
    BY <1>1, TokenFields
  <1> DEFINE t == IF tok.s # NoName
                  THEN TypeFor(CurrentTag(scopes, tok.s), TagOf(scopes, tok.s), "lbrace") ELSE 0
             sc == IF tok.s # NoName THEN ScopesWith(t, tok.s) ELSE scopes
             types == Completed(TypesWith(t, "struct", tok.s), IdOf(t))
  <1>3. CASE RaiseAt("tag", NoName) \/ RaiseAt("null", NoName)
    BY <1>3, RaiseKeeps
  <1>4. CASE /\ ctypes' = types /\ scopes' = sc
             /\ UNCHANGED <<fn, nesting, items, lastid, events, head>>
             /\ tok' \in {tok, NoTok} /\ mode' \in {"done", "again"}
    <2>1. /\ SameButTags(sc) /\ TagsStay(sc) /\ types \in Seq(CType) /\ TypesStay(types)
          /\ TagsIn(sc, types)
      <3>1. CASE tok.s # NoName
        <4>1. tok.s \in Tags /\ t = TypeFor(CurrentTag(scopes, tok.s), TagOf(scopes, tok.s), "lbrace")
          BY <1>2, <3>1
        <4> HIDE DEF t
        <4>2. LET c == ScopesWith(t, tok.s)
                  y == Completed(TypesWith(t, "struct", tok.s), IdOf(t))
              IN  /\ SameButTags(c) /\ TagsStay(c) /\ y \in Seq(CType) /\ TypesStay(y)
                  /\ TagsIn(c, y)
          BY <4>1, TagTables
        <4> QED
          BY <3>1, <4>2
      <3>2. CASE tok.s = NoName
        <4> DEFINE new == TypesWith(0, "struct", NoName)
        <4>1. /\ new \in Seq(CType) /\ TypesStay(new) /\ TagsIn(scopes, new)
              /\ Len(ctypes) + 1 \in DOMAIN new
          BY Untagged
        <4>2. types = Completed(new, Len(ctypes) + 1) /\ sc = scopes
          BY <3>2 DEF IdOf
        <4> HIDE DEF new, types, sc
        <4>3. /\ types \in Seq(CType) /\ DOMAIN types = DOMAIN new
              /\ \A u \in DOMAIN new : types[u].s = new[u].s
              /\ \A q : TagsIn(q, new) => TagsIn(q, types)
          BY <4>1, <4>2, CompletedIs
        <4>4. TypesStay(types)
          BY <4>1, <4>3 DEF TypesStay
        <4>5. SameButTags(scopes) /\ TagsStay(scopes)
          BY SameScopes
        <4> QED
          BY <4>1, <4>2, <4>3, <4>4, <4>5
      <3> QED
        BY <3>1, <3>2
    <2> HIDE DEF sc, types, t
    <2> QED
      BY <1>4, <2>1, TagKeeps
  <1> QED
    BY <1>3, <1>4 DEF ParseTypename, Raise, Consume, Done, history

LEMMA LookAheadKeeps ==
  ASSUME IInv, LookAhead \/ ReadAgain
  PROVE  IInv'
  BY ParseTypenameKeeps DEF LookAhead, ReadAgain, At

(* What is refused, and what has no effect on the tables. *)
LEMMA RefusedKeeps ==
  ASSUME IInv, \/ NothingBehindStray \/ NoStatement \/ Semicolon \/ Jump \/ StaticAssert
  PROVE  IInv'
  <1>1. CASE NothingBehindStray
    BY <1>1, RaiseKeeps DEF NothingBehindStray, Raise
  <1>2. CASE NoStatement
    BY <1>2, RaiseKeeps DEF NoStatement, Raise
  <1>3. CASE Semicolon
    BY <1>3, SkipKeeps DEF Semicolon
  <1>4. CASE Jump
    BY <1>4, RaiseKeeps, SkipKeeps DEF Jump, Raise
  <1>5. CASE StaticAssert
    BY <1>5, RaiseKeeps, SkipKeeps DEF StaticAssert, Raise
  <1> QED
    BY <1>1, <1>2, <1>3, <1>4, <1>5

-----------------------------------------------------------------------------
(* The invariant holds                                                     *)

LEMMA InvariantInit ==
  ASSUME Init
  PROVE  IInv
  <1>1. /\ scopes = <<NewScope("file")>> /\ ctypes = <<>> /\ fn = NoFunction
        /\ stack = <<[k |-> "unit", ty |-> 0]>> /\ loops = <<>> /\ switches = <<>>
        /\ mode = "leading" /\ head = NoHead /\ tok = NoTok /\ items = 0
        /\ lastid = 0 /\ events = {}
    BY DEF Init
  <1>2. NewScope("file") \in Scope
    <2>1. "file" \in Levels /\ NoEntry \in Entry
      BY DEF Levels, NoEntry, Entry, Types
    <2> QED
      BY <2>1 DEF NewScope, Scope
  <1>3. /\ scopes \in Seq(Scope) /\ Len(scopes) = 1 /\ DOMAIN scopes = 1..1
        /\ scopes[1] = NewScope("file")
    BY <1>1, <1>2
  <1>4. /\ stack \in Seq(Frame) /\ Len(stack) = 1 /\ DOMAIN stack = 1..1
        /\ stack[1].k = "unit"
    <2>1. [k |-> "unit", ty |-> 0] \in Frame
      BY DEF Frame, FrameKinds, DeclKinds
    <2> QED
      BY <1>1, <2>1
  <1>5. TypeOK
    <2>1. NoFunction \in Function
      <3>1. <<>> \in Seq(Nat)
        OBVIOUS
      <3> QED
        BY <3>1 DEF NoFunction, Function
    <2>2. <<>> \in Seq(CType) /\ <<>> \in Seq(LoopKinds) /\ <<>> \in Seq(Nat)
      OBVIOUS
    <2>3. mode \in Modes /\ items \in 0..MaxItems
      BY <1>1, ParserAssumption DEF Modes
    <2> QED
      BY <1>1, <1>3, <1>4, <2>1, <2>2, <2>3 DEF TypeOK
  <1>6. StackNests
    <2>1. \A i \in DOMAIN stack : i = 1
      BY <1>4
    <2>2. tok.k \notin StatementKinds
      BY <1>1 DEF NoTok, StatementKinds
    <2>3. \A i \in DOMAIN stack : stack[i].k = "unit"
      BY <1>4, <2>1
    <2>4. "unit" \notin Sub \cup {"block"}
      BY DEF Sub
    <2> QED
      BY <1>1, <1>4, <2>1, <2>2, <2>3, <2>4 DEF StackNests
  <1>7. NestingAgrees
    <2>1. \A i \in DOMAIN stack : stack[i].k = "unit"
      BY <1>4
    <2>2. "unit" \notin LoopKinds /\ "unit" \notin {"switch"} /\ "unit" \notin Scoped
      BY DEF LoopKinds, Scoped
    <2>3. Open(LoopKinds) = 0 /\ Open({"switch"}) = 0 /\ Open(Scoped) = 0
      <3>1. \A j \in 1..1 : stack[j].k = "unit"
        BY <1>4
      <3>2. Counted(stack, LoopKinds, 1) = {} /\ Counted(stack, {"switch"}, 1) = {}
            /\ Counted(stack, Scoped, 1) = {}
        BY <2>2, <3>1 DEF Counted
      <3> QED
        BY <1>4, <3>2, FS_EmptySet DEF Open, Count
    <2>4. LoopsAgree /\ SwitchesAgree
      BY <1>1, <2>1, <2>2, <2>3 DEF LoopsAgree, SwitchesAgree
    <2>5. /\ Len(scopes) = 1 + Open(Scoped)
          /\ \A i \in DOMAIN scopes :
               scopes[i].level = IF i = 1 THEN "file" ELSE IF i = 2 THEN "method" ELSE "block"
      BY <1>3, <2>3 DEF NewScope
    <2>6. fn.on <=> \E i \in DOMAIN stack : stack[i].k = "body"
      BY <1>1, <2>1 DEF NoFunction
    <2> QED
      BY <2>4, <2>5, <2>6 DEF NestingAgrees, ScopesAgree
  <1>8. LocalsRecorded
    <2>1. 2..Len(scopes) = {}
      BY <1>3
    <2> QED
      BY <2>1 DEF LocalsRecorded
  <1>9. TagsKnown
    BY <1>3 DEF TagsKnown, NewScope
  <1>10. HeadIsCurrent
    BY <1>1 DEF HeadIsCurrent, NoHead
  <1>11. MembersOfOwnTag
    BY <1>4 DEF MembersOfOwnTag
  <1>12. Unmixed
    <2>1. \A n \in Names, i \in DOMAIN scopes : scopes[i].types[n].id = 0
      <3>1. \A n \in Names : NewScope("file").types[n] = NoEntry
        BY DEF NewScope
      <3>2. NoEntry.id = 0
        BY DEF NoEntry
      <3>3. \A i \in DOMAIN scopes : scopes[i] = NewScope("file")
        BY <1>3
      <3> QED
        BY <3>1, <3>2, <3>3
    <2> QED
      BY <2>1 DEF Unmixed
  <1> QED
    BY <1>5, <1>6, <1>7, <1>8, <1>9, <1>10, <1>11, <1>12 DEF IInv

LEMMA StutterKeeps ==
  ASSUME IInv, UNCHANGED vars
  PROVE  IInv'
  <1>1. /\ UNCHANGED <<tables, nesting, lastid, events>> /\ fn' = fn
        /\ mode' = mode /\ tok' = tok /\ items' = items /\ head' = head
    BY DEF vars, history
  <1>2. scopes' = scopes
    BY <1>1 DEF tables
  <1>3. TypeOK
    BY DEF IInv
  <1>4. /\ fn \in Function /\ mode \in Modes /\ tok \in SourceItems \cup {NoTok, Eof}
        /\ items \in 0..MaxItems
    BY <1>3 DEF TypeOK
  <1> QED
    BY <1>1, <1>2, <1>4, StillKeeps

LEMMA InvariantStep ==
  ASSUME IInv, [Next]_vars
  PROVE  IInv'
  <1>1. CASE \/ Read \/ Object \/ Initialized \/ TypedefDecl \/ Alias \/ UseName
    BY <1>1, ReadKeeps, ObjectKeeps, InitializedKeeps, TypedefDeclKeeps, AliasKeeps, UseNameKeeps
  <1>2. CASE \/ EnumDecl \/ StructHead \/ StructBody \/ StructEnd \/ NoDeclarator
             \/ Declarator \/ BadDeclaration \/ LookAhead \/ ReadAgain
    BY <1>2, EnumDeclKeeps, StructHeadKeeps, StructBodyKeeps, StructEndKeeps, NoDeclaratorKeeps,
       DeclaratorKeeps, BadDeclarationKeeps, LookAheadKeeps
  <1>3. CASE \/ FunctionStart \/ FunctionEnd \/ StraySemicolon \/ BeginDeclaration
             \/ NothingBehindStray \/ NoStatement \/ Semicolon \/ Jump \/ StaticAssert
    BY <1>3, FunctionStartKeeps, FunctionEndKeeps, StraySemicolonKeeps, BeginDeclarationKeeps,
       RefusedKeeps
  <1>4. CASE \/ BlockStart \/ BlockEnd \/ If \/ Loop \/ For \/ Switch \/ Case \/ Default
             \/ DefaultStatement \/ Goto \/ Label
    BY <1>4, BlockStartKeeps, BlockEndKeeps, IfKeeps, LoopKeeps, ForKeeps, SwitchKeeps, CaseKeeps,
       DefaultKeeps, DefaultStatementKeeps, GotoKeeps, LabelKeeps
  <1>5. CASE \/ NextInList \/ EndLabelled \/ EndWhile \/ EndFor \/ EndSwitch \/ EndThen
             \/ DoWhile \/ EndDo \/ AssertAsSpecifier
    BY <1>5, NextInListKeeps, EndLabelledKeeps, EndWhileKeeps, EndForKeeps, EndSwitchKeeps,
       EndThenKeeps, DoWhileKeeps, EndDoKeeps, AssertAsSpecifierKeeps
  <1>6. CASE Spin \/ Terminating \/ UNCHANGED vars
    BY <1>6, StutterKeeps DEF Spin, Terminating
  <1> QED
    BY <1>1, <1>2, <1>3, <1>4, <1>5, <1>6 DEF Next, Step

(* The inductive invariant. Beside the properties that the runs check: the *)
(* parser's stacks are nested as the productions are (StackNests), a struct*)
(* or enum being read is the one that its tag stands for (TagsKnown,       *)
(* HeadIsCurrent, MembersOfOwnTag), and events tells when a name is in both*)
(* of Symtab's tables (Unmixed).                                           *)
THEOREM InvariantHolds == Spec => []IInv
  <1>1. Init => IInv
    BY InvariantInit
  <1>2. IInv /\ [Next]_vars => IInv'
    BY InvariantStep
  <1> QED
    BY <1>1, <1>2, PTL DEF Spec

(* The state of the parser is of the types that its classes declare, in    *)
(* every program (Parse.java, Scope.java, Symtab.java).                    *)
THEOREM TypeCorrect == Spec => []TypeOK
  <1>1. IInv => TypeOK
    BY DEF IInv
  <1> QED
    BY <1>1, InvariantHolds, PTL

(* The scopes, ParseStatement.loops and ParseStatement.switches are those  *)
(* of the statements that have begun, in every program: no way out of a    *)
(* statement leaves one of its own behind or takes another's.              *)
THEOREM NestingAlwaysAgrees == Spec => []NestingAgrees
  <1>1. IInv => NestingAgrees
    BY DEF IInv
  <1> QED
    BY <1>1, InvariantHolds, PTL

(* Every object that is visible in a function's scopes is in the list that *)
(* its frame is laid out from (Parse.defineSym, CFunction.locals).         *)
THEOREM LocalsAlwaysRecorded == Spec => []LocalsRecorded
  <1>1. IInv => LocalsRecorded
    BY DEF IInv
  <1> QED
    BY <1>1, InvariantHolds, PTL

-----------------------------------------------------------------------------
(* Cases, and the types that a step completes                              *)

(* The last entry of ParseStatement.switches is the innermost switch.      *)
LEMMA InnermostOf ==
  ASSUME IInv, switches # <<>>
  PROVE  \E i \in DOMAIN stack : InnermostSwitch(i) /\ switches[Len(switches)] = stack[i].ty
  <1>1. TypeOK /\ SwitchesAgree
    BY DEF IInv, NestingAgrees
  <1>2. /\ Len(stack) \in Nat /\ DOMAIN stack = 1..Len(stack) /\ Len(switches) \in Nat
        /\ Len(switches) # 0
    BY <1>1, TopTypes, EmptySeq, LenProperties DEF TypeOK
  <1>3. Len(switches) = Count(stack, {"switch"}, Len(stack))
    BY <1>1 DEF SwitchesAgree, Open
  <1>4. PICK i \in 1..Len(stack) :
          /\ stack[i].k \in {"switch"}
          /\ \A j \in (i + 1)..Len(stack) : stack[j].k \notin {"switch"}
          /\ Count(stack, {"switch"}, i) = Count(stack, {"switch"}, Len(stack))
    BY <1>2, <1>3, CountLast, SMTT(20)
  <1>5. switches[Len(switches)] = stack[i].ty
    BY <1>1, <1>2, <1>3, <1>4 DEF SwitchesAgree
  <1>6. \A j \in DOMAIN stack : j <= i \/ j \in (i + 1)..Len(stack)
    BY <1>2
  <1>7. InnermostSwitch(i)
    BY <1>2, <1>4, <1>6 DEF InnermostSwitch
  <1> QED
    BY <1>2, <1>5, <1>7

(* Nothing but a case or default label is given a switch. *)
LEMMA CasesStay ==
  ASSUME [Next]_vars
  PROVE  cases' = cases \/ (switches # <<>> /\ cases'.sw = switches[Len(switches)])
  <1> USE DEF Raise, RaiseAt, Skip, history
  <1>1. CASE \/ Read \/ Object \/ Initialized \/ TypedefDecl \/ Alias \/ UseName
    BY <1>1 DEF Read, Object, Initialized, InitializedOk, TypedefDecl, Alias, UseName, Mention,
                DefineSym
  <1>2. CASE \/ EnumDecl \/ StructHead \/ StructBody \/ StructEnd \/ NoDeclarator
             \/ Declarator \/ BadDeclaration \/ LookAhead \/ ReadAgain
    BY <1>2 DEF EnumDecl, StructHead, StructBody, StructEnd, NoDeclarator, Declarator,
                BadDeclaration, LookAhead, ReadAgain, ParseTypename
  <1>3. CASE \/ FunctionStart \/ FunctionEnd \/ StraySemicolon \/ BeginDeclaration
             \/ NothingBehindStray \/ NoStatement \/ Semicolon \/ Jump \/ StaticAssert
    BY <1>3 DEF FunctionStart, FunctionEnd, StraySemicolon, BeginDeclaration, NothingBehindStray,
                NoStatement, Semicolon, Jump, StaticAssert
  <1>4. CASE \/ BlockStart \/ BlockEnd \/ If \/ Loop \/ For \/ Switch \/ Default \/ Goto \/ Label
    BY <1>4 DEF BlockStart, BlockEnd, If, Loop, For, Switch, Default, Goto, Label
  <1>5. CASE \/ NextInList \/ EndLabelled \/ EndWhile \/ EndFor \/ EndSwitch \/ EndThen
             \/ DoWhile \/ EndDo \/ AssertAsSpecifier
    BY <1>5 DEF NextInList, EndLabelled, EndWhile, EndFor, EndSwitch, EndThen, DoWhile, EndDo,
                AssertAsSpecifier
  <1>6. CASE Case \/ DefaultStatement
    <2>1. ASSUME NEW kind, PushCase(kind)
          PROVE  cases'.sw = switches[Len(switches)]
      BY <2>1 DEF PushCase
    <2> QED
      BY <1>6, <2>1 DEF Case, DefaultStatement
  <1>7. CASE Spin \/ Terminating \/ UNCHANGED vars
    BY <1>7 DEF Spin, Terminating, vars
  <1> QED
    BY <1>1, <1>2, <1>3, <1>4, <1>5, <1>6, <1>7 DEF Next, Step

(* A case or default label goes to the innermost switch statement that it  *)
(* is in (ParseStatement: switches.peek), in every program.                *)
THEOREM CasesGoToInnermostSwitch == Spec => CaseGoesToInnermostSwitch
  <1>1. IInv /\ [Next]_vars =>
          [cases' # cases => \E i \in DOMAIN stack : InnermostSwitch(i) /\ cases'.sw = stack[i].ty]_vars
    BY CasesStay, InnermostOf
  <1> QED
    BY <1>1, InvariantHolds, PTL DEF Spec, CaseGoesToInnermostSwitch

(* A step that makes a type complete makes it that of its tag. *)
OwnTagCompleted ==
  \A t \in DOMAIN ctypes' :
    ctypes'[t].complete /\ (t \in DOMAIN ctypes => ~ctypes[t].complete)
      => ctypes'[t].s = NoName \/ CurrentTag(scopes', ctypes'[t].s) = t

(* The types of the tables, and others that are not complete. *)
Extends(types) ==
  \A u \in DOMAIN types :
    IF u \in DOMAIN ctypes THEN types[u] = ctypes[u] ELSE ~types[u].complete

LEMMA NoneCompleted ==
  ASSUME Extends(ctypes')
  PROVE  OwnTagCompleted
  BY DEF Extends, OwnTagCompleted

LEMMA OneCompleted ==
  ASSUME NEW types \in Seq(CType), Extends(types), NEW t \in DOMAIN types,
         ctypes' = Completed(types, t),
         types[t].s = NoName \/ CurrentTag(scopes', types[t].s) = t
  PROVE  OwnTagCompleted
  <1>1. /\ DOMAIN ctypes' = DOMAIN types
        /\ \A u \in DOMAIN types : /\ ctypes'[u].s = types[u].s
                                   /\ u # t => ctypes'[u] = types[u]
    BY CompletedIs
  <1>2. ASSUME NEW u \in DOMAIN types, u # t, ctypes'[u].complete
        PROVE  u \in DOMAIN ctypes /\ ctypes[u].complete
    BY <1>1, <1>2 DEF Extends
  <1> QED
    BY <1>1, <1>2 DEF OwnTagCompleted

LEMMA TagExtends ==
  ASSUME TypeOK, TagsKnown, NEW s \in Tags, NEW kw \in {"struct", "enum"}, NEW next, NEW t,
         t = TypeFor(CurrentTag(scopes, s), TagOf(scopes, s), next)
  PROVE  Extends(TypesWith(t, kw, s))
  <1> DEFINE types == TypesWith(t, kw, s)
  <1>1. /\ \A u \in DOMAIN ctypes : types[u] = ctypes[u]
        /\ \A u \in DOMAIN types : u \notin DOMAIN ctypes => ~types[u].complete
    BY TagStep
  <1> QED
    BY <1>1 DEF Extends

LEMMA TypesUnchanged ==
  ASSUME [Next]_vars,
         ~(EnumDecl \/ StructBody \/ StructEnd \/ NoDeclarator \/ Declarator \/ LookAhead \/ ReadAgain)
  PROVE  ctypes' = ctypes
  <1> USE DEF Raise, RaiseAt, Skip, tables
  <1>1. CASE \/ Read \/ Object \/ Initialized \/ TypedefDecl \/ Alias \/ UseName
    BY <1>1 DEF Read, Object, Initialized, InitializedOk, TypedefDecl, Alias, UseName, Mention,
                DefineSym
  <1>2. CASE \/ StructHead \/ BadDeclaration \/ FunctionStart \/ FunctionEnd \/ StraySemicolon
             \/ BeginDeclaration \/ NothingBehindStray \/ NoStatement \/ Semicolon \/ Jump
             \/ StaticAssert
    BY <1>2 DEF StructHead, BadDeclaration, FunctionStart, FunctionEnd, StraySemicolon,
                BeginDeclaration, NothingBehindStray, NoStatement, Semicolon, Jump, StaticAssert
  <1>3. CASE \/ BlockStart \/ BlockEnd \/ If \/ Loop \/ For \/ Switch \/ Case \/ Default
             \/ DefaultStatement \/ Goto \/ Label
    BY <1>3 DEF BlockStart, BlockEnd, If, Loop, For, Switch, Case, Default, DefaultStatement, Goto,
                Label, PushCase, Keep
  <1>4. CASE \/ NextInList \/ EndLabelled \/ EndWhile \/ EndFor \/ EndSwitch \/ EndThen
             \/ DoWhile \/ EndDo \/ AssertAsSpecifier
    BY <1>4 DEF NextInList, EndLabelled, EndWhile, EndFor, EndSwitch, EndThen, DoWhile, EndDo,
                AssertAsSpecifier, Keep
  <1>5. CASE Spin \/ Terminating \/ UNCHANGED vars
    BY <1>5 DEF Spin, Terminating, vars
  <1> QED
    BY <1>1, <1>2, <1>3, <1>4, <1>5 DEF Next, Step

LEMMA StepCompletesOwnTag ==
  ASSUME IInv, [Next]_vars
  PROVE  OwnTagCompleted
  <1>1. TypeOK /\ TagsKnown /\ ctypes \in Seq(CType)
    BY DEF IInv, TypeOK
  <1>2. Extends(ctypes)
    BY DEF Extends
  <1>3. CASE ctypes' = ctypes
    BY <1>2, <1>3, NoneCompleted
  <1>4. CASE EnumDecl /\ ctypes' # ctypes
    <2> DEFINE t == TypeFor(CurrentTag(scopes, tok.s), TagOf(scopes, tok.s), "lbrace")
               sc == ScopesWith(t, tok.s)
               types == TypesWith(t, "enum", tok.s)
               e == [id |-> lastid + 1, st |-> "extern", ty |-> "constant"]
    <2>1. ctypes' = Completed(types, IdOf(t)) /\ scopes' = AddSym(sc, tok.n, e)
      BY <1>4 DEF EnumDecl, Raise, RaiseAt, tables
    <2>2. tok.s \in Tags /\ tok.n \in Names /\ lastid \in Nat
      BY <1>1, <1>4, TokenFields DEF EnumDecl, At, TypeOK
    <2>3. e \in Entry
      BY <2>2, NewEntry DEF Types
    <2> HIDE DEF t, e
    <2>4. t = TypeFor(CurrentTag(scopes, tok.s), TagOf(scopes, tok.s), "lbrace")
          /\ "lbrace" \in {"lbrace", "semi"} /\ "enum" \in {"struct", "enum"}
      BY DEF t
    <2>5. /\ sc \in Seq(Scope) /\ Len(sc) = Len(scopes) /\ types \in Seq(CType)
          /\ IdOf(t) \in DOMAIN types /\ types[IdOf(t)].s = tok.s
          /\ CurrentTag(sc, tok.s) = IdOf(t)
      BY <1>1, <2>2, <2>4, TagStep
    <2>6. Extends(types)
      BY <1>1, <2>2, <2>4, TagExtends
    <2> HIDE DEF sc, types
    <2>7. CurrentTag(scopes', tok.s) = CurrentTag(sc, tok.s)
      <3>1. Len(sc) > 0
        BY <1>1, <2>5 DEF TypeOK
      <3> QED
        BY <2>1, <2>2, <2>3, <2>5, <3>1, AddSymKeeps
    <2> QED
      BY <2>1, <2>5, <2>6, <2>7, OneCompleted
  <1>5. CASE StructEnd /\ ctypes' # ctypes
    <2>1. ctypes' = Completed(ctypes, Top.ty) /\ scopes' = scopes /\ Top.k = "struct"
      BY <1>5 DEF StructEnd, Raise, RaiseAt, tables, In
    <2>2. Top.ty \in DOMAIN ctypes /\ CurrentTag(scopes, ctypes[Top.ty].s) = Top.ty
      BY <2>1, TopIsOwnTag
    <2> QED
      BY <1>1, <1>2, <2>1, <2>2, OneCompleted
  <1>6. CASE (StructBody \/ NoDeclarator \/ Declarator) /\ ctypes' # ctypes
    <2>1. mode = "tag" /\ \E next : ctypes' = TypesWith(HeadType(next), "struct", head.s)
      <3>1. CASE StructBody
        BY <1>6, <3>1 DEF StructBody, At, Raise, RaiseAt, tables
      <3>2. CASE NoDeclarator
        BY <1>6, <3>2 DEF NoDeclarator, At, tables
      <3>3. CASE Declarator
        BY <1>6, <3>3 DEF Declarator, At, Raise, RaiseAt, tables
      <3> QED
        BY <1>6, <3>1, <3>2, <3>3
    <2>2. PICK next : ctypes' = TypesWith(HeadType(next), "struct", head.s)
      BY <2>1
    <2>3. head.s \in Tags
          /\ HeadType(next) = TypeFor(CurrentTag(scopes, head.s), TagOf(scopes, head.s), next)
      BY <2>1, HeadOf
    <2>4. Extends(TypesWith(HeadType(next), "struct", head.s))
      BY <1>1, <2>3, TagExtends
    <2> QED
      BY <2>2, <2>4, NoneCompleted
  <1>7. CASE (LookAhead \/ ReadAgain) /\ ctypes' # ctypes
    <2>1. tok.k = "literal" /\ ParseTypename
      BY <1>7 DEF LookAhead, ReadAgain, At
    <2>2. tok.s \in Tags \cup {NoName}
      BY <1>1, <2>1, TokenFields
    <2>3. CASE tok.s # NoName
      <3> DEFINE t == TypeFor(CurrentTag(scopes, tok.s), TagOf(scopes, tok.s), "lbrace")
                 types == TypesWith(t, "struct", tok.s)
      <3>1. ctypes' = Completed(types, IdOf(t)) /\ scopes' = ScopesWith(t, tok.s)
        BY <1>7, <2>1, <2>3 DEF ParseTypename, Raise, RaiseAt, tables
      <3> HIDE DEF t
      <3>2. t = TypeFor(CurrentTag(scopes, tok.s), TagOf(scopes, tok.s), "lbrace")
            /\ "lbrace" \in {"lbrace", "semi"} /\ "struct" \in {"struct", "enum"} /\ tok.s \in Tags
        BY <2>2, <2>3 DEF t
      <3>3. /\ types \in Seq(CType) /\ IdOf(t) \in DOMAIN types /\ types[IdOf(t)].s = tok.s
            /\ CurrentTag(ScopesWith(t, tok.s), tok.s) = IdOf(t)
        BY <1>1, <3>2, TagStep
      <3>4. Extends(types)
        BY <1>1, <3>2, TagExtends
      <3> HIDE DEF types
      <3> QED
        BY <3>1, <3>3, <3>4, OneCompleted
    <2>4. CASE tok.s = NoName
      <3> DEFINE types == TypesWith(0, "struct", NoName)
      <3>1. ctypes' = Completed(types, Len(ctypes) + 1)
        BY <1>7, <2>1, <2>4 DEF ParseTypename, Raise, RaiseAt, tables, IdOf
      <3>2. /\ types \in Seq(CType) /\ Len(ctypes) \in Nat
            /\ DOMAIN types = 1..(Len(ctypes) + 1) /\ DOMAIN ctypes = 1..Len(ctypes)
            /\ types[Len(ctypes) + 1].s = NoName
            /\ \A u \in DOMAIN ctypes : types[u] = ctypes[u]
        BY Untagged
      <3>3. types[Len(ctypes) + 1].complete = FALSE
        BY <3>2 DEF TypesWith, NewType
      <3> HIDE DEF types
      <3>4. Extends(types)
        <4>1. \A u \in DOMAIN types : u \in DOMAIN ctypes \/ u = Len(ctypes) + 1
          BY <3>2
        <4> QED
          BY <3>2, <3>3, <4>1 DEF Extends
      <3>5. Len(ctypes) + 1 \in DOMAIN types
        BY <3>2
      <3> QED
        BY <3>1, <3>2, <3>4, <3>5, OneCompleted
    <2> QED
      BY <2>3, <2>4
  <1> QED
    BY <1>3, <1>4, <1>5, <1>6, <1>7, TypesUnchanged

(* Members complete a type of the scope that they are declared in: what    *)
(* ParseStruct3, ParseEnum3 and the type name of a literal complete is     *)
(* what the tag stands for there, or has no tag.                           *)
THEOREM AlwaysCompletesOwnTag == Spec => CompletesOwnTag
  <1>1. IInv /\ [Next]_vars => [OwnTagCompleted]_vars
    BY StepCompletesOwnTag
  <1> QED
    BY <1>1, InvariantHolds, PTL DEF Spec, CompletesOwnTag, OwnTagCompleted

-----------------------------------------------------------------------------
(***************************************************************************)
(* The symbol tables keep the promise of NameSpaces, in every program: each *)
(* step of Parser is a step of NameSpaces, or leaves its variables alone.  *)
(***************************************************************************)

-----------------------------------------------------------------------------
(* The scopes as NameSpaces sees them                                      *)

Roles == [id : Nat, role : Types \cup {"typedef", "none"}, st : {"none", "extern", "auto"}]
Row == [Names -> Roles]
RowOf(scope) == [n \in Names |-> RoleIn(scope, n)]

(* What one scope says of a name. *)
LEMMA RoleIs ==
  ASSUME NEW scope \in Scope, NEW n \in Names
  PROVE  /\ RoleIn(scope, n) \in Roles
         /\ RoleIn(scope, n).id # 0 <=> scope.types[n].id # 0 \/ scope.syms[n].id # 0
         /\ scope.types[n].id # 0 => RoleIn(scope, n).role = "typedef"
         /\ scope.types[n].id = 0 /\ scope.syms[n].id # 0 =>
              /\ RoleIn(scope, n).id = scope.syms[n].id
              /\ RoleIn(scope, n).role = scope.syms[n].ty
              /\ RoleIn(scope, n).st = scope.syms[n].st
  <1> DEFINE t == scope.types[n]
             e == scope.syms[n]
  <1>1. t \in Entry /\ e \in Entry
    BY DEF Scope
  <1>2. RoleIn(scope, n) = IF t.id # 0 THEN [id |-> t.id, role |-> "typedef", st |-> "none"]
                           ELSE [id |-> e.id, role |-> IF e.id = 0 THEN "none" ELSE e.ty, st |-> e.st]
    BY DEF RoleIn
  <1> HIDE DEF t, e
  <1>3. RoleIn(scope, n) \in Roles
    BY <1>1, <1>2 DEF Entry, Roles
  <1> QED
    BY <1>1, <1>2, <1>3 DEF Entry, t, e

LEMMA ChainIs ==
  ASSUME NEW sc \in Seq(Scope)
  PROVE  /\ NamesIn(sc) \in Seq(Row) /\ Len(NamesIn(sc)) = Len(sc)
         /\ DOMAIN NamesIn(sc) = DOMAIN sc /\ DOMAIN sc = 1..Len(sc) /\ Len(sc) \in Nat
         /\ \A i \in DOMAIN sc : /\ sc[i] \in Scope
                                 /\ NamesIn(sc)[i] = RowOf(sc[i])
                                 /\ \A n \in Names : NamesIn(sc)[i][n] = RoleIn(sc[i], n)
  <1>1. DOMAIN sc = 1..Len(sc) /\ Len(sc) \in Nat /\ \A i \in DOMAIN sc : sc[i] \in Scope
    BY LenProperties
  <1>2. \A i \in DOMAIN sc : [n \in Names |-> RoleIn(sc[i], n)] \in Row
    BY <1>1, RoleIs DEF Row
  <1>3. NamesIn(sc) \in [1..Len(sc) -> Row]
    BY <1>1, <1>2 DEF NamesIn
  <1>4. NamesIn(sc) \in Seq(Row)
    BY <1>1, <1>3, SeqDef
  <1>5. DOMAIN NamesIn(sc) = 1..Len(sc) /\ DOMAIN NamesIn(sc) = 1..Len(NamesIn(sc))
        /\ Len(NamesIn(sc)) \in Nat
    BY <1>3, <1>4, LenProperties
  <1>6. Len(NamesIn(sc)) = Len(sc)
    BY <1>1, <1>5
  <1>7. \A i \in DOMAIN sc : NamesIn(sc)[i] = RowOf(sc[i])
    BY DEF NamesIn, RowOf
  <1> QED
    BY <1>1, <1>4, <1>5, <1>6, <1>7 DEF RowOf

(* Tags and levels are nothing to NameSpaces. *)
LEMMA SameChain ==
  ASSUME NEW sc \in Seq(Scope), NEW new \in Seq(Scope), Len(new) = Len(sc),
         \A i \in DOMAIN sc : \A m \in Names :
            new[i].types[m] = sc[i].types[m] /\ new[i].syms[m] = sc[i].syms[m]
  PROVE  NamesIn(new) = NamesIn(sc)
  <1>1. DOMAIN new = DOMAIN sc
    BY ChainIs
  <1>2. \A i \in DOMAIN sc : \A n \in Names : RoleIn(new[i], n) = RoleIn(sc[i], n)
    BY DEF RoleIn
  <1> QED
    BY <1>1, <1>2 DEF NamesIn

LEMMA BlankRow ==
  ASSUME NEW level \in Levels
  PROVE  /\ NewScope(level) \in Scope
         /\ RowOf(NewScope(level)) = OneSpace!Blank
         /\ OneSpace!Blank \in Row
  <1>1. \A n \in Names : RoleIn(NewScope(level), n) = OneSpace!Undeclared
    BY DEF RoleIn, NewScope, NoEntry, OneSpace!Undeclared
  <1>2. NewScope(level) \in Scope
    BY DEF NewScope, Scope, NoEntry, Entry, Types
  <1>3. \A n \in Names : RoleIn(NewScope(level), n) \in Roles
    BY <1>2, RoleIs
  <1> QED
    BY <1>1, <1>2, <1>3 DEF OneSpace!Blank, Row, RowOf

LEMMA PushChain ==
  ASSUME NEW sc \in Seq(Scope), NEW level \in Levels
  PROVE  NamesIn(Push(sc, level)) = Append(NamesIn(sc), OneSpace!Blank)
  <1> DEFINE new == Push(sc, level)
             c == NamesIn(sc)
             b == OneSpace!Blank
  <1>1. /\ new \in Seq(Scope) /\ Len(new) = Len(sc) + 1
        /\ \A i \in DOMAIN sc : new[i] = sc[i]
        /\ new[Len(sc) + 1] = NewScope(level)
    BY PushIs
  <1>2. /\ c \in Seq(Row) /\ Len(c) = Len(sc) /\ DOMAIN sc = 1..Len(sc) /\ Len(sc) \in Nat
        /\ \A i \in DOMAIN sc : c[i] = RowOf(sc[i])
    BY ChainIs
  <1> HIDE DEF new
  <1>3. /\ NamesIn(new) \in Seq(Row) /\ Len(NamesIn(new)) = Len(sc) + 1
        /\ \A i \in 1..(Len(sc) + 1) : NamesIn(new)[i] = RowOf(new[i])
    BY <1>1, ChainIs
  <1> HIDE DEF c, b
  <1>4. b \in Row /\ b = RowOf(NewScope(level))
    BY BlankRow DEF b
  <1>5. /\ Append(c, b) \in Seq(Row) /\ Len(Append(c, b)) = Len(sc) + 1
        /\ \A i \in 1..Len(sc) : Append(c, b)[i] = c[i]
        /\ Append(c, b)[Len(sc) + 1] = b
    <2>1. /\ Append(c, b) \in Seq(Row) /\ Len(Append(c, b)) = Len(c) + 1
          /\ \A i \in 1..Len(c) : Append(c, b)[i] = c[i]
          /\ Append(c, b)[Len(c) + 1] = b
      BY <1>2, <1>4, AppendProperties
    <2> QED
      BY <1>2, <2>1
  <1>6. ASSUME NEW i \in 1..(Len(sc) + 1)
        PROVE  NamesIn(new)[i] = Append(c, b)[i]
    <2>0. NamesIn(new)[i] = RowOf(new[i])
      BY <1>3
    <2>1. CASE i = Len(sc) + 1
      <3>1. new[i] = NewScope(level) /\ Append(c, b)[i] = b
        BY <1>1, <1>5, <2>1
      <3> QED
        BY <1>4, <2>0, <3>1
    <2>2. CASE i # Len(sc) + 1
      <3>1. i \in 1..Len(sc)
        BY <1>2, <2>2
      <3>2. new[i] = sc[i] /\ Append(c, b)[i] = c[i] /\ c[i] = RowOf(sc[i])
        BY <1>1, <1>2, <1>5, <3>1
      <3> QED
        BY <2>0, <3>2
    <2> QED
      BY <2>1, <2>2
  <1> QED
    BY <1>2, <1>3, <1>5, <1>6, SeqEqual DEF new, c, b

LEMMA PopChain ==
  ASSUME NEW sc \in Seq(Scope), Len(sc) > 0
  PROVE  NamesIn(Pop(sc)) = SubSeq(NamesIn(sc), 1, Len(NamesIn(sc)) - 1)
  <1> DEFINE new == Pop(sc)
             c == NamesIn(sc)
  <1>1. /\ new \in Seq(Scope) /\ Len(new) = Len(sc) - 1
        /\ \A i \in 1..(Len(sc) - 1) : new[i] = sc[i]
    BY PopIs
  <1>2. /\ c \in Seq(Row) /\ Len(c) = Len(sc) /\ DOMAIN sc = 1..Len(sc) /\ Len(sc) \in Nat
        /\ \A i \in DOMAIN sc : c[i] = RowOf(sc[i])
    BY ChainIs
  <1> HIDE DEF new, c
  <1>3. /\ NamesIn(new) \in Seq(Row) /\ Len(NamesIn(new)) = Len(sc) - 1
        /\ \A i \in 1..(Len(sc) - 1) : NamesIn(new)[i] = RowOf(new[i])
    BY <1>1, ChainIs
  <1>4. /\ SubSeq(c, 1, Len(c) - 1) \in Seq(Row) /\ Len(SubSeq(c, 1, Len(c) - 1)) = Len(sc) - 1
        /\ \A i \in 1..(Len(sc) - 1) : SubSeq(c, 1, Len(c) - 1)[i] = c[i]
    BY <1>2, WithoutLast
  <1>5. ASSUME NEW i \in 1..(Len(sc) - 1)
        PROVE  NamesIn(new)[i] = SubSeq(c, 1, Len(c) - 1)[i]
    <2>1. i \in DOMAIN sc
      BY <1>2
    <2>2. c[i] = RowOf(sc[i]) /\ new[i] = sc[i]
      BY <1>1, <1>2, <2>1
    <2> QED
      BY <1>3, <1>4, <2>2
  <1> QED
    BY <1>3, <1>4, <1>5, SeqEqual DEF new, c

(* One more name in the innermost scope. *)
LEMMA AddsIs ==
  ASSUME NEW sc \in Seq(Scope), NEW new \in Seq(Scope), Len(sc) > 0, Len(new) = Len(sc),
         NEW n \in Names, RoleIn(new[Len(sc)], n).id # 0,
         \/ RoleIn(Inner(sc), n).id = 0
         \/ OneSpace!Again(RoleIn(Inner(sc), n), RoleIn(new[Len(sc)], n)),
         \A i \in DOMAIN sc : \A m \in Names : ~(i = Len(sc) /\ m = n) =>
            RoleIn(new[i], m) = RoleIn(sc[i], m)
  PROVE  OneSpace!Adds(NamesIn(sc), NamesIn(new), n)
  <1> DEFINE c == NamesIn(sc)
             c2 == NamesIn(new)
             L == Len(sc)
             d == RoleIn(new[L], n)
             row == [c[L] EXCEPT ![n] = d]
  <1>1. /\ c \in Seq(Row) /\ Len(c) = L /\ DOMAIN sc = 1..L /\ L \in Nat
        /\ \A i \in DOMAIN sc : /\ c[i] = RowOf(sc[i]) /\ sc[i] \in Scope
                                /\ \A m \in Names : c[i][m] = RoleIn(sc[i], m)
    BY ChainIs
  <1>2. /\ c2 \in Seq(Row) /\ Len(c2) = L /\ DOMAIN new = 1..L
        /\ \A i \in DOMAIN new : /\ c2[i] = RowOf(new[i]) /\ new[i] \in Scope
                                 /\ \A m \in Names : c2[i][m] = RoleIn(new[i], m)
    BY ChainIs
  <1>3. L \in DOMAIN sc /\ L \in 1..L /\ Inner(sc) = sc[L]
    BY <1>1 DEF Inner
  <1>4. d \in Roles
    BY <1>1, <1>2, <1>3, RoleIs
  <1>5. c[L] \in Row
    BY <1>1, <1>3
  <1> HIDE DEF c, c2, d, L
  <1>6. row \in Row /\ \A m \in Names : row[m] = IF m = n THEN d ELSE c[L][m]
    BY <1>4, <1>5 DEF Row
  <1>7. c2[L] = row
    <2>1. c2[L] = RowOf(new[L]) /\ \A m \in Names : c2[L][m] = RoleIn(new[L], m)
      BY <1>1, <1>2, <1>3
    <2>2. c2[L] \in Row
      BY <1>1, <1>2, <1>3
    <2>3. \A m \in Names : m # n => RoleIn(new[L], m) = RoleIn(sc[L], m)
      BY <1>3 DEF L
    <2> HIDE DEF row
    <2>4. ASSUME NEW m \in Names
          PROVE  c2[L][m] = row[m]
      <3>1. CASE m = n
        BY <1>6, <2>1, <3>1 DEF d
      <3>2. CASE m # n
        <4>1. c[L][m] = RoleIn(sc[L], m)
          BY <1>1, <1>3
        <4> QED
          BY <1>6, <2>1, <2>3, <3>2, <4>1
      <3> QED
        BY <3>1, <3>2
    <2> QED
      BY <1>6, <2>2, <2>4 DEF Row
  <1>8. ASSUME NEW i \in 1..L, i # L
        PROVE  c2[i] = c[i]
    <2>1. \A m \in Names : RoleIn(new[i], m) = RoleIn(sc[i], m)
      BY <1>1, <1>8 DEF L
    <2>2. RowOf(new[i]) = RowOf(sc[i])
      BY <2>1 DEF RowOf
    <2> QED
      BY <1>1, <1>2, <2>2
  <1>9. c2 = [c EXCEPT ![L] = row]
    <2> HIDE DEF row
    <2>1. /\ [c EXCEPT ![L] = row] \in Seq(Row) /\ Len([c EXCEPT ![L] = row]) = L
          /\ \A i \in 1..L : [c EXCEPT ![L] = row][i] = IF i = L THEN row ELSE c[i]
      BY <1>1, <1>3, <1>6, ExceptSeq
    <2>2. \A i \in 1..L : c2[i] = [c EXCEPT ![L] = row][i]
      BY <1>7, <1>8, <2>1
    <2> QED
      BY <1>2, <2>1, <2>2, SeqEqual
  <1>10. c2 = [c EXCEPT ![L][n] = d]
    BY <1>9
  <1>11. c[L][n] = RoleIn(Inner(sc), n) /\ c2[L][n] = d
    BY <1>1, <1>2, <1>3 DEF d, L
  <1>12. d.id # 0 /\ (c[L][n].id = 0 \/ OneSpace!Again(c[L][n], d))
    BY <1>11 DEF d, L
  <1>13. Len(c2) = Len(c) /\ Len(c) = L
    BY <1>1, <1>2
  <1>14. OneSpace!Adds(c, c2, n)
    BY <1>10, <1>11, <1>12, <1>13 DEF OneSpace!Adds
  <1> QED
    BY <1>14 DEF c, c2

(* A declaration that defineSym accepts, of a name that is no typedef name. *)
LEMMA AddSymAdds ==
  ASSUME NEW sc \in Seq(Scope), Len(sc) > 0, NEW n \in Names, NEW e \in Entry, e.id # 0,
         NoTypedefs(sc, n), ~Redefines(sc, n, e),
         Inner(sc).syms[n].id # 0 => "constant" \notin {Inner(sc).syms[n].ty, e.ty}
  PROVE  OneSpace!Adds(NamesIn(sc), NamesIn(AddSym(sc, n, e)), n)
  <1> DEFINE new == AddSym(sc, n, e)
             L == Len(sc)
             prev == sc[L].syms[n]
  <1>1. /\ new \in Seq(Scope) /\ Len(new) = L
        /\ \A i \in DOMAIN sc :
              /\ new[i].types = sc[i].types
              /\ \A m \in Names : new[i].syms[m] = IF i = L /\ m = n THEN e ELSE sc[i].syms[m]
    BY AddSymIs
  <1>2. L \in DOMAIN sc /\ DOMAIN sc = 1..L /\ DOMAIN new = 1..L
        /\ \A i \in DOMAIN sc : sc[i] \in Scope /\ new[i] \in Scope
    BY <1>1, LenProperties
  <1> HIDE DEF new
  <1>3. \A i \in DOMAIN sc : \A m \in Names : ~(i = L /\ m = n) =>
            RoleIn(new[i], m) = RoleIn(sc[i], m)
    BY <1>1 DEF RoleIn
  <1>4. /\ new[L].types[n].id = 0 /\ sc[L].types[n].id = 0 /\ new[L].syms[n] = e
    BY <1>1, <1>2 DEF NoTypedefs
  <1>5. /\ RoleIn(new[L], n).id # 0 /\ RoleIn(new[L], n).role = e.ty
        /\ RoleIn(new[L], n).st = e.st
    BY <1>2, <1>4, RoleIs
  <1>6. /\ RoleIn(sc[L], n).id # 0 <=> prev.id # 0
        /\ prev.id # 0 => RoleIn(sc[L], n).role = prev.ty /\ RoleIn(sc[L], n).st = prev.st
    BY <1>2, <1>4, RoleIs
  <1>7. prev.id # 0 => OneSpace!Again(RoleIn(sc[L], n), RoleIn(new[L], n))
    <2> SUFFICES ASSUME prev.id # 0
                 PROVE  OneSpace!Again(RoleIn(sc[L], n), RoleIn(new[L], n))
      OBVIOUS
    <2>1. AcceptedAgain(prev, e) /\ "constant" \notin {prev.ty, e.ty}
      BY DEF Redefines, Inner
    <2> QED
      BY <1>5, <1>6, <2>1 DEF AcceptedAgain, OneSpace!Again
  <1>8. Inner(sc) = sc[L]
    BY DEF Inner
  <1>9. \/ RoleIn(Inner(sc), n).id = 0
        \/ OneSpace!Again(RoleIn(Inner(sc), n), RoleIn(new[Len(sc)], n))
    BY <1>6, <1>7, <1>8
  <1> QED
    BY <1>1, <1>3, <1>5, <1>9, AddsIs DEF new

LEMMA AddTypeAdds ==
  ASSUME NEW sc \in Seq(Scope), Len(sc) > 0, NEW n \in Names, NEW e \in Entry, e.id # 0,
         NoSyms(sc, n)
  PROVE  OneSpace!Adds(NamesIn(sc), NamesIn(AddType(sc, n, e)), n)
  <1> DEFINE new == AddType(sc, n, e)
             L == Len(sc)
             prev == sc[L].types[n]
  <1>1. /\ new \in Seq(Scope) /\ Len(new) = L
        /\ \A i \in DOMAIN sc :
              /\ new[i].syms = sc[i].syms
              /\ \A m \in Names : new[i].types[m] = IF i = L /\ m = n THEN e ELSE sc[i].types[m]
    BY AddTypeIs
  <1>2. L \in DOMAIN sc /\ DOMAIN sc = 1..L /\ DOMAIN new = 1..L
        /\ \A i \in DOMAIN sc : sc[i] \in Scope /\ new[i] \in Scope
    BY <1>1, LenProperties
  <1> HIDE DEF new
  <1>3. \A i \in DOMAIN sc : \A m \in Names : ~(i = L /\ m = n) =>
            RoleIn(new[i], m) = RoleIn(sc[i], m)
    BY <1>1 DEF RoleIn
  <1>4. sc[L].syms[n].id = 0 /\ new[L].types[n] = e
    BY <1>1, <1>2 DEF NoSyms
  <1>5. RoleIn(new[L], n).id # 0 /\ RoleIn(new[L], n).role = "typedef"
    BY <1>2, <1>4, RoleIs
  <1>6. /\ RoleIn(sc[L], n).id # 0 <=> prev.id # 0
        /\ prev.id # 0 => RoleIn(sc[L], n).role = "typedef"
    BY <1>2, <1>4, RoleIs
  <1>7. prev.id # 0 => OneSpace!Again(RoleIn(sc[L], n), RoleIn(new[L], n))
    BY <1>5, <1>6 DEF OneSpace!Again
  <1>8. Inner(sc) = sc[L]
    BY DEF Inner
  <1>9. \/ RoleIn(Inner(sc), n).id = 0
        \/ OneSpace!Again(RoleIn(Inner(sc), n), RoleIn(new[Len(sc)], n))
    BY <1>6, <1>7, <1>8
  <1> QED
    BY <1>1, <1>3, <1>5, <1>9, AddsIs DEF new

(* getsym finds what is visible, unless it is a typedef name.              *)
LEMMA VisibleRole ==
  ASSUME NEW sc \in Seq(Scope), NEW n \in Names
  PROVE  /\ Sym(sc, n).id = 0 => OneSpace!Visible(NamesIn(sc), n).role \in {"none", "typedef"}
         /\ OneRole(sc) /\ Sym(sc, n).id # 0 =>
              /\ OneSpace!Visible(NamesIn(sc), n).id = Sym(sc, n).id
              /\ OneSpace!Visible(NamesIn(sc), n).role # "typedef"
  <1> DEFINE c == NamesIn(sc)
             D == {i \in DOMAIN c : c[i][n].id # 0}
             E == {i \in DOMAIN sc : sc[i].syms[n].id # 0}
  <1>1. /\ DOMAIN c = DOMAIN sc /\ DOMAIN sc = 1..Len(sc) /\ Len(sc) \in Nat
        /\ \A i \in DOMAIN sc : sc[i] \in Scope /\ c[i][n] = RoleIn(sc[i], n)
    BY ChainIs
  <1>2. OneSpace!Visible(c, n) = IF D = {} THEN OneSpace!Undeclared ELSE c[LastOf(D)][n]
    BY DEF OneSpace!Visible, LastOf
  <1>3. Sym(sc, n) = IF E = {} THEN NoEntry ELSE sc[LastOf(E)].syms[n]
    BY DEF Sym
  <1>4. D # {} => LastOf(D) \in D
    BY <1>1, Greatest
  <1>5. E # {} => LastOf(E) \in E
    BY <1>1, Greatest
  <1> HIDE DEF c
  <1>6. ASSUME Sym(sc, n).id = 0
        PROVE  OneSpace!Visible(c, n).role \in {"none", "typedef"}
    <2>1. NoSyms(sc, n)
      BY <1>6, VisibleIs
    <2>2. CASE D = {}
      BY <1>2, <2>2 DEF OneSpace!Undeclared
    <2>3. CASE D # {}
      <3> DEFINE i == LastOf(D)
      <3>1. i \in DOMAIN sc /\ RoleIn(sc[i], n).id # 0 /\ sc[i] \in Scope
            /\ OneSpace!Visible(c, n) = RoleIn(sc[i], n)
        BY <1>1, <1>2, <1>4, <2>3
      <3> HIDE DEF i
      <3>2. RoleIn(sc[i], n).role = "typedef"
        BY <2>1, <3>1, RoleIs DEF NoSyms
      <3> QED
        BY <3>1, <3>2
    <2> QED
      BY <2>2, <2>3
  <1>7. ASSUME OneRole(sc), Sym(sc, n).id # 0
        PROVE  OneSpace!Visible(c, n).id = Sym(sc, n).id /\ OneSpace!Visible(c, n).role # "typedef"
    <2>1. NoTypedefs(sc, n)
      BY <1>7, VisibleIs DEF OneRole
    <2>2. \A i \in DOMAIN sc : c[i][n].id # 0 <=> sc[i].syms[n].id # 0
      <3>1. \A i \in DOMAIN sc : sc[i].types[n].id = 0
        BY <2>1 DEF NoTypedefs
      <3> QED
        BY <1>1, <3>1, RoleIs
    <2>3. D = E
      <3>1. \A i : i \in D <=> i \in E
        BY <1>1, <2>2
      <3> QED
        BY <3>1, Zenon
    <2>4. E # {}
      <3>1. NoEntry.id = 0
        BY DEF NoEntry
      <3>2. E = {} => Sym(sc, n) = NoEntry
        BY <1>3, Zenon
      <3> QED
        BY <1>7, <3>1, <3>2, Zenon
    <2> DEFINE i == LastOf(E)
    <2>5. i \in DOMAIN sc /\ sc[i].syms[n].id # 0 /\ sc[i].types[n].id = 0 /\ sc[i] \in Scope
      BY <1>1, <1>5, <2>1, <2>4 DEF NoTypedefs
    <2>6. OneSpace!Visible(c, n) = RoleIn(sc[i], n) /\ Sym(sc, n) = sc[i].syms[n]
      BY <1>1, <1>2, <1>3, <2>3, <2>4, <2>5
    <2> HIDE DEF i
    <2>7. RoleIn(sc[i], n).id = sc[i].syms[n].id /\ RoleIn(sc[i], n).role = sc[i].syms[n].ty
      BY <2>5, RoleIs
    <2>8. sc[i].syms[n].ty # "typedef"
      <3>1. sc[i].syms[n] \in Entry
        BY <2>5 DEF Scope
      <3> QED
        BY <3>1 DEF Entry, Types
    <2> QED
      BY <2>6, <2>7, <2>8
  <1> QED
    BY <1>6, <1>7 DEF c

-----------------------------------------------------------------------------
(* Steps of NameSpaces                                                     *)

Promised == [OneSpace!Next]_OneSpace!vars

(* Nothing that NameSpaces sees has changed. *)
LEMMA QuietIs ==
  ASSUME NamesIn(scopes') = NamesIn(scopes), UNCHANGED <<meaning, err, events>>
  PROVE  Promised
  BY DEF Promised, OneSpace!vars

(* C's name space is not kept any more. *)
LEMMA BrokenIs ==
  ASSUME err = NoErr, events' # {}
  PROVE  Promised
  BY DEF Promised, OneSpace!Next, OneSpace!Break, OneSpace!Anything, OneSpace!Running, NoErr

LEMMA ActIs ==
  ASSUME err = NoErr, err' = err, events = {}, events' = {},
         \/ OneSpace!Open \/ OneSpace!Close \/ OneSpace!Declare \/ OneSpace!EnterFunction
         \/ OneSpace!EnterLoop \/ OneSpace!Use \/ OneSpace!DeclareFrom
  PROVE  Promised
  BY DEF Promised, OneSpace!Next, OneSpace!Act, OneSpace!Running, NoErr

LEMMA RefuseIs ==
  ASSUME TypeOK, err = NoErr, events = {}, NEW e, NEW n, RaiseAt(e, n), e # "none",
         e = "undeclared" => n \in Names /\ Sym(scopes, n).id = 0,
         e = "redefinition" =>
           n \in Names /\ (Inner(scopes).syms[n].id # 0 \/ Inner(scopes).types[n].id # 0)
  PROVE  Promised
  <1>1. /\ err' = [e |-> e, n |-> n] /\ scopes' = scopes /\ UNCHANGED <<meaning, events>>
    BY DEF RaiseAt, tables, history
  <1>2. scopes \in Seq(Scope) /\ Len(scopes) > 0
    BY DEF TypeOK
  <1>3. e = "undeclared" => OneSpace!Visible(NamesIn(scopes), n).role \in {"none", "typedef"}
    BY <1>2, VisibleRole
  <1>4. e = "redefinition" => NamesIn(scopes)[Len(NamesIn(scopes))][n].id # 0
    <2> SUFFICES ASSUME e = "redefinition"
                 PROVE  NamesIn(scopes)[Len(NamesIn(scopes))][n].id # 0
      OBVIOUS
    <2>1. /\ Len(NamesIn(scopes)) = Len(scopes) /\ Len(scopes) \in DOMAIN scopes
          /\ scopes[Len(scopes)] \in Scope
          /\ NamesIn(scopes)[Len(scopes)][n] = RoleIn(scopes[Len(scopes)], n)
      BY <1>2, ChainIs
    <2>2. RoleIn(scopes[Len(scopes)], n).id # 0
      BY <2>1, RoleIs DEF Inner
    <2> QED
      BY <2>1, <2>2
  <1>5. err'.e = e /\ err'.n = n
    BY <1>1
  <1>6. OneSpace!Running /\ ~(events # {}) /\ events' = events
    BY <1>1 DEF OneSpace!Running, NoErr
  <1>7. OneSpace!Refuse
    BY <1>1, <1>3, <1>4, <1>5, <1>6 DEF OneSpace!Refuse, OneSpace!Top
  <1> QED
    BY <1>7 DEF Promised, OneSpace!Next

LEMMA OpenIs ==
  ASSUME TypeOK, NEW level \in Levels, scopes' = Push(scopes, level), meaning' = meaning
  PROVE  OneSpace!Open
  <1>1. NamesIn(scopes') = Append(NamesIn(scopes), OneSpace!Blank)
    BY PushChain DEF TypeOK
  <1> QED
    BY <1>1 DEF OneSpace!Open

LEMMA CloseIs ==
  ASSUME TypeOK, Len(scopes) > 1, scopes' = Pop(scopes), meaning' = meaning
  PROVE  OneSpace!Close
  <1>1. NamesIn(scopes') = SubSeq(NamesIn(scopes), 1, Len(NamesIn(scopes)) - 1)
    BY PopChain DEF TypeOK
  <1>2. Len(NamesIn(scopes)) = Len(scopes)
    BY ChainIs DEF TypeOK
  <1> QED
    BY <1>1, <1>2 DEF OneSpace!Close, OneSpace!Top

(* What defineSym accepts, when nothing is said against it. *)
LEMMA DefinedAdds ==
  ASSUME TypeOK, NEW sc, SameButTags(sc), NEW n \in Names, NEW e \in Entry, e.id # 0,
         ~Redefines(sc, n, e), SymEvents(n, e) = {}
  PROVE  OneSpace!Adds(NamesIn(scopes), NamesIn(AddSym(sc, n, e)), n)
  <1>1. /\ scopes \in Seq(Scope) /\ Len(scopes) > 0 /\ sc \in Seq(Scope) /\ Len(sc) = Len(scopes)
        /\ \A i \in DOMAIN scopes : sc[i].types = scopes[i].types /\ sc[i].syms = scopes[i].syms
    BY DEF TypeOK, SameButTags
  <1>2. NamesIn(sc) = NamesIn(scopes)
    BY <1>1, SameChain
  <1>3. Len(scopes) \in DOMAIN scopes /\ DOMAIN sc = DOMAIN scopes
    BY <1>1, LenProperties
  <1>4. Inner(sc).syms = Inner(scopes).syms
    BY <1>1, <1>3 DEF Inner
  <1>5. ~IsTypedefName(scopes, n)
    BY DEF SymEvents
  <1>6. NoTypedefs(sc, n)
    <2>1. NoTypedefs(scopes, n)
      BY <1>1, <1>5, VisibleIs
    <2> QED
      BY <1>1, <1>3, <2>1 DEF NoTypedefs
  <1>7. Inner(sc).syms[n].id # 0 => "constant" \notin {Inner(sc).syms[n].ty, e.ty}
    BY <1>4 DEF SymEvents
  <1>8. OneSpace!Adds(NamesIn(sc), NamesIn(AddSym(sc, n, e)), n)
    BY <1>1, <1>6, <1>7, AddSymAdds
  <1> QED
    BY <1>2, <1>8

LEMMA DeclareIs ==
  ASSUME TypeOK, NEW sc, SameButTags(sc), NEW n \in Names, NEW e \in Entry, e.id # 0,
         ~Redefines(sc, n, e), SymEvents(n, e) = {}, scopes' = AddSym(sc, n, e),
         meaning' = meaning
  PROVE  OneSpace!Declare
  <1>1. OneSpace!Adds(NamesIn(scopes), NamesIn(scopes'), n)
    BY DefinedAdds
  <1> QED
    BY <1>1 DEF OneSpace!Declare

(* A scope that is opened with its first name. *)
LEMMA OpenedAdds ==
  ASSUME NEW sc \in Seq(Scope), Len(sc) > 0, NEW level \in Levels, NEW n \in Names,
         NEW e \in Entry, e.id # 0, NoTypedefs(sc, n)
  PROVE  /\ OneSpace!Adds(Append(NamesIn(sc), OneSpace!Blank),
                          NamesIn(AddSym(Push(sc, level), n, e)), n)
         /\ Len(NamesIn(AddSym(Push(sc, level), n, e))) = Len(sc) + 1
         /\ SubSeq(NamesIn(AddSym(Push(sc, level), n, e)), 1, Len(sc)) = NamesIn(sc)
  <1> DEFINE in == Push(sc, level)
             new == AddSym(in, n, e)
             L == Len(sc)
  <1>1. /\ in \in Seq(Scope) /\ Len(in) = L + 1 /\ \A i \in DOMAIN sc : in[i] = sc[i]
        /\ in[L + 1] = NewScope(level)
    BY PushIs
  <1>2. L \in Nat /\ DOMAIN sc = 1..L
    BY LenProperties
  <1>3. Len(in) > 0 /\ Inner(in) = NewScope(level)
    BY <1>1, <1>2 DEF Inner
  <1>4. NoTypedefs(in, n)
    BY PushKeeps
  <1>5. NamesIn(in) = Append(NamesIn(sc), OneSpace!Blank)
    BY PushChain
  <1> HIDE DEF in
  <1>6. Inner(in).syms[n].id = 0
    BY <1>3 DEF NewScope, NoEntry
  <1>7. OneSpace!Adds(NamesIn(in), NamesIn(new), n)
    BY <1>1, <1>3, <1>4, <1>6, AddSymAdds DEF Redefines
  <1>8. /\ new \in Seq(Scope) /\ Len(new) = L + 1
        /\ \A i \in DOMAIN in :
              /\ new[i].types = in[i].types
              /\ \A m \in Names : new[i].syms[m] = IF i = L + 1 /\ m = n THEN e ELSE in[i].syms[m]
    <2>1. /\ new \in Seq(Scope) /\ Len(new) = Len(in)
          /\ \A i \in DOMAIN in :
                /\ new[i].types = in[i].types
                /\ \A m \in Names : new[i].syms[m] =
                      IF i = Len(in) /\ m = n THEN e ELSE in[i].syms[m]
      <3>1. in \in Seq(Scope) /\ Len(in) > 0
        BY <1>1, <1>3
      <3> QED
        BY <3>1, AddSymIs
    <2>2. Len(in) = L + 1
      BY <1>1
    <2> HIDE DEF new
    <2> QED
      BY <2>1, <2>2
  <1> HIDE DEF new
  <1>9. Len(NamesIn(new)) = L + 1
    BY <1>8, ChainIs
  <1>10. SubSeq(NamesIn(new), 1, L) = NamesIn(sc)
    <2>1. /\ Pop(new) \in Seq(Scope) /\ Len(Pop(new)) = L
          /\ \A i \in 1..L : Pop(new)[i] = new[i]
      <3>1. /\ Pop(new) \in Seq(Scope) /\ Len(Pop(new)) = Len(new) - 1
            /\ \A i \in 1..(Len(new) - 1) : Pop(new)[i] = new[i]
        <4>1. new \in Seq(Scope) /\ Len(new) > 0
          BY <1>2, <1>8
        <4> QED
          BY <4>1, PopIs
      <3>2. Len(new) - 1 = L
        BY <1>2, <1>8
      <3> QED
        BY <3>1, <3>2
    <2>2. NamesIn(Pop(new)) = SubSeq(NamesIn(new), 1, L)
      <3>1. NamesIn(Pop(new)) = SubSeq(NamesIn(new), 1, Len(NamesIn(new)) - 1)
        BY <1>2, <1>8, PopChain
      <3>2. Len(NamesIn(new)) - 1 = L
        BY <1>2, <1>9
      <3> QED
        BY <3>1, <3>2
    <2>3. ASSUME NEW i \in DOMAIN sc, NEW m \in Names
          PROVE  Pop(new)[i].types[m] = sc[i].types[m] /\ Pop(new)[i].syms[m] = sc[i].syms[m]
      <3>1. i \in 1..L /\ i # L + 1 /\ i \in DOMAIN in
        <4>1. DOMAIN in = 1..(L + 1)
          BY <1>1, LenProperties
        <4> QED
          BY <1>2, <4>1
      <3>2. Pop(new)[i] = new[i] /\ in[i] = sc[i]
        BY <1>1, <2>1, <3>1
      <3>3. new[i].types = in[i].types /\ new[i].syms[m] = in[i].syms[m]
        BY <1>8, <3>1
      <3> QED
        BY <3>2, <3>3
    <2>4. NamesIn(Pop(new)) = NamesIn(sc)
      BY <2>1, <2>3, SameChain
    <2> QED
      BY <2>2, <2>4
  <1> QED
    BY <1>5, <1>7, <1>9, <1>10 DEF new, in

-----------------------------------------------------------------------------
(* What each action is                                                     *)

Clean == err = NoErr /\ events = {} /\ events' = {}

LEMMA SameTables ==
  ASSUME UNCHANGED <<scopes, meaning, err, events>>
  PROVE  Promised
  BY QuietIs

LEMMA OnlyTags ==
  ASSUME TypeOK, SameButTags(scopes'), UNCHANGED <<meaning, err, events>>
  PROVE  Promised
  <1>1. /\ scopes \in Seq(Scope) /\ scopes' \in Seq(Scope) /\ Len(scopes') = Len(scopes)
        /\ \A i \in DOMAIN scopes : /\ scopes'[i].types = scopes[i].types
                                    /\ scopes'[i].syms = scopes[i].syms
    BY DEF TypeOK, SameButTags
  <1>2. NamesIn(scopes') = NamesIn(scopes)
    BY <1>1, SameChain
  <1> QED
    BY <1>2, QuietIs

(* An exception that is not about a name. *)
LEMMA RaisePromised ==
  ASSUME TypeOK, Clean, NEW e \in {"expression", "syntax", "tag", "null", "incomplete", "offset",
                                   "label", "stray"}, Raise(e)
  PROVE  Promised
  BY RefuseIs DEF Clean, Raise

LEMMA SkipPromised ==
  ASSUME Skip
  PROVE  Promised
  BY SameTables DEF Skip, tables, history

LEMMA RedefinedIs ==
  ASSUME TypeOK, NEW sc, SameButTags(sc), NEW n \in Names, NEW e, Redefines(sc, n, e)
  PROVE  Inner(scopes).syms[n].id # 0
  <1>1. Len(scopes) \in DOMAIN scopes
    BY LenProperties DEF TypeOK
  <1> QED
    BY <1>1 DEF Redefines, Inner, SameButTags

LEMMA DefineSymPromised ==
  ASSUME IInv, Clean, NEW n \in Names, NEW st \in {"none", "extern", "auto"}, NEW ty \in Types,
         DefineSym(n, st, ty)
  PROVE  Promised
  <1> DEFINE e == [id |-> lastid + 1, st |-> st, ty |-> ty]
  <1>1. TypeOK /\ lastid \in Nat /\ SameButTags(scopes)
    BY SameScopes DEF IInv, TypeOK
  <1>2. e \in Entry /\ e.id # 0
    <2>1. e.id = lastid + 1 /\ lastid + 1 # 0
      BY <1>1
    <2> QED
      BY <1>1, <2>1, NewEntry
  <1>3. CASE Redefines(scopes, n, e)
    <2>1. RaiseAt("redefinition", n)
      BY <1>3 DEF DefineSym
    <2>2. Inner(scopes).syms[n].id # 0
      BY <1>1, <1>3, RedefinedIs
    <2> QED
      BY <1>1, <2>1, <2>2, RefuseIs DEF Clean
  <1>4. CASE ~Redefines(scopes, n, e)
    <2>1. /\ scopes' = AddSym(scopes, n, e) /\ UNCHANGED <<meaning, err>>
          /\ events' = events \cup SymEvents(n, e)
      BY <1>4 DEF DefineSym
    <2> HIDE DEF e
    <2>2. SymEvents(n, e) = {}
      BY <2>1 DEF Clean
    <2>3. OneSpace!Declare
      BY <1>1, <1>2, <1>4, <2>1, <2>2, DeclareIs
    <2> QED
      BY <2>1, <2>3, ActIs DEF Clean
  <1> QED
    BY <1>3, <1>4

LEMMA ObjectPromised ==
  ASSUME IInv, Clean, Object
  PROVE  Promised
  <1>1. tok.k = "object" /\ TypeOK
    BY DEF Object, At, IInv
  <1>2. tok.n \in Names /\ tok.st \in {"none", "extern", "auto"} /\ tok.ty \in Types
    BY <1>1, TokenFields
  <1>3. \/ DefineSym(tok.n, tok.st, tok.ty) \/ Skip \/ Raise("expression")
    BY DEF Object
  <1> QED
    BY <1>1, <1>2, <1>3, DefineSymPromised, SkipPromised, RaisePromised

LEMMA AliasPromised ==
  ASSUME IInv, Clean, Alias
  PROVE  Promised
  <1> DEFINE e == [id |-> 1, st |-> "none", ty |-> "int"]
  <1>1. tok.k = "alias" /\ TypeOK /\ SameButTags(scopes)
    BY SameScopes DEF Alias, At, IInv
  <1>2. tok.n \in Names /\ tok.t \in Names
    BY <1>1, TokenFields
  <1>3. Typedef(scopes, tok.t).ty \in Types
    BY <1>1, <1>2, LookupTypes DEF TypeOK, Entry
  <1>4. \/ DefineSym(tok.n, "none", Typedef(scopes, tok.t).ty) \/ Skip \/ Raise("syntax")
        \/ (RaiseAt("undeclared", tok.t) /\ Sym(scopes, tok.t).id = 0)
        \/ (RaiseAt("redefinition", tok.t) /\ Redefines(scopes, tok.t, e))
    BY DEF Alias
  <1>5. CASE RaiseAt("undeclared", tok.t) /\ Sym(scopes, tok.t).id = 0
    BY <1>1, <1>2, <1>5, RefuseIs DEF Clean
  <1>6. CASE RaiseAt("redefinition", tok.t) /\ Redefines(scopes, tok.t, e)
    <2>1. Inner(scopes).syms[tok.t].id # 0
      BY <1>1, <1>2, <1>6, RedefinedIs
    <2> QED
      BY <1>1, <1>2, <1>6, <2>1, RefuseIs DEF Clean
  <1> QED
    BY <1>1, <1>2, <1>3, <1>4, <1>5, <1>6, DefineSymPromised, SkipPromised, RaisePromised

LEMMA MentionPromised ==
  ASSUME IInv, Clean, tok.n \in Names, Mention
  PROVE  Promised
  <1>1. TypeOK /\ Unmixed /\ scopes \in Seq(Scope)
    BY DEF IInv, TypeOK
  <1>2. CASE Sym(scopes, tok.n).id = 0
    <2>1. RaiseAt("undeclared", tok.n)
      BY <1>2 DEF Mention
    <2> QED
      BY <1>1, <1>2, <2>1, RefuseIs DEF Clean
  <1>3. CASE Sym(scopes, tok.n).id # 0
    <2>1. /\ scopes' = scopes /\ err' = err
          /\ meaning' = [n |-> tok.n, id |-> Sym(scopes, tok.n).id]
      BY <1>3 DEF Mention, tables
    <2>2. OneRole(scopes)
      BY <1>1, TablesIn DEF Clean
    <2>3. /\ OneSpace!Visible(NamesIn(scopes), tok.n).id = Sym(scopes, tok.n).id
          /\ OneSpace!Visible(NamesIn(scopes), tok.n).role # "typedef"
      BY <1>1, <1>3, <2>2, VisibleRole
    <2>4. NamesIn(scopes)' = NamesIn(scopes)
      BY <2>1
    <2>5. OneSpace!Use
      BY <1>3, <2>1, <2>3, <2>4 DEF OneSpace!Use, OneSpace!UseIn
    <2> QED
      BY <2>1, <2>5, ActIs DEF Clean
  <1> QED
    BY <1>2, <1>3

LEMMA UseNamePromised ==
  ASSUME IInv, Clean, UseName
  PROVE  Promised
  <1>1. tok.k = "use" /\ TypeOK
    BY DEF UseName, At, IInv
  <1>2. tok.n \in Names /\ "int" \in Types
    BY <1>1, TokenFields DEF Types
  <1>3. DefineSym(tok.n, "none", "int") \/ Skip \/ Mention
    BY DEF UseName
  <1> QED
    BY <1>2, <1>3, DefineSymPromised, SkipPromised, MentionPromised

LEMMA InitializedPromised ==
  ASSUME IInv, IInv', Clean, Initialized
  PROVE  Promised
  <1> DEFINE e == [id |-> lastid + 1, st |-> "none", ty |-> "int"]
             e1 == [id |-> 1, st |-> "none", ty |-> "int"]
             m == tok.m
             n == tok.n
  <1>1. /\ tok.k = "init" /\ TypeOK /\ SameButTags(scopes) /\ scopes \in Seq(Scope)
        /\ Len(scopes) > 0 /\ lastid \in Nat
    BY SameScopes DEF Initialized, At, IInv, TypeOK
  <1>2. n \in Names /\ m \in Names
    BY <1>1, TokenFields
  <1>3. e \in Entry /\ e.id # 0
    <2>1. e.id = lastid + 1 /\ lastid + 1 # 0
      BY <1>1
    <2> QED
      BY <1>1, <2>1, NewEntry DEF Types
  <1>4. CASE Sym(scopes, m).id = 0
    <2>1. RaiseAt("undeclared", m)
      BY <1>4 DEF Initialized
    <2> QED
      BY <1>1, <1>2, <1>4, <2>1, RefuseIs DEF Clean
  <1>5. CASE Sym(scopes, m).id # 0 /\ Redefines(scopes, n, e1)
    <2>1. RaiseAt("redefinition", n)
      BY <1>5 DEF Initialized
    <2>2. Inner(scopes).syms[n].id # 0
      BY <1>1, <1>2, <1>5, RedefinedIs
    <2> QED
      BY <1>1, <1>2, <2>1, <2>2, RefuseIs DEF Clean
  <1>6. CASE Sym(scopes, m).id # 0 /\ ~Redefines(scopes, n, e1)
    <2>1. /\ scopes' = AddSym(scopes, n, e) /\ err' = err
          /\ meaning' = [n |-> m, id |-> Sym(scopes, m).id]
          /\ events' = events \cup SymEvents(n, e) \cup (IF n = m THEN {"own"} ELSE {})
      BY <1>6 DEF Initialized, InitializedOk
    <2>2. ~Redefines(scopes, n, e)
      BY <1>6 DEF Redefines, AcceptedAgain
    <2> HIDE DEF e, m, n
    <2>3. SymEvents(n, e) = {} /\ n # m
      BY <2>1 DEF Clean
    <2>4. OneSpace!Adds(NamesIn(scopes), NamesIn(scopes'), n)
      BY <1>1, <1>2, <1>3, <2>1, <2>2, <2>3, DefinedAdds
    <2>5. Sym(scopes', m) = Sym(scopes, m)
      <3>1. /\ scopes' \in Seq(Scope) /\ Len(scopes') = Len(scopes)
            /\ \A i \in DOMAIN scopes : scopes'[i].syms[m] = scopes[i].syms[m]
        <4>1. /\ scopes' \in Seq(Scope) /\ Len(scopes') = Len(scopes)
              /\ \A i \in DOMAIN scopes : \A x \in Names : scopes'[i].syms[x] =
                     IF i = Len(scopes) /\ x = n THEN e ELSE scopes[i].syms[x]
          BY <1>1, <1>2, <1>3, <2>1, AddSymIs
        <4> QED
          BY <1>2, <2>3, <4>1
      <3>2. DOMAIN scopes' = DOMAIN scopes
        BY <1>1, <3>1, LenProperties
      <3> DEFINE D == {i \in DOMAIN scopes : scopes[i].syms[m].id # 0}
                 D2 == {i \in DOMAIN scopes' : scopes'[i].syms[m].id # 0}
      <3>3. D2 = D
        <4>1. \A i : i \in D2 <=> i \in D
          BY <3>1, <3>2
        <4> QED
          BY <4>1, Zenon
      <3>4. D # {} => LastOf(D) \in DOMAIN scopes
        <4>1. DOMAIN scopes = 1..Len(scopes) /\ Len(scopes) \in Nat
          BY <1>1, LenProperties
        <4> QED
          BY <4>1, Greatest
      <3>5. /\ Sym(scopes, m) = IF D = {} THEN NoEntry ELSE scopes[LastOf(D)].syms[m]
            /\ Sym(scopes', m) = IF D2 = {} THEN NoEntry ELSE scopes'[LastOf(D2)].syms[m]
        BY DEF Sym
      <3> HIDE DEF D, D2
      <3> QED
        BY <3>1, <3>3, <3>4, <3>5
    <2>6. OneRole(scopes') /\ scopes' \in Seq(Scope)
      <3>1. Unmixed' /\ scopes' \in Seq(Scope)
        BY DEF IInv, TypeOK
      <3> QED
        BY <3>1, TablesIn DEF Clean
    <2>7. /\ OneSpace!Visible(NamesIn(scopes'), m).id = Sym(scopes, m).id
          /\ OneSpace!Visible(NamesIn(scopes'), m).role # "typedef"
      BY <1>2, <1>6, <2>5, <2>6, VisibleRole DEF m
    <2>8. OneSpace!DeclareFrom
      BY <1>2, <1>6, <2>1, <2>4, <2>7 DEF OneSpace!DeclareFrom, OneSpace!UseIn, m
    <2> QED
      BY <2>1, <2>8, ActIs DEF Clean
  <1> QED
    BY <1>4, <1>5, <1>6

LEMMA TypedefDeclPromised ==
  ASSUME IInv, Clean, TypedefDecl
  PROVE  Promised
  <1> DEFINE e == [id |-> lastid + 1, st |-> "none", ty |-> tok.ty]
             n == tok.n
  <1>1. /\ tok.k = "typedef" /\ TypeOK /\ scopes \in Seq(Scope) /\ Len(scopes) > 0
        /\ lastid \in Nat
    BY DEF TypedefDecl, At, IInv, TypeOK
  <1>2. n \in Names /\ tok.ty \in Types
    BY <1>1, TokenFields
  <1>3. e \in Entry /\ e.id # 0
    <2>1. e.id = lastid + 1 /\ lastid + 1 # 0
      BY <1>1
    <2> QED
      BY <1>1, <1>2, <2>1, NewEntry
  <1>4. CASE Skip \/ Raise("expression")
    BY <1>1, <1>4, SkipPromised, RaisePromised
  <1>5. CASE RaiseAt("redefinition", n) /\ Inner(scopes).types[n].id # 0
    BY <1>1, <1>2, <1>5, RefuseIs DEF Clean
  <1>6. CASE /\ scopes' = AddType(scopes, n, e) /\ UNCHANGED <<meaning, err>>
             /\ events' = events \cup (IF Sym(scopes, n).id # 0 THEN {"mixed"} ELSE {})
    <2> HIDE DEF e, n
    <2>1. Sym(scopes, n).id = 0
      BY <1>6 DEF Clean
    <2>2. NoSyms(scopes, n)
      BY <1>1, <1>2, <2>1, VisibleIs
    <2>3. OneSpace!Adds(NamesIn(scopes), NamesIn(scopes'), n)
      BY <1>1, <1>2, <1>3, <1>6, <2>2, AddTypeAdds
    <2>4. OneSpace!Declare
      BY <1>2, <1>6, <2>3 DEF OneSpace!Declare
    <2> QED
      BY <1>6, <2>4, ActIs DEF Clean
  <1> QED
    BY <1>4, <1>5, <1>6 DEF TypedefDecl

LEMMA EnumDeclPromised ==
  ASSUME IInv, Clean, EnumDecl
  PROVE  Promised
  <1> DEFINE t == TypeFor(CurrentTag(scopes, tok.s), TagOf(scopes, tok.s), "lbrace")
             sc == ScopesWith(t, tok.s)
             e == [id |-> lastid + 1, st |-> "extern", ty |-> "constant"]
             n == tok.n
  <1>1. tok.k = "enum" /\ TypeOK /\ lastid \in Nat
    BY DEF EnumDecl, At, IInv, TypeOK
  <1>2. n \in Names /\ tok.s \in Tags
    BY <1>1, TokenFields
  <1>3. e \in Entry /\ e.id # 0
    <2>1. e.id = lastid + 1 /\ lastid + 1 # 0
      BY <1>1
    <2> QED
      BY <1>1, <2>1, NewEntry DEF Types
  <1>4. SameButTags(sc)
    <2>1. "enum" \in {"struct", "enum"}
      OBVIOUS
    <2> QED
      BY <1>2, <2>1, TagTables
  <1>5. CASE Raise("tag") \/ Raise("null")
    BY <1>1, <1>5, RaisePromised
  <1>6. CASE RaiseAt("redefinition", n) /\ Redefines(sc, n, e)
    <2>1. Inner(scopes).syms[n].id # 0
      BY <1>1, <1>2, <1>4, <1>6, RedefinedIs
    <2> QED
      BY <1>1, <1>2, <1>6, <2>1, RefuseIs DEF Clean
  <1>7. CASE /\ scopes' = AddSym(sc, n, e) /\ UNCHANGED <<meaning, err>> /\ ~Redefines(sc, n, e)
             /\ events' = events \cup SymEvents(n, e)
    <2> HIDE DEF e, n, sc
    <2>1. SymEvents(n, e) = {}
      BY <1>7 DEF Clean
    <2>2. OneSpace!Declare
      BY <1>1, <1>2, <1>3, <1>4, <1>7, <2>1, DeclareIs
    <2> QED
      BY <1>7, <2>2, ActIs DEF Clean
  <1> QED
    BY <1>5, <1>6, <1>7 DEF EnumDecl

LEMMA DeclaratorPromised ==
  ASSUME IInv, Clean, Declarator
  PROVE  Promised
  <1> DEFINE t == HeadType("ident")
             e == [id |-> lastid + 1, st |-> "none", ty |-> "struct"]
             sc == IF mode = "typed" THEN scopes ELSE ScopesWith(t, head.s)
             n == tok.n
  <1>1. tok.k = "use" /\ TypeOK /\ mode \in {"tag", "typed"} /\ lastid \in Nat
    BY DEF Declarator, At, IInv, TypeOK
  <1>2. n \in Names
    BY <1>1, TokenFields
  <1>3. e \in Entry /\ e.id # 0
    <2>1. e.id = lastid + 1 /\ lastid + 1 # 0
      BY <1>1
    <2> QED
      BY <1>1, <2>1, NewEntry DEF Types
  <1>4. SameButTags(sc)
    <2>1. CASE mode = "typed"
      BY <2>1, SameScopes
    <2>2. CASE mode = "tag"
      <3>1. head.s \in Tags
            /\ t = TypeFor(CurrentTag(scopes, head.s), TagOf(scopes, head.s), "ident")
            /\ "struct" \in {"struct", "enum"}
        BY <2>2, HeadOf
      <3> HIDE DEF t
      <3>2. SameButTags(ScopesWith(t, head.s))
        BY <3>1, TagTables
      <3> QED
        BY <2>2, <3>2
    <2> QED
      BY <1>1, <2>1, <2>2
  <1>5. CASE Raise("incomplete")
    BY <1>1, <1>5, RaisePromised
  <1>6. CASE UNCHANGED <<scopes, meaning, err, events>>
    BY <1>6, SameTables
  <1>7. CASE RaiseAt("redefinition", n) /\ Redefines(sc, n, e)
    <2>1. Inner(scopes).syms[n].id # 0
      BY <1>1, <1>2, <1>4, <1>7, RedefinedIs
    <2> QED
      BY <1>1, <1>2, <1>7, <2>1, RefuseIs DEF Clean
  <1>8. CASE /\ scopes' = AddSym(sc, n, e) /\ UNCHANGED <<meaning, err>> /\ ~Redefines(sc, n, e)
             /\ events' = events \cup SymEvents(n, e)
    <2> HIDE DEF e, n, sc
    <2>1. SymEvents(n, e) = {}
      BY <1>8 DEF Clean
    <2>2. OneSpace!Declare
      BY <1>1, <1>2, <1>3, <1>4, <1>8, <2>1, DeclareIs
    <2> QED
      BY <1>8, <2>2, ActIs DEF Clean
  <1> QED
    BY <1>5, <1>6, <1>7, <1>8 DEF Declarator, tables, history

LEMMA TagPromised ==
  ASSUME IInv, Clean, StructBody \/ NoDeclarator
  PROVE  Promised
  <1>1. TypeOK
    BY DEF IInv
  <1>2. CASE Raise("tag")
    BY <1>1, <1>2, RaisePromised
  <1>3. CASE UNCHANGED <<scopes, meaning, err, events>>
    BY <1>3, SameTables
  <1>4. CASE /\ mode = "tag" /\ UNCHANGED <<meaning, err, events>>
             /\ \E next : scopes' = ScopesWith(HeadType(next), head.s)
    <2>1. PICK next : scopes' = ScopesWith(HeadType(next), head.s)
      BY <1>4
    <2> DEFINE t == HeadType(next)
    <2>2. head.s \in Tags
          /\ t = TypeFor(CurrentTag(scopes, head.s), TagOf(scopes, head.s), next)
          /\ "struct" \in {"struct", "enum"}
      BY <1>4, HeadOf
    <2> HIDE DEF t
    <2>3. SameButTags(ScopesWith(t, head.s))
      BY <2>2, TagTables
    <2>4. SameButTags(scopes')
      BY <2>1, <2>3 DEF t
    <2> QED
      BY <1>1, <1>4, <2>4, OnlyTags
  <1>5. CASE StructBody
    <2>1. Raise("tag") \/ /\ mode = "tag" /\ UNCHANGED <<meaning, err, events>>
                          /\ scopes' = ScopesWith(HeadType("lbrace"), head.s)
      BY <1>5 DEF StructBody, At, history
    <2> QED
      BY <1>2, <1>4, <2>1
  <1>6. CASE NoDeclarator
    <2>1. \/ UNCHANGED <<scopes, meaning, err, events>>
          \/ /\ mode = "tag" /\ UNCHANGED <<meaning, err, events>>
             /\ scopes' = ScopesWith(HeadType("semi"), head.s)
      BY <1>6 DEF NoDeclarator, At, tables, history
    <2> QED
      BY <1>3, <1>4, <2>1
  <1> QED
    BY <1>5, <1>6

LEMMA ParseTypenamePromised ==
  ASSUME IInv, Clean, LookAhead \/ ReadAgain
  PROVE  Promised
  <1>1. TypeOK /\ tok.k = "literal" /\ ParseTypename
    BY DEF IInv, LookAhead, ReadAgain, At
  <1>2. tok.s \in Tags \cup {NoName}
    BY <1>1, TokenFields
  <1> DEFINE t == TypeFor(CurrentTag(scopes, tok.s), TagOf(scopes, tok.s), "lbrace")
  <1>3. CASE Raise("tag") \/ Raise("null")
    BY <1>1, <1>3, RaisePromised
  <1>4. CASE UNCHANGED <<scopes, meaning, err, events>>
    BY <1>4, SameTables
  <1>5. CASE /\ scopes' = ScopesWith(t, tok.s) /\ tok.s # NoName
             /\ UNCHANGED <<meaning, err, events>>
    <2>1. t = TypeFor(CurrentTag(scopes, tok.s), TagOf(scopes, tok.s), "lbrace")
          /\ "struct" \in {"struct", "enum"} /\ tok.s \in Tags
      BY <1>2, <1>5
    <2> HIDE DEF t
    <2>2. SameButTags(ScopesWith(t, tok.s))
      BY <2>1, TagTables
    <2>3. SameButTags(scopes')
      BY <1>5, <2>2
    <2> QED
      BY <1>1, <1>5, <2>3, OnlyTags
  <1> QED
    BY <1>1, <1>3, <1>4, <1>5 DEF ParseTypename, history

LEMMA FunctionStartPromised ==
  ASSUME IInv, Clean, FunctionStart
  PROVE  Promised
  <1> DEFINE e == [id |-> lastid + 1, st |-> "none", ty |-> "fn"]
             pe == [id |-> lastid + 2, st |-> "auto", ty |-> "int"]
             n == tok.n
             p == tok.p
             sc == AddSym(scopes, n, e)
  <1>1. /\ tok.k = "function" /\ TypeOK /\ lastid \in Nat /\ SameButTags(scopes)
        /\ scopes \in Seq(Scope) /\ Len(scopes) > 0
    BY SameScopes DEF FunctionStart, At, IInv, TypeOK
  <1>2. n \in Names /\ p \in Names /\ "method" \in Levels
    BY <1>1, TokenFields DEF Levels
  <1>3. e \in Entry /\ e.id # 0 /\ pe \in Entry /\ pe.id # 0
    <2>1. e.id = lastid + 1 /\ lastid + 1 # 0 /\ pe.id = lastid + 2 /\ lastid + 2 # 0
      BY <1>1
    <2> QED
      BY <1>1, <2>1, NewEntry DEF Types
  <1>4. CASE Raise("expression") \/ Raise("syntax")
    BY <1>1, <1>4, RaisePromised
  <1>5. CASE RaiseAt("redefinition", n) /\ Redefines(scopes, n, e)
    <2>1. Inner(scopes).syms[n].id # 0
      BY <1>1, <1>2, <1>5, RedefinedIs
    <2> QED
      BY <1>1, <1>2, <1>5, <2>1, RefuseIs DEF Clean
  <1>6. CASE /\ scopes' = AddSym(Push(sc, "method"), p, pe) /\ ~Redefines(scopes, n, e)
             /\ UNCHANGED <<meaning, err>>
             /\ events' = events \cup SymEvents(n, e)
                            \cup (IF IsTypedefName(scopes, p) THEN {"mixed"} ELSE {})
    <2> HIDE DEF e, pe, n, p
    <2>1. SymEvents(n, e) = {} /\ ~IsTypedefName(scopes, p)
      BY <1>6 DEF Clean
    <2>2. OneSpace!Adds(NamesIn(scopes), NamesIn(sc), n)
      BY <1>1, <1>2, <1>3, <1>6, <2>1, DefinedAdds
    <2>3. sc \in Seq(Scope) /\ Len(sc) = Len(scopes)
      BY <1>1, <1>2, <1>3, AddSymIs
    <2>4. NoTypedefs(sc, p)
      <3>1. NoTypedefs(scopes, p)
        BY <1>1, <1>2, <2>1, VisibleIs
      <3> QED
        BY <1>1, <1>2, <1>3, <3>1, AddSymKeeps
    <2> HIDE DEF sc
    <2>5. /\ OneSpace!Adds(Append(NamesIn(sc), OneSpace!Blank), NamesIn(scopes'), p)
          /\ Len(NamesIn(scopes')) = Len(sc) + 1
          /\ SubSeq(NamesIn(scopes'), 1, Len(sc)) = NamesIn(sc)
      BY <1>1, <1>2, <1>3, <1>6, <2>3, <2>4, OpenedAdds
    <2>6. Len(NamesIn(scopes)) = Len(scopes)
      BY <1>1, ChainIs
    <2>7. OneSpace!EnterFunction
      BY <1>2, <1>6, <2>2, <2>3, <2>5, <2>6 DEF OneSpace!EnterFunction, OneSpace!Top
    <2> QED
      BY <1>6, <2>7, ActIs DEF Clean
  <1> QED
    BY <1>4, <1>5, <1>6 DEF FunctionStart, In

LEMMA ForPromised ==
  ASSUME IInv, Clean, For
  PROVE  Promised
  <1> DEFINE e == [id |-> lastid + 1, st |-> "none", ty |-> "int"]
             n == tok.n
  <1>1. /\ tok.k = "for" /\ TypeOK /\ lastid \in Nat /\ scopes \in Seq(Scope) /\ Len(scopes) > 0
        /\ UNCHANGED <<meaning, err>>
    BY DEF For, At, IInv, TypeOK
  <1>2. n \in Names \cup {NoName} /\ "block" \in Levels
    BY <1>1, TokenFields DEF Levels
  <1>3. e \in Entry /\ e.id # 0
    <2>1. e.id = lastid + 1 /\ lastid + 1 # 0
      BY <1>1
    <2> QED
      BY <1>1, <2>1, NewEntry DEF Types
  <1>4. CASE n = NoName
    <2>1. scopes' = Push(scopes, "block")
      BY <1>4 DEF For
    <2>2. OneSpace!Open
      BY <1>1, <1>2, <2>1, OpenIs
    <2> QED
      BY <1>1, <2>2, ActIs DEF Clean
  <1>5. CASE n # NoName
    <2>1. /\ scopes' = AddSym(Push(scopes, "block"), n, e)
          /\ events' = events \cup (IF IsTypedefName(scopes, n) THEN {"mixed"} ELSE {})
      BY <1>5 DEF For
    <2> HIDE DEF e, n
    <2>2. NoTypedefs(scopes, n) /\ n \in Names
      BY <1>1, <1>2, <1>5, <2>1, VisibleIs DEF Clean
    <2>3. OneSpace!Adds(Append(NamesIn(scopes), OneSpace!Blank), NamesIn(scopes'), n)
      BY <1>1, <1>2, <1>3, <2>1, <2>2, OpenedAdds
    <2>4. OneSpace!EnterLoop
      BY <1>1, <2>2, <2>3 DEF OneSpace!EnterLoop
    <2> QED
      BY <1>1, <2>4, ActIs DEF Clean
  <1> QED
    BY <1>4, <1>5

LEMMA BlockStartPromised ==
  ASSUME IInv, Clean, BlockStart
  PROVE  Promised
  <1>1. TypeOK /\ scopes' = Push(scopes, "block") /\ UNCHANGED <<meaning, err>>
        /\ "block" \in Levels
    BY DEF IInv, BlockStart, Keep, Levels
  <1>2. OneSpace!Open
    BY <1>1, OpenIs
  <1> QED
    BY <1>1, <1>2, ActIs DEF Clean

LEMMA ClosePromised ==
  ASSUME IInv, Clean, BlockEnd \/ EndFor \/ FunctionEnd
  PROVE  Promised
  <1>1. TypeOK /\ StackNests /\ NestingAgrees
    BY DEF IInv
  <1>2. CASE Raise("label")
    BY <1>1, <1>2, RaisePromised
  <1>3. CASE Top.k \in Scoped /\ scopes' = Pop(scopes) /\ UNCHANGED <<meaning, err>>
    <2>1. Len(scopes) > 1
      BY <1>1, <1>3, WhereOnStack
    <2>2. OneSpace!Close
      BY <1>1, <1>3, <2>1, CloseIs
    <2> QED
      BY <1>3, <2>2, ActIs DEF Clean
  <1> QED
    BY <1>2, <1>3 DEF BlockEnd, EndFor, FunctionEnd, In, Scoped, Keep, history

(* The actions that declare nothing. *)
LEMMA QuietPromised ==
  ASSUME IInv, Clean,
         \/ Read \/ StructHead \/ StructEnd \/ BadDeclaration \/ StraySemicolon
         \/ BeginDeclaration \/ NothingBehindStray \/ NoStatement \/ Semicolon \/ Jump
         \/ StaticAssert \/ AssertAsSpecifier \/ If \/ Loop \/ Switch \/ Case \/ Default
         \/ DefaultStatement \/ Goto \/ Label \/ NextInList \/ EndLabelled \/ EndWhile
         \/ EndSwitch \/ EndThen \/ DoWhile \/ EndDo
  PROVE  Promised
  <1>1. TypeOK
    BY DEF IInv
  <1>2. CASE UNCHANGED <<scopes, meaning, err, events>>
    BY <1>2, SameTables
  <1>3. CASE \/ Raise("expression") \/ Raise("syntax") \/ Raise("null") \/ Raise("offset")
             \/ Raise("stray") \/ Skip
    BY <1>1, <1>3, RaisePromised, SkipPromised
  <1>4. CASE \/ Read \/ StructHead \/ StructEnd \/ BadDeclaration \/ StraySemicolon
             \/ BeginDeclaration \/ NothingBehindStray \/ NoStatement \/ Semicolon \/ Jump
             \/ StaticAssert \/ AssertAsSpecifier
    BY <1>2, <1>3, <1>4 DEF Read, StructHead, StructEnd, BadDeclaration, StraySemicolon,
       BeginDeclaration, NothingBehindStray, NoStatement, Semicolon, Jump, StaticAssert,
       AssertAsSpecifier, tables, history
  <1>5. CASE \/ If \/ Loop \/ Switch \/ Case \/ Default \/ DefaultStatement \/ Goto \/ Label
             \/ NextInList \/ EndLabelled \/ EndWhile \/ EndSwitch \/ EndThen \/ DoWhile \/ EndDo
    BY <1>2, <1>3, <1>5 DEF If, Loop, Switch, Case, Default, DefaultStatement, PushCase, Goto,
       Label, NextInList, EndLabelled, EndWhile, EndSwitch, EndThen, DoWhile, EndDo, Keep, tables
  <1> QED
    BY <1>4, <1>5

(* Nothing happens behind an exception. *)
LEMMA StepRuns ==
  ASSUME Step
  PROVE  err = NoErr
  <1>1. CASE \/ Read \/ Object \/ Initialized \/ TypedefDecl \/ Alias \/ UseName
    BY <1>1 DEF Read, Object, Initialized, TypedefDecl, Alias, UseName, At
  <1>2. CASE \/ EnumDecl \/ StructHead \/ StructBody \/ StructEnd \/ NoDeclarator
             \/ Declarator \/ BadDeclaration \/ LookAhead \/ ReadAgain
    BY <1>2 DEF EnumDecl, StructHead, StructBody, StructEnd, NoDeclarator, Declarator,
                BadDeclaration, LookAhead, ReadAgain, At
  <1>3. CASE \/ FunctionStart \/ FunctionEnd \/ StraySemicolon \/ BeginDeclaration
             \/ NothingBehindStray \/ NoStatement \/ Semicolon \/ Jump \/ StaticAssert
    BY <1>3 DEF FunctionStart, FunctionEnd, StraySemicolon, BeginDeclaration, NothingBehindStray,
                NoStatement, Semicolon, Jump, StaticAssert, At
  <1>4. CASE \/ BlockStart \/ BlockEnd \/ If \/ Loop \/ For \/ Switch \/ Case \/ Default
             \/ DefaultStatement \/ Goto \/ Label
    BY <1>4 DEF BlockStart, BlockEnd, If, Loop, For, Switch, Case, Default, DefaultStatement,
                Goto, Label, At
  <1>5. CASE \/ NextInList \/ EndLabelled \/ EndWhile \/ EndFor \/ EndSwitch \/ EndThen
             \/ DoWhile \/ EndDo \/ AssertAsSpecifier
    BY <1>5 DEF NextInList, EndLabelled, EndWhile, EndFor, EndSwitch, EndThen, DoWhile, EndDo,
                AssertAsSpecifier, At
  <1> QED
    BY <1>1, <1>2, <1>3, <1>4, <1>5 DEF Step

(* What the history says is not taken back. *)
LEMMA EventsStay ==
  ASSUME Step
  PROVE  events \subseteq events'
  <1> USE DEF Raise, RaiseAt, Skip
  <1>1. CASE \/ Read \/ Object \/ Initialized \/ TypedefDecl \/ Alias \/ UseName
    BY <1>1 DEF Read, Object, Initialized, InitializedOk, TypedefDecl, Alias, UseName, Mention,
                DefineSym
  <1>2. CASE \/ EnumDecl \/ StructHead \/ StructBody \/ StructEnd \/ NoDeclarator
             \/ Declarator \/ BadDeclaration \/ LookAhead \/ ReadAgain
    BY <1>2 DEF EnumDecl, StructHead, StructBody, StructEnd, NoDeclarator, Declarator,
                BadDeclaration, LookAhead, ReadAgain, ParseTypename
  <1>3. CASE \/ FunctionStart \/ FunctionEnd \/ StraySemicolon \/ BeginDeclaration
             \/ NothingBehindStray \/ NoStatement \/ Semicolon \/ Jump \/ StaticAssert
    BY <1>3 DEF FunctionStart, FunctionEnd, StraySemicolon, BeginDeclaration, NothingBehindStray,
                NoStatement, Semicolon, Jump, StaticAssert
  <1>4. CASE \/ BlockStart \/ BlockEnd \/ If \/ Loop \/ For \/ Switch \/ Case \/ Default
             \/ DefaultStatement \/ Goto \/ Label
    BY <1>4 DEF BlockStart, BlockEnd, If, Loop, For, Switch, Case, Default, DefaultStatement,
                Goto, Label, PushCase, Keep
  <1>5. CASE \/ NextInList \/ EndLabelled \/ EndWhile \/ EndFor \/ EndSwitch \/ EndThen
             \/ DoWhile \/ EndDo \/ AssertAsSpecifier
    BY <1>5 DEF NextInList, EndLabelled, EndWhile, EndFor, EndSwitch, EndThen, DoWhile, EndDo,
                AssertAsSpecifier, Keep
  <1> QED
    BY <1>1, <1>2, <1>3, <1>4, <1>5 DEF Step

LEMMA InitPromised ==
  ASSUME Init
  PROVE  OneSpace!Init
  <1>1. "file" \in Levels
    BY DEF Levels
  <1>2. scopes = <<NewScope("file")>> /\ scopes \in Seq(Scope) /\ Len(scopes) = 1
    BY <1>1, BlankRow DEF Init
  <1>3. /\ NamesIn(scopes) \in Seq(Row) /\ Len(NamesIn(scopes)) = 1
        /\ NamesIn(scopes)[1] = RowOf(scopes[1])
    <2>1. 1 \in DOMAIN scopes
      BY <1>2
    <2> QED
      BY <1>2, <2>1, ChainIs
  <1>4. NamesIn(scopes)[1] = OneSpace!Blank
    BY <1>1, <1>2, <1>3, BlankRow
  <1>5. NamesIn(scopes) = <<OneSpace!Blank>>
    <2>1. OneSpace!Blank \in Row
      BY <1>1, BlankRow
    <2> DEFINE b == OneSpace!Blank
               c == NamesIn(scopes)
    <2> HIDE DEF b, c
    <2>2. b \in Row /\ c \in Seq(Row) /\ Len(c) = 1 /\ c[1] = b
      BY <1>3, <1>4, <2>1 DEF b, c
    <2>3. <<b>> \in Seq(Row) /\ Len(<<b>>) = 1 /\ <<b>>[1] = b
      BY <2>2
    <2>4. \A i \in 1..Len(c) : c[i] = <<b>>[i]
      BY <2>2, <2>3
    <2>5. c = <<b>>
      BY <2>2, <2>3, <2>4, SeqEqual
    <2> QED
      BY <2>5 DEF b, c
  <1>6. meaning = [n |-> "none", id |-> 0] /\ err.e = "none" /\ events = {}
    BY DEF Init, NoErr
  <1> QED
    BY <1>5, <1>6 DEF OneSpace!Init

LEMMA StepPromised ==
  ASSUME IInv, IInv', [Next]_vars
  PROVE  Promised
  <1>1. CASE Spin \/ Terminating \/ UNCHANGED vars
    <2>1. UNCHANGED <<scopes, meaning, err, events>>
      BY <1>1 DEF Spin, Terminating, vars, tables, history
    <2> QED
      BY <2>1, SameTables
  <1>2. CASE Step
    <2>1. err = NoErr /\ events \subseteq events'
      BY <1>2, StepRuns, EventsStay
    <2>2. CASE events' # {}
      BY <2>1, <2>2, BrokenIs
    <2>3. CASE events' = {}
      <3>1. Clean
        BY <2>1, <2>3 DEF Clean
      <3>2. CASE \/ Object \/ Initialized \/ TypedefDecl \/ Alias \/ UseName
        BY <3>1, <3>2, ObjectPromised, InitializedPromised, TypedefDeclPromised, AliasPromised,
           UseNamePromised
      <3>3. CASE \/ EnumDecl \/ StructBody \/ NoDeclarator \/ Declarator \/ LookAhead \/ ReadAgain
        BY <3>1, <3>3, EnumDeclPromised, TagPromised, DeclaratorPromised, ParseTypenamePromised
      <3>4. CASE \/ FunctionStart \/ FunctionEnd \/ BlockStart \/ BlockEnd \/ For \/ EndFor
        BY <3>1, <3>4, FunctionStartPromised, ForPromised, BlockStartPromised, ClosePromised
      <3> QED
        BY <1>2, <3>1, <3>2, <3>3, <3>4, QuietPromised DEF Step
    <2> QED
      BY <2>2, <2>3
  <1> QED
    BY <1>1, <1>2 DEF Next

(* Symtab's two tables are one name space, in every program that keeps a   *)
(* name's role: a name that is used means its innermost declaration, and   *)
(* what defineSym refuses is declared in that scope.                       *)
THEOREM NameSpacesImplemented == Spec => ImplementsNameSpaces
  <1>1. Init => OneSpace!Init
    BY InitPromised
  <1>2. IInv /\ IInv' /\ [Next]_vars => [OneSpace!Next]_OneSpace!vars
    BY StepPromised DEF Promised
  <1> QED
    BY <1>1, <1>2, InvariantHolds, PTL DEF Spec, ImplementsNameSpaces, OneSpace!Spec

=============================================================================
