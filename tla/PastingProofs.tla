----------------------------- MODULE PastingProofs -----------------------------
(***************************************************************************)
(* The loops of PP_define and of pasteAll end with their list, and what    *)
(* they give is what C says, for replacement lists and arguments of any    *)
(* length and any number of calls.                                         *)
(***************************************************************************)
EXTENDS Pasting, SequenceTheorems, SequenceLemmas, TLAPS

Pieces == {"a", "b", "A", "str", "id", "comma", "##", "#", "x", "y"}
ReplToken == [t : Spelled, cat : Categories, painted : BOOLEAN]
Token == [v : Seq(Pieces), cat : Categories, own : 0..Len(repl), painted : BOOLEAN]
Arguments ==
  {as \in [x : Args \cup {<<>>}, y : Args \cup {<<>>}, given : BOOLEAN] :
     as.given \/ as.y = <<>>}

Typed ==
  /\ macro \in Macros /\ phase \in {"take", "usage", "defined", "paste", "expanded"}
  /\ repl \in Seq(ReplToken) /\ iter \in Nat /\ calls \in 0..MaxCalls
  /\ args \in Arguments /\ subst \in Seq(Token) /\ rv \in Seq(Token)
  /\ err \in {"none", "hashhash", "sharp", "glued"}

(* The category of a token of the list when the tokens before i have made  *)
(* their marks.                                                            *)
CatBefore(p, i) ==
  IF Is(p, "##") THEN (IF p < i /\ CommaOpt(p) THEN "commaopt" ELSE "hashhash")
  ELSE IF ~Formal(p) THEN "none"
  ELSE IF p + 1 < i /\ Is(p + 1, "##") THEN "unscanned"
  ELSE IF p - 1 < i /\ Is(p - 1, "#") THEN "stringized"
  ELSE IF p - 1 < i /\ Is(p - 1, "##") /\ ~CommaOpt(p - 1) THEN "unscanned"
  ELSE IF p < i THEN "scanned" ELSE "none"

MarkedBefore(i) == \A p \in DOMAIN repl : repl[p].cat = CatBefore(p, i)
SharpsBefore(i) == \A p \in DOMAIN repl : p < i /\ Is(p, "#") => Formal(p + 1)
NoDouble == \A p \in DOMAIN repl : Is(p, "##") => ~Is(p + 1, "##")

(* The list of the definition, as it is taken, marked, and kept. *)
Listed ==
  /\ NoDouble
  /\ phase = "take" =>
       /\ iter = 0 /\ subst = <<>> /\ rv = <<>>
       /\ \A p \in DOMAIN repl : repl[p].cat = "none" /\ ~repl[p].painted
  /\ phase # "take" => ~Is(1, "##") /\ ~Is(Len(repl), "##")
  /\ phase = "usage" =>
       /\ macro # "object" /\ iter \in 1..(Len(repl) + 1) /\ subst = <<>> /\ rv = <<>>
       /\ \A p \in DOMAIN repl : ~repl[p].painted
       /\ MarkedBefore(iter) /\ SharpsBefore(iter)
  /\ phase \in {"defined", "paste", "expanded"} =>
       MarkedBefore(Len(repl) + 1) /\ SharpsBefore(Len(repl) + 1)
  /\ phase = "defined" =>
       iter <= Len(repl) + 1 /\ subst = <<>> /\ rv = <<>>
  /\ phase = "paste" => subst = Substituted(args) /\ iter \in 1..(Len(subst) + 1)
  /\ phase = "expanded" => iter \in 1..(Len(subst) + 1)

IInv == Typed /\ Listed

-----------------------------------------------------------------------------
(* The definition                                                          *)

(* What is asked of the spelling of the list only. *)
LEMMA SameSpelling ==
  ASSUME macro' = macro, DOMAIN repl' = DOMAIN repl,
         \A p \in DOMAIN repl : repl'[p].t = repl[p].t
  PROVE  /\ \A p, t : Is(p, t)' <=> Is(p, t)
         /\ \A p : (Formal(p)' <=> Formal(p)) /\ (CommaOpt(p)' <=> CommaOpt(p))
         /\ \A p, i : CatBefore(p, i)' = CatBefore(p, i)
<1>1. \A p, t : Is(p, t)' <=> Is(p, t) BY DEF Is
<1>2. \A p : Formal(p)' <=> Formal(p) BY DEF Formal
<1>3. \A p : CommaOpt(p)' <=> CommaOpt(p) BY <1>1 DEF CommaOpt
<1>4. \A p, i : CatBefore(p, i)' = CatBefore(p, i) BY <1>1, <1>2, <1>3 DEF CatBefore
<1> QED BY <1>1, <1>2, <1>3, <1>4

LEMMA SameList ==
  ASSUME UNCHANGED <<macro, repl>>
  PROVE  /\ Typed' <=>
              /\ phase' \in {"take", "usage", "defined", "paste", "expanded"}
              /\ macro \in Macros /\ repl \in Seq(ReplToken) /\ iter' \in Nat
              /\ calls' \in 0..MaxCalls /\ args' \in Arguments
              /\ subst' \in Seq(Token) /\ rv' \in Seq(Token)
              /\ err' \in {"none", "hashhash", "sharp", "glued"}
         /\ NoDouble' <=> NoDouble
         /\ \A p, t : Is(p, t)' <=> Is(p, t)
         /\ \A i : (MarkedBefore(i)' <=> MarkedBefore(i)) /\ (SharpsBefore(i)' <=> SharpsBefore(i))
         /\ \A as : Substituted(as)' = Substituted(as)
<1>1. /\ \A p, t : Is(p, t)' <=> Is(p, t)
      /\ \A p : (Formal(p)' <=> Formal(p)) /\ (CommaOpt(p)' <=> CommaOpt(p))
      /\ \A p, i : CatBefore(p, i)' = CatBefore(p, i)
  BY SameSpelling
<1>2. NoDouble' <=> NoDouble BY <1>1 DEF NoDouble
<1>3. \A i : (MarkedBefore(i)' <=> MarkedBefore(i)) /\ (SharpsBefore(i)' <=> SharpsBefore(i))
  BY <1>1 DEF MarkedBefore, SharpsBefore
<1>4. \A as : Substituted(as)' = Substituted(as) BY DEF Substituted, Becomes, Argument, Is
<1>5. ReplToken' = ReplToken /\ Token' = Token BY DEF ReplToken, Spelled, Token
<1>6. Typed' <=>
        /\ phase' \in {"take", "usage", "defined", "paste", "expanded"}
        /\ macro \in Macros /\ repl \in Seq(ReplToken) /\ iter' \in Nat
        /\ calls' \in 0..MaxCalls /\ args' \in Arguments
        /\ subst' \in Seq(Token) /\ rv' \in Seq(Token)
        /\ err' \in {"none", "hashhash", "sharp", "glued"}
  BY <1>5 DEF Typed
<1> QED BY <1>1, <1>2, <1>3, <1>4, <1>6

(* An exception leaves everything as it is. *)
LEMMA RaiseIInv ==
  ASSUME IInv, NEW e \in {"hashhash", "sharp", "glued"}, Raise(e)
  PROVE  IInv'
<1>1. err' = e /\ UNCHANGED <<macro, repl, phase, iter, args, subst, rv, calls>> BY DEF Raise
<1>2. Typed' BY <1>1, SameList DEF IInv, Typed
<1>3. Substituted(args)' = Substituted(args)
  BY <1>1 DEF Substituted, Becomes, Argument, Is
<1>4. MarkedBefore(iter)' <=> MarkedBefore(iter) BY <1>1, SameList
<1>5. MarkedBefore(Len(repl) + 1)' <=> MarkedBefore(Len(repl) + 1) BY <1>1, SameList
<1>6. SharpsBefore(iter)' <=> SharpsBefore(iter) BY <1>1, SameList
<1>7. SharpsBefore(Len(repl) + 1)' <=> SharpsBefore(Len(repl) + 1) BY <1>1, SameList
<1>8. /\ NoDouble' <=> NoDouble
      /\ Is(1, "##")' <=> Is(1, "##")
      /\ Is(Len(repl), "##")' <=> Is(Len(repl), "##")
  BY <1>1, SameList
<1>9. Listed' BY <1>1, <1>3, <1>4, <1>5, <1>6, <1>7, <1>8 DEF IInv, Listed
<1> QED BY <1>2, <1>9 DEF IInv

LEMMA InitIInv == ASSUME Init PROVE IInv
<1>1. Typed
  <2>1. args \in Arguments BY DEF Init, Arguments
  <2>2. \A S : <<>> \in Seq(S) OBVIOUS
  <2> QED BY <2>1, <2>2, PastingAssumption DEF Init, Typed
<1>2. Listed
  <2>1. DOMAIN repl = {} /\ repl = <<>> BY DEF Init
  <2>2. phase = "take" /\ iter = 0 /\ subst = <<>> /\ rv = <<>> BY DEF Init
  <2> QED BY <2>1, <2>2 DEF Listed, NoDouble
<1> QED BY <1>1, <1>2 DEF IInv

(* One more token: of two ## in a row there is one. *)
LEMMA TakeIInv == ASSUME IInv, Take PROVE IInv'
<1>1. PICK t \in Spelled :
        repl' = IF t = "##" /\ Is(Len(repl), "##") THEN repl
                ELSE Append(repl, [t |-> t, cat |-> "none", painted |-> FALSE])
  BY DEF Take
<1>2. UNCHANGED <<macro, phase, iter, args, subst, rv, calls, err>> /\ phase = "take"
  BY DEF Take
<1>3. /\ repl \in Seq(ReplToken) /\ subst = <<>> /\ rv = <<>> /\ iter = 0 /\ NoDouble
      /\ \A p \in DOMAIN repl : repl[p].cat = "none" /\ ~repl[p].painted
  BY <1>2 DEF IInv, Typed, Listed
<1>4. /\ repl' \in Seq(ReplToken) /\ NoDouble'
      /\ \A p \in DOMAIN repl' : repl'[p].cat = "none" /\ ~repl'[p].painted
  <2>1. CASE t = "##" /\ Is(Len(repl), "##")
    <3>1. repl' = repl BY <1>1, <2>1
    <3> QED BY <3>1, <1>3 DEF NoDouble, Is
  <2>2. CASE ~(t = "##" /\ Is(Len(repl), "##"))
    <3> DEFINE tok == [t |-> t, cat |-> "none", painted |-> FALSE]
               n == Len(repl)
    <3>1. tok \in ReplToken BY DEF ReplToken, Categories
    <3>2. tok.t = t /\ tok.cat = "none" /\ ~tok.painted OBVIOUS
    <3>3. repl' = Append(repl, tok) BY <1>1, <2>2
    <3> HIDE DEF tok
    <3>4. /\ repl' \in Seq(ReplToken) /\ DOMAIN repl = 1..n /\ DOMAIN repl' = 1..(n + 1)
          /\ n \in Nat /\ repl'[n + 1] = tok /\ \A p \in 1..n : repl'[p] = repl[p]
      BY <3>1, <3>3, <1>3
    <3> HIDE DEF n
    <3>5. ASSUME NEW p \in 1..(n + 1), Is(p, "##")' PROVE ~Is(p + 1, "##")'
      <4>1. CASE p = n + 1
        <5>1. p + 1 \notin 1..(n + 1) BY <4>1, <3>4
        <5> QED BY <5>1, <3>4 DEF Is
      <4>2. CASE p = n
        <5>1. p \in 1..n BY <4>2, <3>4, <3>5
        <5>2. Is(n, "##") BY <5>1, <4>2, <3>5, <3>4 DEF Is
        <5>3. t # "##" BY <5>2, <2>2 DEF n
        <5> QED BY <5>3, <4>2, <3>2, <3>4 DEF Is
      <4>3. CASE p \in 1..(n - 1)
        <5>1. p \in 1..n /\ p + 1 \in 1..n BY <4>3, <3>4
        <5>2. Is(p, "##") BY <5>1, <3>5, <3>4 DEF Is
        <5>3. ~Is(p + 1, "##") BY <5>1, <5>2, <1>3, <3>4 DEF NoDouble
        <5> QED BY <5>1, <5>3, <3>4 DEF Is
      <4> QED BY <4>1, <4>2, <4>3, <3>4
    <3>6. NoDouble' BY <3>5, <3>4 DEF NoDouble
    <3>7. \A p \in DOMAIN repl' : repl'[p].cat = "none" /\ ~repl'[p].painted
      <4> TAKE p \in DOMAIN repl'
      <4>1. p \in 1..n \/ p = n + 1 BY <3>4
      <4> QED BY <4>1, <3>2, <3>4, <1>3
    <3> QED BY <3>4, <3>6, <3>7
  <2> QED BY <2>1, <2>2
<1>5. Spelled' = Spelled BY <1>2 DEF Spelled
<1>6. Typed'
  <2>1. ReplToken' = ReplToken BY <1>5 DEF ReplToken
  <2>2. <<>> \in Seq(Token') OBVIOUS
  <2> QED BY <2>1, <2>2, <1>2, <1>3, <1>4 DEF IInv, Typed
<1>7. Listed' BY <1>2, <1>3, <1>4 DEF Listed
<1> QED BY <1>6, <1>7 DEF IInv

(* The list is complete. *)
LEMMA TakenAllIInv == ASSUME IInv, TakenAll PROVE IInv'
<1>1. phase = "take" BY DEF TakenAll
<1>2. /\ repl \in Seq(ReplToken) /\ subst = <<>> /\ rv = <<>> /\ iter = 0 /\ NoDouble
      /\ \A p \in DOMAIN repl : repl[p].cat = "none" /\ ~repl[p].painted
  BY <1>1 DEF IInv, Typed, Listed
<1>3. CASE Is(1, "##") \/ Is(Len(repl), "##")
  <2>1. Raise("hashhash") BY <1>3 DEF TakenAll
  <2> QED BY <2>1, RaiseIInv
<1>4. CASE ~(Is(1, "##") \/ Is(Len(repl), "##"))
  <2>1. /\ repl' = [p \in DOMAIN repl |->
                      IF Is(p, "##") THEN [repl[p] EXCEPT !.cat = "hashhash"] ELSE repl[p]]
        /\ phase' = IF macro = "object" THEN "defined" ELSE "usage"
        /\ iter' = 1 /\ UNCHANGED <<macro, args, subst, rv, calls, err>>
    BY <1>4 DEF TakenAll
  <2>2. /\ DOMAIN repl = 1..Len(repl) /\ Len(repl) \in Nat
        /\ \A p \in DOMAIN repl : repl[p] \in ReplToken
    BY <1>2
  <2>3. ASSUME NEW p \in DOMAIN repl
        PROVE  /\ repl'[p].t = repl[p].t /\ repl'[p].painted = repl[p].painted
               /\ repl'[p] \in ReplToken
               /\ repl'[p].cat = IF Is(p, "##") THEN "hashhash" ELSE "none"
    <3>1. repl[p] \in ReplToken /\ repl[p].cat = "none" BY <1>2, <2>2
    <3>2. repl'[p] = IF Is(p, "##") THEN [repl[p] EXCEPT !.cat = "hashhash"] ELSE repl[p]
      BY <2>1
    <3> QED BY <3>1, <3>2 DEF ReplToken, Categories
  <2>4. DOMAIN repl' = DOMAIN repl /\ repl' \in Seq(ReplToken) /\ Len(repl') = Len(repl)
    <3>1. DOMAIN repl' = DOMAIN repl /\ repl' = [p \in DOMAIN repl |-> repl'[p]] BY <2>1
    <3>2. repl' \in [1..Len(repl) -> ReplToken] BY <3>1, <2>2, <2>3
    <3> QED BY <3>1, <3>2, <2>2
  <2>5. /\ \A p, t : Is(p, t)' <=> Is(p, t)
        /\ \A p : (Formal(p)' <=> Formal(p)) /\ (CommaOpt(p)' <=> CommaOpt(p))
        /\ \A p, i : CatBefore(p, i)' = CatBefore(p, i)
    BY <2>1, <2>3, <2>4, SameSpelling
  <2>6. Typed'
    <3>1. ReplToken' = ReplToken /\ Token' = Token /\ phase' \in {"usage", "defined"}
      BY <2>1, <2>4 DEF ReplToken, Spelled, Token
    <3> QED BY <3>1, <2>1, <2>4 DEF IInv, Typed
  <2>7. NoDouble' BY <2>4, <2>5, <1>2 DEF NoDouble
  <2>8. ~Is(1, "##")' /\ ~Is(Len(repl), "##")' BY <1>4, <2>4, <2>5
  <2>9. CASE macro = "object"
    <3>1. \A p \in DOMAIN repl : ~Is(p, "#") /\ ~Formal(p)
      BY <2>2, <2>9 DEF Is, Formal, ReplToken, Spelled, Formals
    <3>2. \A p : ~CommaOpt(p) BY <2>9 DEF CommaOpt
    <3>3. MarkedBefore(Len(repl) + 1)'
      BY <3>1, <3>2, <2>3, <2>4, <2>5 DEF MarkedBefore, CatBefore
    <3>4. SharpsBefore(Len(repl) + 1)' BY <3>1, <2>4, <2>5 DEF SharpsBefore
    <3>5. phase' = "defined" /\ iter' <= Len(repl') + 1 BY <2>1, <2>2, <2>4, <2>9
    <3> QED BY <3>3, <3>4, <3>5, <2>1, <2>4, <2>6, <2>7, <2>8, <1>2 DEF IInv, Listed
  <2>10. CASE macro # "object"
    <3>1. phase' = "usage" /\ iter' = 1 /\ iter' \in 1..(Len(repl') + 1) /\ macro' # "object"
      BY <2>1, <2>2, <2>4, <2>10
    <3>2. ASSUME NEW p \in DOMAIN repl
          PROVE  CatBefore(p, 1) = IF Is(p, "##") THEN "hashhash" ELSE "none"
      <4>1. ~(p < 1) /\ ~(p + 1 < 1) /\ p \in Nat BY <2>2
      <4>2. p - 1 < 1 => p - 1 = 0 BY <2>2, <4>1
      <4>3. ~Is(0, "#") /\ ~Is(0, "##") BY <2>2 DEF Is
      <4> QED BY <4>1, <4>2, <4>3 DEF CatBefore
    <3>3. MarkedBefore(iter)' BY <3>1, <3>2, <2>3, <2>4, <2>5 DEF MarkedBefore
    <3>4. SharpsBefore(iter)'
      <4>1. \A p \in DOMAIN repl : ~(p < 1) BY <2>2
      <4> QED BY <4>1, <3>1, <2>4 DEF SharpsBefore
    <3>5. \A p \in DOMAIN repl' : ~repl'[p].painted BY <2>3, <2>4, <1>2
    <3> QED BY <3>1, <3>3, <3>4, <3>5, <2>1, <2>4, <2>6, <2>7, <2>8, <1>2 DEF IInv, Listed
  <2> QED BY <2>9, <2>10
<1> QED BY <1>3, <1>4


(* A mark is made: in the categories it makes, nothing else is changed. *)
LEMMA MarkIInv ==
  ASSUME IInv, phase = "usage", iter \in DOMAIN repl, NEW cats, Mark(cats),
         \A p \in DOMAIN cats : cats[p] \in Categories,
         \A p \in DOMAIN repl :
           CatBefore(p, iter + 1) = IF p \in DOMAIN cats THEN cats[p] ELSE CatBefore(p, iter),
         Is(iter, "#") => Formal(iter + 1)
  PROVE  IInv'
<1>1. /\ repl' = [p \in DOMAIN repl |->
                    IF p \in DOMAIN cats THEN [repl[p] EXCEPT !.cat = cats[p]] ELSE repl[p]]
      /\ iter' = iter + 1
      /\ UNCHANGED <<macro, phase, args, subst, rv, calls, err>>
  BY DEF Mark
<1>2. /\ repl \in Seq(ReplToken) /\ subst = <<>> /\ rv = <<>> /\ NoDouble
      /\ macro # "object" /\ iter \in 1..(Len(repl) + 1) /\ iter \in Nat
      /\ ~Is(1, "##") /\ ~Is(Len(repl), "##")
      /\ \A p \in DOMAIN repl : ~repl[p].painted
      /\ MarkedBefore(iter) /\ SharpsBefore(iter)
  BY DEF IInv, Typed, Listed
<1>3. /\ DOMAIN repl = 1..Len(repl) /\ Len(repl) \in Nat
      /\ \A p \in DOMAIN repl : repl[p] \in ReplToken
  BY <1>2
<1>4. ASSUME NEW p \in DOMAIN repl
      PROVE  /\ repl'[p].t = repl[p].t /\ repl'[p].painted = repl[p].painted
             /\ repl'[p] \in ReplToken
             /\ repl'[p].cat = CatBefore(p, iter + 1)
  <2>1. repl[p] \in ReplToken /\ repl[p].cat = CatBefore(p, iter) BY <1>2, <1>3 DEF MarkedBefore
  <2>2. CASE p \in DOMAIN cats
    <3>1. repl'[p] = [repl[p] EXCEPT !.cat = cats[p]] BY <1>1, <2>2
    <3> QED BY <2>1, <2>2, <3>1 DEF ReplToken
  <2>3. CASE p \notin DOMAIN cats
    <3>1. repl'[p] = repl[p] BY <1>1, <2>3
    <3> QED BY <2>1, <2>3, <3>1
  <2> QED BY <2>2, <2>3
<1>5. DOMAIN repl' = DOMAIN repl /\ repl' \in Seq(ReplToken) /\ Len(repl') = Len(repl)
  <2>1. DOMAIN repl' = DOMAIN repl /\ repl' = [p \in DOMAIN repl |-> repl'[p]] BY <1>1
  <2>2. repl' \in [1..Len(repl) -> ReplToken] BY <2>1, <1>3, <1>4
  <2> QED BY <2>1, <2>2, <1>3
<1>6. /\ \A p, t : Is(p, t)' <=> Is(p, t)
      /\ \A p : (Formal(p)' <=> Formal(p)) /\ (CommaOpt(p)' <=> CommaOpt(p))
      /\ \A p, i : CatBefore(p, i)' = CatBefore(p, i)
  BY <1>1, <1>4, <1>5, SameSpelling
<1>7. Typed'
  <2>1. ReplToken' = ReplToken /\ Token' = Token
    BY <1>1, <1>5 DEF ReplToken, Spelled, Token
  <2> QED BY <2>1, <1>1, <1>2, <1>5 DEF IInv, Typed
<1>8. NoDouble' BY <1>5, <1>6, <1>2 DEF NoDouble
<1>9. ~Is(1, "##")' /\ ~Is(Len(repl), "##")' BY <1>2, <1>5, <1>6
<1>10. MarkedBefore(iter)' BY <1>1, <1>4, <1>5, <1>6 DEF MarkedBefore
<1>11. SharpsBefore(iter)'
  <2> SUFFICES ASSUME NEW p \in DOMAIN repl, p < iter + 1, Is(p, "#") PROVE Formal(p + 1)
    BY <1>1, <1>5, <1>6 DEF SharpsBefore
  <2>1. p < iter \/ p = iter BY <1>2, <1>3
  <2> QED BY <2>1, <1>2 DEF SharpsBefore
<1>12. iter' \in 1..(Len(repl') + 1) BY <1>1, <1>3, <1>5
<1>13. \A p \in DOMAIN repl' : ~repl'[p].painted BY <1>2, <1>4, <1>5
<1>14. Listed' BY <1>1, <1>2, <1>5, <1>8, <1>9, <1>10, <1>11, <1>12, <1>13 DEF Listed
<1> QED BY <1>7, <1>14 DEF IInv

(* A # makes a string of the parameter behind it. *)
LEMMA MarkSharpIInv == ASSUME IInv, MarkSharp PROVE IInv'
<1>1. phase = "usage" /\ iter \in DOMAIN repl /\ repl[iter].t = "#" BY DEF MarkSharp, At, Is
<1>2. DOMAIN repl = 1..Len(repl) /\ Len(repl) \in Nat /\ iter \in Nat BY DEF IInv, Typed
<1>3. CASE Formal(iter + 1)
  <2> DEFINE cats == [p \in {iter + 1} |-> "stringized"]
  <2>1. Mark(cats) BY <1>3 DEF MarkSharp
  <2>2. DOMAIN cats = {iter + 1} /\ cats[iter + 1] = "stringized" OBVIOUS
  <2> HIDE DEF cats
  <2>3. \A p \in DOMAIN cats : cats[p] \in Categories BY <2>2 DEF Categories
  <2>4. ASSUME NEW p \in DOMAIN repl
        PROVE  CatBefore(p, iter + 1) = IF p \in DOMAIN cats THEN cats[p] ELSE CatBefore(p, iter)
    <3>1. p \in Nat BY <1>2
    <3>2. CASE p = iter + 1
      <4>1. ~(p + 1 < iter + 1) /\ p - 1 < iter + 1 /\ p - 1 = iter BY <3>2, <1>2
      <4>2. Is(p - 1, "#") /\ Formal(p) BY <3>2, <4>1, <1>1, <1>3 DEF Is
      <4>3. ~Is(p, "##") BY <4>2 DEF Is, Formal, Formals
      <4> QED BY <3>2, <4>1, <4>2, <4>3, <2>2 DEF CatBefore
    <3>3. CASE p # iter + 1
      <4>1. ~Is(iter, "##") BY <1>1 DEF Is
      <4>2. p = iter => ~Formal(p) BY <1>1 DEF Formal, Formals
      <4>3. /\ p < iter + 1 <=> p < iter \/ p = iter
            /\ p + 1 < iter + 1 <=> p + 1 < iter \/ p + 1 = iter
            /\ p - 1 < iter + 1 <=> p - 1 < iter
        BY <3>1, <3>3, <1>2
      <4>4. CatBefore(p, iter + 1) = CatBefore(p, iter)
        BY <4>1, <4>2, <4>3 DEF CatBefore
      <4> QED BY <4>4, <3>3, <2>2
    <3> QED BY <3>2, <3>3
  <2> QED BY <2>1, <2>3, <2>4, <1>1, <1>3, MarkIInv
<1>4. CASE ~Formal(iter + 1)
  <2>1. Raise("sharp") BY <1>4 DEF MarkSharp
  <2> QED BY <2>1, RaiseIInv
<1> QED BY <1>3, <1>4


(* A ## keeps the parameters at its sides from being expanded. *)
LEMMA MarkHashHashIInv == ASSUME IInv, MarkHashHash PROVE IInv'
<1> DEFINE operands == {iter - 1} \cup IF CommaOpt(iter) THEN {} ELSE {iter + 1}
           D == {iter} \cup {q \in operands : Formal(q)}
           cats == [p \in D |-> IF p # iter THEN "unscanned"
                                ELSE IF CommaOpt(p) THEN "commaopt" ELSE "hashhash"]
<1>1. phase = "usage" /\ iter \in DOMAIN repl /\ repl[iter].t = "##" BY DEF MarkHashHash, At, Is
<1>2. DOMAIN repl = 1..Len(repl) /\ Len(repl) \in Nat /\ iter \in Nat BY DEF IInv, Typed
<1>3. Mark(cats) BY DEF MarkHashHash
<1>4. /\ DOMAIN cats = D
      /\ \A p \in D : cats[p] = IF p # iter THEN "unscanned"
                                ELSE IF CommaOpt(p) THEN "commaopt" ELSE "hashhash"
  OBVIOUS
<1> HIDE DEF cats
<1>5. \A p \in DOMAIN cats : cats[p] \in Categories
  <2> HIDE DEF D
  <2> QED BY <1>4 DEF Categories
<1>6. \A p : p \in D <=> \/ p = iter
                         \/ p = iter - 1 /\ Formal(p)
                         \/ p = iter + 1 /\ Formal(p) /\ ~CommaOpt(iter)
  OBVIOUS
<1> HIDE DEF D
<1>7. Is(iter, "##") /\ ~Is(iter, "#") /\ ~Formal(iter) BY <1>1 DEF Is, Formal, Formals
<1>8. \A p : Formal(p) => ~Is(p, "##") BY DEF Is, Formal, Formals
<1>9. ASSUME NEW p \in DOMAIN repl
      PROVE  CatBefore(p, iter + 1) = IF p \in DOMAIN cats THEN cats[p] ELSE CatBefore(p, iter)
  <2>1. p \in Nat BY <1>2
  <2>2. CASE p = iter
    <3>1. p < iter + 1 BY <2>2, <1>2
    <3>2. cats[p] = IF CommaOpt(p) THEN "commaopt" ELSE "hashhash" BY <1>4, <1>6, <2>2
    <3> QED BY <3>1, <3>2, <1>4, <1>6, <1>7, <2>2 DEF CatBefore
  <2>3. CASE p = iter - 1
    <3>1. p + 1 = iter /\ p + 1 < iter + 1 /\ p < iter /\ p < iter + 1 /\ p # iter
      BY <2>1, <2>3, <1>2
    <3>2. CASE Formal(p)
      <4>1. CatBefore(p, iter + 1) = "unscanned" BY <3>1, <3>2, <1>7, <1>8 DEF CatBefore
      <4>2. p \in D BY <2>3, <3>2, <1>6
      <4> QED BY <4>1, <4>2, <3>1, <1>4
    <3>3. CASE ~Formal(p)
      <4>1. p \notin D BY <3>1, <3>3, <1>6
      <4>2. CatBefore(p, iter + 1) = CatBefore(p, iter) BY <3>1, <3>3 DEF CatBefore
      <4> QED BY <4>1, <4>2, <1>4
    <3> QED BY <3>2, <3>3
  <2>4. CASE p = iter + 1
    <3>1. /\ p - 1 = iter /\ p - 1 < iter + 1 /\ ~(p + 1 < iter + 1) /\ ~(p + 1 < iter)
          /\ ~(p - 1 < iter) /\ ~(p < iter) /\ ~(p < iter + 1) /\ p # iter /\ p # iter - 1
      BY <2>1, <2>4, <1>2
    <3>2. CASE Formal(p) /\ ~CommaOpt(iter)
      <4>1. CatBefore(p, iter + 1) = "unscanned" BY <3>1, <3>2, <1>7, <1>8 DEF CatBefore
      <4>2. p \in D BY <2>4, <3>2, <1>6
      <4> QED BY <4>1, <4>2, <3>1, <1>4
    <3>3. CASE ~(Formal(p) /\ ~CommaOpt(iter))
      <4>1. p \notin D BY <3>1, <3>3, <1>6
      <4>2. CatBefore(p, iter + 1) = CatBefore(p, iter) BY <3>1, <3>3, <1>7 DEF CatBefore
      <4> QED BY <4>1, <4>2, <1>4
    <3> QED BY <3>2, <3>3
  <2>5. CASE p \notin {iter - 1, iter, iter + 1}
    <3>1. /\ p < iter + 1 <=> p < iter
          /\ p + 1 < iter + 1 <=> p + 1 < iter
          /\ p - 1 < iter + 1 <=> p - 1 < iter
      BY <2>1, <2>5, <1>2
    <3>2. p \notin D BY <2>5, <1>6
    <3>3. CatBefore(p, iter + 1) = CatBefore(p, iter) BY <3>1 DEF CatBefore
    <3> QED BY <3>2, <3>3, <1>4
  <2> QED BY <2>2, <2>3, <2>4, <2>5
<1> QED BY <1>1, <1>3, <1>5, <1>7, <1>9, MarkIInv

(* A parameter that is no operand is expanded; other tokens have no mark. *)
LEMMA MarkOtherIInv == ASSUME IInv, MarkOther PROVE IInv'
<1> DEFINE free == Formal(iter) /\ repl[iter].cat \notin {"stringized", "unscanned"}
           D == IF free THEN {iter} ELSE {}
           cats == [p \in D |-> "scanned"]
<1>1. phase = "usage" /\ iter \in DOMAIN repl /\ repl[iter].t \notin {"#", "##"} BY DEF MarkOther
<1>2. DOMAIN repl = 1..Len(repl) /\ Len(repl) \in Nat /\ iter \in Nat BY DEF IInv, Typed
<1>3. Mark(cats) BY DEF MarkOther
<1>4. DOMAIN cats = D /\ \A p \in D : cats[p] = "scanned" OBVIOUS
<1>5. \A p : p \in D <=> p = iter /\ free OBVIOUS
<1> HIDE DEF cats, D
<1>6. \A p \in DOMAIN cats : cats[p] \in Categories BY <1>4 DEF Categories
<1>7. ~Is(iter, "#") /\ ~Is(iter, "##") BY <1>1 DEF Is
<1>8. repl[iter].cat = CatBefore(iter, iter) BY <1>1 DEF IInv, Listed, MarkedBefore
<1>9. ASSUME NEW p \in DOMAIN repl
      PROVE  CatBefore(p, iter + 1) = IF p \in DOMAIN cats THEN cats[p] ELSE CatBefore(p, iter)
  <2>1. p \in Nat BY <1>2
  <2>2. /\ p < iter + 1 <=> p < iter \/ p = iter
        /\ p + 1 < iter + 1 <=> p + 1 < iter \/ p + 1 = iter
        /\ p - 1 < iter + 1 <=> p - 1 < iter \/ p - 1 = iter
    BY <2>1, <1>2
  <2>3. CASE p = iter
    <3>1. ~(p < iter) /\ ~(p + 1 < iter) /\ p - 1 < iter BY <2>1, <2>3, <1>2
    <3>2. p + 1 # iter /\ p - 1 # iter BY <2>1, <2>3, <1>2
    <3>3. CASE free
      <4>1. p \in D BY <2>3, <3>3, <1>5
      <4>2. CatBefore(p, iter + 1) = "scanned" BY <2>2, <2>3, <3>1, <3>2, <3>3, <1>7, <1>8 DEF CatBefore
      <4> QED BY <4>1, <4>2, <1>4
    <3>4. CASE ~free
      <4>1. p \notin D BY <2>3, <3>4, <1>5
      <4>2. CatBefore(p, iter + 1) = CatBefore(p, iter)
        BY <2>2, <2>3, <3>1, <3>2, <3>4, <1>7, <1>8 DEF CatBefore
      <4> QED BY <4>1, <4>2, <1>4
    <3> QED BY <3>3, <3>4
  <2>4. CASE p # iter
    <3>1. p \notin D BY <2>4, <1>5
    <3>2. CatBefore(p, iter + 1) = CatBefore(p, iter)
      <4>1. p + 1 < iter + 1 /\ Is(p + 1, "##") <=> p + 1 < iter /\ Is(p + 1, "##") BY <2>2, <1>7
      <4>2. p - 1 < iter + 1 /\ Is(p - 1, "##") <=> p - 1 < iter /\ Is(p - 1, "##") BY <2>2, <1>7
      <4>3. p - 1 < iter + 1 /\ Is(p - 1, "#") <=> p - 1 < iter /\ Is(p - 1, "#") BY <2>2, <1>7
      <4>4. p < iter + 1 <=> p < iter BY <2>2, <2>4
      <4> QED BY <4>1, <4>2, <4>3, <4>4 DEF CatBefore
    <3> QED BY <3>1, <3>2, <1>4
  <2> QED BY <2>3, <2>4
<1> QED BY <1>1, <1>3, <1>6, <1>7, <1>9, MarkIInv

LEMMA DefinedIInv == ASSUME IInv, Defined PROVE IInv'
<1>1. /\ phase = "usage" /\ iter > Len(repl) /\ phase' = "defined"
      /\ UNCHANGED <<macro, repl, iter, args, subst, rv, calls, err>>
  BY DEF Defined
<1>2. /\ Len(repl) \in Nat /\ iter \in 1..(Len(repl) + 1) /\ NoDouble
      /\ ~Is(1, "##") /\ ~Is(Len(repl), "##") /\ subst = <<>> /\ rv = <<>>
      /\ MarkedBefore(iter) /\ SharpsBefore(iter)
  BY <1>1 DEF IInv, Typed, Listed
<1>3. iter = Len(repl) + 1 BY <1>1, <1>2
<1>4. Typed' BY <1>1, SameList DEF IInv, Typed
<1>5. MarkedBefore(Len(repl) + 1)' BY <1>1, <1>2, <1>3, SameList
<1>6. SharpsBefore(Len(repl) + 1)' BY <1>1, <1>2, <1>3, SameList
<1>7. NoDouble' /\ ~Is(1, "##")' /\ ~Is(Len(repl), "##")' BY <1>1, <1>2, SameList
<1>8. iter' <= Len(repl') + 1 BY <1>1, <1>2, <1>3
<1>9. Listed' BY <1>1, <1>2, <1>5, <1>6, <1>7, <1>8 DEF Listed
<1> QED BY <1>4, <1>9 DEF IInv


-----------------------------------------------------------------------------
(* A call: what the tokens of the list become                              *)

(* The category of a token when the list is complete. *)
LEMMA FinalMarks ==
  ASSUME repl \in Seq(ReplToken), MarkedBefore(Len(repl) + 1), NEW p \in DOMAIN repl
  PROVE  /\ Is(p, "##") => repl[p].cat = IF CommaOpt(p) THEN "commaopt" ELSE "hashhash"
         /\ ~Is(p, "##") /\ ~Formal(p) => repl[p].cat = "none"
         /\ Formal(p) => repl[p].cat =
              IF Is(p + 1, "##") THEN "unscanned"
              ELSE IF Is(p - 1, "#") THEN "stringized"
              ELSE IF Is(p - 1, "##") /\ ~CommaOpt(p - 1) THEN "unscanned" ELSE "scanned"
<1>1. DOMAIN repl = 1..Len(repl) /\ Len(repl) \in Nat OBVIOUS
<1>2. repl[p].cat = CatBefore(p, Len(repl) + 1) BY DEF MarkedBefore
<1>3. p < Len(repl) + 1 /\ p - 1 < Len(repl) + 1 BY <1>1
<1>4. Is(p + 1, "##") => p + 1 < Len(repl) + 1 BY <1>1 DEF Is
<1>5. Formal(p) => ~Is(p, "##") BY DEF Formal, Is, Formals
<1> QED BY <1>2, <1>3, <1>4, <1>5 DEF CatBefore

(* What an argument is, expanded or not. *)
LEMMA ArgumentTypes ==
  ASSUME NEW arg \in Args \cup {<<>>}
  PROVE  /\ arg \in Seq(Pieces) /\ Scanned(arg) \in Seq(Pieces)
         /\ arg = <<>> => Scanned(arg) = <<>>
<1>1. arg \in Seq({"a", "b"})
  <2>1. <<>> \in Seq({"a", "b"}) OBVIOUS
  <2> QED BY <2>1, PastingAssumption
<1>2. {"a", "b"} \subseteq Pieces BY DEF Pieces
<1>3. arg \in Seq(Pieces) BY <1>1, <1>2, SeqOfLarger
<1> DEFINE ss == [p \in DOMAIN arg |-> IF arg[p] = "a" THEN <<"A">> ELSE <<>>]
<1>4. ss \in Seq(Seq(Pieces))
  <2>1. <<"A">> \in Seq(Pieces) BY DEF Pieces
  <2>2. <<>> \in Seq(Pieces) OBVIOUS
  <2>3. DOMAIN arg = 1..Len(arg) /\ Len(arg) \in Nat BY <1>3
  <2>4. \A p \in DOMAIN arg : ss[p] \in Seq(Pieces) BY <2>1, <2>2
  <2>5. ss = [p \in 1..Len(arg) |-> ss[p]] BY <2>3
  <2> HIDE DEF ss
  <2> QED BY <2>3, <2>4, <2>5
<1>5. Scanned(arg) = FlattenSeq(ss) BY DEF Scanned
<1>6. arg = <<>> => Scanned(arg) = <<>>
  <2> SUFFICES ASSUME arg = <<>> PROVE Scanned(arg) = <<>>
    OBVIOUS
  <2>1. Len(ss) = 0 /\ ss = <<>> OBVIOUS
  <2> HIDE DEF ss
  <2> QED BY <1>5, <2>1 DEF FlattenSeq
<1> HIDE DEF ss
<1> QED BY <1>3, <1>4, <1>5, <1>6, FlattenIn

LEMMA NewIs ==
  ASSUME repl \in Seq(ReplToken), NEW v \in Seq(Pieces)
  PROVE  New(v) \in Token /\ New(v).v = v /\ New(v).cat = "none" /\ New(v).own = 0
<1>1. 0 \in 0..Len(repl) OBVIOUS
<1>2. "none" \in Categories BY DEF Categories
<1> QED BY <1>1, <1>2 DEF New, Token

LEMMA TokensIs ==
  ASSUME repl \in Seq(ReplToken), NEW s \in Seq(Pieces)
  PROVE  /\ Tokens(s) \in Seq(Token) /\ Len(Tokens(s)) = Len(s)
         /\ \A k \in 1..Len(s) : Tokens(s)[k] = New(<<s[k]>>)
<1>1. DOMAIN s = 1..Len(s) /\ Len(s) \in Nat OBVIOUS
<1>2. Tokens(s) = [k \in 1..Len(s) |-> New(<<s[k]>>)] BY <1>1 DEF Tokens
<1>3. \A k \in 1..Len(s) : New(<<s[k]>>) \in Token
  <2> TAKE k \in 1..Len(s)
  <2>1. s[k] \in Pieces OBVIOUS
  <2>2. <<s[k]>> \in Seq(Pieces) BY <2>1
  <2> QED BY <2>2, NewIs
<1>4. Tokens(s) \in [1..Len(s) -> Token] BY <1>2, <1>3
<1> QED BY <1>1, <1>2, <1>4

(* A token of the list that is no parameter and no # stays itself; a # is  *)
(* gone; a parameter becomes tokens that are not of the list, none of them *)
(* only where an expanded argument has none.                               *)
Fresh(tok) == tok.own = 0 /\ tok.cat = "none"
LEMMA BecomesIs ==
  ASSUME Typed, MarkedBefore(Len(repl) + 1), NEW p \in DOMAIN repl, NEW as \in Arguments
  PROVE  /\ Becomes(p, as) \in Seq(Token)
         /\ Is(p, "#") => Len(Becomes(p, as)) = 0
         /\ ~Is(p, "#") /\ ~Formal(p) =>
              /\ Len(Becomes(p, as)) = 1 /\ Becomes(p, as)[1].v = <<repl[p].t>>
              /\ Becomes(p, as)[1].own = p /\ Becomes(p, as)[1].cat = repl[p].cat
         /\ Formal(p) =>
              /\ \A k \in 1..Len(Becomes(p, as)) :
                   /\ Fresh(Becomes(p, as)[k])
                   /\ IsPlacemarker(Becomes(p, as)[k]) => as[repl[p].t] = <<>>
              /\ repl[p].cat # "scanned" \/ as[repl[p].t] = <<>> => Len(Becomes(p, as)) >= 1
<1>1. /\ repl \in Seq(ReplToken) /\ repl[p] \in ReplToken /\ p \in 1..Len(repl)
      /\ Len(repl) \in Nat
  BY DEF Typed
<1>2. repl[p].t \in Pieces /\ repl[p].cat \in Categories /\ repl[p].painted \in BOOLEAN
  BY <1>1 DEF ReplToken, Spelled, Formals, Pieces
<1>3. Is(p, "#") => ~Formal(p) /\ ~Is(p, "##") BY DEF Is, Formal, Formals
<1> DEFINE own == [v |-> <<repl[p].t>>, cat |-> repl[p].cat, own |-> p,
                   painted |-> repl[p].painted]
<1>4. own \in Token
  <2>1. <<repl[p].t>> \in Seq(Pieces) /\ p \in 0..Len(repl) BY <1>1, <1>2
  <2> QED BY <1>2, <2>1 DEF Token
<1>5. CASE Is(p, "#")
  <2>1. repl[p].cat = "none" BY <1>1, <1>3, <1>5, FinalMarks
  <2>2. Becomes(p, as) = <<>> BY <1>5, <2>1 DEF Becomes
  <2>3. <<>> \in Seq(Token) /\ Len(<<>>) = 0 OBVIOUS
  <2> QED BY <1>3, <1>5, <2>2, <2>3
<1>6. CASE ~Is(p, "#") /\ ~Formal(p)
  <2>1. repl[p].cat \in {"none", "commaopt", "hashhash"} BY <1>1, <1>6, FinalMarks
  <2>2. Becomes(p, as) = <<own>> BY <1>6, <2>1 DEF Becomes
  <2>3. <<own>> \in Seq(Token) /\ Len(<<own>>) = 1 /\ <<own>>[1] = own
    <3> HIDE DEF own
    <3> QED BY <1>4
  <2>4. own.v = <<repl[p].t>> /\ own.own = p /\ own.cat = repl[p].cat OBVIOUS
  <2> HIDE DEF own
  <2> QED BY <1>6, <2>2, <2>3, <2>4
<1>7. CASE Formal(p)
  <2>1. repl[p].cat \in {"stringized", "unscanned", "scanned"} BY <1>1, <1>7, FinalMarks
  <2>2. Becomes(p, as) = Argument(p, as) BY <1>3, <1>7, <2>1 DEF Becomes
  <2> DEFINE arg == as[repl[p].t]
  <2>3. arg \in Args \cup {<<>>} BY <1>7 DEF Formal, Formals, Arguments
  <2> HIDE DEF arg
  <2>4. arg \in Seq(Pieces) /\ Scanned(arg) \in Seq(Pieces) BY <2>3, ArgumentTypes
  <2>5. CASE repl[p].cat = "stringized"
    <3> DEFINE v == <<"str">> \o arg
    <3>1. v \in Seq(Pieces)
      <4>1. <<"str">> \in Seq(Pieces) BY DEF Pieces
      <4> QED BY <4>1, <2>4, ConcatIs
    <3>2. Stringized(arg)[1] = v BY DEF Stringized
    <3>3. Becomes(p, as) = <<New(v)>>
      <4> HIDE DEF v
      <4>1. Becomes(p, as) = <<New(Stringized(arg)[1])>> BY <2>2, <2>5 DEF Argument, arg
      <4> QED BY <4>1, <3>2
    <3> HIDE DEF v
    <3>4. New(v) \in Token /\ Fresh(New(v)) /\ ~IsPlacemarker(New(v))
      <4>1. v # <<>>
        <5>1. Len(v) >= 1 BY <2>4 DEF v
        <5> QED BY <5>1
      <4> QED BY <1>1, <3>1, <4>1, NewIs DEF Fresh, IsPlacemarker
    <3> DEFINE nv == New(v)
    <3>5. nv \in Token /\ Fresh(nv) /\ ~IsPlacemarker(nv) /\ Becomes(p, as) = <<nv>>
      BY <3>3, <3>4
    <3> HIDE DEF nv
    <3>6. <<nv>> \in Seq(Token) /\ Len(<<nv>>) = 1 BY <3>5
    <3>7. \A k \in 1..1 : <<nv>>[k] = nv OBVIOUS
    <3>8. \A k \in 1..1 : Fresh(<<nv>>[k]) /\ ~IsPlacemarker(<<nv>>[k]) BY <3>5, <3>7
    <3> DEFINE b == Becomes(p, as)
    <3>9. b \in Seq(Token) /\ Len(b) = 1 /\ \A k \in 1..1 : Fresh(b[k]) /\ ~IsPlacemarker(b[k])
      BY <3>5, <3>6, <3>8
    <3> HIDE DEF b
    <3>10. Len(b) >= 1 /\ \A k \in 1..Len(b) : Fresh(b[k]) /\ ~IsPlacemarker(b[k])
      BY <3>9
    <3>11. ~Is(p, "#") /\ Formal(p) BY <1>3, <1>7
    <3> QED BY <3>9, <3>10, <3>11 DEF b
  <2>6. CASE repl[p].cat # "stringized" /\ arg = <<>>
    <3>1. Becomes(p, as) = <<Placemarker>> BY <2>2, <2>6 DEF Argument, arg
    <3>2. <<>> \in Seq(Pieces) OBVIOUS
    <3>3. Placemarker \in Token /\ Fresh(Placemarker) BY <1>1, <3>2, NewIs DEF Fresh, Placemarker
    <3>4. /\ <<Placemarker>> \in Seq(Token) /\ Len(<<Placemarker>>) = 1
          /\ \A k \in 1..1 : <<Placemarker>>[k] = Placemarker
      BY <3>3
    <3> QED BY <1>3, <1>7, <2>6, <3>1, <3>3, <3>4 DEF arg
  <2>7. CASE repl[p].cat = "unscanned" /\ arg # <<>>
    <3>1. Becomes(p, as) = Tokens(arg) BY <2>2, <2>7 DEF Argument, arg
    <3>2. /\ Tokens(arg) \in Seq(Token) /\ Len(Tokens(arg)) = Len(arg)
          /\ \A k \in 1..Len(arg) : Tokens(arg)[k] = New(<<arg[k]>>)
      BY <1>1, <2>4, TokensIs
    <3>3. Len(arg) >= 1 BY <2>4, <2>7
    <3>4. ASSUME NEW k \in 1..Len(arg)
          PROVE  Fresh(New(<<arg[k]>>)) /\ ~IsPlacemarker(New(<<arg[k]>>))
      <4>1. <<arg[k]>> \in Seq(Pieces) /\ <<arg[k]>> # <<>> BY <2>4
      <4> QED BY <4>1, <1>1, NewIs DEF Fresh, IsPlacemarker
    <3> QED BY <1>3, <1>7, <3>1, <3>2, <3>3, <3>4
  <2>8. CASE repl[p].cat = "scanned" /\ arg # <<>>
    <3> DEFINE s == Scanned(arg)
    <3>1. Becomes(p, as) = Tokens(s) BY <2>2, <2>8 DEF Argument, arg
    <3>2. s \in Seq(Pieces) BY <2>4
    <3> HIDE DEF s
    <3>3. /\ Tokens(s) \in Seq(Token) /\ Len(Tokens(s)) = Len(s)
          /\ \A k \in 1..Len(s) : Tokens(s)[k] = New(<<s[k]>>)
      BY <1>1, <3>2, TokensIs
    <3>4. ASSUME NEW k \in 1..Len(s)
          PROVE  Fresh(New(<<s[k]>>)) /\ ~IsPlacemarker(New(<<s[k]>>))
      <4>1. <<s[k]>> \in Seq(Pieces) /\ <<s[k]>> # <<>> BY <3>2
      <4> QED BY <4>1, <1>1, NewIs DEF Fresh, IsPlacemarker
    <3> QED BY <1>3, <1>7, <2>8, <3>1, <3>3, <3>4 DEF arg
  <2> QED BY <2>1, <2>5, <2>6, <2>7, <2>8
<1> QED BY <1>5, <1>6, <1>7


(* What each token of the list has become, and where that ends. *)
Parts == [p \in DOMAIN repl |-> Becomes(p, args)]
End == CHOOSE E \in [0..Len(repl) -> Nat] : Ends(E, Parts, subst)

LEMMA SubstitutedTyped ==
  ASSUME Typed, MarkedBefore(Len(repl) + 1), NEW as \in Arguments
  PROVE  /\ [p \in DOMAIN repl |-> Becomes(p, as)] \in Seq(Seq(Token))
         /\ Substituted(as) \in Seq(Token)
<1> DEFINE ss == [p \in DOMAIN repl |-> Becomes(p, as)]
<1>1. DOMAIN repl = 1..Len(repl) /\ Len(repl) \in Nat BY DEF Typed
<1>2. \A p \in DOMAIN repl : Becomes(p, as) \in Seq(Token) BY BecomesIs
<1>3. ss \in [1..Len(repl) -> Seq(Token)] BY <1>1, <1>2
<1>4. ss \in Seq(Seq(Token))
  <2> HIDE DEF ss
  <2> QED BY <1>1, <1>3
<1>5. Substituted(as) = FlattenSeq(ss) BY DEF Substituted
<1> HIDE DEF ss
<1>6. Substituted(as) \in Seq(Token) BY <1>4, <1>5, FlattenIn
<1> QED BY <1>4, <1>6 DEF ss

LEMMA PartsAre ==
  ASSUME IInv, phase = "paste"
  PROVE  /\ Parts \in Seq(Seq(Token)) /\ Len(Parts) = Len(repl)
         /\ \A p \in 1..Len(repl) : Parts[p] = Becomes(p, args) /\ Len(Parts[p]) \in Nat
         /\ End \in [0..Len(repl) -> Nat] /\ Ends(End, Parts, subst)
<1>1. /\ DOMAIN repl = 1..Len(repl) /\ Len(repl) \in Nat
      /\ subst = Substituted(args) /\ MarkedBefore(Len(repl) + 1) /\ args \in Arguments
  BY DEF IInv, Typed, Listed
<1>2. Parts \in Seq(Seq(Token)) BY <1>1, SubstitutedTyped DEF IInv, Parts
<1>3. DOMAIN Parts = 1..Len(repl) /\ \A p \in 1..Len(repl) : Parts[p] = Becomes(p, args)
  BY <1>1 DEF Parts
<1>4. Len(Parts) = Len(repl) BY <1>1, <1>2, <1>3
<1>5. subst = FlattenSeq(Parts) BY <1>1 DEF Substituted, Parts
<1>6. \A p \in 1..Len(repl) : Len(Parts[p]) \in Nat
  <2> TAKE p \in 1..Len(repl)
  <2>1. Parts[p] \in Seq(Token) BY <1>2, <1>3
  <2> QED BY <2>1
<1>7. \E E \in [0..Len(repl) -> Nat] : Ends(E, Parts, subst) BY <1>2, <1>4, <1>5, FlattenEnds
<1>8. End \in [0..Len(repl) -> Nat] /\ Ends(End, Parts, subst) BY <1>7 DEF End
<1> QED BY <1>2, <1>3, <1>4, <1>6, <1>8

(* A token of the list is where it was put.                                *)
LEMMA OwnAt ==
  ASSUME IInv, phase = "paste", NEW i \in 1..Len(subst)
  PROVE  \/ Fresh(subst[i])
         \/ LET p == subst[i].own
            IN  /\ p \in 1..Len(repl) /\ ~Formal(p) /\ ~Is(p, "#")
                /\ End[p] = i /\ End[p - 1] = i - 1
                /\ subst[i].v = <<repl[p].t>> /\ subst[i].cat = repl[p].cat
<1>1. /\ Parts \in Seq(Seq(Token)) /\ Len(Parts) = Len(repl)
      /\ \A p \in 1..Len(repl) : Parts[p] = Becomes(p, args)
      /\ End \in [0..Len(repl) -> Nat] /\ Ends(End, Parts, subst)
  BY PartsAre
<1>2. /\ DOMAIN repl = 1..Len(repl) /\ Len(repl) \in Nat /\ subst \in Seq(Token)
      /\ MarkedBefore(Len(repl) + 1) /\ args \in Arguments
  BY DEF IInv, Typed, Listed
<1>3. PICK n \in 1..Len(repl) : \E k \in 1..Len(Parts[n]) : i = End[n - 1] + k
  <2>1. Covered(End, Parts, subst) BY <1>1, <1>2, EndsCover
  <2> QED BY <1>1, <2>1 DEF Covered
<1>4. PICK k \in 1..Len(Parts[n]) : i = End[n - 1] + k BY <1>3
<1>5. subst[i] = Becomes(n, args)[k] /\ End[n] = End[n - 1] + Len(Becomes(n, args))
  BY <1>1, <1>4 DEF Ends
<1>6. k \in 1..Len(Becomes(n, args)) /\ n \in DOMAIN repl BY <1>1, <1>2, <1>4
<1>7. CASE Is(n, "#")
  <2>1. Len(Becomes(n, args)) = 0 BY <1>2, <1>6, <1>7, BecomesIs DEF IInv
  <2> QED BY <1>6, <2>1
<1>8. CASE Formal(n)
  <2>1. Fresh(Becomes(n, args)[k]) BY <1>2, <1>6, <1>8, BecomesIs DEF IInv
  <2> QED BY <1>5, <2>1
<1>9. CASE ~Is(n, "#") /\ ~Formal(n)
  <2>1. /\ Len(Becomes(n, args)) = 1 /\ Becomes(n, args)[1].v = <<repl[n].t>>
        /\ Becomes(n, args)[1].own = n /\ Becomes(n, args)[1].cat = repl[n].cat
    BY <1>2, <1>6, <1>9, BecomesIs DEF IInv
  <2>2. k = 1 BY <1>6, <2>1
  <2>3. End[n - 1] \in Nat
    <3>1. n - 1 \in 0..Len(repl) BY <1>2
    <3> QED BY <3>1, <1>1
  <2>4. End[n] = i /\ End[n - 1] = i - 1 BY <1>4, <1>5, <2>1, <2>2, <2>3
  <2>5. subst[i].own = n BY <1>5, <2>1, <2>2
  <2> QED BY <1>5, <1>9, <2>1, <2>2, <2>4, <2>5
<1> QED BY <1>7, <1>8, <1>9


(* Where p became something, that begins where p - 1 ended. *)
LEMMA FirstOf ==
  ASSUME IInv, phase = "paste", NEW p \in 1..Len(repl), Len(Becomes(p, args)) >= 1
  PROVE  End[p - 1] + 1 \in 1..Len(subst) /\ subst[End[p - 1] + 1] = Becomes(p, args)[1]
<1>1. /\ Len(Parts) = Len(repl) /\ Parts[p] = Becomes(p, args)
      /\ Len(Parts[p]) \in Nat /\ Ends(End, Parts, subst)
  BY PartsAre
<1>2. 1 \in 1..Len(Parts[p]) BY <1>1
<1>3. \A k \in 1..Len(Parts[p]) :
        End[p - 1] + k \in 1..Len(subst) /\ subst[End[p - 1] + k] = Parts[p][k]
  BY <1>1 DEF Ends
<1> QED BY <1>1, <1>2, <1>3

LEMMA HashHashAt ==
  ASSUME IInv, phase = "paste", NEW i \in 1..Len(subst),
         subst[i].cat \in {"hashhash", "commaopt"}, NEW q, q = subst[i].own
  PROVE  /\ q \in 2..(Len(repl) - 1) /\ Is(q, "##")
         /\ End[q] = i /\ End[q - 1] = i - 1
         /\ subst[i].cat = "commaopt" <=> CommaOpt(q)
<1>1. /\ DOMAIN repl = 1..Len(repl) /\ Len(repl) \in Nat /\ repl \in Seq(ReplToken)
      /\ MarkedBefore(Len(repl) + 1) /\ ~Is(1, "##") /\ ~Is(Len(repl), "##")
  BY DEF IInv, Typed, Listed
<1>2. ~Fresh(subst[i]) BY DEF Fresh
<1>3. /\ q \in 1..Len(repl) /\ ~Formal(q) /\ End[q] = i /\ End[q - 1] = i - 1
      /\ subst[i].cat = repl[q].cat
  BY <1>2, OwnAt
<1>4. q \in DOMAIN repl BY <1>1, <1>3
<1>5. /\ ~Is(q, "##") => repl[q].cat = "none"
      /\ Is(q, "##") => repl[q].cat = IF CommaOpt(q) THEN "commaopt" ELSE "hashhash"
  BY <1>1, <1>3, <1>4, FinalMarks
<1>6. Is(q, "##") BY <1>3, <1>5
<1>7. q # 1 /\ q # Len(repl) BY <1>1, <1>6
<1> QED BY <1>1, <1>3, <1>5, <1>6, <1>7

(* Behind a ## there is a token of the list, or the first of what a        *)
(* parameter has become: that is never nothing (Scan.java:594, 603).       *)
Behind(i, q, p) ==
  /\ p \in {q + 1, q + 2}
  /\ p \in 1..Len(repl) /\ End[p - 1] = i /\ Len(Becomes(p, args)) >= 1
  /\ ~Is(p, "##") /\ ~Is(p, "#")
  /\ p = q + 2 => Is(q + 1, "#") /\ Formal(p)
  /\ i + 1 \in 1..Len(subst) /\ subst[i + 1] = Becomes(p, args)[1]
LEMMA BehindHashHash ==
  ASSUME IInv, phase = "paste", NEW i \in 1..Len(subst),
         \/ subst[i].cat = "hashhash"
         \/ subst[i].cat = "commaopt" /\ ~args.given,
         NEW q, q = subst[i].own
  PROVE  \E p : Behind(i, q, p)
<1> USE DEF Behind
<1>1. /\ DOMAIN repl = 1..Len(repl) /\ Len(repl) \in Nat /\ repl \in Seq(ReplToken)
      /\ MarkedBefore(Len(repl) + 1) /\ SharpsBefore(Len(repl) + 1) /\ NoDouble
      /\ args \in Arguments /\ Typed
  BY DEF IInv, Typed, Listed
<1>2. /\ q \in 2..(Len(repl) - 1) /\ Is(q, "##") /\ End[q] = i
      /\ subst[i].cat = "commaopt" <=> CommaOpt(q)
  BY HashHashAt
<1>3. /\ q + 1 \in DOMAIN repl /\ q + 1 \in 1..Len(repl) /\ q \in DOMAIN repl
      /\ (q + 1) - 1 = q /\ (q + 2) - 1 = q + 1 /\ q + 1 + 1 = q + 2
  BY <1>1, <1>2
<1>4. ~Is(q + 1, "##") BY <1>1, <1>2, <1>3 DEF NoDouble
<1>5. \A p : Formal(p) => ~Is(p, "##") /\ ~Is(p, "#") BY DEF Formal, Is, Formals
<1>6. CASE Is(q + 1, "#")
  <2>1. Formal(q + 2)
    <3>1. q + 1 < Len(repl) + 1 BY <1>1, <1>3
    <3> QED BY <1>1, <1>3, <1>6, <3>1 DEF SharpsBefore
  <2>2. q + 2 \in 1..Len(repl) /\ q + 2 \in DOMAIN repl BY <2>1, <1>1 DEF Formal
  <2>3. repl[q + 2].cat # "scanned"
    <3>1. repl[q + 2].cat =
            IF Is((q + 2) + 1, "##") THEN "unscanned"
            ELSE IF Is((q + 2) - 1, "#") THEN "stringized"
            ELSE IF Is((q + 2) - 1, "##") /\ ~CommaOpt((q + 2) - 1) THEN "unscanned" ELSE "scanned"
      BY <1>1, <2>1, <2>2, FinalMarks
    <3> QED BY <3>1, <1>3, <1>6
  <2>4. Len(Becomes(q + 2, args)) >= 1 BY <2>1, <2>2, <2>3, <1>1, BecomesIs
  <2>5. End[q + 1] = i
    <3>1. /\ Len(Parts) = Len(repl) /\ Parts[q + 1] = Becomes(q + 1, args)
          /\ Ends(End, Parts, subst)
      BY <1>3, PartsAre
    <3>2. End[q + 1] = End[q] + Len(Parts[q + 1]) BY <3>1, <1>3 DEF Ends
    <3>3. Len(Becomes(q + 1, args)) = 0 BY <1>1, <1>3, <1>6, BecomesIs
    <3> QED BY <3>1, <3>2, <3>3, <1>2
  <2>6. i + 1 \in 1..Len(subst) /\ subst[i + 1] = Becomes(q + 2, args)[1]
    BY <2>2, <2>4, <2>5, <1>3, FirstOf
  <2> QED BY <2>1, <2>2, <2>4, <2>5, <2>6, <1>3, <1>5, <1>6
<1>7. CASE ~Is(q + 1, "#")
  <2>1. Len(Becomes(q + 1, args)) >= 1
    <3>1. CASE Formal(q + 1)
      <4>1. repl[q + 1].cat =
              IF Is((q + 1) + 1, "##") THEN "unscanned"
              ELSE IF Is((q + 1) - 1, "#") THEN "stringized"
              ELSE IF Is((q + 1) - 1, "##") /\ ~CommaOpt((q + 1) - 1) THEN "unscanned" ELSE "scanned"
        BY <1>1, <1>3, <3>1, FinalMarks
      <4>2. CASE CommaOpt(q)
        <5>1. repl[q + 1].t = "y" BY <4>2 DEF CommaOpt, Is
        <5>2. args[repl[q + 1].t] = <<>> BY <5>1, <4>2, <1>1, <1>2 DEF Arguments
        <5> QED BY <5>2, <3>1, <1>1, <1>3, BecomesIs
      <4>3. CASE ~CommaOpt(q)
        <5>1. repl[q + 1].cat # "scanned" BY <4>1, <4>3, <1>2, <1>3
        <5> QED BY <5>1, <3>1, <1>1, <1>3, BecomesIs
      <4> QED BY <4>2, <4>3
    <3>2. CASE ~Formal(q + 1)
      <4> DEFINE p == q + 1
      <4>1. p \in DOMAIN repl /\ ~Is(p, "#") /\ ~Formal(p) BY <3>2, <1>3, <1>7
      <4> HIDE DEF p
      <4>2. Len(Becomes(p, args)) = 1 BY <4>1, <1>1, BecomesIs
      <4>3. Len(Becomes(p, args)) >= 1 BY <4>2
      <4> QED BY <4>3 DEF p
    <3> QED BY <3>1, <3>2
  <2>2. i + 1 \in 1..Len(subst) /\ subst[i + 1] = Becomes(q + 1, args)[1]
    BY <2>1, <1>2, <1>3, FirstOf
  <2>3. q + 1 # q + 2 BY <1>2
  <2> QED BY <2>1, <2>2, <2>3, <1>2, <1>3, <1>4, <1>7
<1> QED BY <1>6, <1>7

(* Before a ## there is a parameter, or a token of the list. *)
LEMMA BeforeHashHash ==
  ASSUME IInv, phase = "paste", NEW i \in 1..Len(subst),
         subst[i].cat \in {"hashhash", "commaopt"}, NEW q, q = subst[i].own, ~Formal(q - 1)
  PROVE  /\ i - 1 \in 1..Len(subst) /\ subst[i - 1].own = q - 1
         /\ subst[i - 1].v = <<repl[q - 1].t>> /\ q - 1 \in 1..Len(repl)
<1>1. /\ DOMAIN repl = 1..Len(repl) /\ Len(repl) \in Nat /\ repl \in Seq(ReplToken)
      /\ MarkedBefore(Len(repl) + 1) /\ SharpsBefore(Len(repl) + 1) /\ NoDouble
      /\ args \in Arguments /\ Typed
  BY DEF IInv, Typed, Listed
<1>2. q \in 2..(Len(repl) - 1) /\ Is(q, "##") /\ End[q - 1] = i - 1 BY HashHashAt
<1>3. q - 1 \in DOMAIN repl /\ q - 1 \in 1..Len(repl) /\ (q - 1) + 1 = q /\ q - 1 < Len(repl) + 1
  BY <1>1, <1>2
<1>4. ~Is(q - 1, "#")
  <2>1. ~Formal(q) BY <1>2 DEF Is, Formal, Formals
  <2> QED BY <1>1, <1>3, <2>1 DEF SharpsBefore
<1>5. /\ Len(Becomes(q - 1, args)) = 1 /\ Becomes(q - 1, args)[1].v = <<repl[q - 1].t>>
      /\ Becomes(q - 1, args)[1].own = q - 1
  BY <1>1, <1>3, <1>4, BecomesIs
<1>6. /\ End[(q - 1) - 1] + 1 \in 1..Len(subst)
      /\ subst[End[(q - 1) - 1] + 1] = Becomes(q - 1, args)[1]
  BY <1>3, <1>5, FirstOf
<1>7. End[(q - 1) - 1] + 1 = i - 1
  <2>1. /\ Len(Parts) = Len(repl) /\ Parts[q - 1] = Becomes(q - 1, args)
        /\ Ends(End, Parts, subst) /\ End \in [0..Len(repl) -> Nat]
    BY <1>3, PartsAre
  <2>2. End[q - 1] = End[(q - 1) - 1] + Len(Parts[q - 1]) BY <2>1, <1>3 DEF Ends
  <2>3. (q - 1) - 1 \in 0..Len(repl) BY <1>2
  <2>4. End[(q - 1) - 1] \in Nat BY <2>1, <2>3
  <2> QED BY <2>1, <2>2, <2>4, <1>2, <1>5
<1> QED BY <1>3, <1>5, <1>6, <1>7


-----------------------------------------------------------------------------
(* A call                                                                  *)

LEMMA CallIInv == ASSUME IInv, Call PROVE IInv'
<1>1. /\ calls < MaxCalls /\ subst' = Substituted(args') /\ rv' = <<>> /\ iter' = 1
      /\ calls' = calls + 1 /\ phase' = "paste" /\ UNCHANGED <<macro, repl, err>>
      /\ phase \in {"defined", "expanded"}
  BY DEF Call
<1>2. args' \in Arguments
  <2>1. CASE macro = "object"
    <3>1. args' = args BY <2>1 DEF Call
    <3> QED BY <3>1 DEF IInv, Typed
  <2>2. CASE macro # "object"
    <3>1. /\ args' \in {[x |-> ax, y |-> ay, given |-> g] :
                          ax \in Args, ay \in Args, g \in BOOLEAN}
          /\ args'.given \/ args'.y = <<>>
      BY <2>2 DEF Call
    <3> QED BY <3>1 DEF Arguments
  <2> QED BY <2>1, <2>2
<1>3. /\ Typed /\ NoDouble /\ ~Is(1, "##") /\ ~Is(Len(repl), "##")
      /\ MarkedBefore(Len(repl) + 1) /\ SharpsBefore(Len(repl) + 1)
      /\ repl \in Seq(ReplToken) /\ macro \in Macros /\ calls \in Nat
      /\ err \in {"none", "hashhash", "sharp", "glued"}
  BY <1>1 DEF IInv, Typed, Listed
<1> DEFINE as == args'
<1>4. subst' \in Seq(Token)
  <2>1. as \in Arguments /\ subst' = Substituted(as) BY <1>1, <1>2
  <2> HIDE DEF as
  <2> QED BY <2>1, <1>3, SubstitutedTyped
<1>5. subst' = Substituted(args)'
  BY <1>1 DEF Substituted, Becomes, Argument, Is
<1> HIDE DEF as
<1>6. Typed'
  <2>1. calls' \in 0..MaxCalls BY <1>1, <1>3, PastingAssumption
  <2>2. <<>> \in Seq(Token) OBVIOUS
  <2> QED BY <1>1, <1>2, <1>3, <1>4, <2>1, <2>2, SameList
<1>7. Listed'
  <2>1. /\ NoDouble' <=> NoDouble
        /\ Is(1, "##")' <=> Is(1, "##")
        /\ Is(Len(repl), "##")' <=> Is(Len(repl), "##")
        /\ MarkedBefore(Len(repl) + 1)' <=> MarkedBefore(Len(repl) + 1)
        /\ SharpsBefore(Len(repl) + 1)' <=> SharpsBefore(Len(repl) + 1)
    BY <1>1, SameList
  <2>2. Len(subst') \in Nat
    <3> DEFINE s == subst'
    <3>1. s \in Seq(Token) BY <1>4
    <3> HIDE DEF s
    <3>2. Len(s) \in Nat BY <3>1
    <3> QED BY <3>2 DEF s
  <2>3. iter' \in 1..(Len(subst') + 1) BY <1>1, <2>2
  <2> QED BY <1>1, <1>3, <1>5, <2>1, <2>3 DEF Listed
<1> QED BY <1>6, <1>7 DEF IInv

(* A step of pasteAll that puts out another list. *)
LEMMA ResultIInv ==
  ASSUME IInv, phase = "paste", iter \in DOMAIN subst,
         NEW list \in Seq(Token), NEW n \in {1, 2}, n = 2 => iter + 1 \in 1..Len(subst),
         Result(list, n)
  PROVE  IInv'
<1>1. rv' = list /\ iter' = iter + n /\ UNCHANGED <<macro, repl, phase, args, subst, calls, err>>
  BY DEF Result
<1>2. /\ Typed /\ NoDouble /\ ~Is(1, "##") /\ ~Is(Len(repl), "##")
      /\ MarkedBefore(Len(repl) + 1) /\ SharpsBefore(Len(repl) + 1)
      /\ subst \in Seq(Token) /\ subst = Substituted(args) /\ iter \in 1..(Len(subst) + 1)
  BY DEF IInv, Typed, Listed
<1>3. iter \in 1..Len(subst) /\ Len(subst) \in Nat BY <1>2
<1>4. iter' \in 1..(Len(subst) + 1) /\ iter' \in Nat BY <1>1, <1>3
<1>5. Typed' BY <1>1, <1>2, <1>4, SameList DEF Typed
<1>6. Listed'
  <2>1. /\ NoDouble' <=> NoDouble
        /\ Is(1, "##")' <=> Is(1, "##")
        /\ Is(Len(repl), "##")' <=> Is(Len(repl), "##")
        /\ MarkedBefore(Len(repl) + 1)' <=> MarkedBefore(Len(repl) + 1)
        /\ SharpsBefore(Len(repl) + 1)' <=> SharpsBefore(Len(repl) + 1)
    BY <1>1, SameList
  <2>2. Substituted(args)' = Substituted(args)
    BY <1>1 DEF Substituted, Becomes, Argument, Is
  <2> QED BY <1>1, <1>2, <1>4, <2>1, <2>2 DEF Listed
<1> QED BY <1>5, <1>6 DEF IInv

LEMMA FrontIn ==
  ASSUME NEW S, NEW s \in Seq(S)
  PROVE  /\ Front(s) \in Seq(S)
         /\ s # <<>> =>
              /\ Len(Front(s)) = Len(s) - 1 /\ Last(s) \in S /\ Last(s) = s[Len(s)]
              /\ Len(s) \in Nat \ {0}
              /\ \A i \in 1..(Len(s) - 1) : Front(s)[i] = s[i]
<1> DEFINE n == Len(s)
<1>1. n \in Nat /\ Front(s) = SubSeq(s, 1, n - 1) /\ \A i \in 1..n : s[i] \in S BY DEF Front
<1> HIDE DEF n
<1>2. /\ SubSeq(s, 1, n - 1) \in Seq(S)
      /\ Len(SubSeq(s, 1, n - 1)) = IF 1 <= n - 1 THEN (n - 1) - 1 + 1 ELSE 0
      /\ \A i \in 1..((n - 1) - 1 + 1) : SubSeq(s, 1, n - 1)[i] = s[1 + i - 1]
  <2>1. 1 \in Int /\ n - 1 \in Int /\ \A i \in 1..(n - 1) : s[i] \in S BY <1>1
  <2> QED BY <2>1, SubSeqProperties
<1>3. ASSUME s # <<>>
      PROVE  /\ Len(Front(s)) = n - 1 /\ Last(s) \in S /\ Last(s) = s[n]
             /\ n \in Nat \ {0} /\ \A i \in 1..(n - 1) : Front(s)[i] = s[i]
  <2>1. n # 0 /\ n \in 1..n BY <1>1, <1>3 DEF n
  <2>2. Last(s) = s[n] BY DEF Last, n
  <2>3. \A i \in 1..(n - 1) : 1 + i - 1 = i OBVIOUS
  <2> QED BY <1>1, <1>2, <2>1, <2>2, <2>3
<1> QED BY <1>1, <1>2, <1>3 DEF n

LEMMA AppendIs ==
  ASSUME NEW S, NEW s \in Seq(S), NEW x \in S
  PROVE  /\ Append(s, x) \in Seq(S) /\ Len(Append(s, x)) = Len(s) + 1
         /\ \A i \in 1..Len(s) : Append(s, x)[i] = s[i]
         /\ Append(s, x)[Len(s) + 1] = x
OBVIOUS

(* Of an empty list there is no front: what that is does not matter, the   *)
(* comma before the ## is in the list.                                     *)
LEMMA PasteSteps ==
  ASSUME IInv, phase = "paste", iter \in DOMAIN subst
  PROVE  /\ iter \in 1..Len(subst) /\ subst[iter] \in Token /\ rv \in Seq(Token)
         /\ args \in Arguments /\ repl \in Seq(ReplToken) /\ Len(repl) \in Nat
         /\ \/ subst[iter].cat = "hashhash"
            \/ subst[iter].cat = "commaopt" /\ ~args.given
            => iter + 1 \in 1..Len(subst) /\ subst[iter + 1] \in Token
<1>1. /\ iter \in 1..Len(subst) /\ subst[iter] \in Token /\ rv \in Seq(Token)
      /\ args \in Arguments /\ subst \in Seq(Token) /\ repl \in Seq(ReplToken)
      /\ Len(repl) \in Nat
  BY DEF IInv, Typed
<1>2. ASSUME \/ subst[iter].cat = "hashhash"
             \/ subst[iter].cat = "commaopt" /\ ~args.given
      PROVE  iter + 1 \in 1..Len(subst) /\ subst[iter + 1] \in Token
  <2> DEFINE q == subst[iter].own
             i == iter
  <2>1. \E p : Behind(i, q, p)
    <3>1. i \in 1..Len(subst) BY <1>1
    <3>2. \/ subst[i].cat = "hashhash"
          \/ subst[i].cat = "commaopt" /\ ~args.given
      BY <1>2
    <3>3. q = subst[i].own OBVIOUS
    <3> HIDE DEF q, i
    <3> QED BY <3>1, <3>2, <3>3, BehindHashHash
  <2> QED BY <1>1, <2>1 DEF Behind
<1> QED BY <1>1, <1>2


(* Each step of pasteAll. *)
LEMMA PasteAllIInv ==
  ASSUME IInv, CommaKept \/ CommaDeleted \/ NothingToPaste \/ PastePlacemarker \/ Paste \/ Copy
  PROVE  IInv'
<1>1. phase = "paste" /\ iter \in DOMAIN subst
  BY DEF CommaKept, CommaDeleted, NothingToPaste, PastePlacemarker, Paste, Copy, Pasting
<1>2. /\ iter \in 1..Len(subst) /\ subst[iter] \in Token /\ rv \in Seq(Token)
      /\ repl \in Seq(ReplToken) /\ Len(repl) \in Nat
      /\ \/ subst[iter].cat = "hashhash"
         \/ subst[iter].cat = "commaopt" /\ ~args.given
         => iter + 1 \in 1..Len(subst) /\ subst[iter + 1] \in Token
  BY <1>1, PasteSteps
<1>3. 1 \in {1, 2} /\ 2 \in {1, 2} OBVIOUS
<1>4. CASE CommaKept
  <2>1. Result(rv, 1) BY <1>4 DEF CommaKept
  <2> QED BY <1>1, <1>2, <1>3, <2>1, ResultIInv
<1>5. CASE CommaDeleted
  <2>1. /\ Result(Front(rv), 2) /\ iter + 1 \in 1..Len(subst)
    BY <1>2, <1>5 DEF CommaDeleted, Pasting
  <2>2. Front(rv) \in Seq(Token) BY <1>2, FrontIn
  <2> QED BY <1>1, <1>3, <2>1, <2>2, ResultIInv
<1>6. CASE NothingToPaste
  <2>1. Result(rv, 1) BY <1>6 DEF NothingToPaste
  <2> QED BY <1>1, <1>2, <1>3, <2>1, ResultIInv
<1>7. CASE PastePlacemarker
  <2> DEFINE l == IF IsPlacemarker(LHS) THEN <<RHS>> ELSE <<>>
             r == IF IsPlacemarker(RHS) THEN <<LHS>> ELSE <<>>
  <2>1. /\ Result(Front(rv) \o l \o r, 2) /\ rv # <<>> /\ iter + 1 \in 1..Len(subst)
        /\ subst[iter + 1] \in Token
    BY <1>2, <1>7 DEF PastePlacemarker, Pasting
  <2>2. Front(rv) \in Seq(Token) /\ LHS \in Token /\ RHS \in Token
    <3>1. Last(rv) \in Token BY <1>2, <2>1, FrontIn
    <3> QED BY <1>2, <2>1, <3>1, FrontIn DEF LHS, RHS
  <2>3. l \in Seq(Token) /\ r \in Seq(Token)
    <3>1. <<LHS>> \in Seq(Token) /\ <<RHS>> \in Seq(Token) /\ <<>> \in Seq(Token) BY <2>2
    <3> QED BY <3>1
  <2> HIDE DEF l, r
  <2>4. Front(rv) \o l \o r \in Seq(Token)
    <3>1. Front(rv) \o l \in Seq(Token) BY <2>2, <2>3, ConcatIs
    <3> QED BY <3>1, <2>3, ConcatIs
  <2> QED BY <1>1, <1>3, <2>1, <2>4, ResultIInv
<1>8. CASE Paste
  <2>1. rv # <<>> /\ iter + 1 \in 1..Len(subst) /\ subst[iter + 1] \in Token
    BY <1>2, <1>8 DEF Paste, Pasting
  <2>2. CASE <<"comma">> \in {LHS.v, RHS.v}
    <3>1. Raise("glued") BY <1>8, <2>2 DEF Paste
    <3> QED BY <3>1, RaiseIInv
  <2>3. CASE <<"comma">> \notin {LHS.v, RHS.v}
    <3>1. Result(Append(Front(rv), New(LHS.v \o RHS.v)), 2) BY <1>8, <2>3 DEF Paste
    <3>2. Front(rv) \in Seq(Token) /\ LHS \in Token /\ RHS \in Token
      <4>1. Last(rv) \in Token BY <1>2, <2>1, FrontIn
      <4> QED BY <1>2, <2>1, <4>1, FrontIn DEF LHS, RHS
    <3>3. LHS.v \in Seq(Pieces) /\ RHS.v \in Seq(Pieces) BY <3>2 DEF Token
    <3>4. LHS.v \o RHS.v \in Seq(Pieces) BY <3>3, ConcatIs
    <3>5. New(LHS.v \o RHS.v) \in Token BY <1>2, <3>4, NewIs
    <3>6. Append(Front(rv), New(LHS.v \o RHS.v)) \in Seq(Token) BY <3>2, <3>5, AppendIs
    <3> QED BY <1>1, <1>3, <2>1, <3>1, <3>6, ResultIInv
  <2> QED BY <2>2, <2>3
<1>9. CASE Copy
  <2> DEFINE tok == subst[iter]
             copied == [tok EXCEPT !.own = 0]
             list == Append(rv, copied)
  <2>1. Result(list, 1) BY <1>9 DEF Copy
  <2>2. copied \in Token
    <3>1. tok \in Token /\ 0 \in 0..Len(repl) BY <1>2
    <3> HIDE DEF tok
    <3> QED BY <3>1 DEF Token
  <2> HIDE DEF copied
  <2>3. list \in Seq(Token) BY <1>2, <2>2, AppendIs
  <2> HIDE DEF list
  <2> QED BY <1>1, <1>3, <2>1, <2>3, ResultIInv
<1> QED BY <1>4, <1>5, <1>6, <1>7, <1>8, <1>9

(* Without placemarkers. *)
WithoutPlacemarkers(list) ==
  FlattenSeq([j \in DOMAIN list |-> IF IsPlacemarker(list[j]) THEN <<>> ELSE <<list[j]>>])
LEMMA WithoutIn ==
  ASSUME NEW S, NEW list \in Seq(S)
  PROVE  /\ WithoutPlacemarkers(list) \in Seq(S)
         /\ \A j \in 1..Len(WithoutPlacemarkers(list)) :
              \E m \in 1..Len(list) :
                WithoutPlacemarkers(list)[j] = list[m] /\ ~IsPlacemarker(list[m])
<1> DEFINE one(j) == IF IsPlacemarker(list[j]) THEN <<>> ELSE <<list[j]>>
           ss == [j \in DOMAIN list |-> one(j)]
           s == WithoutPlacemarkers(list)
<1>1. DOMAIN list = 1..Len(list) /\ Len(list) \in Nat OBVIOUS
<1>2. \A j \in 1..Len(list) : one(j) \in Seq(S)
  <2> TAKE j \in 1..Len(list)
  <2>1. <<>> \in Seq(S) /\ <<list[j]>> \in Seq(S) OBVIOUS
  <2> QED BY <2>1
<1>3. ss \in Seq(Seq(S)) /\ Len(ss) = Len(list) /\ \A j \in 1..Len(list) : ss[j] = one(j)
  <2> HIDE DEF one
  <2>1. ss \in [1..Len(list) -> Seq(S)] BY <1>1, <1>2
  <2>2. \A j \in 1..Len(list) : ss[j] = one(j) BY <1>1
  <2> HIDE DEF ss
  <2> QED BY <1>1, <2>1, <2>2
<1>4. s = FlattenSeq(ss) BY DEF WithoutPlacemarkers
<1> HIDE DEF ss, s
<1>5. s \in Seq(S) BY <1>3, <1>4, FlattenIn
<1>7. ASSUME NEW j \in 1..Len(s)
      PROVE  \E m \in 1..Len(list) : s[j] = list[m] /\ ~IsPlacemarker(list[m])
  <2>1. PICK m \in 1..Len(ss) : \E k \in 1..Len(ss[m]) : s[j] = ss[m][k]
    BY <1>3, <1>4, FlattenCover
  <2>2. PICK k \in 1..Len(ss[m]) : s[j] = ss[m][k] BY <2>1
  <2>3. s[j] = ss[m][k] BY <2>2
  <2>4. m \in 1..Len(list) /\ ss[m] = one(m) BY <1>3
  <2>5. CASE IsPlacemarker(list[m])
    <3>1. Len(ss[m]) = 0 BY <2>4, <2>5
    <3> QED BY <3>1, <2>2
  <2>6. CASE ~IsPlacemarker(list[m])
    <3>1. ss[m] = <<list[m]>> BY <2>4, <2>6
    <3>2. Len(ss[m]) = 1 BY <3>1
    <3>3. k = 1 BY <2>2, <3>2
    <3>4. s[j] = list[m] BY <2>3, <3>1, <3>3
    <3> QED BY <2>4, <2>6, <3>4
  <2> QED BY <2>5, <2>6
<1> QED BY <1>5, <1>7 DEF s

LEMMA PushIInv == ASSUME IInv, Push PROVE IInv'
<1>1. /\ phase = "paste" /\ rv' = WithoutPlacemarkers(rv) /\ phase' = "expanded"
      /\ UNCHANGED <<macro, repl, iter, args, subst, calls, err>>
  BY DEF Push, WithoutPlacemarkers
<1>2. /\ Typed /\ NoDouble /\ ~Is(1, "##") /\ ~Is(Len(repl), "##")
      /\ MarkedBefore(Len(repl) + 1) /\ SharpsBefore(Len(repl) + 1)
      /\ iter \in 1..(Len(subst) + 1) /\ rv \in Seq(Token)
  BY <1>1 DEF IInv, Typed, Listed
<1>3. WithoutPlacemarkers(rv) \in Seq(Token) BY <1>2, WithoutIn
<1>4. Typed' BY <1>1, <1>2, <1>3, SameList DEF Typed
<1>5. Listed'
  <2>1. /\ NoDouble' <=> NoDouble
        /\ Is(1, "##")' <=> Is(1, "##")
        /\ Is(Len(repl), "##")' <=> Is(Len(repl), "##")
        /\ MarkedBefore(Len(repl) + 1)' <=> MarkedBefore(Len(repl) + 1)
        /\ SharpsBefore(Len(repl) + 1)' <=> SharpsBefore(Len(repl) + 1)
    BY <1>1, SameList
  <2> QED BY <1>1, <1>2, <2>1 DEF Listed
<1> QED BY <1>4, <1>5 DEF IInv

(* Painting a token changes neither what the list is nor its marks. *)
LEMMA PaintIInv == ASSUME IInv, Paint PROVE IInv'
<1>1. phase = "expanded" /\ UNCHANGED <<macro, phase, iter, args, subst, calls, err>> BY DEF Paint
<1>2. PICK j \in DOMAIN rv :
        /\ rv' = [rv EXCEPT ![j].painted = TRUE]
        /\ repl' = IF rv[j].own = 0 THEN repl ELSE [repl EXCEPT ![rv[j].own].painted = TRUE]
  BY DEF Paint
<1>3. /\ Typed /\ NoDouble /\ ~Is(1, "##") /\ ~Is(Len(repl), "##")
      /\ MarkedBefore(Len(repl) + 1) /\ SharpsBefore(Len(repl) + 1)
      /\ iter \in 1..(Len(subst) + 1) /\ rv \in Seq(Token) /\ repl \in Seq(ReplToken)
      /\ DOMAIN repl = 1..Len(repl) /\ Len(repl) \in Nat
  BY <1>1 DEF IInv, Typed, Listed
<1>4. /\ DOMAIN repl' = DOMAIN repl /\ repl' \in Seq(ReplToken) /\ Len(repl') = Len(repl)
      /\ \A p \in DOMAIN repl : repl'[p].t = repl[p].t /\ repl'[p].cat = repl[p].cat
  <2>1. CASE rv[j].own = 0
    <3>1. repl' = repl BY <1>2, <2>1
    <3> QED BY <3>1, <1>3
  <2>2. CASE rv[j].own # 0
    <3> DEFINE o == rv[j].own
    <3>1. repl' = [repl EXCEPT ![o] = [repl[o] EXCEPT !.painted = TRUE]] BY <1>2, <2>2
    <3>2. \A p \in DOMAIN repl :
            /\ repl[p] \in ReplToken
            /\ [repl[p] EXCEPT !.painted = TRUE] \in ReplToken
            /\ [repl[p] EXCEPT !.painted = TRUE].t = repl[p].t
            /\ [repl[p] EXCEPT !.painted = TRUE].cat = repl[p].cat
      <4> TAKE p \in DOMAIN repl
      <4>1. repl[p] \in ReplToken BY <1>3
      <4> QED BY <4>1 DEF ReplToken
    <3> HIDE DEF o
    <3>3. repl' \in [1..Len(repl) -> ReplToken] BY <1>3, <3>1, <3>2
    <3>4. \A p \in DOMAIN repl : repl'[p].t = repl[p].t /\ repl'[p].cat = repl[p].cat
      BY <1>3, <3>1, <3>2
    <3>5. DOMAIN repl' = 1..Len(repl) BY <1>3, <3>1
    <3>6. repl' \in Seq(ReplToken) BY <1>3, <3>3
    <3>7. Len(repl') = Len(repl) BY <1>3, <3>5, <3>6
    <3> QED BY <1>3, <3>4, <3>5, <3>6, <3>7
  <2> QED BY <2>1, <2>2
<1>5. /\ \A p, t : Is(p, t)' <=> Is(p, t)
      /\ \A p : Formal(p)' <=> Formal(p)
      /\ \A p, i : CatBefore(p, i)' = CatBefore(p, i)
  BY <1>1, <1>4, SameSpelling
<1>6. ReplToken' = ReplToken /\ Token' = Token BY <1>1, <1>4 DEF ReplToken, Spelled, Token
<1>7. rv' \in Seq(Token)
  <2>1. DOMAIN rv = 1..Len(rv) /\ Len(rv) \in Nat /\ rv[j] \in Token BY <1>3
  <2>2. [rv[j] EXCEPT !.painted = TRUE] \in Token BY <2>1 DEF Token
  <2>3. rv' = [rv EXCEPT ![j] = [rv[j] EXCEPT !.painted = TRUE]] BY <1>2
  <2> QED BY <1>3, <2>1, <2>2, <2>3
<1>8. Typed' BY <1>1, <1>3, <1>4, <1>6, <1>7 DEF Typed
<1>9. Listed'
  <2>1. NoDouble' BY <1>3, <1>4, <1>5 DEF NoDouble
  <2>2. MarkedBefore(Len(repl) + 1)' BY <1>3, <1>4, <1>5 DEF MarkedBefore
  <2>3. SharpsBefore(Len(repl) + 1)' BY <1>3, <1>4, <1>5 DEF SharpsBefore
  <2>4. ~Is(1, "##")' /\ ~Is(Len(repl), "##")' BY <1>3, <1>4, <1>5
  <2> QED BY <1>1, <1>3, <2>1, <2>2, <2>3, <2>4 DEF Listed
<1> QED BY <1>8, <1>9 DEF IInv

LEMMA StayIInv == ASSUME IInv, UNCHANGED vars PROVE IInv'
<1>1. UNCHANGED <<macro, repl, phase, iter, args, subst, rv, calls, err>> BY DEF vars
<1>2. Typed' BY <1>1, SameList DEF IInv, Typed
<1>3. Substituted(args)' = Substituted(args)
  BY <1>1 DEF Substituted, Becomes, Argument, Is
<1>4. /\ MarkedBefore(iter)' <=> MarkedBefore(iter)
      /\ MarkedBefore(Len(repl) + 1)' <=> MarkedBefore(Len(repl) + 1)
      /\ SharpsBefore(iter)' <=> SharpsBefore(iter)
      /\ SharpsBefore(Len(repl) + 1)' <=> SharpsBefore(Len(repl) + 1)
      /\ NoDouble' <=> NoDouble
      /\ Is(1, "##")' <=> Is(1, "##")
      /\ Is(Len(repl), "##")' <=> Is(Len(repl), "##")
  BY <1>1, SameList
<1>5. Listed' BY <1>1, <1>3, <1>4 DEF IInv, Listed
<1> QED BY <1>2, <1>5 DEF IInv

(* The marks and the places of the tokens stay what they are. *)
LEMMA StepIInv == ASSUME IInv, [Next]_vars PROVE IInv'
<1>1. CASE Step
  BY <1>1, TakeIInv, TakenAllIInv, MarkSharpIInv, MarkHashHashIInv, MarkOtherIInv,
     DefinedIInv, CallIInv, PasteAllIInv, PushIInv, PaintIInv DEF Step
<1>2. CASE Stopped \/ UNCHANGED vars BY <1>2, StayIInv DEF Stopped
<1> QED BY <1>1, <1>2 DEF Next

LEMMA IInvTypeOK == ASSUME IInv PROVE TypeOK
<1>1. \A p \in DOMAIN repl : repl[p].t \in Spelled /\ repl[p].cat \in Categories
  <2> TAKE p \in DOMAIN repl
  <2>1. repl[p] \in ReplToken BY DEF IInv, Typed
  <2> QED BY <2>1 DEF ReplToken
<1>2. iter \in 0..(1 + Len(IF phase \in {"paste", "expanded"} THEN subst ELSE repl))
  <2>1. Len(subst) \in Nat /\ Len(repl) \in Nat /\ iter \in Nat BY DEF IInv, Typed
  <2> QED BY <2>1 DEF IInv, Typed, Listed
<1>3. args.x \in Args \cup {<<>>} /\ args.y \in Args \cup {<<>>} BY DEF IInv, Typed, Arguments
<1>4. \A j \in DOMAIN rv : rv[j].own \in 0..Len(repl)
  <2> TAKE j \in DOMAIN rv
  <2>1. rv[j] \in Token BY DEF IInv, Typed
  <2> QED BY <2>1 DEF Token
<1> QED BY <1>1, <1>2, <1>3, <1>4 DEF TypeOK, IInv, Typed

(* The loops never run past the end of their list, for replacement lists   *)
(* and arguments of any length: behind each ## that pasteAll passes there  *)
(* is a token, though arguments may be empty (Scan.java:594, 603).         *)
THEOREM TypesKept == Spec => []TypeOK
<1>1. Init => IInv BY InitIInv
<1>2. IInv /\ [Next]_vars => IInv' BY StepIInv
<1>3. IInv => TypeOK BY IInvTypeOK
<1> QED BY <1>1, <1>2, <1>3, PTL DEF Spec


-----------------------------------------------------------------------------
(* The tokens of the definition                                            *)

(* What the result may hold: a token of the definition goes out only where *)
(* all it was pasted to was empty.  A token of the list that was passed,   *)
(* other than a ##, is no placemarker; where one stands before a ##, or    *)
(* nothing, all that was pasted together before the ## was empty.          *)
ChainEmpty(p) == \A q \in Operands(p) : args[repl[q].t] = <<>>
MayGoOut(tok) == tok.own # 0 => Operands(tok.own) # {} /\ ChainEmpty(tok.own)
OutOnly(list) == \A j \in DOMAIN list : MayGoOut(list[j])
PaintedOnly == \A p \in DOMAIN repl : repl[p].painted => Operands(p) # {}
LastStays ==
  phase = "paste" /\ iter > 1 /\ subst[iter - 1].own # 0 /\ ~Is(subst[iter - 1].own, "##") =>
    rv # <<>> /\ ~IsPlacemarker(Last(rv))
LastEmptyAt(i, list) ==
  i \in 2..Len(subst) /\ subst[i].cat = "hashhash" /\ (list = <<>> \/ IsPlacemarker(Last(list))) =>
    ChainEmpty(subst[i].own + 1)
PassedEmptyAt(i) ==
  i > 1 /\ subst[i - 1].cat \in {"hashhash", "commaopt"} => ChainEmpty(subst[i - 1].own + 1)
ChainsEmpty == phase = "paste" => LastEmptyAt(iter, rv) /\ PassedEmptyAt(iter)
OwnInv == OutOnly(rv) /\ PaintedOnly /\ LastStays /\ ChainsEmpty

(* The parameters that are pasted together before a ##. *)
LEMMA ChainNone ==
  ASSUME NEW q \in Int, ~Formal(q - 1), ~Is(q - 1, "##")
  PROVE  ChainEmpty(q + 1)
<1> SUFFICES ASSUME NEW k \in Operands(q + 1) PROVE FALSE
  BY DEF ChainEmpty
<1>1. q - 1 \in k..((q + 1) - 1) BY DEF Operands
<1> QED BY <1>1 DEF Operands

LEMMA ChainMore ==
  ASSUME NEW q \in Int, Formal(q - 1), args[repl[q - 1].t] = <<>>,
         Is(q - 2, "##") => ChainEmpty(q - 1)
  PROVE  ChainEmpty(q + 1)
<1> SUFFICES ASSUME NEW k \in Operands(q + 1), k # q - 1 PROVE args[repl[k].t] = <<>>
  BY DEF ChainEmpty
<1>1. /\ k \in 1..(q - 1) /\ Formal(k)
      /\ \A o \in k..q : (Formal(o) /\ Is(o + 1, "##"))
                         \/ (Is(o, "##") /\ (o = q \/ Formal(o + 1)))
  <2>1. (q + 1) - 2 = q - 1 /\ (q + 1) - 1 = q OBVIOUS
  <2> QED BY <2>1 DEF Operands
<1>2. \A o : Formal(o) => ~Is(o, "##") BY DEF Formal, Is, Formals
<1>3. Is(q - 2, "##")
  <2>1. q - 2 \in k..q /\ (q - 2) + 1 = q - 1 BY <1>1
  <2> QED BY <1>1, <1>2, <2>1
<1>4. k # q - 2 BY <1>1, <1>2, <1>3
<1>5. k \in 1..((q - 1) - 2) BY <1>1, <1>4
<1>6. ASSUME NEW o \in k..((q - 1) - 1)
      PROVE  \/ Formal(o) /\ Is(o + 1, "##")
             \/ Is(o, "##") /\ (o = (q - 1) - 1 \/ Formal(o + 1))
  <2>1. o \in k..q /\ o # q BY <1>5
  <2> QED BY <1>1, <2>1
<1>7. k \in Operands(q - 1) BY <1>1, <1>5, <1>6 DEF Operands
<1> QED BY <1>3, <1>7 DEF ChainEmpty

(* Until the first call nothing has gone out or been painted. *)
LEMMA NothingOut ==
  ASSUME IInv, rv = <<>>, phase # "paste", \A p \in DOMAIN repl : ~repl[p].painted
  PROVE  OwnInv
<1>1. DOMAIN rv = {} OBVIOUS
<1> QED BY <1>1 DEF OwnInv, OutOnly, PaintedOnly, LastStays, ChainsEmpty

LEMMA SameOwn ==
  ASSUME OwnInv, UNCHANGED <<macro, repl, args>>
  PROVE  /\ PaintedOnly'
         /\ \A p : ChainEmpty(p)' <=> ChainEmpty(p)
         /\ \A list : OutOnly(list)' <=> OutOnly(list)
<1>1. \A p : Operands(p)' = Operands(p) BY DEF Operands, Formal, Is
<1>2. PaintedOnly' BY <1>1 DEF OwnInv, PaintedOnly
<1>3. \A p : ChainEmpty(p)' <=> ChainEmpty(p) BY <1>1 DEF ChainEmpty
<1>4. \A list : OutOnly(list)' <=> OutOnly(list) BY <1>1, <1>3 DEF OutOnly, MayGoOut
<1> QED BY <1>2, <1>3, <1>4

LEMMA DefineOwn ==
  ASSUME IInv, IInv',
         Take \/ TakenAll \/ MarkSharp \/ MarkHashHash \/ MarkOther \/ Defined, OwnInv
  PROVE  OwnInv'
<1>1. phase \in {"take", "usage"}
  BY DEF Take, TakenAll, MarkSharp, MarkHashHash, MarkOther, Defined, At
<1>2. rv = <<>> /\ \A p \in DOMAIN repl : ~repl[p].painted BY <1>1 DEF IInv, Listed
<1>3. rv' = rv
  BY DEF Take, TakenAll, MarkSharp, MarkHashHash, MarkOther, Defined, Raise, Mark
<1>4. phase' # "paste"
  BY <1>1 DEF Take, TakenAll, MarkSharp, MarkHashHash, MarkOther, Defined, Raise, Mark
<1>5. \A p \in DOMAIN repl' : ~repl'[p].painted
  <2>1. CASE phase' \in {"take", "usage"} BY <2>1 DEF IInv, Listed
  <2>2. CASE phase' \notin {"take", "usage"}
    <3>1. CASE Defined BY <1>2, <3>1 DEF Defined
    <3>2. CASE TakenAll
      <4>1. repl' = [p \in DOMAIN repl |->
                       IF Is(p, "##") THEN [repl[p] EXCEPT !.cat = "hashhash"] ELSE repl[p]]
        BY <1>1, <2>2, <3>2 DEF TakenAll, Raise
      <4>2. \A p \in DOMAIN repl : repl[p] \in ReplToken BY DEF IInv, Typed
      <4> QED BY <1>2, <4>1, <4>2 DEF ReplToken
    <3>3. CASE Take \/ MarkSharp \/ MarkHashHash \/ MarkOther
      <4>1. phase' = phase BY <3>3 DEF Take, MarkSharp, MarkHashHash, MarkOther, Raise, Mark
      <4> QED BY <1>1, <2>2, <4>1
    <3> QED BY <3>1, <3>2, <3>3
  <2> QED BY <2>1, <2>2
<1>6. DOMAIN rv' = {} BY <1>2, <1>3
<1> QED BY <1>4, <1>5, <1>6 DEF OwnInv, OutOnly, PaintedOnly, LastStays, ChainsEmpty

LEMMA CallOwn == ASSUME IInv, OwnInv, Call PROVE OwnInv'
<1>1. rv' = <<>> /\ iter' = 1 /\ UNCHANGED <<macro, repl>> BY DEF Call
<1>2. PaintedOnly'
  <2>1. \A p : Operands(p)' = Operands(p) BY <1>1 DEF Operands, Formal, Is
  <2> QED BY <1>1, <2>1 DEF OwnInv, PaintedOnly
<1>3. DOMAIN rv' = {} BY <1>1
<1>4. LastEmptyAt(iter, rv)' /\ PassedEmptyAt(iter)' BY <1>1 DEF LastEmptyAt, PassedEmptyAt
<1> QED BY <1>1, <1>2, <1>3, <1>4 DEF OwnInv, OutOnly, LastStays, ChainsEmpty

(* Nothing else goes into the result. *)
LEMMA ResultOwn ==
  ASSUME IInv, OwnInv, phase = "paste",
         NEW list \in Seq(Token), NEW n \in {1, 2}, Result(list, n), OutOnly(list),
         subst[iter + n - 1].own # 0 /\ ~Is(subst[iter + n - 1].own, "##") =>
           list # <<>> /\ ~IsPlacemarker(Last(list)),
         LastEmptyAt(iter + n, list), PassedEmptyAt(iter + n)
  PROVE  OwnInv'
<1>1. rv' = list /\ iter' = iter + n /\ UNCHANGED <<macro, repl, phase, args, subst, calls, err>>
  BY DEF Result
<1>2. OutOnly(list)' /\ PaintedOnly' /\ \A p : ChainEmpty(p)' <=> ChainEmpty(p)
  BY <1>1, SameOwn
<1>3. OutOnly(rv)' BY <1>1, <1>2 DEF OutOnly, MayGoOut
<1>4. LastStays'
  <2>1. iter' - 1 = iter + n - 1 BY <1>1 DEF IInv, Typed
  <2> DEFINE o == subst[iter + n - 1].own
  <2>2. (subst[iter - 1].own)' = o BY <1>1, <2>1
  <2>3. Is(subst[iter - 1].own, "##")' <=> Is(o, "##") BY <1>1, <2>2 DEF Is
  <2> QED BY <1>1, <2>2, <2>3 DEF LastStays
<1>5. LastEmptyAt(iter, rv)' /\ PassedEmptyAt(iter)'
  BY <1>1, <1>2 DEF LastEmptyAt, PassedEmptyAt
<1> QED BY <1>2, <1>3, <1>4, <1>5 DEF OwnInv, ChainsEmpty


LEMMA SubstIs ==
  ASSUME IInv, phase = "paste", NEW i \in 1..Len(subst)
  PROVE  subst[i].own # 0 => ~IsPlacemarker(subst[i])
<1>1. CASE Fresh(subst[i]) BY <1>1 DEF Fresh
<1>2. CASE subst[i].v = <<repl[subst[i].own].t>>
  <2>1. subst[i].v # <<>> BY <1>2
  <2> QED BY <2>1 DEF IsPlacemarker
<1> QED BY <1>1, <1>2, OwnAt

(* An empty argument is one token. *)
LEMMA EmptyBecomes ==
  ASSUME Typed, MarkedBefore(Len(repl) + 1), NEW p \in DOMAIN repl, NEW as \in Arguments,
         Formal(p), as[repl[p].t] = <<>>
  PROVE  /\ Len(Becomes(p, as)) = 1
         /\ repl[p].cat # "stringized" => IsPlacemarker(Becomes(p, as)[1])
<1>1. repl \in Seq(ReplToken) BY DEF Typed
<1>2. repl[p].cat \in {"stringized", "unscanned", "scanned"} BY <1>1, FinalMarks
<1>3. ~Is(p, "#") BY DEF Is, Formal, Formals
<1>4. Becomes(p, as) = Argument(p, as) BY <1>2, <1>3 DEF Becomes
<1>5. \A x : Len(<<x>>) = 1 /\ <<x>>[1] = x OBVIOUS
<1>6. CASE repl[p].cat = "stringized"
  <2>1. Becomes(p, as) = <<New(Stringized(as[repl[p].t])[1])>> BY <1>4, <1>6 DEF Argument
  <2> QED BY <1>5, <1>6, <2>1
<1>7. CASE repl[p].cat # "stringized"
  <2>1. Becomes(p, as) = <<Placemarker>> BY <1>4, <1>7 DEF Argument
  <2>2. Len(<<Placemarker>>) = 1 /\ <<Placemarker>>[1] = Placemarker BY <1>5
  <2>3. IsPlacemarker(Placemarker) BY DEF IsPlacemarker, Placemarker, New
  <2> QED BY <2>1, <2>2, <2>3
<1> QED BY <1>6, <1>7

(* The token before a ## is one of the parameter there; an empty one has   *)
(* no other, so that the ## before it is the token before that.            *)
LEMMA BeforeFormal ==
  ASSUME IInv, phase = "paste", NEW i \in 1..Len(subst),
         subst[i].cat = "hashhash", NEW q, q = subst[i].own, Formal(q - 1)
  PROVE  /\ i - 1 \in 1..Len(subst) /\ Fresh(subst[i - 1])
         /\ IsPlacemarker(subst[i - 1]) => args[repl[q - 1].t] = <<>>
         /\ args[repl[q - 1].t] = <<>> /\ Is(q - 2, "##") =>
              /\ i - 2 \in 1..Len(subst) /\ subst[i - 2].own = q - 2
              /\ subst[i - 2].cat \in {"hashhash", "commaopt"}
<1> DEFINE p == q - 1
           b == Becomes(p, args)
           n == Len(b)
<1>1. /\ DOMAIN repl = 1..Len(repl) /\ Len(repl) \in Nat /\ repl \in Seq(ReplToken)
      /\ MarkedBefore(Len(repl) + 1) /\ args \in Arguments /\ Typed
  BY DEF IInv, Typed, Listed
<1>2. q \in 2..(Len(repl) - 1) /\ Is(q, "##") /\ End[q - 1] = i - 1 BY HashHashAt
<1>3. p \in DOMAIN repl /\ p \in 1..Len(repl) /\ p + 1 = q /\ Formal(p) BY <1>1, <1>2
<1>4. repl[p].cat = "unscanned"
  <2>1. repl[p].cat =
          IF Is(p + 1, "##") THEN "unscanned"
          ELSE IF Is(p - 1, "#") THEN "stringized"
          ELSE IF Is(p - 1, "##") /\ ~CommaOpt(p - 1) THEN "unscanned" ELSE "scanned"
    BY <1>1, <1>3, FinalMarks
  <2> QED BY <1>2, <1>3, <2>1
<1> HIDE DEF p
<1>5. /\ b \in Seq(Token) /\ n >= 1
      /\ \A k \in 1..n : Fresh(b[k]) /\ (IsPlacemarker(b[k]) => args[repl[p].t] = <<>>)
  BY <1>1, <1>3, <1>4, BecomesIs
<1>6. args[repl[p].t] = <<>> => n = 1 BY <1>1, <1>3, EmptyBecomes
<1>7. n \in Nat BY <1>5
<1>8. /\ Len(Parts) = Len(repl) /\ Parts[p] = b /\ Ends(End, Parts, subst)
      /\ End \in [0..Len(repl) -> Nat]
  BY <1>3, PartsAre
<1> HIDE DEF b, n
<1>9. End[p - 1] \in Nat /\ End[p] = i - 1
  <2>1. p - 1 \in 0..Len(repl) BY <1>1, <1>3
  <2> QED BY <1>2, <1>8, <2>1 DEF p
<1>10. End[p] = End[p - 1] + n BY <1>3, <1>8 DEF Ends, n
<1>11. i - 1 \in 1..Len(subst) /\ subst[i - 1] = b[n]
  <2>1. End[p - 1] + n = i - 1 BY <1>9, <1>10
  <2>2. n \in 1..Len(Parts[p]) BY <1>5, <1>7, <1>8 DEF n
  <2>3. End[p - 1] + n \in 1..Len(subst) /\ subst[End[p - 1] + n] = Parts[p][n]
    BY <1>3, <1>8, <2>2 DEF Ends
  <2> QED BY <1>8, <2>1, <2>3
<1>12. Fresh(subst[i - 1]) /\ (IsPlacemarker(subst[i - 1]) => args[repl[p].t] = <<>>)
  <2>1. n \in 1..n BY <1>5, <1>7
  <2> QED BY <1>5, <1>11, <2>1
<1>13. ASSUME args[repl[p].t] = <<>>, Is(q - 2, "##")
       PROVE  /\ i - 2 \in 1..Len(subst) /\ subst[i - 2].own = q - 2
              /\ subst[i - 2].cat \in {"hashhash", "commaopt"}
  <2> DEFINE h == q - 2
             a == Becomes(h, args)
  <2>1. h \in DOMAIN repl /\ h \in 1..Len(repl) /\ h = p - 1 /\ Is(h, "##")
    BY <1>1, <1>2, <1>13 DEF Is, p
  <2> HIDE DEF h
  <2>2. ~Is(h, "#") /\ ~Formal(h) BY <2>1 DEF Is, Formal, Formals
  <2>3. Len(a) = 1 /\ a[1].own = h /\ a[1].cat = repl[h].cat BY <1>1, <2>1, <2>2, BecomesIs
  <2>4. repl[h].cat \in {"hashhash", "commaopt"} BY <1>1, <2>1, FinalMarks
  <2>5. /\ End[h - 1] + 1 \in 1..Len(subst) /\ subst[End[h - 1] + 1] = a[1]
    BY <2>1, <2>3, FirstOf
  <2>6. End[h] = End[h - 1] + 1
    <3>1. End[h] = End[h - 1] + Len(Parts[h]) BY <1>8, <2>1 DEF Ends
    <3>2. Parts[h] = a BY <2>1, PartsAre
    <3> QED BY <2>3, <3>1, <3>2
  <2>7. End[h] = i - 2
    <3>1. n = 1 /\ End[h] \in Nat BY <1>6, <1>9, <1>13, <2>1
    <3> QED BY <1>9, <1>10, <2>1, <3>1
  <2> QED BY <2>3, <2>4, <2>5, <2>6, <2>7 DEF h
<1> QED BY <1>11, <1>12, <1>13 DEF p

(* Where the last token is a placemarker of the parameter before the ##,   *)
(* or stands for it, the chain is empty if it was before that.             *)
LEMMA ChainGrows ==
  ASSUME IInv, phase = "paste", NEW i \in 1..Len(subst), subst[i].cat = "hashhash",
         i > 1 => /\ ~Fresh(subst[i - 1]) \/ IsPlacemarker(subst[i - 1])
                  /\ PassedEmptyAt(i - 1)
  PROVE  ChainEmpty(subst[i].own + 1)
<1>1. PICK q : q = subst[i].own OBVIOUS
<1>2. q \in 2..(Len(repl) - 1) /\ Len(repl) \in Nat /\ Is(q, "##") /\ NoDouble
  <2>1. Len(repl) \in Nat /\ NoDouble BY DEF IInv, Typed, Listed
  <2> QED BY <1>1, <2>1, HashHashAt
<1>3. CASE ~Formal(q - 1)
  <2>1. ~Is(q - 1, "##")
    <3>1. (q - 1) + 1 = q /\ (Is(q - 1, "##") => q - 1 \in DOMAIN repl) BY <1>2 DEF Is
    <3> QED BY <1>2, <3>1 DEF NoDouble
  <2>2. ChainEmpty(q + 1) BY <1>2, <1>3, <2>1, ChainNone
  <2> QED BY <1>1, <2>2
<1>4. CASE Formal(q - 1)
  <2>1. /\ i - 1 \in 1..Len(subst) /\ Fresh(subst[i - 1])
        /\ IsPlacemarker(subst[i - 1]) => args[repl[q - 1].t] = <<>>
        /\ args[repl[q - 1].t] = <<>> /\ Is(q - 2, "##") =>
             /\ i - 2 \in 1..Len(subst) /\ subst[i - 2].own = q - 2
             /\ subst[i - 2].cat \in {"hashhash", "commaopt"}
    BY <1>1, <1>4, BeforeFormal
  <2>2. args[repl[q - 1].t] = <<>> /\ PassedEmptyAt(i - 1) BY <2>1
  <2>3. Is(q - 2, "##") => ChainEmpty(q - 1)
    <3> SUFFICES ASSUME Is(q - 2, "##") PROVE ChainEmpty(q - 1)
      OBVIOUS
    <3>1. /\ i - 2 \in 1..Len(subst) /\ subst[i - 2].own = q - 2
          /\ subst[i - 2].cat \in {"hashhash", "commaopt"}
      BY <2>1, <2>2
    <3>2. (i - 1) - 1 = i - 2 /\ i - 1 > 1 /\ (q - 2) + 1 = q - 1 BY <1>2, <3>1
    <3> QED BY <2>2, <3>1, <3>2 DEF PassedEmptyAt
  <2>4. ChainEmpty(q + 1)
    <3>1. q \in Int BY <1>2
    <3> QED BY <1>4, <2>2, <2>3, <3>1, ChainMore
  <2> QED BY <1>1, <2>4
<1> QED BY <1>3, <1>4

(* Behind a ## with a placemarker before it is only what may go out.       *)
LEMMA BehindMayGo ==
  ASSUME IInv, OwnInv, phase = "paste", iter \in 1..Len(subst), subst[iter].cat = "hashhash",
         rv # <<>>, IsPlacemarker(Last(rv))
  PROVE  MayGoOut(subst[iter + 1])
<1> DEFINE i == iter
           q == subst[i].own
<1>1. i \in 1..Len(subst) /\ subst[i].cat = "hashhash" /\ q = subst[i].own OBVIOUS
<1>2. /\ i > 1 => /\ subst[i - 1].own # 0 /\ ~Is(subst[i - 1].own, "##") =>
                       ~IsPlacemarker(Last(rv))
      /\ LastEmptyAt(i, rv)
  BY DEF OwnInv, LastStays, ChainsEmpty
<1>3. ChainEmpty(q + 1)
  <2>1. CASE i > 1
    <3>1. i \in 2..Len(subst) BY <1>1, <2>1
    <3> QED BY <1>1, <1>2, <3>1 DEF LastEmptyAt
  <2>2. CASE ~(i > 1) BY <1>1, <2>2, ChainGrows
  <2> QED BY <2>1, <2>2
<1> HIDE DEF i, q
<1>4. q \in 2..(Len(repl) - 1) /\ Is(q, "##") /\ Len(repl) \in Nat /\ NoDouble
  <2>1. Len(repl) \in Nat /\ NoDouble BY DEF IInv, Typed, Listed
  <2> QED BY <1>1, <2>1, HashHashAt
<1>5. Formal(q - 1)
  <2> SUFFICES ASSUME ~Formal(q - 1) PROVE FALSE
    OBVIOUS
  <2>1. i - 1 \in 1..Len(subst) /\ subst[i - 1].own = q - 1 /\ q - 1 \in 1..Len(repl)
    BY <1>1, BeforeHashHash
  <2>2. ~Is(q - 1, "##")
    <3>1. q - 1 \in DOMAIN repl /\ (q - 1) + 1 = q BY <1>4, <2>1 DEF IInv, Typed
    <3> QED BY <1>4, <3>1 DEF NoDouble
  <2>3. i > 1 /\ q - 1 # 0 BY <1>1, <1>4, <2>1
  <2> QED BY <1>2, <2>1, <2>2, <2>3 DEF i
<1>6. PICK p :
        /\ p \in {q + 1, q + 2} /\ p \in 1..Len(repl) /\ (p = q + 2 => Formal(p))
        /\ i + 1 \in 1..Len(subst) /\ subst[i + 1] = Becomes(p, args)[1]
        /\ Len(Becomes(p, args)) >= 1 /\ ~Is(p, "#")
  <2>1. \E p : Behind(i, q, p) BY <1>1, BehindHashHash
  <2> QED BY <2>1 DEF Behind
<1>7. /\ p \in DOMAIN repl /\ args \in Arguments /\ MarkedBefore(Len(repl) + 1) /\ Typed
  BY <1>6 DEF IInv, Typed, Listed
<1>8. CASE Formal(p)
  <2>1. 1 \in 1..Len(Becomes(p, args))
    <3>1. Becomes(p, args) \in Seq(Token) BY <1>7, BecomesIs
    <3>2. Len(Becomes(p, args)) \in Nat BY <3>1
    <3> QED BY <1>6, <3>2
  <2>2. Fresh(Becomes(p, args)[1]) BY <1>7, <1>8, <2>1, BecomesIs
  <2>3. subst[i + 1].own = 0 BY <1>6, <2>2 DEF Fresh
  <2> QED BY <2>3 DEF MayGoOut, i
<1>9. CASE ~Formal(p)
  <2>1. p = q + 1 BY <1>6, <1>9
  <2>2. Becomes(p, args)[1].own = p BY <1>6, <1>7, <1>9, BecomesIs
  <2>3. q - 1 \in Operands(p)
    <3>1. q - 1 \in 1..(p - 2) BY <1>4, <2>1
    <3>2. \A o \in (q - 1)..(p - 1) : o = q - 1 \/ (o = q /\ o = p - 1) BY <1>4, <2>1
    <3>3. (q - 1) + 1 = q BY <1>4
    <3> QED BY <1>4, <1>5, <3>1, <3>2, <3>3 DEF Operands
  <2>4. subst[i + 1].own = p BY <1>6, <2>2
  <2> QED BY <1>3, <2>1, <2>3, <2>4 DEF MayGoOut, i
<1> QED BY <1>8, <1>9

(* Behind a ## is no other. *)
LEMMA BehindIsNone ==
  ASSUME IInv, phase = "paste", NEW i \in 1..Len(subst),
         \/ subst[i].cat = "hashhash"
         \/ subst[i].cat = "commaopt" /\ ~args.given
  PROVE  subst[i + 1].cat = "none"
<1>1. PICK q : q = subst[i].own OBVIOUS
<1>2. PICK p : Behind(i, q, p) BY <1>1, BehindHashHash
<1>3. /\ p \in DOMAIN repl /\ args \in Arguments /\ MarkedBefore(Len(repl) + 1) /\ Typed
      /\ repl \in Seq(ReplToken)
  BY <1>2 DEF Behind, IInv, Typed, Listed
<1>4. ~Is(p, "##") /\ ~Is(p, "#") /\ subst[i + 1] = Becomes(p, args)[1] BY <1>2 DEF Behind
<1>5. CASE Formal(p)
  <2>1. 1 \in 1..Len(Becomes(p, args))
    <3>1. Becomes(p, args) \in Seq(Token) BY <1>3, BecomesIs
    <3>2. Len(Becomes(p, args)) \in Nat BY <3>1
    <3> QED BY <1>2, <3>2 DEF Behind
  <2>2. Fresh(Becomes(p, args)[1]) BY <1>3, <1>5, <2>1, BecomesIs
  <2> QED BY <1>4, <2>2 DEF Fresh
<1>6. CASE ~Formal(p)
  <2>1. Becomes(p, args)[1].cat = repl[p].cat BY <1>3, <1>4, <1>6, BecomesIs
  <2>2. repl[p].cat = "none" BY <1>3, <1>4, <1>6, FinalMarks
  <2> QED BY <1>4, <2>1, <2>2
<1> QED BY <1>5, <1>6

(* The variable argument that is not there is a placemarker. *)
LEMMA NotGivenIs ==
  ASSUME IInv, phase = "paste", NEW i \in 1..Len(subst),
         subst[i].cat = "commaopt", ~args.given
  PROVE  IsPlacemarker(subst[i + 1])
<1>1. PICK q : q = subst[i].own OBVIOUS
<1>2. Is(q, "##") /\ CommaOpt(q) BY <1>1, HashHashAt
<1>3. PICK p : Behind(i, q, p) BY <1>1, BehindHashHash
<1>4. Formal(q + 1) /\ ~Is(q + 1, "#") /\ repl[q + 1].t = "y" /\ q + 1 \in DOMAIN repl
  BY <1>2 DEF CommaOpt, Is, Formal, Formals
<1>5. p = q + 1 /\ subst[i + 1] = Becomes(p, args)[1] BY <1>3, <1>4 DEF Behind
<1>6. /\ args \in Arguments /\ MarkedBefore(Len(repl) + 1) /\ Typed /\ repl \in Seq(ReplToken)
      /\ args.y = <<>> /\ q \in 2..(Len(repl) - 1) /\ Len(repl) \in Nat
  BY <1>1, HashHashAt DEF IInv, Typed, Listed, Arguments
<1>7. repl[p].cat # "stringized"
  <2>1. p \in DOMAIN repl /\ Formal(p) /\ p - 1 = q BY <1>4, <1>5, <1>6
  <2>2. ~Is(p - 1, "#") BY <1>2, <2>1 DEF Is
  <2> QED BY <1>6, <2>1, <2>2, FinalMarks
<1>8. args[repl[p].t] = <<>> BY <1>4, <1>5, <1>6
<1> QED BY <1>4, <1>5, <1>6, <1>7, <1>8, EmptyBecomes

LEMMA PasteAllOwn ==
  ASSUME IInv, OwnInv,
         CommaKept \/ CommaDeleted \/ NothingToPaste \/ PastePlacemarker \/ Paste \/ Copy
  PROVE  OwnInv'
<1>1. phase = "paste" /\ iter \in DOMAIN subst
  BY DEF CommaKept, CommaDeleted, NothingToPaste, PastePlacemarker, Paste, Copy, Pasting
<1>2. /\ iter \in 1..Len(subst) /\ subst[iter] \in Token /\ rv \in Seq(Token)
      /\ repl \in Seq(ReplToken) /\ Len(repl) \in Nat /\ args \in Arguments
      /\ \/ subst[iter].cat = "hashhash"
         \/ subst[iter].cat = "commaopt" /\ ~args.given
         => iter + 1 \in 1..Len(subst) /\ subst[iter + 1] \in Token
  BY <1>1, PasteSteps
<1>3. OutOnly(rv) BY DEF OwnInv
<1>4. 1 \in {1, 2} /\ 2 \in {1, 2} /\ iter + 1 - 1 = iter /\ iter + 2 - 1 = iter + 1 BY <1>2
<1> DEFINE q == subst[iter].own
<1>5. subst[iter].cat \in {"hashhash", "commaopt"} =>
        /\ Is(q, "##") /\ (subst[iter].cat = "commaopt" <=> CommaOpt(q))
  <2> DEFINE i == iter
  <2>1. i \in 1..Len(subst) /\ q = subst[i].own BY <1>2
  <2> HIDE DEF q, i
  <2>2. subst[i].cat \in {"hashhash", "commaopt"} =>
          /\ Is(q, "##") /\ (subst[i].cat = "commaopt" <=> CommaOpt(q))
    BY <1>1, <2>1, HashHashAt
  <2> QED BY <2>2 DEF i
<1>6. OutOnly(Front(rv)) /\ (rv # <<>> => MayGoOut(Last(rv)) /\ Last(rv) \in Token)
      /\ Front(rv) \in Seq(Token)
  <2>1. Front(rv) \in Seq(Token) BY <1>2, FrontIn
  <2>2. CASE rv = <<>>
    <3>1. Front(rv) = <<>>
      <4>1. Len(rv) = 0 /\ Front(rv) = SubSeq(rv, 1, 0 - 1) BY <2>2 DEF Front
      <4>2. 1 \in Int /\ 0 - 1 \in Int /\ 0 - 1 < 1 OBVIOUS
      <4> QED BY <4>1, <4>2, SubSeqEmpty
    <3> QED BY <2>1, <2>2, <3>1 DEF OutOnly
  <2>3. CASE rv # <<>>
    <3>1. /\ Len(Front(rv)) = Len(rv) - 1 /\ Last(rv) \in Token /\ Last(rv) = rv[Len(rv)]
          /\ Len(rv) \in Nat \ {0}
          /\ \A i \in 1..(Len(rv) - 1) : Front(rv)[i] = rv[i]
      BY <1>2, <2>3, FrontIn
    <3>2. DOMAIN rv = 1..Len(rv) /\ DOMAIN Front(rv) = 1..(Len(rv) - 1) BY <1>2, <2>1, <3>1
    <3>3. Len(rv) \in DOMAIN rv /\ \A i \in 1..(Len(rv) - 1) : i \in DOMAIN rv BY <3>1, <3>2
    <3>4. \A i \in DOMAIN Front(rv) : MayGoOut(Front(rv)[i])
      BY <1>3, <3>1, <3>2, <3>3 DEF OutOnly
    <3>5. MayGoOut(Last(rv)) BY <1>3, <3>1, <3>3 DEF OutOnly
    <3> QED BY <2>1, <3>1, <3>4, <3>5 DEF OutOnly
  <2> QED BY <2>2, <2>3
<1>7. ASSUME NEW list \in Seq(Token), OutOnly(list), NEW tok \in Token, MayGoOut(tok)
      PROVE  /\ OutOnly(Append(list, tok)) /\ Append(list, tok) \in Seq(Token)
             /\ Append(list, tok) # <<>> /\ Last(Append(list, tok)) = tok
  <2> DEFINE a == Append(list, tok)
             n == Len(list)
  <2>1. /\ a \in Seq(Token) /\ Len(a) = n + 1 /\ n \in Nat /\ a[n + 1] = tok
        /\ \A i \in 1..n : a[i] = list[i]
    BY <1>7, AppendIs
  <2>2. DOMAIN list = 1..n /\ \A i \in 1..n : MayGoOut(list[i]) BY <1>7 DEF OutOnly
  <2> HIDE DEF a, n
  <2>3. DOMAIN a = 1..(n + 1) /\ a # <<>> /\ Last(a) = tok BY <2>1 DEF Last
  <2>4. \A i \in 1..(n + 1) : MayGoOut(a[i])
    <3> TAKE i \in 1..(n + 1)
    <3>1. i \in 1..n \/ i = n + 1 BY <2>1
    <3> QED BY <1>7, <2>1, <2>2, <3>1
  <2> QED BY <2>1, <2>3, <2>4 DEF OutOnly, a
<1>8. LastEmptyAt(iter, rv) /\ PassedEmptyAt(iter) BY <1>1 DEF OwnInv, ChainsEmpty
<1>9. ASSUME NEW list,
              list = <<>> \/ IsPlacemarker(Last(list)) =>
                ~Fresh(subst[iter]) \/ IsPlacemarker(subst[iter])
       PROVE  LastEmptyAt(iter + 1, list)
  <2> SUFFICES ASSUME iter + 1 \in 2..Len(subst), subst[iter + 1].cat = "hashhash",
                      list = <<>> \/ IsPlacemarker(Last(list))
               PROVE  ChainEmpty(subst[iter + 1].own + 1)
    BY DEF LastEmptyAt
  <2> DEFINE i == iter + 1
  <2>1. /\ i \in 1..Len(subst) /\ subst[i].cat = "hashhash" /\ i - 1 = iter
        /\ ~Fresh(subst[i - 1]) \/ IsPlacemarker(subst[i - 1])
    BY <1>2, <1>9
  <2>2. PassedEmptyAt(i - 1) BY <1>8, <2>1
  <2> HIDE DEF i
  <2>3. ChainEmpty(subst[i].own + 1) BY <1>1, <2>1, <2>2, ChainGrows
  <2> QED BY <2>3 DEF i
<1>10. subst[iter].cat = "hashhash" /\ (rv = <<>> \/ IsPlacemarker(Last(rv))) =>
         PassedEmptyAt(iter + 1)
  <2> SUFFICES ASSUME subst[iter].cat = "hashhash", rv = <<>> \/ IsPlacemarker(Last(rv))
               PROVE  ChainEmpty(subst[iter].own + 1)
    BY <1>2 DEF PassedEmptyAt
  <2> DEFINE i == iter
  <2>1. CASE i > 1
    <3>1. i \in 2..Len(subst) BY <1>2, <2>1
    <3> QED BY <1>8, <3>1 DEF LastEmptyAt
  <2>2. CASE ~(i > 1)
    <3>1. i \in 1..Len(subst) /\ subst[i].cat = "hashhash" BY <1>2
    <3> HIDE DEF i
    <3>2. ChainEmpty(subst[i].own + 1) BY <1>1, <2>2, <3>1, ChainGrows
    <3> QED BY <3>2 DEF i
  <2> QED BY <2>1, <2>2
<1>11. subst[iter].cat = "commaopt" => PassedEmptyAt(iter + 1)
  <2> SUFFICES ASSUME subst[iter].cat = "commaopt" PROVE ChainEmpty(subst[iter].own + 1)
    BY <1>2 DEF PassedEmptyAt
  <2>1. Is(q - 1, "comma") /\ Is(q, "##") BY <1>5 DEF CommaOpt
  <2>2. q \in Int /\ ~Formal(q - 1) /\ ~Is(q - 1, "##") BY <1>2, <2>1 DEF Is, Formal, Formals
  <2> QED BY <2>2, ChainNone
<1>12. ASSUME NEW list, iter + 1 \in 1..Len(subst),
              list = <<>> \/ IsPlacemarker(Last(list)) =>
                IsPlacemarker(subst[iter + 1]) /\ PassedEmptyAt(iter + 1)
       PROVE  LastEmptyAt(iter + 2, list)
  <2> SUFFICES ASSUME iter + 2 \in 2..Len(subst), subst[iter + 2].cat = "hashhash",
                      list = <<>> \/ IsPlacemarker(Last(list))
               PROVE  ChainEmpty(subst[iter + 2].own + 1)
    BY DEF LastEmptyAt
  <2> DEFINE i == iter + 2
  <2>1. /\ i \in 1..Len(subst) /\ subst[i].cat = "hashhash" /\ i - 1 = iter + 1
        /\ IsPlacemarker(subst[i - 1])
    BY <1>2, <1>12
  <2>2. PassedEmptyAt(i - 1) BY <1>12, <2>1
  <2> HIDE DEF i
  <2>3. ChainEmpty(subst[i].own + 1) BY <1>1, <2>1, <2>2, ChainGrows
  <2> QED BY <2>3 DEF i
<1>13. \/ subst[iter].cat = "hashhash"
       \/ subst[iter].cat = "commaopt" /\ ~args.given
       => PassedEmptyAt(iter + 2)
  <2> SUFFICES ASSUME \/ subst[iter].cat = "hashhash"
                      \/ subst[iter].cat = "commaopt" /\ ~args.given
               PROVE  PassedEmptyAt(iter + 2)
    OBVIOUS
  <2>1. subst[iter + 1].cat = "none" BY <1>1, <1>2, BehindIsNone
  <2>2. (iter + 2) - 1 = iter + 1 BY <1>2
  <2> QED BY <2>1, <2>2 DEF PassedEmptyAt
<1>14. CASE CommaKept \/ NothingToPaste
  <2>1. /\ Result(rv, 1) /\ subst[iter].cat \in {"hashhash", "commaopt"}
        /\ subst[iter].cat = "hashhash" => rv = <<>>
    BY <1>14 DEF CommaKept, NothingToPaste, Pasting
  <2>2. Is(q, "##") BY <1>5, <2>1
  <2>3. Is(subst[iter + 1 - 1].own, "##") BY <1>4, <2>2
  <2>4. LastEmptyAt(iter + 1, rv)
    <3>1. ~Fresh(subst[iter]) BY <2>1 DEF Fresh
    <3> QED BY <1>9, <3>1
  <2>5. PassedEmptyAt(iter + 1) BY <1>10, <1>11, <2>1
  <2> QED BY <1>1, <1>2, <1>3, <1>4, <2>1, <2>3, <2>4, <2>5, ResultOwn
<1>15. CASE CommaDeleted
  <2>1. /\ Result(Front(rv), 2) /\ subst[iter].cat = "commaopt" /\ ~args.given
    BY <1>15 DEF CommaDeleted, Pasting
  <2>2. subst[iter + 1].own = 0
    <3>1. Formal(q + 1) /\ ~Is(q + 1, "#")
      <4>1. CommaOpt(q) BY <1>5, <2>1
      <4> QED BY <4>1 DEF CommaOpt, Is, Formal, Formals
    <3> DEFINE i == iter
    <3>2. i \in 1..Len(subst) /\ q = subst[i].own /\ subst[i].cat = "commaopt" BY <1>2, <2>1
    <3> HIDE DEF q, i
    <3>3. PICK p :
            /\ p \in {q + 1, q + 2} /\ p \in 1..Len(repl) /\ (p = q + 2 => Is(q + 1, "#"))
            /\ subst[i + 1] = Becomes(p, args)[1] /\ Len(Becomes(p, args)) >= 1
      <4>1. \E p : Behind(i, q, p) BY <1>1, <2>1, <3>2, BehindHashHash
      <4> QED BY <4>1 DEF Behind
    <3>4. p = q + 1 BY <3>1, <3>3
    <3>5. p \in DOMAIN repl /\ MarkedBefore(Len(repl) + 1) /\ Typed
      BY <1>1, <1>2, <3>3 DEF IInv, Listed
    <3>6. 1 \in 1..Len(Becomes(p, args))
      <4>1. Becomes(p, args) \in Seq(Token) BY <1>2, <3>5, BecomesIs
      <4>2. Len(Becomes(p, args)) \in Nat BY <4>1
      <4> QED BY <3>3, <4>2
    <3>7. Fresh(Becomes(p, args)[1]) BY <1>2, <3>1, <3>4, <3>5, <3>6, BecomesIs
    <3> QED BY <3>3, <3>7 DEF Fresh, i
  <2>3. subst[iter + 2 - 1].own = 0 BY <1>4, <2>2
  <2>4. LastEmptyAt(iter + 2, Front(rv))
    <3>1. IsPlacemarker(subst[iter + 1]) BY <1>1, <1>2, <2>1, NotGivenIs
    <3> QED BY <1>2, <1>11, <1>12, <2>1, <3>1
  <2>5. PassedEmptyAt(iter + 2) BY <1>13, <2>1
  <2> QED BY <1>1, <1>4, <1>6, <2>1, <2>3, <2>4, <2>5, ResultOwn
<1>16. CASE PastePlacemarker
  <2> DEFINE l == IF IsPlacemarker(LHS) THEN <<RHS>> ELSE <<>>
             r == IF IsPlacemarker(RHS) THEN <<LHS>> ELSE <<>>
             f == Front(rv)
             list == f \o l \o r
  <2>1. /\ Result(list, 2) /\ rv # <<>> /\ iter + 1 \in 1..Len(subst)
        /\ subst[iter + 1] \in Token /\ subst[iter].cat = "hashhash"
        /\ IsPlacemarker(LHS) \/ IsPlacemarker(RHS)
    BY <1>2, <1>16 DEF PastePlacemarker, Pasting, Needlx
  <2>2. LHS \in Token /\ RHS \in Token /\ MayGoOut(LHS) /\ f \in Seq(Token) /\ OutOnly(f)
    BY <1>6, <2>1 DEF LHS, RHS
  <2>3. IsPlacemarker(LHS) => MayGoOut(RHS)
    BY <1>1, <1>2, <2>1, BehindMayGo DEF LHS, RHS
  <2>4. RHS.own # 0 => ~IsPlacemarker(RHS) BY <1>1, <2>1, SubstIs DEF RHS
  <2>5. subst[iter + 2 - 1] = RHS BY <1>4 DEF RHS
  <2>6. /\ f \o <<RHS>> = Append(f, RHS) /\ f \o <<>> = f
        /\ f \o <<LHS>> = Append(f, LHS)
        /\ Append(f, RHS) \o <<>> = Append(f, RHS)
        /\ Append(f, RHS) \o <<LHS>> = Append(Append(f, RHS), LHS)
    <3> HIDE DEF f
    <3>1. Append(f, RHS) \in Seq(Token) BY <2>2, AppendIs
    <3>2. \A s \in Seq(Token) : \A x \in Token : s \o <<x>> = Append(s, x) /\ s \o <<>> = s
      OBVIOUS
    <3> QED BY <2>2, <3>1, <3>2
  <2>7. /\ list \in Seq(Token) /\ OutOnly(list)
        /\ RHS.own # 0 => list # <<>> /\ ~IsPlacemarker(Last(list))
        /\ list = <<>> \/ IsPlacemarker(Last(list)) => IsPlacemarker(LHS) /\ IsPlacemarker(RHS)
    <3>1. CASE IsPlacemarker(LHS) /\ ~IsPlacemarker(RHS)
      <4>1. list = Append(f, RHS) BY <2>6, <3>1
      <4> HIDE DEF list, f
      <4> QED BY <1>7, <2>2, <2>3, <3>1, <4>1
    <3>2. CASE ~IsPlacemarker(LHS) /\ IsPlacemarker(RHS)
      <4>1. list = Append(f, LHS) BY <2>6, <3>2
      <4> HIDE DEF list, f
      <4> QED BY <1>7, <2>2, <3>2, <4>1
    <3>3. CASE IsPlacemarker(LHS) /\ IsPlacemarker(RHS)
      <4>1. list = Append(Append(f, RHS), LHS) BY <2>6, <3>3
      <4> HIDE DEF list, f
      <4>2. Append(f, RHS) \in Seq(Token) /\ OutOnly(Append(f, RHS)) BY <1>7, <2>2, <2>3, <3>3
      <4> DEFINE fr == Append(f, RHS)
      <4> HIDE DEF fr
      <4>3. fr \in Seq(Token) /\ OutOnly(fr) /\ list = Append(fr, LHS) BY <4>1, <4>2 DEF fr
      <4>4. list \in Seq(Token) /\ OutOnly(list) BY <1>7, <2>2, <4>3
      <4> QED BY <2>4, <3>3, <4>4
    <3> QED BY <2>1, <3>1, <3>2, <3>3
  <2> HIDE DEF list
  <2>8. LastEmptyAt(iter + 2, list)
    <3>1. list = <<>> \/ IsPlacemarker(Last(list)) =>
            IsPlacemarker(subst[iter + 1]) /\ PassedEmptyAt(iter + 1)
      BY <1>10, <2>1, <2>7 DEF LHS, RHS
    <3> QED BY <1>12, <2>1, <3>1
  <2>9. PassedEmptyAt(iter + 2) BY <1>13, <2>1
  <2> QED BY <1>1, <1>4, <2>1, <2>5, <2>7, <2>8, <2>9, ResultOwn
<1>17. CASE Paste
  <2>1. rv # <<>> /\ iter + 1 \in 1..Len(subst) /\ subst[iter + 1] \in Token /\ Needlx
    BY <1>2, <1>17 DEF Paste, Pasting
  <2>2. CASE <<"comma">> \in {LHS.v, RHS.v}
    <3>1. Raise("glued") BY <1>17, <2>2 DEF Paste
    <3>2. UNCHANGED <<macro, repl, phase, iter, args, subst, rv, calls>> BY <3>1 DEF Raise
    <3>3. PaintedOnly' /\ OutOnly(rv)' /\ \A p : ChainEmpty(p)' <=> ChainEmpty(p)
      <4>1. /\ PaintedOnly' /\ \A p : ChainEmpty(p)' <=> ChainEmpty(p)
            /\ OutOnly(rv) => OutOnly(rv)'
        BY <3>2, SameOwn
      <4> QED BY <1>3, <4>1
    <3>4. LastStays' BY <3>2 DEF OwnInv, LastStays, Is
    <3>5. ChainsEmpty' BY <3>2, <3>3 DEF OwnInv, ChainsEmpty, LastEmptyAt, PassedEmptyAt
    <3> QED BY <3>3, <3>4, <3>5 DEF OwnInv
  <2>3. CASE <<"comma">> \notin {LHS.v, RHS.v}
    <3> DEFINE tok == New(LHS.v \o RHS.v)
               list == Append(Front(rv), tok)
    <3>1. Result(list, 2) BY <1>17, <2>3 DEF Paste
    <3>2. tok \in Token /\ tok.own = 0 /\ ~IsPlacemarker(tok)
      <4>1. LHS \in Token /\ RHS \in Token BY <1>6, <2>1 DEF LHS, RHS
      <4>2. LHS.v \in Seq(Pieces) /\ RHS.v \in Seq(Pieces) /\ LHS.v # <<>>
        BY <2>1, <4>1 DEF Token, Needlx, IsPlacemarker
      <4> DEFINE v == LHS.v \o RHS.v
      <4>3. v \in Seq(Pieces) /\ v # <<>>
        <5>1. ASSUME NEW a \in Seq(Pieces), NEW b \in Seq(Pieces), a # <<>>
              PROVE  a \o b \in Seq(Pieces) /\ a \o b # <<>>
          <6>1. Len(a) >= 1 /\ Len(b) \in Nat BY <5>1
          <6>2. Len(a \o b) >= 1 /\ a \o b \in Seq(Pieces) BY <6>1, ConcatIs
          <6> QED BY <6>2
        <5> QED BY <4>2, <5>1
      <4> HIDE DEF v
      <4>4. New(v) \in Token /\ New(v).own = 0 /\ New(v).v = v BY <1>2, <4>3, NewIs
      <4> QED BY <4>3, <4>4 DEF v, IsPlacemarker
    <3> HIDE DEF tok
    <3>3. MayGoOut(tok) BY <3>2 DEF MayGoOut
    <3>4. /\ list \in Seq(Token) /\ OutOnly(list) /\ list # <<>> /\ Last(list) = tok
      BY <1>6, <1>7, <3>2, <3>3
    <3> HIDE DEF list
    <3>5. LastEmptyAt(iter + 2, list) BY <3>2, <3>4 DEF LastEmptyAt
    <3>6. PassedEmptyAt(iter + 2)
      <4>1. subst[iter].cat = "hashhash" BY <1>17 DEF Paste, Pasting
      <4> QED BY <1>13, <4>1
    <3> QED BY <1>1, <1>4, <3>1, <3>2, <3>4, <3>5, <3>6, ResultOwn
  <2> QED BY <2>2, <2>3
<1>18. CASE Copy
  <2> DEFINE old == subst[iter]
             tok == [old EXCEPT !.own = 0]
             list == Append(rv, tok)
  <2>1. Result(list, 1) BY <1>18 DEF Copy
  <2>2. old.own # 0 => ~IsPlacemarker(old) BY <1>1, <1>2, SubstIs
  <2>3. old \in Token /\ 0 \in 0..Len(repl) BY <1>2
  <2>4. old = subst[iter + 1 - 1] /\ old = subst[iter] BY <1>4
  <2> HIDE DEF old
  <2>5. tok \in Token /\ tok.own = 0 /\ tok.v = old.v BY <2>3 DEF Token
  <2> HIDE DEF tok
  <2>6. MayGoOut(tok) BY <2>5 DEF MayGoOut
  <2>7. /\ list \in Seq(Token) /\ OutOnly(list) /\ list # <<>> /\ Last(list) = tok
    BY <1>2, <1>3, <1>7, <2>5, <2>6
  <2>8. old.own # 0 => ~IsPlacemarker(tok) BY <2>2, <2>5 DEF IsPlacemarker
  <2> HIDE DEF list
  <2>9. LastEmptyAt(iter + 1, list)
    <3>1. list = <<>> \/ IsPlacemarker(Last(list)) => IsPlacemarker(subst[iter])
      BY <2>4, <2>5, <2>7 DEF IsPlacemarker
    <3> QED BY <1>9, <3>1
  <2>10. PassedEmptyAt(iter + 1)
    <3>1. subst[iter].cat \notin {"hashhash", "commaopt"} BY <1>18 DEF Copy, Pasting
    <3>2. (iter + 1) - 1 = iter BY <1>2
    <3> QED BY <3>1, <3>2 DEF PassedEmptyAt
  <2> QED BY <1>1, <1>4, <2>1, <2>4, <2>7, <2>8, <2>9, <2>10, ResultOwn
<1> QED BY <1>14, <1>15, <1>16, <1>17, <1>18


LEMMA PushOwn == ASSUME IInv, OwnInv, Push PROVE OwnInv'
<1>1. /\ rv' = WithoutPlacemarkers(rv) /\ phase' = "expanded"
      /\ UNCHANGED <<macro, repl, iter, args, subst, calls, err>>
  BY DEF Push, WithoutPlacemarkers
<1>2. rv \in Seq(Token) BY DEF IInv, Typed
<1>3. PICK list : list = WithoutPlacemarkers(rv) OBVIOUS
<1>4. OutOnly(list)
  <2>1. list \in Seq(Token) /\ \A j \in 1..Len(list) : \E m \in 1..Len(rv) : list[j] = rv[m]
    BY <1>2, <1>3, WithoutIn
  <2>2. DOMAIN list = 1..Len(list) /\ DOMAIN rv = 1..Len(rv) BY <1>2, <2>1
  <2> QED BY <2>1, <2>2 DEF OwnInv, OutOnly
<1>5. OutOnly(list)' /\ PaintedOnly' BY <1>1, <1>4, SameOwn
<1>6. OutOnly(rv)' BY <1>1, <1>3, <1>5 DEF OutOnly, MayGoOut
<1> QED BY <1>1, <1>5, <1>6 DEF OwnInv, LastStays, ChainsEmpty

(* What goes out may be painted, and only that. *)
LEMMA PaintOwn == ASSUME IInv, OwnInv, Paint PROVE OwnInv'
<1>1. phase' = "expanded" /\ UNCHANGED <<macro, phase, iter, args, subst, calls, err>> BY DEF Paint
<1>2. PICK j \in DOMAIN rv :
        /\ rv' = [rv EXCEPT ![j].painted = TRUE]
        /\ repl' = IF rv[j].own = 0 THEN repl ELSE [repl EXCEPT ![rv[j].own].painted = TRUE]
  BY DEF Paint
<1>3. /\ repl \in Seq(ReplToken) /\ DOMAIN repl = 1..Len(repl) /\ Len(repl) \in Nat
      /\ rv \in Seq(Token)
  BY DEF IInv, Typed
<1>4. /\ DOMAIN repl' = DOMAIN repl
      /\ \A p \in DOMAIN repl :
           /\ repl'[p].t = repl[p].t
           /\ repl'[p].painted => repl[p].painted \/ (p = rv[j].own /\ p # 0)
  <2>1. CASE rv[j].own = 0 BY <1>2, <2>1
  <2>2. CASE rv[j].own # 0
    <3> DEFINE o == rv[j].own
    <3>1. repl' = [repl EXCEPT ![o] = [repl[o] EXCEPT !.painted = TRUE]] BY <1>2, <2>2
    <3>2. \A p \in DOMAIN repl : [repl[p] EXCEPT !.painted = TRUE].t = repl[p].t
      <4> TAKE p \in DOMAIN repl
      <4>1. repl[p] \in ReplToken BY <1>3
      <4> QED BY <4>1 DEF ReplToken
    <3>3. o # 0 BY <2>2
    <3> HIDE DEF o
    <3>4. DOMAIN repl' = DOMAIN repl BY <3>1
    <3>5. \A p \in DOMAIN repl :
            /\ repl'[p].t = repl[p].t
            /\ repl'[p].painted => repl[p].painted \/ (p = o /\ p # 0)
      <4> TAKE p \in DOMAIN repl
      <4>1. CASE p = o
        <5>1. repl'[p] = [repl[p] EXCEPT !.painted = TRUE] BY <3>1, <4>1
        <5> QED BY <3>2, <3>3, <4>1, <5>1
      <4>2. CASE p # o
        <5>1. repl'[p] = repl[p] BY <3>1, <4>2
        <5> QED BY <5>1
      <4> QED BY <4>1, <4>2
    <3> QED BY <3>4, <3>5 DEF o
  <2> QED BY <2>1, <2>2
<1>5. /\ \A p, t : Is(p, t)' <=> Is(p, t)
      /\ \A p : Formal(p)' <=> Formal(p)
  BY <1>1, <1>4, SameSpelling
<1>6. ASSUME NEW p PROVE Operands(p)' = Operands(p) /\ (ChainEmpty(p)' <=> ChainEmpty(p))
  <2>1. Operands(p)' = Operands(p) BY <1>5 DEF Operands
  <2>2. Operands(p) \subseteq DOMAIN repl /\ args' = args BY <1>1 DEF Operands, Formal
  <2>3. \A q \in Operands(p) : repl'[q].t = repl[q].t BY <1>4, <2>2
  <2> QED BY <2>1, <2>2, <2>3 DEF ChainEmpty
<1>7. \A i \in DOMAIN rv : MayGoOut(rv[i]) /\ rv[i] \in Token /\ rv[i].own \in Nat
  <2> TAKE i \in DOMAIN rv
  <2>1. rv[i] \in Token BY <1>3
  <2> QED BY <1>3, <2>1 DEF OwnInv, OutOnly, Token
<1>8. DOMAIN rv' = DOMAIN rv /\ \A i \in DOMAIN rv : rv'[i].own = rv[i].own /\ rv'[i].v = rv[i].v
  <2>1. \A i \in DOMAIN rv :
          /\ [rv[i] EXCEPT !.painted = TRUE].own = rv[i].own
          /\ [rv[i] EXCEPT !.painted = TRUE].v = rv[i].v
    BY <1>7 DEF Token
  <2>2. rv' = [rv EXCEPT ![j] = [rv[j] EXCEPT !.painted = TRUE]] BY <1>2
  <2> QED BY <2>1, <2>2
<1>9. OutOnly(rv)'
  <2>1. ASSUME NEW i \in DOMAIN rv PROVE MayGoOut(rv[i])'
    <3>1. PICK n : n = rv[i].own OBVIOUS
    <3>2. rv'[i].own = n BY <1>8, <3>1
    <3>3. n # 0 => Operands(n) # {} /\ ChainEmpty(n) BY <1>7, <3>1 DEF MayGoOut
    <3>4. n # 0 => Operands(n)' # {} /\ ChainEmpty(n)' BY <1>6, <3>3
    <3>5. /\ Operands(n)' = Operands(rv[i].own)'
          /\ ChainEmpty(n)' <=> ChainEmpty(rv[i].own)'
      BY <3>2 DEF Operands, ChainEmpty
    <3> QED BY <3>2, <3>4, <3>5 DEF MayGoOut
  <2> QED BY <1>8, <2>1 DEF OutOnly
<1>10. PaintedOnly'
  <2> SUFFICES ASSUME NEW p \in DOMAIN repl, repl'[p].painted PROVE Operands(p)' # {}
    BY <1>4 DEF PaintedOnly
  <2>1. Operands(p) # {}
    <3>1. CASE repl[p].painted BY <3>1 DEF OwnInv, PaintedOnly
    <3>2. CASE p = rv[j].own /\ p # 0 BY <1>7, <3>2 DEF MayGoOut
    <3> QED BY <1>4, <3>1, <3>2
  <2> QED BY <1>6, <2>1
<1> QED BY <1>1, <1>9, <1>10 DEF OwnInv, LastStays, ChainsEmpty

LEMMA StayOwn == ASSUME OwnInv, UNCHANGED vars PROVE OwnInv'
<1>1. UNCHANGED <<macro, repl, phase, iter, args, subst, rv, calls, err>> BY DEF vars
<1>2. OutOnly(rv)' /\ PaintedOnly' /\ \A p : ChainEmpty(p)' <=> ChainEmpty(p)
  <2>1. /\ OutOnly(rv) => OutOnly(rv)'
        /\ PaintedOnly' /\ \A p : ChainEmpty(p)' <=> ChainEmpty(p)
    BY <1>1, SameOwn
  <2> QED BY <2>1 DEF OwnInv
<1>3. LastStays' BY <1>1 DEF OwnInv, LastStays, Is
<1>4. ChainsEmpty' BY <1>1, <1>2 DEF OwnInv, ChainsEmpty, LastEmptyAt, PassedEmptyAt
<1> QED BY <1>2, <1>3, <1>4 DEF OwnInv

LEMMA StepOwn == ASSUME IInv, IInv', OwnInv, [Next]_vars PROVE OwnInv'
<1>1. CASE Step
  BY <1>1, DefineOwn, CallOwn, PasteAllOwn, PushOwn, PaintOwn DEF Step
<1>2. CASE Stopped \/ UNCHANGED vars BY <1>2, StayOwn DEF Stopped
<1> QED BY <1>1, <1>2 DEF Next

(* A token of the definition is painted, for all later calls, only where   *)
(* all it was pasted to was empty: every other goes out as a copy, and the *)
(* definition stays what it was (Scan.java:607).                           *)
THEOREM DefinitionIsCopied == Spec => []OwnBehindEmpty
<1>1. Init => IInv /\ OwnInv
  <2> SUFFICES ASSUME Init PROVE IInv /\ OwnInv
    OBVIOUS
  <2>1. IInv BY InitIInv
  <2>2. rv = <<>> /\ phase # "paste" /\ DOMAIN repl = {} BY DEF Init
  <2> QED BY <2>1, <2>2, NothingOut
<1>2. (IInv /\ OwnInv) /\ [Next]_vars => (IInv /\ OwnInv)' BY StepIInv, StepOwn
<1>3. IInv /\ OwnInv => OwnBehindEmpty
  BY DEF OwnInv, OutOnly, PaintedOnly, MayGoOut, ChainEmpty, OwnBehindEmpty
<1> QED BY <1>1, <1>2, <1>3, PTL DEF Spec


-----------------------------------------------------------------------------
(* Lists of spellings                                                      *)

Lists == Seq(Seq(Pieces))
Spelling(list) == [j \in DOMAIN list |-> list[j].v]

LEMMA SpellingIs ==
  ASSUME NEW list \in Seq(Token)
  PROVE  /\ Spelling(list) \in Lists /\ Len(Spelling(list)) = Len(list)
         /\ \A j \in 1..Len(list) : Spelling(list)[j] = list[j].v
<1>1. DOMAIN list = 1..Len(list) /\ Len(list) \in Nat OBVIOUS
<1>2. \A j \in 1..Len(list) : list[j].v \in Seq(Pieces)
  <2> TAKE j \in 1..Len(list)
  <2>1. list[j] \in Token OBVIOUS
  <2> QED BY <2>1 DEF Token
<1> DEFINE V == Spelling(list)
<1>3. V \in [1..Len(list) -> Seq(Pieces)] BY <1>1, <1>2 DEF Spelling
<1>4. \A j \in 1..Len(list) : V[j] = list[j].v BY <1>1 DEF Spelling
<1> HIDE DEF V
<1>5. V \in Seq(Seq(Pieces)) /\ Len(V) = Len(list) BY <1>1, <1>3
<1> QED BY <1>4, <1>5 DEF V, Lists

LEMMA SpellingConcat ==
  ASSUME NEW a \in Seq(Token), NEW b \in Seq(Token)
  PROVE  Spelling(a \o b) = Spelling(a) \o Spelling(b)
<1> DEFINE c == a \o b
           V == Spelling(c)
           W == Spelling(a) \o Spelling(b)
           m == Len(a)
           n == Len(b)
<1>1. /\ c \in Seq(Token) /\ Len(c) = m + n /\ m \in Nat /\ n \in Nat
      /\ \A i \in 1..m : c[i] = a[i]
      /\ \A i \in 1..n : c[m + i] = b[i]
  <2>1. m \in Nat /\ n \in Nat OBVIOUS
  <2> QED BY <2>1, ConcatIs
<1> HIDE DEF c, m, n
<1>2. V \in Lists /\ Len(V) = m + n /\ \A j \in 1..(m + n) : V[j] = c[j].v
  BY <1>1, SpellingIs
<1>3. /\ Spelling(a) \in Lists /\ Len(Spelling(a)) = m
      /\ Spelling(b) \in Lists /\ Len(Spelling(b)) = n
      /\ \A j \in 1..m : Spelling(a)[j] = a[j].v
      /\ \A j \in 1..n : Spelling(b)[j] = b[j].v
  BY SpellingIs DEF m, n
<1>4. /\ W \in Lists /\ Len(W) = m + n
      /\ \A i \in 1..m : W[i] = Spelling(a)[i]
      /\ \A i \in 1..n : W[m + i] = Spelling(b)[i]
  <2>1. PICK x \in Seq(Seq(Pieces)), y \in Seq(Seq(Pieces)) :
          x = Spelling(a) /\ y = Spelling(b)
    BY <1>3 DEF Lists
  <2>2. /\ x \o y \in Seq(Seq(Pieces)) /\ Len(x \o y) = Len(x) + Len(y)
        /\ \A i \in 1..Len(x) : (x \o y)[i] = x[i]
        /\ \A i \in 1..Len(y) : (x \o y)[Len(x) + i] = y[i]
    BY ConcatIs
  <2> QED BY <1>3, <2>1, <2>2 DEF Lists
<1> HIDE DEF V, W
<1>5. ASSUME NEW j \in 1..(m + n) PROVE V[j] = W[j]
  <2>1. V[j] = c[j].v BY <1>2
  <2>2. CASE j <= m
    <3>1. j \in 1..m BY <1>1, <2>2
    <3> QED BY <1>1, <1>3, <1>4, <2>1, <3>1
  <2>3. CASE ~(j <= m)
    <3> DEFINE i == j - m
    <3>1. i \in 1..n /\ m + i = j BY <1>1, <2>3
    <3> HIDE DEF i
    <3>2. c[m + i] = b[i] /\ W[m + i] = b[i].v BY <1>1, <1>3, <1>4, <3>1
    <3> QED BY <2>1, <3>1, <3>2
  <2> QED BY <2>2, <2>3
<1>6. V = W BY <1>2, <1>4, <1>5, SeqEqual DEF Lists
<1> QED BY <1>6 DEF V, W, c

(* What is shown of a list does not depend on what is empty in it.         *)
LEMMA ShownIs ==
  /\ Shown(<<>>) = <<>>
  /\ \A s \in Lists : Shown(s) \in Lists
  /\ \A x \in Seq(Pieces) : Shown(<<x>>) = IF x = <<>> THEN <<>> ELSE <<x>>
  /\ \A s, t \in Lists : Shown(s \o t) = Shown(s) \o Shown(t)
<1> DEFINE one(x) == IF x = <<>> THEN <<>> ELSE <<x>>
           each(s) == [j \in DOMAIN s |-> one(s[j])]
<1>1. \A s : Shown(s) = FlattenSeq(each(s)) BY DEF Shown
<1>2. \A x \in Seq(Pieces) : one(x) \in Lists
  <2> TAKE x \in Seq(Pieces)
  <2>1. <<>> \in Seq(Seq(Pieces)) /\ <<x>> \in Seq(Seq(Pieces)) OBVIOUS
  <2> QED BY <2>1 DEF Lists
<1>3. ASSUME NEW s \in Lists
      PROVE  /\ each(s) \in Seq(Lists) /\ Len(each(s)) = Len(s)
             /\ \A j \in 1..Len(s) : each(s)[j] = one(s[j])
  <2>1. DOMAIN s = 1..Len(s) /\ Len(s) \in Nat /\ \A j \in 1..Len(s) : s[j] \in Seq(Pieces)
    BY DEF Lists
  <2> DEFINE e == each(s)
  <2>2. e = [j \in 1..Len(s) |-> one(s[j])] BY <2>1
  <2> HIDE DEF e, one
  <2>3. e \in [1..Len(s) -> Lists] BY <1>2, <2>1, <2>2
  <2>4. e \in Seq(Lists) /\ Len(e) = Len(s) BY <2>1, <2>3
  <2> QED BY <2>2, <2>4 DEF e
<1> HIDE DEF one
<1>4. ASSUME NEW s \in Lists PROVE Shown(s) \in Lists
  <2> DEFINE e == each(s)
  <2>1. e \in Seq(Seq(Seq(Pieces))) /\ Shown(s) = FlattenSeq(e) BY <1>1, <1>3, <1>4 DEF Lists
  <2> HIDE DEF e
  <2> QED BY <2>1, FlattenIn DEF Lists
<1>5. Shown(<<>>) = <<>>
  <2>1. each(<<>>) = <<>> OBVIOUS
  <2>2. FlattenSeq(<<>>) = <<>>
    <3>1. <<>> \in Seq(Pieces) OBVIOUS
    <3> QED BY <3>1, FlattenFew
  <2> HIDE DEF each
  <2> QED BY <1>1, <2>1, <2>2
<1>6. ASSUME NEW x \in Seq(Pieces) PROVE Shown(<<x>>) = one(x)
  <2>1. each(<<x>>) = <<one(x)>> OBVIOUS
  <2>2. FlattenSeq(<<one(x)>>) = one(x) BY <1>2, <1>6, FlattenFew DEF Lists
  <2> HIDE DEF each
  <2> QED BY <1>1, <2>1, <2>2
<1>7. ASSUME NEW s \in Lists, NEW t \in Lists PROVE Shown(s \o t) = Shown(s) \o Shown(t)
  <2> DEFINE u == s \o t
             c == each(s) \o each(t)
             m == Len(s)
             n == Len(t)
  <2>1. /\ u \in Lists /\ Len(u) = m + n /\ m \in Nat /\ n \in Nat
        /\ \A i \in 1..m : u[i] = s[i]
        /\ \A i \in 1..n : u[m + i] = t[i]
    <3>1. s \in Seq(Seq(Pieces)) /\ t \in Seq(Seq(Pieces)) BY <1>7 DEF Lists
    <3>2. m \in Nat /\ n \in Nat BY <3>1
    <3> QED BY <3>1, <3>2, ConcatIs DEF Lists
  <2> HIDE DEF each, u, m, n
  <2>2. /\ each(u) \in Seq(Lists) /\ Len(each(u)) = m + n
        /\ \A j \in 1..(m + n) : each(u)[j] = one(u[j])
    BY <1>3, <2>1
  <2>3. /\ each(s) \in Seq(Lists) /\ Len(each(s)) = m /\ \A j \in 1..m : each(s)[j] = one(s[j])
        /\ each(t) \in Seq(Lists) /\ Len(each(t)) = n /\ \A j \in 1..n : each(t)[j] = one(t[j])
    BY <1>3, <1>7 DEF m, n
  <2>4. /\ c \in Seq(Lists) /\ Len(c) = m + n
        /\ \A i \in 1..m : c[i] = each(s)[i]
        /\ \A i \in 1..n : c[m + i] = each(t)[i]
    <3>1. PICK x \in Seq(Lists), y \in Seq(Lists) :
            x = each(s) /\ y = each(t) /\ Len(x) = m /\ Len(y) = n
      BY <2>3
    <3>2. /\ x \o y \in Seq(Lists) /\ Len(x \o y) = Len(x) + Len(y)
          /\ \A i \in 1..Len(x) : (x \o y)[i] = x[i]
          /\ \A i \in 1..Len(y) : (x \o y)[Len(x) + i] = y[i]
      BY ConcatIs
    <3> QED BY <3>1, <3>2
  <2> HIDE DEF c
  <2>5. ASSUME NEW j \in 1..(m + n) PROVE each(u)[j] = c[j]
    <3>1. each(u)[j] = one(u[j]) BY <2>2
    <3>2. CASE j <= m
      <4>1. j \in 1..m BY <2>1, <3>2
      <4> QED BY <2>1, <2>3, <2>4, <3>1, <4>1
    <3>3. CASE ~(j <= m)
      <4> DEFINE i == j - m
      <4>1. i \in 1..n /\ m + i = j BY <2>1, <3>3
      <4> HIDE DEF i
      <4>2. u[m + i] = t[i] /\ c[m + i] = one(t[i]) BY <2>1, <2>3, <2>4, <4>1
      <4> QED BY <3>1, <4>1, <4>2
    <3> QED BY <3>2, <3>3
  <2>6. each(u) = c
    <3> DEFINE v == each(u)
    <3>1. v \in Seq(Lists) /\ Len(v) = m + n /\ \A j \in 1..(m + n) : v[j] = c[j] BY <2>2, <2>5
    <3> HIDE DEF v
    <3>2. v = c BY <2>4, <3>1, SeqEqual
    <3> QED BY <3>2 DEF v
  <2>7. FlattenSeq(c) = FlattenSeq(each(s)) \o FlattenSeq(each(t))
    BY <2>3, FlattenConcat DEF c, Lists
  <2> QED BY <1>1, <2>6, <2>7 DEF u
<1> QED BY <1>4, <1>5, <1>6, <1>7 DEF one


(* Two lists that show the same; the same and with a last spelling, to     *)
(* which a ## may paste.                                                   *)
Alike(s, b) == s \in Lists /\ b \in Lists /\ Shown(s) = Shown(b)
Joined(s, b) == Alike(s, b) /\ s # <<>> /\ b # <<>> /\ Last(s) = Last(b)

LEMMA AlikeConcat ==
  ASSUME NEW s, NEW b, NEW t, NEW u, Alike(s, b), Alike(t, u)
  PROVE  Alike(s \o t, b \o u)
<1>1. s \in Lists /\ b \in Lists /\ t \in Lists /\ u \in Lists BY DEF Alike
<1>2. s \o t \in Lists /\ b \o u \in Lists BY <1>1, ConcatProperties DEF Lists
<1>3. Shown(s \o t) = Shown(s) \o Shown(t) /\ Shown(b \o u) = Shown(b) \o Shown(u)
  BY <1>1, ShownIs
<1> QED BY <1>2, <1>3 DEF Alike

LEMMA ListLast ==
  ASSUME NEW s \in Lists, NEW t \in Lists
  PROVE  /\ s \o t \in Lists
         /\ t # <<>> => s \o t # <<>> /\ Last(s \o t) = Last(t)
         /\ t = <<>> => s \o t = s
         /\ s # <<>> => s \o t # <<>>
         /\ s # <<>> => /\ Front(s) \in Lists /\ Last(s) \in Seq(Pieces)
                        /\ s = Front(s) \o <<Last(s)>> /\ <<Last(s)>> \in Lists
<1> DEFINE m == Len(s)
           n == Len(t)
<1>1. /\ s \in Seq(Seq(Pieces)) /\ t \in Seq(Seq(Pieces))
      /\ m \in Nat /\ n \in Nat /\ (m = 0 <=> s = <<>>) /\ (n = 0 <=> t = <<>>)
  BY DEF Lists
<1>2. /\ s \o t \in Seq(Seq(Pieces)) /\ Len(s \o t) = m + n
      /\ \A i \in 1..n : (s \o t)[m + i] = t[i]
  BY <1>1, ConcatIs
<1>3. t # <<>> => s \o t # <<>> /\ Last(s \o t) = Last(t)
  <2> SUFFICES ASSUME t # <<>> PROVE s \o t # <<>> /\ Last(s \o t) = Last(t)
    OBVIOUS
  <2> DEFINE c == s \o t
  <2>1. n \in 1..n /\ m + n # 0 BY <1>1
  <2>2. c[m + n] = t[n] BY <1>2, <2>1
  <2>3. Last(c) = c[Len(c)] /\ Last(t) = t[n] /\ Len(c) = m + n BY <1>2 DEF Last
  <2> HIDE DEF c, m, n
  <2>4. Last(c) = Last(t) BY <2>2, <2>3
  <2>5. c # <<>> BY <2>1, <2>3
  <2> QED BY <2>4, <2>5 DEF c
<1>4. s # <<>> => s \o t # <<>>
  <2> SUFFICES ASSUME s # <<>> PROVE s \o t # <<>>
    OBVIOUS
  <2>1. m + n # 0 BY <1>1
  <2> QED BY <1>2, <2>1
<1>5. t = <<>> => s \o t = s BY <1>1, ConcatEmptySeq
<1>6. s # <<>> => /\ Front(s) \in Lists /\ Last(s) \in Seq(Pieces)
                  /\ s = Front(s) \o <<Last(s)>> /\ <<Last(s)>> \in Lists
  <2> SUFFICES ASSUME s # <<>>
               PROVE  /\ Front(s) \in Lists /\ Last(s) \in Seq(Pieces)
                      /\ s = Front(s) \o <<Last(s)>> /\ <<Last(s)>> \in Lists
    OBVIOUS
  <2>1. /\ Front(s) \in Seq(Seq(Pieces)) /\ Len(Front(s)) = m - 1
        /\ Last(s) \in Seq(Pieces) /\ Last(s) = s[m] /\ m \in Nat \ {0}
        /\ \A i \in 1..(m - 1) : Front(s)[i] = s[i]
    BY <1>1, FrontIn
  <2>2. PICK f \in Seq(Seq(Pieces)), l \in Seq(Pieces) : f = Front(s) /\ l = Last(s) BY <2>1
  <2> HIDE DEF m
  <2>3. f \o <<l>> = s
    <3>1. <<l>> \in Seq(Seq(Pieces)) /\ Len(<<l>>) = 1 /\ <<l>>[1] = l OBVIOUS
    <3>2. /\ f \o <<l>> \in Seq(Seq(Pieces)) /\ Len(f \o <<l>>) = (m - 1) + 1
          /\ \A i \in 1..(m - 1) : (f \o <<l>>)[i] = f[i]
          /\ \A i \in 1..1 : (f \o <<l>>)[(m - 1) + i] = <<l>>[i]
      BY <2>1, <2>2, <3>1, ConcatIs
    <3>3. \A i \in 1..m : (f \o <<l>>)[i] = s[i]
      <4> TAKE i \in 1..m
      <4>1. CASE i = m
        <5>1. (f \o <<l>>)[(m - 1) + 1] = l BY <3>1, <3>2
        <5>2. (m - 1) + 1 = m BY <2>1
        <5> QED BY <2>1, <2>2, <4>1, <5>1, <5>2
      <4>2. CASE i # m
        <5>1. i \in 1..(m - 1) BY <2>1, <4>2
        <5> QED BY <2>1, <2>2, <3>2, <5>1
      <4> QED BY <4>1, <4>2
    <3>4. Len(f \o <<l>>) = Len(s) BY <2>1, <3>2 DEF m
    <3> DEFINE c == f \o <<l>>
    <3>5. c \in Seq(Seq(Pieces)) /\ Len(c) = Len(s) /\ \A i \in 1..Len(c) : c[i] = s[i]
      BY <3>2, <3>3, <3>4 DEF m
    <3> HIDE DEF c
    <3>6. c = s BY <1>1, <3>5, SeqEqual
    <3> QED BY <3>6 DEF c
  <2>4. <<l>> \in Seq(Seq(Pieces)) OBVIOUS
  <2> QED BY <2>2, <2>3, <2>4 DEF Lists
<1> QED BY <1>2, <1>3, <1>4, <1>5, <1>6 DEF Lists

(* What is behind two joined lists leaves them joined.                     *)
LEMMA JoinedMore ==
  ASSUME NEW s, NEW b, NEW t \in Lists, Joined(s, b)
  PROVE  Joined(s \o t, b \o t)
<1>1. Alike(s, b) /\ s # <<>> /\ b # <<>> /\ Last(s) = Last(b) /\ s \in Lists /\ b \in Lists
  BY DEF Joined, Alike
<1>2. Alike(s \o t, b \o t)
  <2>1. Alike(t, t) BY DEF Alike
  <2> QED BY <1>1, <2>1, AlikeConcat
<1>3. s \o t # <<>> /\ b \o t # <<>> BY <1>1, ListLast
<1>4. Last(s \o t) = Last(b \o t)
  <2>1. CASE t = <<>>
    <3>1. s \o t = s /\ b \o t = b BY <1>1, <2>1, ListLast
    <3> QED BY <1>1, <3>1
  <2>2. CASE t # <<>>
    <3>1. Last(s \o t) = Last(t) /\ Last(b \o t) = Last(t) BY <1>1, <2>2, ListLast
    <3> QED BY <3>1
  <2> QED BY <2>1, <2>2
<1> QED BY <1>2, <1>3, <1>4 DEF Joined

(* What is before two joined lists leaves them joined.                     *)
LEMMA JoinedBehind ==
  ASSUME NEW s, NEW b, NEW t, NEW u, Alike(s, b), Joined(t, u)
  PROVE  Joined(s \o t, b \o u)
<1>1. /\ s \in Lists /\ b \in Lists /\ Alike(t, u) /\ t \in Lists /\ u \in Lists
      /\ t # <<>> /\ u # <<>> /\ Last(t) = Last(u)
  BY DEF Joined, Alike
<1>2. Alike(s \o t, b \o u) BY <1>1, AlikeConcat
<1>3. s \o t # <<>> /\ b \o u # <<>> /\ Last(s \o t) = Last(t) /\ Last(b \o u) = Last(u)
  BY <1>1, ListLast
<1> QED BY <1>1, <1>2, <1>3 DEF Joined

(* Without its last spelling each of two joined lists shows the same.      *)
LEMMA JoinedFront ==
  ASSUME NEW s, NEW b, Joined(s, b)
  PROVE  Alike(Front(s), Front(b))
<1>1. s \in Lists /\ b \in Lists /\ s # <<>> /\ b # <<>> /\ Last(s) = Last(b) /\ Shown(s) = Shown(b)
  BY DEF Joined, Alike
<1>2. /\ Front(s) \in Lists /\ s = Front(s) \o <<Last(s)>> /\ <<Last(s)>> \in Lists
      /\ Front(b) \in Lists /\ b = Front(b) \o <<Last(b)>>
  BY <1>1, ListLast
<1> DEFINE f == Front(s)
           g == Front(b)
           l == <<Last(s)>>
<1>3. s = f \o l /\ b = g \o l /\ f \in Lists /\ g \in Lists /\ l \in Lists BY <1>1, <1>2
<1> HIDE DEF f, g, l
<1>4. Shown(s) = Shown(f) \o Shown(l) /\ Shown(b) = Shown(g) \o Shown(l) BY <1>3, ShownIs
<1>5. Shown(f) \in Lists /\ Shown(g) \in Lists /\ Shown(l) \in Lists BY <1>3, ShownIs
<1>6. Shown(f) \o Shown(l) = Shown(g) \o Shown(l) BY <1>1, <1>4
<1>7. Shown(f) = Shown(g)
  <2>1. \A x, y, v \in Seq(Seq(Pieces)) : x \o v = y \o v => x = y BY ConcatSimplifications
  <2> QED BY <1>5, <1>6, <2>1 DEF Lists
<1> QED BY <1>3, <1>7 DEF Alike, f, g


-----------------------------------------------------------------------------
(* What is pasted, part by part                                            *)

(* What is not yet pasted of the part p, when i is next.                   *)
Coming(p, i) == SubSeq(subst, i, End[p])

LEMMA EndIs ==
  ASSUME IInv, phase = "paste"
  PROVE  /\ Len(repl) \in Nat /\ DOMAIN repl = 1..Len(repl)
         /\ Len(subst) \in Nat /\ subst \in Seq(Token)
         /\ Parts \in Seq(Seq(Token)) /\ Len(Parts) = Len(repl)
         /\ End[0] = 0 /\ End[Len(repl)] = Len(subst)
         /\ \A p \in 0..Len(repl) : End[p] \in 0..Len(subst)
         /\ \A p, q \in 0..Len(repl) : p <= q => End[p] <= End[q]
         /\ \A p \in 1..Len(repl) :
              /\ Parts[p] = Becomes(p, args) /\ Parts[p] \in Seq(Token)
              /\ End[p] = End[p - 1] + Len(Parts[p]) /\ End[p - 1] \in 0..Len(subst)
              /\ \A k \in 1..Len(Parts[p]) : subst[End[p - 1] + k] = Parts[p][k]
<1>1. /\ Parts \in Seq(Seq(Token)) /\ Len(Parts) = Len(repl)
      /\ \A p \in 1..Len(repl) : Parts[p] = Becomes(p, args)
      /\ End \in [0..Len(repl) -> Nat] /\ Ends(End, Parts, subst)
  BY PartsAre
<1>2. /\ Len(repl) \in Nat /\ DOMAIN repl = 1..Len(repl) /\ subst \in Seq(Token)
      /\ Len(subst) \in Nat
  BY DEF IInv, Typed
<1>3. \A p, q \in 0..Len(repl) : p <= q => End[p] <= End[q]
  <2> SUFFICES ASSUME NEW p \in 0..Len(repl), NEW q \in 0..Len(repl), p <= q
               PROVE  End[p] <= End[q]
    OBVIOUS
  <2>1. p \in 0..Len(Parts) /\ q \in 0..Len(Parts) /\ End \in [0..Len(Parts) -> Nat] BY <1>1
  <2> QED BY <1>1, <2>1, EndsGrow
<1>4. End[0] = 0 /\ End[Len(repl)] = Len(subst) BY <1>1 DEF Ends
<1>5. \A p \in 0..Len(repl) : End[p] \in 0..Len(subst)
  <2> TAKE p \in 0..Len(repl)
  <2>1. Len(repl) \in 0..Len(repl) /\ p <= Len(repl) BY <1>2
  <2>2. End[p] <= Len(subst) BY <1>3, <1>4, <2>1
  <2>3. End[p] \in Nat BY <1>1
  <2> QED BY <1>2, <2>2, <2>3
<1>6. \A p \in 1..Len(repl) :
        /\ Parts[p] = Becomes(p, args) /\ Parts[p] \in Seq(Token)
        /\ End[p] = End[p - 1] + Len(Parts[p]) /\ End[p - 1] \in 0..Len(subst)
        /\ \A k \in 1..Len(Parts[p]) : subst[End[p - 1] + k] = Parts[p][k]
  <2> TAKE p \in 1..Len(repl)
  <2>1. p - 1 \in 0..Len(repl) BY <1>2
  <2>2. End[p - 1] \in 0..Len(subst) BY <1>5, <2>1
  <2>3. Parts[p] \in Seq(Token) BY <1>1
  <2> QED BY <1>1, <2>2, <2>3 DEF Ends
<1> QED BY <1>1, <1>2, <1>3, <1>4, <1>5, <1>6

(* What is known of one part, and of the list with it. *)
LEMMA PartIs ==
  ASSUME IInv, phase = "paste", NEW p \in 1..Len(repl)
  PROVE  /\ p \in DOMAIN repl /\ Parts[p] = Becomes(p, args) /\ MarkedBefore(Len(repl) + 1)
         /\ args \in Arguments /\ Typed /\ repl \in Seq(ReplToken) /\ Parts[p] \in Seq(Token)
         /\ End[p] = End[p - 1] + Len(Parts[p]) /\ End[p - 1] \in Nat /\ Len(Parts[p]) \in Nat
         /\ \A j \in 1..Len(Parts[p]) : subst[End[p - 1] + j] = Parts[p][j]
<1>1. Typed /\ MarkedBefore(Len(repl) + 1) BY DEF IInv, Listed
<1>2. args \in Arguments /\ repl \in Seq(ReplToken) BY <1>1 DEF Typed
<1>3. /\ DOMAIN repl = 1..Len(repl) /\ Len(subst) \in Nat
      /\ Parts[p] = Becomes(p, args) /\ Parts[p] \in Seq(Token)
      /\ End[p] = End[p - 1] + Len(Parts[p]) /\ End[p - 1] \in 0..Len(subst)
      /\ \A j \in 1..Len(Parts[p]) : subst[End[p - 1] + j] = Parts[p][j]
  BY EndIs
<1>4. Len(Parts[p]) \in Nat BY <1>3
<1>5. End[p - 1] \in Nat BY <1>3
<1> QED BY <1>1, <1>2, <1>3, <1>4, <1>5, Zenon

LEMMA ComingIs ==
  ASSUME IInv, phase = "paste", NEW p \in 0..Len(repl), NEW i \in 1..(End[p] + 1)
  PROVE  /\ Coming(p, i) \in Seq(Token)
         /\ i = End[p] + 1 => Coming(p, i) = <<>>
         /\ i <= End[p] =>
              /\ i \in 1..Len(subst) /\ subst[i] \in Token
              /\ Coming(p, i) = <<subst[i]>> \o Coming(p, i + 1)
         /\ p # 0 /\ i = End[p - 1] + 1 => Coming(p, i) = Parts[p]
<1>1. /\ End[p] \in 0..Len(subst) /\ Len(subst) \in Nat /\ subst \in Seq(Token) BY EndIs
<1>2. i \in Int /\ End[p] \in Int BY <1>1
<1>3. \A k \in i..End[p] : subst[k] \in Token BY <1>1
<1> DEFINE c == Coming(p, i)
<1>4. /\ c \in Seq(Token) /\ Len(c) = IF i <= End[p] THEN End[p] - i + 1 ELSE 0
      /\ \A k \in 1..(End[p] - i + 1) : c[k] = subst[i + k - 1]
  BY <1>2, <1>3, SubSeqProperties DEF Coming
<1>5. i = End[p] + 1 => c = <<>> BY <1>1, <1>2, SubSeqEmpty DEF Coming
<1>6. i <= End[p] =>
        /\ i \in 1..Len(subst) /\ subst[i] \in Token
        /\ c = <<subst[i]>> \o Coming(p, i + 1)
  <2> SUFFICES ASSUME i <= End[p]
               PROVE  /\ i \in 1..Len(subst) /\ subst[i] \in Token
                      /\ c = <<subst[i]>> \o Coming(p, i + 1)
    OBVIOUS
  <2>1. i \in 1..Len(subst) /\ End[p] \in i..Len(subst) BY <1>1
  <2>2. subst[i] \in Token BY <1>1, <2>1
  <2>3. SubSeq(subst, i, End[p]) = <<subst[i]>> \o SubSeq(subst, i + 1, End[p])
    BY <1>1, <2>1, SubSeqRecursiveFirst
  <2> QED BY <2>1, <2>2, <2>3 DEF Coming
<1>7. p # 0 /\ i = End[p - 1] + 1 => c = Parts[p]
  <2> SUFFICES ASSUME p # 0, i = End[p - 1] + 1 PROVE c = Parts[p]
    OBVIOUS
  <2>1. p \in 1..Len(repl) BY EndIs
  <2>2. /\ Parts[p] \in Seq(Token) /\ End[p] = End[p - 1] + Len(Parts[p])
        /\ End[p - 1] \in 0..Len(subst)
        /\ \A k \in 1..Len(Parts[p]) : subst[End[p - 1] + k] = Parts[p][k]
    BY <2>1, EndIs
  <2> DEFINE e == End[p - 1]
             n == Len(Parts[p])
  <2>3. /\ e \in Nat /\ n \in Nat /\ End[p] = e + n /\ i = e + 1
        /\ \A k \in 1..n : subst[e + k] = Parts[p][k]
    BY <1>1, <2>2
  <2> HIDE DEF c, e
  <2>4. Len(c) = n
    <3> HIDE DEF n
    <3> QED BY <1>4, <2>3
  <2>5. \A k \in 1..n : c[k] = Parts[p][k]
    <3> HIDE DEF n
    <3> TAKE k \in 1..n
    <3>1. k \in 1..(End[p] - i + 1) /\ i + k - 1 = e + k BY <2>3
    <3> QED BY <1>4, <2>3, <3>1
  <2> DEFINE q == Parts[p]
  <2>6. q \in Seq(Token) /\ Len(c) = Len(q) /\ \A k \in 1..Len(c) : c[k] = q[k] BY <2>2, <2>4, <2>5
  <2> HIDE DEF q, n
  <2>7. c = q BY <1>4, <2>6, SeqEqual
  <2> QED BY <2>7 DEF q
<1> QED BY <1>4, <1>5, <1>6, <1>7


(* What a token of the list becomes is spelled as what C puts in its place, *)
(* or is a placemarker where C puts nothing.                               *)
Neutral(p) ==
  /\ Formal(p) /\ Spelling(Parts[p]) = <<<<>>>> /\ Replaced(p) = <<>>
  /\ ~Is(p + 1, "##") /\ ~Is(p - 1, "#") /\ (Is(p - 1, "##") => CommaOpt(p - 1))

LEMMA ListsAssociate ==
  ASSUME NEW a \in Lists, NEW b \in Lists, NEW c \in Lists
  PROVE  (a \o b) \o c = a \o (b \o c)
<1> DEFINE S == Seq(Pieces)
<1>1. a \in Seq(S) /\ b \in Seq(S) /\ c \in Seq(S) BY DEF Lists
<1> HIDE DEF S
<1> QED BY <1>1, ConcatAssociative

LEMMA SpellingFew ==
  ASSUME NEW tok \in Token
  PROVE  Spelling(<<tok>>) = <<tok.v>> /\ Spelling(<<>>) = <<>>
BY DEF Spelling

LEMMA PartSpelled ==
  ASSUME IInv, phase = "paste", AsInC, NEW p \in 1..Len(repl), ~Is(p, "#"), ~Is(p, "##")
  PROVE  Spelling(Parts[p]) = Replaced(p) \/ Neutral(p)
<1>1. /\ p \in DOMAIN repl /\ Parts[p] = Becomes(p, args) /\ MarkedBefore(Len(repl) + 1)
      /\ args \in Arguments /\ Typed /\ repl \in Seq(ReplToken)
  BY EndIs DEF IInv, Typed, Listed
<1>2. CASE ~Formal(p)
  <2>1. /\ Len(Becomes(p, args)) = 1 /\ Becomes(p, args)[1].v = <<repl[p].t>>
        /\ Becomes(p, args) \in Seq(Token)
    BY <1>1, <1>2, BecomesIs
  <2>2. Replaced(p) = <<<<repl[p].t>>>> BY <1>2 DEF Replaced
  <2> DEFINE b == Becomes(p, args)
             v == <<repl[p].t>>
  <2>3. b \in Seq(Token) /\ Len(b) = 1 /\ b[1].v = v /\ Replaced(p) = <<v>> /\ Parts[p] = b
    BY <1>1, <2>1, <2>2
  <2> HIDE DEF b, v
  <2>4. Spelling(b) \in Lists /\ Len(Spelling(b)) = 1 /\ Spelling(b)[1] = v BY <2>3, SpellingIs
  <2>5. Spelling(b) = <<v>> BY <2>4 DEF Lists
  <2> QED BY <2>3, <2>5
<1>3. CASE Formal(p)
  <2> DEFINE arg == args[repl[p].t]
             each(list) == [k \in DOMAIN list |-> <<list[k]>>]
             before == Is(p - 1, "##")
             behind == Is(p + 1, "##")
             sharp == Is(p - 1, "#")
             opt == CommaOpt(p - 1)
  <2>1. arg \in Args \cup {<<>>} BY <1>1, <1>3 DEF Formal, Formals, Arguments
  <2>2. arg \in Seq(Pieces) /\ Scanned(arg) \in Seq(Pieces) /\ (arg = <<>> => Scanned(arg) = <<>>)
    BY <2>1, ArgumentTypes
  <2>3. macro # "object"
    <3>1. repl[p] \in ReplToken BY <1>1
    <3> QED BY <1>3, <3>1 DEF ReplToken, Spelled, Formal, Formals
  <2>4. Replaced(p) = IF sharp THEN Stringized(arg)
                      ELSE IF (before \/ behind) /\ ~opt
                           THEN (IF arg = <<>> THEN <<arg>> ELSE each(arg))
                      ELSE each(Scanned(arg))
    BY <1>3, <2>3 DEF Replaced, Operand
  <2>5. repl[p].cat = IF behind THEN "unscanned" ELSE IF sharp THEN "stringized"
                      ELSE IF before /\ ~opt THEN "unscanned" ELSE "scanned"
    BY <1>1, <1>3, FinalMarks
  <2>6. (sharp => ~behind) /\ (opt => ~behind /\ before /\ ~sharp)
    <3>1. sharp => ~behind
      <4>1. SUFFICES ASSUME sharp PROVE ~behind
        OBVIOUS
      <4>2. p - 1 \in DOMAIN repl /\ (p - 1) + 2 = p + 1 BY <4>1, EndIs DEF Is
      <4>3. ~Is((p - 1) + 2, "##") BY <4>1, <4>2 DEF AsInC
      <4> QED BY <4>2, <4>3
    <3>2. opt => ~behind /\ before /\ ~sharp
      <4>1. SUFFICES ASSUME opt PROVE ~behind /\ before /\ ~sharp
        OBVIOUS
      <4>2. before /\ ~sharp BY <4>1 DEF CommaOpt, Is
      <4>3. p - 1 \in DOMAIN repl /\ (p - 1) + 2 = p + 1 BY <4>2, EndIs DEF Is
      <4>4. ~Is((p - 1) + 2, "##") BY <4>1, <4>3 DEF AsInC
      <4> QED BY <4>2, <4>3, <4>4
    <3> QED BY <3>1, <3>2
  <2>7. Parts[p] = Argument(p, args)
    <3>1. repl[p].cat \in {"stringized", "unscanned", "scanned"} BY <2>5
    <3> QED BY <1>1, <3>1 DEF Becomes
  <2>8. ASSUME NEW s \in Seq(Pieces) PROVE Spelling(Tokens(s)) = each(s)
    <3>1. /\ Tokens(s) \in Seq(Token) /\ Len(Tokens(s)) = Len(s)
          /\ \A k \in 1..Len(s) : Tokens(s)[k] = New(<<s[k]>>)
      BY <1>1, <2>8, TokensIs
    <3>2. DOMAIN s = 1..Len(s) /\ DOMAIN Tokens(s) = 1..Len(s) BY <3>1
    <3>3. \A k \in 1..Len(s) : Tokens(s)[k].v = <<s[k]>>
      <4> TAKE k \in 1..Len(s)
      <4>1. s[k] \in Pieces BY <2>8
      <4>2. <<s[k]>> \in Seq(Pieces) BY <4>1
      <4>3. New(<<s[k]>>).v = <<s[k]>> BY <1>1, <4>2, NewIs
      <4> QED BY <3>1, <4>3
    <3> QED BY <3>2, <3>3 DEF Spelling
  <2>9. Placemarker \in Token /\ Placemarker.v = <<>>
    <3>1. <<>> \in Seq(Pieces) OBVIOUS
    <3> QED BY <1>1, <3>1, NewIs DEF Placemarker
  <2> HIDE DEF arg, each, before, behind, sharp, opt
  <2>10. CASE sharp
    <3>1. repl[p].cat = "stringized" BY <2>5, <2>6, <2>10
    <3> DEFINE v == <<"str">> \o arg
    <3>2. v \in Seq(Pieces)
      <4>1. <<"str">> \in Seq(Pieces) BY DEF Pieces
      <4> QED BY <2>2, <4>1, ConcatIs
    <3>3. Stringized(arg) = <<v>> /\ Stringized(arg)[1] = v BY DEF Stringized
    <3>4. Parts[p] = <<New(Stringized(arg)[1])>> BY <2>7, <3>1 DEF Argument, arg
    <3> HIDE DEF v
    <3>5. New(v) \in Token /\ New(v).v = v BY <1>1, <3>2, NewIs
    <3>6. Spelling(<<New(v)>>) = <<v>> BY <3>5, SpellingFew
    <3> QED BY <2>4, <2>10, <3>3, <3>4, <3>6
  <2>11. CASE ~sharp /\ (before \/ behind) /\ ~opt
    <3>1. repl[p].cat = "unscanned" BY <2>5, <2>11
    <3>2. Replaced(p) = IF arg = <<>> THEN <<arg>> ELSE each(arg) BY <2>4, <2>11
    <3>3. CASE arg = <<>>
      <4>1. Parts[p] = <<Placemarker>> BY <2>7, <3>1, <3>3 DEF Argument, arg
      <4>2. Spelling(<<Placemarker>>) = <<<<>>>> BY <2>9, SpellingFew
      <4> QED BY <3>2, <3>3, <4>1, <4>2
    <3>4. CASE arg # <<>>
      <4>1. Parts[p] = Tokens(arg) BY <2>7, <3>1, <3>4 DEF Argument, arg
      <4> QED BY <2>2, <2>8, <3>2, <3>4, <4>1
    <3> QED BY <3>3, <3>4
  <2>12. CASE ~sharp /\ ~((before \/ behind) /\ ~opt)
    <3>1. repl[p].cat = "scanned" BY <2>5, <2>6, <2>12
    <3>2. Replaced(p) = each(Scanned(arg)) BY <2>4, <2>12
    <3>3. CASE arg = <<>>
      <4>1. Parts[p] = <<Placemarker>> BY <2>7, <3>1, <3>3 DEF Argument, arg
      <4>2. Spelling(<<Placemarker>>) = <<<<>>>> BY <2>9, SpellingFew
      <4>3. each(<<>>) = <<>> BY DEF each
      <4>4. Replaced(p) = <<>> BY <2>2, <3>2, <3>3, <4>3
      <4>5. ~behind /\ (before => opt) BY <2>6, <2>12
      <4> QED BY <1>3, <2>12, <4>1, <4>2, <4>4, <4>5 DEF Neutral, behind, sharp, before, opt
    <3>4. CASE arg # <<>>
      <4>1. Parts[p] = Tokens(Scanned(arg)) BY <2>7, <3>1, <3>4 DEF Argument, arg
      <4> QED BY <2>2, <2>8, <3>2, <4>1
    <3> QED BY <3>3, <3>4
  <2> QED BY <2>10, <2>11, <2>12
<1> QED BY <1>2, <1>3


(* A token of the list that is pasted is of one part only. *)
Within(p, k) == End[p - 1] < k /\ k <= End[p]
LEMMA PartOf ==
  ASSUME IInv, phase = "paste", NEW k \in 1..Len(subst)
  PROVE  /\ \E p \in 1..Len(repl) : Within(p, k)
         /\ \A p, q \in 1..Len(repl) : Within(p, k) /\ Within(q, k) => p = q
<1>1. /\ Len(repl) \in Nat /\ subst \in Seq(Token) /\ Parts \in Seq(Seq(Token))
      /\ Len(Parts) = Len(repl) /\ Len(subst) \in Nat
      /\ \A p, q \in 0..Len(repl) : p <= q => End[p] <= End[q]
      /\ \A p \in 0..Len(repl) : End[p] \in 0..Len(subst)
      /\ \A p \in 1..Len(repl) :
           Parts[p] \in Seq(Token) /\ End[p] = End[p - 1] + Len(Parts[p])
  BY EndIs
<1>2. \E p \in 1..Len(repl) : Within(p, k)
  <2>1. End \in [0..Len(Parts) -> Nat] /\ Ends(End, Parts, subst) BY <1>1, PartsAre
  <2>2. Covered(End, Parts, subst) BY <1>1, <2>1, EndsCover
  <2>8. \E p \in 1..Len(Parts) : \E j \in 1..Len(Parts[p]) : k = End[p - 1] + j
    BY <2>2, Zenon DEF Covered
  <2>3. PICK p \in 1..Len(repl) : \E j \in 1..Len(Parts[p]) : k = End[p - 1] + j
    BY <1>1, <2>8
  <2>4. PICK j \in 1..Len(Parts[p]) : k = End[p - 1] + j BY <2>3
  <2>5. End[p] = End[p - 1] + Len(Parts[p]) /\ End[p - 1] \in Nat /\ Len(Parts[p]) \in Nat
    BY PartIs
  <2>6. j >= 1 /\ j <= Len(Parts[p]) BY <2>4, <2>5
  <2>7. End[p - 1] < k /\ k <= End[p] BY <2>4, <2>5, <2>6
  <2> QED BY <2>7 DEF Within
<1>3. ASSUME NEW p \in 1..Len(repl), NEW q \in 1..Len(repl), Within(p, k), Within(q, k)
      PROVE  ~(p < q)
  <2> SUFFICES ASSUME p < q PROVE FALSE
    OBVIOUS
  <2>1. p \in 0..Len(repl) /\ q - 1 \in 0..Len(repl) /\ p <= q - 1 BY <1>1
  <2>2. End[p] <= End[q - 1] /\ End[p] \in Int /\ End[q - 1] \in Int BY <1>1, <2>1
  <2>3. k <= End[p] /\ End[q - 1] < k BY <1>3 DEF Within
  <2> QED BY <2>2, <2>3
<1>4. \A p, q \in 1..Len(repl) : Within(p, k) /\ Within(q, k) => p = q
  <2> SUFFICES ASSUME NEW p \in 1..Len(repl), NEW q \in 1..Len(repl), Within(p, k), Within(q, k)
               PROVE  p = q
    OBVIOUS
  <2>1. ~(p < q) /\ ~(q < p) BY <1>3
  <2> QED BY <1>1, <2>1
<1> QED BY <1>2, <1>4

(* A token that becomes nothing is not pasted, and C puts nothing there.   *)
LEMMA EmptyPart ==
  ASSUME IInv, phase = "paste", AsInC, NEW p \in 1..Len(repl), End[p] = End[p - 1],
         NEW before \in Lists
  PROVE  Appended(before, p) = before /\ ~Is(p, "##")
<1>1. /\ p \in DOMAIN repl /\ Parts[p] = Becomes(p, args) /\ MarkedBefore(Len(repl) + 1)
      /\ args \in Arguments /\ Typed /\ repl \in Seq(ReplToken) /\ Parts[p] \in Seq(Token)
      /\ End[p] = End[p - 1] + Len(Parts[p]) /\ End[p - 1] \in Nat
      /\ DOMAIN repl = 1..Len(repl) /\ Len(repl) \in Nat
  <2>1. DOMAIN repl = 1..Len(repl) /\ Len(repl) \in Nat BY EndIs
  <2> QED BY <2>1, PartIs
<1>2. Len(Parts[p]) = 0 BY <1>1
<1>3. CASE Is(p, "#")
  <2>1. repl[p].t = "#" BY <1>3 DEF Is
  <2>2. Appended(before, p) = before BY <2>1 DEF Appended
  <2> QED BY <2>1, <2>2 DEF Is
<1>4. CASE ~Is(p, "#")
  <2>1. Formal(p)
    <3>1. ~Formal(p) => Len(Becomes(p, args)) = 1 BY <1>1, <1>4, BecomesIs
    <3> QED BY <1>1, <1>2, <3>1
  <2>2. repl[p].cat = "scanned" /\ args[repl[p].t] # <<>>
    <3>1. repl[p].cat # "scanned" \/ args[repl[p].t] = <<>> => Len(Becomes(p, args)) >= 1
      BY <1>1, <2>1, BecomesIs
    <3>2. ~(Len(Becomes(p, args)) >= 1) BY <1>1, <1>2
    <3> QED BY <3>1, <3>2
  <2>3. ~Is(p, "##") /\ repl[p].t \notin {"#", "##"} BY <2>1 DEF Is, Formal, Formals
  <2>4. Replaced(p) = <<>>
    <3>1. Spelling(Parts[p]) = Replaced(p) \/ Neutral(p) BY <1>4, <2>3, PartSpelled
    <3>2. Spelling(Parts[p]) \in Lists /\ Len(Spelling(Parts[p])) = 0 BY <1>1, <1>2, SpellingIs
    <3>3. Spelling(Parts[p]) = <<>> BY <3>2 DEF Lists
    <3> QED BY <3>1, <3>3 DEF Neutral
  <2>5. ~Is(p - 1, "#") /\ (Is(p - 1, "##") => CommaOpt(p - 1))
    <3>1. repl[p].cat =
            IF Is(p + 1, "##") THEN "unscanned"
            ELSE IF Is(p - 1, "#") THEN "stringized"
            ELSE IF Is(p - 1, "##") /\ ~CommaOpt(p - 1) THEN "unscanned" ELSE "scanned"
      BY <1>1, <2>1, FinalMarks
    <3> QED BY <2>2, <3>1
  <2>6. CommaOpt(p - 1) => args.given
    <3> SUFFICES ASSUME CommaOpt(p - 1) PROVE args.given
      OBVIOUS
    <3>1. (p - 1) + 1 = p BY <1>1
    <3>2. repl[p].t = "y" BY <3>1 DEF CommaOpt, Is
    <3>3. args.y # <<>> BY <2>2, <3>2
    <3> QED BY <1>1, <3>3 DEF Arguments
  <2>7. before \o Replaced(p) = before BY <2>4, ConcatEmptySeq DEF Lists
  <2> QED BY <2>3, <2>5, <2>6, <2>7 DEF Appended
<1> QED BY <1>3, <1>4


-----------------------------------------------------------------------------
(* How far the result is                                                   *)

(* What C says of the list up to each of its tokens. *)
Reference(B) ==
  B[0] = <<>> /\ \A p \in 1..Len(repl) : B[p] = Appended(B[p - 1], p)

(* The last token that was pasted is of the part p; before the first one   *)
(* is 0.                                                                   *)
ReachedIn(p, i) == IF p = 0 THEN i = 1 ELSE Within(p, i - 1)

(* With what is to come of the part, the list shows what C says of it, and *)
(* where a ## follows it also ends as C says.                              *)
Progress(B, p, i, list) ==
  /\ Alike(Spelling(list \o Coming(p, i)), B[p])
  /\ Is(p + 1, "##") => Joined(Spelling(list \o Coming(p, i)), B[p])
  /\ Is(p, "##") => CommaOpt(p) /\ args.given
InProgress(B, i, list) ==
  \A p \in 0..Len(repl) : ReachedIn(p, i) => Progress(B, p, i, list)

LEMMA EmptiesBetween ==
  ASSUME IInv, phase = "paste", AsInC, NEW B, Reference(B), NEW p \in 0..Len(repl),
         NEW q \in 0..Len(repl), p <= q, End[p] = End[q], B[p] \in Lists
  PROVE  B[q] = B[p] /\ \A m \in (p + 1)..q : End[m] = End[m - 1] /\ ~Is(m, "##")
<1> DEFINE T == {d \in 0..(q - p) : B[p + d] = B[p]}
<1>1. /\ Len(repl) \in Nat /\ q - p \in Nat /\ p \in Nat /\ q \in Nat
      /\ \A m, n \in 0..Len(repl) : m <= n => End[m] <= End[n]
      /\ \A m \in 0..Len(repl) : End[m] \in Int
  BY EndIs
<1>2. ASSUME NEW m \in (p + 1)..q
      PROVE  /\ m \in 1..Len(repl) /\ B[m] = Appended(B[m - 1], m)
             /\ End[m] = End[m - 1]
  <2>1. m \in 1..Len(repl) /\ m \in 0..Len(repl) /\ m - 1 \in 0..Len(repl) /\ p <= m - 1
        /\ m - 1 <= m /\ m <= q
    BY <1>1
  <2>2. End[p] <= End[m - 1] /\ End[m - 1] <= End[m] /\ End[m] <= End[q] BY <1>1, <2>1
  <2>3. End[m] = End[m - 1] BY <1>1, <2>1, <2>2
  <2> QED BY <2>1, <2>3 DEF Reference
<1>3. 0 \in T
  <2>1. p + 0 = p BY <1>1
  <2> QED BY <1>1, <2>1
<1>4. \A d \in 0..(q - p - 1) : d \in T => d + 1 \in T
  <2> SUFFICES ASSUME NEW d \in 0..(q - p - 1), d \in T PROVE d + 1 \in T
    OBVIOUS
  <2> DEFINE m == p + d + 1
  <2>1. m \in (p + 1)..q /\ m - 1 = p + d /\ m = p + (d + 1) /\ d + 1 \in 0..(q - p) BY <1>1
  <2>2. B[p + d] = B[p] OBVIOUS
  <2> HIDE DEF m
  <2>3. /\ m \in 1..Len(repl) /\ B[m] = Appended(B[m - 1], m)
        /\ End[m] = End[m - 1]
    BY <1>2, <2>1
  <2>4. B[m - 1] = B[p] BY <2>1, <2>2
  <2>5. Appended(B[p], m) = B[p] BY <2>3, EmptyPart
  <2>6. B[m] = B[p] BY <2>3, <2>4, <2>5
  <2> QED BY <2>1, <2>6
<1> HIDE DEF T
<1>5. q - p \in T
  <2>1. \A d \in 0..(q - p) : d \in T BY <1>1, <1>3, <1>4, UpTo
  <2> QED BY <1>1, <2>1
<1>6. B[q] = B[p]
  <2>1. p + (q - p) = q BY <1>1
  <2> QED BY <1>5, <2>1 DEF T
<1>7. \A m \in (p + 1)..q : End[m] = End[m - 1] /\ ~Is(m, "##")
  <2> TAKE m \in (p + 1)..q
  <2>1. m \in 1..Len(repl) /\ End[m] = End[m - 1] BY <1>2
  <2> QED BY <2>1, EmptyPart
<1> QED BY <1>6, <1>7

(* What is before a ## becomes something. *)
LEMMA SomethingBefore ==
  ASSUME IInv, phase = "paste", NEW p \in 1..Len(repl), Is(p + 1, "##")
  PROVE  End[p] # End[p - 1]
<1>1. /\ p \in DOMAIN repl /\ Parts[p] = Becomes(p, args) /\ MarkedBefore(Len(repl) + 1)
      /\ args \in Arguments /\ Typed /\ repl \in Seq(ReplToken) /\ Parts[p] \in Seq(Token)
      /\ End[p] = End[p - 1] + Len(Parts[p]) /\ End[p - 1] \in Nat
      /\ Len(repl) \in Nat /\ SharpsBefore(Len(repl) + 1)
  <2>1. /\ MarkedBefore(Len(repl) + 1) /\ SharpsBefore(Len(repl) + 1)
        /\ args \in Arguments /\ Typed /\ repl \in Seq(ReplToken)
    BY DEF IInv, Typed, Listed
  <2>2. /\ Parts[p] = Becomes(p, args) /\ Parts[p] \in Seq(Token)
        /\ End[p] = End[p - 1] + Len(Parts[p]) /\ End[p - 1] \in 0..Len(subst)
        /\ Len(repl) \in Nat /\ DOMAIN repl = 1..Len(repl) /\ Len(subst) \in Nat
    BY EndIs
  <2>3. p \in DOMAIN repl /\ End[p - 1] \in Nat BY <2>2
  <2> QED BY <2>1, <2>2, <2>3
<1>2. ~Is(p, "#")
  <2>1. ~Formal(p + 1) BY DEF Is, Formal, Formals
  <2>2. p < Len(repl) + 1 BY <1>1
  <2> QED BY <1>1, <2>1, <2>2 DEF SharpsBefore
<1>3. Len(Becomes(p, args)) >= 1
  <2>1. CASE Formal(p)
    <3>1. repl[p].cat # "scanned" BY <1>1, <2>1, FinalMarks
    <3> QED BY <1>1, <2>1, <3>1, BecomesIs
  <2>2. CASE ~Formal(p)
    <3>1. Len(Becomes(p, args)) = 1 BY <1>1, <1>2, <2>2, BecomesIs
    <3> QED BY <3>1
  <2> QED BY <2>1, <2>2
<1>4. Len(Parts[p]) >= 1 /\ Len(Parts[p]) \in Nat BY <1>1, <1>3
<1> QED BY <1>1, <1>4

(* Where the part n is done, the list shows what C says up to n. *)
Done(B, n) ==
  /\ Alike(Spelling(rv), B[n])
  /\ Is(n + 1, "##") => Joined(Spelling(rv), B[n])
  /\ Is(n, "##") => CommaOpt(n) /\ args.given
  /\ ~(Is(n, "#") /\ Is(n - 1, "##"))

LEMMA DoneIs ==
  ASSUME IInv, phase = "paste", AsInC, NEW B, Reference(B), InProgress(B, iter, rv),
         NEW n \in 0..Len(repl), iter = End[n] + 1
  PROVE  Done(B, n)
<1>1. /\ Len(repl) \in Nat /\ rv \in Seq(Token) /\ End[0] = 0 /\ Len(subst) \in Nat
      /\ \A p, q \in 0..Len(repl) : p <= q => End[p] <= End[q]
      /\ \A p \in 0..Len(repl) : End[p] \in 0..Len(subst)
  BY EndIs DEF IInv, Typed
<1>2. PICK p \in 0..Len(repl) : ReachedIn(p, iter) /\ p <= n /\ End[p] = End[n]
  <2>1. CASE End[n] = 0
    <3>1. 0 \in 0..Len(repl) /\ 0 <= n /\ ReachedIn(0, iter) BY <1>1, <2>1 DEF ReachedIn
    <3> QED BY <1>1, <2>1, <3>1
  <2>2. CASE End[n] # 0
    <3>1. End[n] \in 1..Len(subst) BY <1>1, <2>2
    <3>2. PICK p \in 1..Len(repl) : Within(p, End[n]) BY <3>1, PartOf
    <3>3. p \in 0..Len(repl) /\ p - 1 \in 0..Len(repl) /\ p # 0 BY <1>1
    <3>4. End[n] <= End[p] /\ End[p - 1] < End[n] BY <3>2 DEF Within
    <3>5. iter - 1 = End[n] BY <3>1
    <3>6. ReachedIn(p, iter) BY <3>2, <3>3, <3>5 DEF ReachedIn
    <3>7. p <= n
      <4> SUFFICES ASSUME ~(p <= n) PROVE FALSE
        OBVIOUS
      <4>1. n <= p - 1 BY <1>1, <3>3
      <4>2. End[n] <= End[p - 1] /\ End[p - 1] \in Int BY <1>1, <3>3, <4>1
      <4> QED BY <3>1, <3>4, <4>2
    <3>8. End[p] <= End[n] /\ End[p] \in Int BY <1>1, <3>3, <3>7
    <3>9. End[p] = End[n] BY <3>1, <3>4, <3>8
    <3> QED BY <3>3, <3>6, <3>7, <3>9
  <2> QED BY <2>1, <2>2
<1>3. Progress(B, p, iter, rv) BY <1>2 DEF InProgress
<1>4. rv \o Coming(p, iter) = rv
  <2>1. iter = End[p] + 1 /\ iter \in 1..(End[p] + 1)
    <3>1. End[p] \in Nat BY <1>1
    <3> QED BY <1>2, <3>1
  <2>2. Coming(p, iter) = <<>> BY <2>1, ComingIs
  <2> QED BY <1>1, <2>2, ConcatEmptySeq
<1>5. /\ Alike(Spelling(rv), B[p])
      /\ Is(p + 1, "##") => Joined(Spelling(rv), B[p])
      /\ Is(p, "##") => CommaOpt(p) /\ args.given
  BY <1>3, <1>4 DEF Progress
<1>6. B[p] \in Lists BY <1>5 DEF Alike
<1>7. B[n] = B[p] /\ \A m \in (p + 1)..n : End[m] = End[m - 1] /\ ~Is(m, "##")
  BY <1>2, <1>6, EmptiesBetween
<1>8. Is(n + 1, "##") => p = n
  <2> SUFFICES ASSUME Is(n + 1, "##"), p # n PROVE FALSE
    OBVIOUS
  <2>1. n \in (p + 1)..n /\ n \in 1..Len(repl) BY <1>1, <1>2
  <2> QED BY <1>7, <2>1, SomethingBefore
<1>9. Is(n, "##") => p = n
  <2> SUFFICES ASSUME Is(n, "##"), p # n PROVE FALSE
    OBVIOUS
  <2>1. n \in (p + 1)..n BY <1>1, <1>2
  <2> QED BY <1>7, <2>1
<1>10. ~(Is(n, "#") /\ Is(n - 1, "##"))
  <2> SUFFICES ASSUME Is(n, "#"), Is(n - 1, "##") PROVE FALSE
    OBVIOUS
  <2>1. n \in DOMAIN repl /\ n - 1 \in DOMAIN repl BY DEF Is
  <2>2. n \in 1..Len(repl) /\ n - 1 \in 1..Len(repl) /\ (n - 1) + 1 = n BY <2>1, EndIs
  <2>3. CASE p = n
    <3>1. ReachedIn(n, iter) /\ n # 0 BY <1>2, <2>2, <2>3
    <3>2. Within(n, iter - 1) BY <3>1 DEF ReachedIn
    <3>3. End[n - 1] # End[n]
      <4>1. n - 1 \in 0..Len(repl) BY <2>2
      <4>2. End[n - 1] \in Int /\ End[n] \in Int BY <1>1, <4>1
      <4> QED BY <3>2, <4>2 DEF Within
    <3>4. End[n] = End[n - 1] + Len(Parts[n]) /\ Parts[n] = Becomes(n, args)
          /\ End[n - 1] \in 0..Len(subst)
      BY <2>2, EndIs
    <3>5. Len(Becomes(n, args)) = 0
      <4>1. Typed /\ MarkedBefore(Len(repl) + 1) /\ args \in Arguments BY DEF IInv, Typed, Listed
      <4> QED BY <2>1, <4>1, BecomesIs
    <3> QED BY <3>3, <3>4, <3>5
  <2>4. CASE p = n - 1
    <3>1. CommaOpt(n - 1) BY <1>5, <2>4
    <3>2. Is(n, "y") BY <2>2, <3>1 DEF CommaOpt
    <3> QED BY <3>2 DEF Is
  <2>5. CASE p < n - 1
    <3>1. n - 1 \in (p + 1)..n BY <2>2, <2>5
    <3> QED BY <1>7, <3>1
  <2> QED BY <1>1, <1>2, <2>2, <2>3, <2>4, <2>5
<1> QED BY <1>5, <1>7, <1>8, <1>9, <1>10 DEF Done


-----------------------------------------------------------------------------
(* The steps of pasteAll                                                   *)

LEMMA WithinIs ==
  ASSUME IInv, phase = "paste", NEW k \in 1..Len(subst), NEW n \in 1..Len(repl), Within(n, k)
  PROVE  /\ ~Is(n, "#") /\ Len(Parts[n]) >= 1 /\ End[n - 1] \in Nat
         /\ Is(n, "##") =>
              /\ k = End[n] /\ k = End[n - 1] + 1
              /\ subst[k].cat \in {"hashhash", "commaopt"} /\ subst[k].own = n
<1>1. /\ n \in DOMAIN repl /\ Parts[n] = Becomes(n, args) /\ MarkedBefore(Len(repl) + 1)
      /\ args \in Arguments /\ Typed /\ repl \in Seq(ReplToken) /\ Parts[n] \in Seq(Token)
      /\ End[n] = End[n - 1] + Len(Parts[n]) /\ End[n - 1] \in Nat
      /\ \A j \in 1..Len(Parts[n]) : subst[End[n - 1] + j] = Parts[n][j]
  BY PartIs
<1>2. End[n - 1] < k /\ k <= End[n] BY DEF Within
<1>3. Len(Parts[n]) \in Nat BY <1>1
<1>4. Len(Parts[n]) >= 1 BY <1>1, <1>2, <1>3
<1>5. ~Is(n, "#")
  <2>1. Is(n, "#") => Len(Becomes(n, args)) = 0 BY <1>1, BecomesIs
  <2> QED BY <1>1, <1>4, <2>1
<1>6. ASSUME Is(n, "##")
      PROVE  /\ k = End[n] /\ k = End[n - 1] + 1
             /\ subst[k].cat \in {"hashhash", "commaopt"} /\ subst[k].own = n
  <2>1. ~Formal(n) BY <1>6 DEF Is, Formal, Formals
  <2>2. /\ Len(Becomes(n, args)) = 1 /\ Becomes(n, args)[1].own = n
        /\ Becomes(n, args)[1].cat = repl[n].cat
    BY <1>1, <1>5, <2>1, BecomesIs
  <2>3. repl[n].cat \in {"hashhash", "commaopt"} BY <1>1, <1>6, FinalMarks
  <2>4. k = End[n] /\ k = End[n - 1] + 1 BY <1>1, <1>2, <2>2
  <2>5. subst[End[n - 1] + 1] = Becomes(n, args)[1] BY <1>1, <2>2
  <2> QED BY <2>2, <2>3, <2>4, <2>5
<1> QED BY <1>1, <1>4, <1>5, <1>6

(* What is copied comes out of what was to come. *)
LEMMA CopySpelled ==
  ASSUME IInv, phase = "paste", iter \in 1..Len(subst), NEW n \in 1..Len(repl),
         iter <= End[n], NEW tok \in Token, tok.v = subst[iter].v
  PROVE  /\ Spelling(Append(rv, tok) \o Coming(n, iter + 1)) =
              Spelling(rv) \o Spelling(Coming(n, iter))
         /\ Spelling(rv \o Coming(n, iter)) = Spelling(rv) \o Spelling(Coming(n, iter))
         /\ Spelling(rv) \in Lists /\ Spelling(Coming(n, iter)) \in Lists
         /\ Spelling(Coming(n, iter)) # <<>>
<1>1. rv \in Seq(Token) BY DEF IInv, Typed
<1>2. /\ n \in 0..Len(repl) /\ iter \in 1..(End[n] + 1) /\ iter + 1 \in 1..(End[n] + 1)
      /\ End[n] \in Nat
  BY EndIs
<1>3. /\ Coming(n, iter) \in Seq(Token) /\ Coming(n, iter + 1) \in Seq(Token)
      /\ subst[iter] \in Token /\ Coming(n, iter) = <<subst[iter]>> \o Coming(n, iter + 1)
  BY <1>2, ComingIs
<1> DEFINE c == Coming(n, iter)
           d == Coming(n, iter + 1)
           o == subst[iter]
<1>4. c \in Seq(Token) /\ d \in Seq(Token) /\ o \in Token /\ c = <<o>> \o d /\ tok.v = o.v
  BY <1>3
<1> HIDE DEF c, d, o
<1>5. <<o>> \in Seq(Token) /\ <<tok>> \in Seq(Token) BY <1>4
<1>6. Spelling(c) = <<o.v>> \o Spelling(d)
  <2>1. Spelling(c) = Spelling(<<o>>) \o Spelling(d) BY <1>4, <1>5, SpellingConcat
  <2> QED BY <1>4, <2>1, SpellingFew
<1>7. Append(rv, tok) = rv \o <<tok>>
  <2> DEFINE r == rv
  <2>1. r \in Seq(Token) BY <1>1
  <2> HIDE DEF r
  <2>2. Append(r, tok) = r \o <<tok>> BY <2>1
  <2> QED BY <2>2 DEF r
<1>8. Spelling(Append(rv, tok) \o d) = (Spelling(rv) \o <<o.v>>) \o Spelling(d)
  <2>1. rv \o <<tok>> \in Seq(Token) BY <1>1, <1>5, ConcatIs
  <2>2. Spelling((rv \o <<tok>>) \o d) = Spelling(rv \o <<tok>>) \o Spelling(d)
    BY <1>4, <2>1, SpellingConcat
  <2>3. Spelling(rv \o <<tok>>) = Spelling(rv) \o Spelling(<<tok>>)
    BY <1>1, <1>5, SpellingConcat
  <2>4. Spelling(<<tok>>) = <<o.v>> BY <1>4, SpellingFew
  <2> QED BY <1>7, <2>2, <2>3, <2>4
<1>9. Spelling(rv) \in Lists /\ Spelling(d) \in Lists /\ Spelling(c) \in Lists
  BY <1>1, <1>4, SpellingIs
<1>10. <<o.v>> \in Lists
  <2>1. o.v \in Seq(Pieces) BY <1>4 DEF Token
  <2>2. <<o.v>> \in Seq(Seq(Pieces)) BY <2>1
  <2> QED BY <2>2 DEF Lists
<1>11. (Spelling(rv) \o <<o.v>>) \o Spelling(d) = Spelling(rv) \o (<<o.v>> \o Spelling(d))
  BY <1>9, <1>10, ListsAssociate
<1>12. Spelling(rv \o c) = Spelling(rv) \o Spelling(c) BY <1>1, <1>4, SpellingConcat
<1>13. Spelling(c) # <<>>
  <2>1. <<o.v>> # <<>> OBVIOUS
  <2> QED BY <1>6, <1>9, <1>10, <2>1, ListLast
<1> QED BY <1>6, <1>8, <1>9, <1>11, <1>12, <1>13 DEF c, d, o

(* What is behind the part n - 1, which is not pasted to it. *)
LEMMA AppendedBehind ==
  ASSUME IInv, phase = "paste", AsInC, NEW n \in 1..Len(repl), ~Is(n, "#"), ~Is(n, "##"),
         Is(n - 1, "##") => CommaOpt(n - 1) /\ args.given,
         ~(Is(n - 1, "#") /\ Is(n - 2, "##")), NEW before
  PROVE  Appended(before, n) = before \o Replaced(n)
<1>1. n \in DOMAIN repl /\ n - 1 - 1 = n - 2 BY EndIs
<1>2. repl[n].t \notin {"#", "##"} BY <1>1 DEF Is
<1>3. CommaOpt(n - 1) => Is(n - 1, "##") BY DEF CommaOpt
<1>4. ~CommaOpt(n - 1) => ~(Is(n - 1, "##") \/ (Is(n - 1, "#") /\ Is(n - 2, "##"))) OBVIOUS
<1> QED BY <1>2, <1>3, <1>4 DEF Appended

LEMMA CopyProgress ==
  ASSUME IInv, phase = "paste", AsInC, NEW B, Reference(B), InProgress(B, iter, rv),
         iter \in 1..Len(subst), subst[iter].cat \notin {"hashhash", "commaopt"},
         NEW tok \in Token, tok.v = subst[iter].v,
         NEW n \in 0..Len(repl), ReachedIn(n, iter + 1)
  PROVE  Progress(B, n, iter + 1, Append(rv, tok))
<1>1. n \in 1..Len(repl) /\ Within(n, iter) /\ End[n - 1] < iter /\ iter <= End[n]
  <2>1. iter + 1 # 1 /\ (iter + 1) - 1 = iter OBVIOUS
  <2>2. n # 0 /\ Within(n, iter) BY <2>1 DEF ReachedIn
  <2> QED BY <2>2 DEF Within
<1>2. ~Is(n, "#") /\ Len(Parts[n]) >= 1 /\ End[n - 1] \in Nat /\ ~Is(n, "##")
  BY <1>1, WithinIs
<1> DEFINE w == Spelling(Append(rv, tok) \o Coming(n, iter + 1))
           v == Spelling(rv)
           c == Spelling(Coming(n, iter))
<1>3. /\ w = v \o c /\ Spelling(rv \o Coming(n, iter)) = v \o c
      /\ v \in Lists /\ c \in Lists /\ c # <<>>
  BY <1>1, CopySpelled
<1> SUFFICES Alike(w, B[n]) /\ (Is(n + 1, "##") => Joined(w, B[n]))
  BY <1>2 DEF Progress
<1> HIDE DEF w, v, c
<1>4. CASE End[n - 1] < iter - 1
  <2>1. Within(n, iter - 1) /\ n # 0
    <3>1. End[n] \in Int BY <1>1, EndIs
    <3> QED BY <1>1, <1>4, <3>1 DEF Within
  <2>2. ReachedIn(n, iter) BY <2>1 DEF ReachedIn
  <2>3. Progress(B, n, iter, rv) BY <2>2 DEF InProgress
  <2> QED BY <1>3, <2>3 DEF Progress
<1>5. CASE ~(End[n - 1] < iter - 1)
  <2>1. iter = End[n - 1] + 1 /\ n - 1 \in 0..Len(repl) /\ (n - 1) + 1 = n /\ (n - 1) - 1 = n - 2
    <3>1. iter \in Nat /\ Len(repl) \in Nat BY EndIs
    <3>2. iter = End[n - 1] + 1 BY <1>1, <1>2, <1>5, <3>1
    <3> QED BY <1>1, <3>1, <3>2
  <2>2. Done(B, n - 1) BY <2>1, DoneIs
  <2>3. Alike(v, B[n - 1]) BY <2>2 DEF Done, v
  <2>4. B[n] = B[n - 1] \o Replaced(n)
    <3>1. /\ Is(n - 1, "##") => CommaOpt(n - 1) /\ args.given
          /\ ~(Is(n - 1, "#") /\ Is(n - 2, "##"))
      BY <2>1, <2>2 DEF Done
    <3>2. Appended(B[n - 1], n) = B[n - 1] \o Replaced(n) BY <1>1, <1>2, <3>1, AppendedBehind
    <3> QED BY <1>1, <3>2 DEF Reference
  <2>5. c = Spelling(Parts[n])
    <3>1. iter \in 1..(End[n] + 1) /\ n \in 0..Len(repl) /\ n # 0 BY <1>1, EndIs
    <3>2. Coming(n, iter) = Parts[n] BY <2>1, <3>1, ComingIs
    <3> QED BY <3>2 DEF c
  <2>6. CASE c = Replaced(n)
    <3>1. Alike(c, c) /\ Joined(c, c) BY <1>3 DEF Alike, Joined
    <3> QED BY <1>3, <2>3, <2>4, <2>6, <3>1, AlikeConcat, JoinedBehind
  <2>7. CASE Neutral(n)
    <3>1. c = <<<<>>>> /\ Replaced(n) = <<>> /\ ~Is(n + 1, "##") BY <2>5, <2>7 DEF Neutral
    <3>2. Alike(<<<<>>>>, <<>>)
      <4>1. <<>> \in Seq(Pieces) /\ <<>> \in Lists BY DEF Lists
      <4>2. Shown(<<<<>>>>) = <<>> /\ Shown(<<>>) = <<>> BY <4>1, ShownIs
      <4> QED BY <1>3, <3>1, <4>1, <4>2 DEF Alike
    <3> QED BY <1>3, <2>3, <2>4, <3>1, <3>2, AlikeConcat
  <2>8. c = Replaced(n) \/ Neutral(n) BY <1>1, <1>2, <2>5, PartSpelled
  <2> QED BY <2>6, <2>7, <2>8
<1> QED BY <1>4, <1>5


LEMMA FrontSpelled ==
  ASSUME NEW list \in Seq(Token)
  PROVE  /\ Spelling(list) # <<>> <=> list # <<>>
         /\ list # <<>> =>
              /\ Spelling(Front(list)) = Front(Spelling(list))
              /\ Last(Spelling(list)) = Last(list).v
<1> DEFINE n == Len(list)
           V == Spelling(list)
           F == Front(list)
<1>1. /\ V \in Seq(Seq(Pieces)) /\ Len(V) = n /\ n \in Nat /\ (n = 0 <=> list = <<>>)
      /\ \A j \in 1..n : V[j] = list[j].v
  <2>1. V \in Lists /\ Len(V) = n /\ \A j \in 1..n : V[j] = list[j].v BY SpellingIs
  <2> HIDE DEF V
  <2> QED BY <2>1 DEF Lists
<1> HIDE DEF V
<1>2. V # <<>> <=> list # <<>> BY <1>1
<1>3. ASSUME list # <<>>
      PROVE  Spelling(F) = Front(V) /\ Last(V) = Last(list).v
  <2>1. /\ F \in Seq(Token) /\ Len(F) = n - 1 /\ Last(list) = list[n]
        /\ \A i \in 1..(n - 1) : F[i] = list[i]
    BY <1>3, FrontIn
  <2>2. /\ Front(V) \in Seq(Seq(Pieces)) /\ Len(Front(V)) = n - 1 /\ Last(V) = V[n]
        /\ \A i \in 1..(n - 1) : Front(V)[i] = V[i]
    BY <1>1, <1>2, <1>3, FrontIn
  <2> HIDE DEF F, n
  <2>3. /\ Spelling(F) \in Lists /\ Len(Spelling(F)) = n - 1
        /\ \A j \in 1..(n - 1) : Spelling(F)[j] = F[j].v
    BY <2>1, SpellingIs
  <2>4. \A j \in 1..(n - 1) : Spelling(F)[j] = Front(V)[j]
    <3> TAKE j \in 1..(n - 1)
    <3>1. n \in Nat BY <1>1
    <3>2. j \in 1..n BY <3>1
    <3>3. V[j] = list[j].v BY <1>1, <3>2
    <3>4. F[j] = list[j] /\ Front(V)[j] = V[j] /\ Spelling(F)[j] = F[j].v BY <2>1, <2>2, <2>3
    <3> QED BY <3>3, <3>4
  <2> DEFINE x == Spelling(F)
             y == Front(V)
  <2>5. /\ x \in Seq(Seq(Pieces)) /\ y \in Seq(Seq(Pieces)) /\ Len(x) = Len(y)
        /\ \A j \in 1..Len(x) : x[j] = y[j]
    BY <2>2, <2>3, <2>4 DEF Lists
  <2> HIDE DEF x, y
  <2>6. x = y BY <2>5, SeqEqual
  <2>7. n \in 1..n BY <1>1, <1>3
  <2> QED BY <1>1, <2>1, <2>2, <2>6, <2>7 DEF x, y
<1> QED BY <1>2, <1>3 DEF V, F

LEMMA HeadTailConcat ==
  ASSUME NEW x \in Seq(Pieces), NEW t \in Seq(Seq(Pieces))
  PROVE  Head(<<x>> \o t) = x /\ Tail(<<x>> \o t) = t
<1> DEFINE c == <<x>> \o t
<1>1. <<x>> \in Seq(Seq(Pieces)) /\ Len(<<x>>) = 1 /\ <<x>>[1] = x OBVIOUS
<1>2. /\ c \in Seq(Seq(Pieces)) /\ Len(c) = 1 + Len(t) /\ Len(t) \in Nat
      /\ c[1] = x /\ \A i \in 1..Len(t) : c[1 + i] = t[i]
  <2>1. /\ c \in Seq(Seq(Pieces)) /\ Len(c) = Len(<<x>>) + Len(t)
        /\ \A i \in 1..Len(<<x>>) : c[i] = <<x>>[i]
        /\ \A i \in 1..Len(t) : c[Len(<<x>>) + i] = t[i]
    BY <1>1, ConcatIs
  <2> HIDE DEF c
  <2> QED BY <1>1, <2>1
<1> HIDE DEF c
<1>3. c # <<>> BY <1>2
<1>4. /\ Head(c) = c[1] /\ Tail(c) \in Seq(Seq(Pieces)) /\ Len(Tail(c)) = Len(c) - 1
      /\ \A i \in 1..Len(Tail(c)) : Tail(c)[i] = c[i + 1]
  BY <1>2, <1>3, HeadTailProperties
<1>5. Len(Tail(c)) = Len(t) BY <1>2, <1>4
<1>6. \A i \in 1..Len(Tail(c)) : Tail(c)[i] = t[i]
  <2> TAKE i \in 1..Len(Tail(c))
  <2>1. i \in 1..Len(t) /\ i + 1 = 1 + i BY <1>5
  <2> QED BY <1>2, <1>4, <2>1
<1>7. Tail(c) = t BY <1>4, <1>5, <1>6, SeqEqual
<1> QED BY <1>2, <1>4, <1>7 DEF c

(* Of a ## nothing is kept by C. *)
LEMMA OperatorAppended ==
  ASSUME NEW p, Is(p, "##") \/ Is(p, "#"), NEW before
  PROVE  Appended(before, p) = before
BY DEF Appended, Is

LEMMA CommaKeptProgress ==
  ASSUME IInv, phase = "paste", AsInC, NEW B, Reference(B), InProgress(B, iter, rv),
         iter \in 1..Len(subst), subst[iter].cat = "commaopt", args.given,
         NEW n \in 0..Len(repl), ReachedIn(n, iter + 1)
  PROVE  Progress(B, n, iter + 1, rv)
<1> DEFINE q == subst[iter].own
<1>1. /\ q \in 2..(Len(repl) - 1) /\ Is(q, "##") /\ End[q] = iter /\ End[q - 1] = iter - 1
      /\ CommaOpt(q)
  BY HashHashAt
<1> HIDE DEF q
<1>0. Len(repl) \in Nat /\ rv \in Seq(Token) /\ NoDouble /\ DOMAIN repl = 1..Len(repl)
  BY EndIs DEF IInv, Typed, Listed
<1>2. /\ Len(repl) \in Nat /\ rv \in Seq(Token) /\ NoDouble /\ q \in 1..Len(repl)
      /\ q \in DOMAIN repl /\ q \in 0..Len(repl) /\ q - 1 \in 0..Len(repl) /\ (q - 1) + 1 = q
      /\ iter = End[q - 1] + 1
  BY <1>0, <1>1
<1>3. n = q
  <2>1. iter + 1 # 1 /\ (iter + 1) - 1 = iter OBVIOUS
  <2>2. n \in 1..Len(repl) /\ Within(n, iter) BY <2>1 DEF ReachedIn
  <2>3. Within(q, iter) BY <1>1 DEF Within
  <2> QED BY <1>2, <2>2, <2>3, PartOf
<1>4. Done(B, q - 1) BY <1>1, <1>2, DoneIs
<1>5. B[q] = B[q - 1] BY <1>1, <1>2, OperatorAppended DEF Reference
<1>6. Alike(Spelling(rv), B[q]) BY <1>4, <1>5 DEF Done
<1>7. ~Is(q + 1, "##") BY <1>1, <1>2 DEF NoDouble
<1>8. rv \o Coming(q, iter + 1) = rv
  <2>1. iter + 1 = End[q] + 1 /\ iter + 1 \in 1..(End[q] + 1) BY <1>1
  <2>2. Coming(q, iter + 1) = <<>> BY <1>2, <2>1, ComingIs
  <2> QED BY <1>2, <2>2, ConcatEmptySeq
<1> QED BY <1>1, <1>3, <1>6, <1>7, <1>8 DEF Progress

LEMMA NumbersAround ==
  ASSUME NEW L \in Nat, NEW q \in 2..(L - 1)
  PROVE  /\ q \in 1..L /\ q - 1 \in 0..L /\ (q - 1) + 1 = q
         /\ q + 1 \in 0..L /\ q + 1 \in 1..L /\ q + 1 # 0
         /\ (q + 1) - 1 = q /\ (q + 1) + 1 = q + 2
OBVIOUS

LEMMA CommaDeletedProgress ==
  ASSUME IInv, phase = "paste", AsInC, NEW B, Reference(B), InProgress(B, iter, rv),
         iter \in 1..Len(subst), subst[iter].cat = "commaopt", ~args.given,
         NEW n \in 0..Len(repl), ReachedIn(n, iter + 2)
  PROVE  Progress(B, n, iter + 2, Front(rv))
<1> DEFINE q == subst[iter].own
           p == q + 1
<1>1. /\ q \in 2..(Len(repl) - 1) /\ Is(q, "##") /\ End[q] = iter /\ End[q - 1] = iter - 1
      /\ CommaOpt(q) /\ \E m : Behind(iter, q, m)
  <2>1. \E m : Behind(iter, q, m) BY BehindHashHash
  <2> QED BY <2>1, HashHashAt
<1> HIDE DEF q
<1>0. /\ Len(repl) \in Nat /\ rv \in Seq(Token) /\ DOMAIN repl = 1..Len(repl)
      /\ args \in Arguments /\ repl \in Seq(ReplToken) /\ MarkedBefore(Len(repl) + 1)
  BY EndIs DEF IInv, Typed, Listed
<1>2. /\ q \in 1..Len(repl) /\ q \in DOMAIN repl
      /\ q - 1 \in 0..Len(repl) /\ (q - 1) + 1 = q /\ p - 1 = q /\ p + 1 = q + 2
      /\ p \in 0..Len(repl) /\ p \in 1..Len(repl) /\ p # 0 /\ p \in DOMAIN repl
      /\ iter = End[q - 1] + 1
  <2>1. q \in 2..(Len(repl) - 1) /\ Len(repl) \in Nat /\ End[q - 1] = iter - 1 BY <1>0, <1>1
  <2>2. DOMAIN repl = 1..Len(repl) BY <1>0
  <2>3. iter = End[q - 1] + 1 BY <2>1
  <2>4. /\ q \in 1..Len(repl) /\ q - 1 \in 0..Len(repl) /\ (q - 1) + 1 = q
        /\ q + 1 \in 0..Len(repl) /\ q + 1 \in 1..Len(repl) /\ q + 1 # 0
        /\ (q + 1) - 1 = q /\ (q + 1) + 1 = q + 2
    BY <2>1, NumbersAround
  <2>5. q \in DOMAIN repl /\ q + 1 \in DOMAIN repl BY <2>2, <2>4, Zenon
  <2> QED BY <2>3, <2>4, <2>5, Zenon
<1>3. Is(p, "y") /\ repl[p].t = "y" /\ ~Is(p + 1, "##") /\ ~Is(p, "##") /\ ~Is(p, "#")
  <2>1. Is(p, "y") BY <1>1 DEF CommaOpt
  <2>2. ~Is(q + 2, "##") BY <1>1, <1>2 DEF AsInC
  <2> QED BY <1>2, <2>1, <2>2 DEF Is
<1> HIDE DEF p
<1>4. Behind(iter, q, p)
  <2>1. PICK m : Behind(iter, q, m) BY <1>1
  <2>2. m \in {q + 1, q + 2} /\ (m = q + 2 => Is(q + 1, "#")) BY <2>1 DEF Behind
  <2>3. m = p BY <1>3, <2>2 DEF p
  <2> QED BY <2>1, <2>3
<1>5. Len(Parts[p]) = 1 /\ End[p] = iter + 1 /\ End[p - 1] = iter
  <2>1. args[repl[p].t] = <<>> BY <1>0, <1>3 DEF Arguments
  <2>2. Formal(p) BY <1>2, <1>3 DEF Formal, Formals
  <2>3. repl[p].cat = "scanned"
    <3>1. ~Is(p - 1, "#") BY <1>1, <1>2 DEF Is
    <3> QED BY <1>0, <1>1, <1>2, <1>3, <2>2, <3>1, FinalMarks
  <2>4. Parts[p] = <<Placemarker>>
    <3>1. Parts[p] = Argument(p, args)
      <4>1. Parts[p] = Becomes(p, args) BY <1>2, EndIs
      <4> QED BY <1>3, <2>3, <4>1 DEF Becomes
    <3> QED BY <2>1, <2>3, <3>1 DEF Argument
  <2>5. Len(Parts[p]) = 1 BY <2>4
  <2>6. End[p - 1] = iter BY <1>4 DEF Behind
  <2>7. End[p] = End[p - 1] + Len(Parts[p]) BY <1>2, EndIs
  <2> QED BY <2>5, <2>6, <2>7
<1>6. n = p
  <2>1. iter + 2 # 1 /\ (iter + 2) - 1 = iter + 1 OBVIOUS
  <2>2. n \in 1..Len(repl) /\ Within(n, iter + 1) BY <2>1 DEF ReachedIn
  <2>3. Within(p, iter + 1) /\ iter + 1 \in 1..Len(subst) BY <1>4, <1>5 DEF Within, Behind
  <2> QED BY <1>2, <2>2, <2>3, PartOf
<1>7. Joined(Spelling(rv), B[q - 1])
  <2>1. Done(B, q - 1) BY <1>1, <1>2, DoneIs
  <2> QED BY <1>1, <1>2, <2>1 DEF Done
<1>8. B[q] = B[q - 1] BY <1>1, <1>2, OperatorAppended DEF Reference
<1>9. B[p] = Front(B[q])
  <2>1. B[p] = Appended(B[q], p) BY <1>2 DEF Reference
  <2> QED BY <1>1, <1>2, <1>3, <2>1 DEF Appended
<1>10. Spelling(Front(rv)) = Front(Spelling(rv))
  <2>1. Spelling(rv) # <<>> BY <1>7 DEF Joined
  <2> QED BY <1>0, <2>1, FrontSpelled
<1>11. Alike(Spelling(Front(rv)), B[p]) BY <1>7, <1>8, <1>9, <1>10, JoinedFront
<1>12. Front(rv) \o Coming(p, iter + 2) = Front(rv)
  <2>1. iter + 2 = End[p] + 1 /\ iter + 2 \in 1..(End[p] + 1) BY <1>5
  <2>2. Coming(p, iter + 2) = <<>> BY <1>2, <2>1, ComingIs
  <2>3. Front(rv) \in Seq(Token) BY <1>0, FrontIn
  <2> QED BY <2>2, <2>3, ConcatEmptySeq
<1> QED BY <1>3, <1>6, <1>11, <1>12 DEF Progress


(* What is made of the two operands is spelled as both, one behind the     *)
(* other; beside it there may be a placemarker.                            *)
Pasted(l, r) ==
  (IF IsPlacemarker(l) THEN <<r>> ELSE <<>>) \o (IF IsPlacemarker(r) THEN <<l>> ELSE <<>>)

LEMMA PastedSpelled ==
  ASSUME repl \in Seq(ReplToken), NEW l \in Token, NEW r \in Token
  PROVE  /\ IsPlacemarker(l) \/ IsPlacemarker(r) =>
              Pasted(l, r) \in Seq(Token) /\ Joined(Spelling(Pasted(l, r)), <<l.v \o r.v>>)
         /\ /\ <<New(l.v \o r.v)>> \in Seq(Token)
            /\ Joined(Spelling(<<New(l.v \o r.v)>>), <<l.v \o r.v>>)
<1> DEFINE v == l.v \o r.v
<1>1. l.v \in Seq(Pieces) /\ r.v \in Seq(Pieces) /\ v \in Seq(Pieces)
  <2>1. l.v \in Seq(Pieces) /\ r.v \in Seq(Pieces) BY DEF Token
  <2> QED BY <2>1, ConcatIs
<1>2. (l.v = <<>> => v = r.v) /\ (r.v = <<>> => v = l.v) BY <1>1, ConcatEmptySeq
<1> HIDE DEF v
<1>3. Joined(<<v>>, <<v>>)
  <2>1. <<v>> \in Seq(Seq(Pieces)) /\ <<v>> # <<>> BY <1>1
  <2> QED BY <2>1 DEF Joined, Alike, Lists
<1>4. <<l>> \in Seq(Token) /\ <<r>> \in Seq(Token) /\ <<>> \in Seq(Token) OBVIOUS
<1>5. Spelling(<<l>>) = <<l.v>> /\ Spelling(<<r>>) = <<r.v>> BY SpellingFew
<1>9. <<New(v)>> \in Seq(Token) /\ Joined(Spelling(<<New(v)>>), <<v>>)
  <2>1. New(v) \in Token /\ New(v).v = v BY <1>1, NewIs
  <2>2. Spelling(<<New(v)>>) = <<v>> BY <2>1, SpellingFew
  <2> QED BY <1>3, <2>1, <2>2
<1>6. CASE IsPlacemarker(l) /\ ~IsPlacemarker(r)
  <2>1. Pasted(l, r) = <<r>>
    <3>1. Pasted(l, r) = <<r>> \o <<>> BY <1>6 DEF Pasted
    <3> QED BY <1>4, <3>1, ConcatEmptySeq
  <2>2. v = r.v BY <1>2, <1>6 DEF IsPlacemarker
  <2>3. Pasted(l, r) \in Seq(Token) /\ Joined(Spelling(Pasted(l, r)), <<v>>)
    BY <1>3, <1>4, <1>5, <2>1, <2>2
  <2> QED BY <1>9, <2>3 DEF v
<1>7. CASE ~IsPlacemarker(l) /\ IsPlacemarker(r)
  <2>1. Pasted(l, r) = <<l>>
    <3>1. Pasted(l, r) = <<>> \o <<l>> BY <1>7 DEF Pasted
    <3> QED BY <1>4, <3>1, ConcatEmptySeq
  <2>2. v = l.v BY <1>2, <1>7 DEF IsPlacemarker
  <2>3. Pasted(l, r) \in Seq(Token) /\ Joined(Spelling(Pasted(l, r)), <<v>>)
    BY <1>3, <1>4, <1>5, <2>1, <2>2
  <2> QED BY <1>9, <2>3 DEF v
<1>8. CASE IsPlacemarker(l) /\ IsPlacemarker(r)
  <2>1. Pasted(l, r) = <<r>> \o <<l>> BY <1>8 DEF Pasted
  <2>2. <<r>> \o <<l>> \in Seq(Token) BY <1>4, ConcatIs
  <2>3. Spelling(<<r>> \o <<l>>) = <<<<>>>> \o <<<<>>>>
    <3>1. Spelling(<<r>> \o <<l>>) = Spelling(<<r>>) \o Spelling(<<l>>) BY <1>4, SpellingConcat
    <3> QED BY <1>5, <1>8, <3>1 DEF IsPlacemarker
  <2>4. v = <<>> BY <1>2, <1>8 DEF IsPlacemarker
  <2>5. Joined(<<<<>>>> \o <<<<>>>>, <<<<>>>>)
    <3> DEFINE e == <<<<>>>>
    <3>1. e \in Lists /\ <<>> \in Lists BY DEF Lists
    <3>2. Shown(e) = <<>> /\ Shown(<<>>) = <<>>
      <4>1. <<>> \in Seq(Pieces) OBVIOUS
      <4> QED BY <4>1, ShownIs
    <3>3. Joined(e, e) BY <1>3, <2>4
    <3> HIDE DEF e
    <3>4. Alike(e, <<>>) BY <3>1, <3>2 DEF Alike
    <3>5. Joined(e \o e, <<>> \o e) BY <3>3, <3>4, JoinedBehind
    <3>6. <<>> \o e = e BY <3>1, ConcatEmptySeq DEF Lists
    <3> QED BY <3>5, <3>6 DEF e
  <2>6. Pasted(l, r) \in Seq(Token) /\ Joined(Spelling(Pasted(l, r)), <<v>>)
    BY <2>1, <2>2, <2>3, <2>4, <2>5
  <2> QED BY <1>9, <2>6 DEF v
<1> QED BY <1>6, <1>7, <1>8, <1>9 DEF v

LEMMA PasteProgress ==
  ASSUME IInv, phase = "paste", AsInC, NEW B, Reference(B), InProgress(B, iter, rv),
         iter \in 1..Len(subst), subst[iter].cat = "hashhash",
         NEW xs \in Seq(Token), rv # <<>> => Joined(Spelling(xs), <<LHS.v \o RHS.v>>),
         NEW n \in 0..Len(repl), ReachedIn(n, iter + 2)
  PROVE  rv # <<>> /\ Progress(B, n, iter + 2, Front(rv) \o xs)
<1> DEFINE q == subst[iter].own
<1>1. /\ q \in 2..(Len(repl) - 1) /\ Is(q, "##") /\ End[q] = iter /\ End[q - 1] = iter - 1
      /\ ~CommaOpt(q) /\ \E m : Behind(iter, q, m)
  <2>1. \E m : Behind(iter, q, m) BY BehindHashHash
  <2> QED BY <2>1, HashHashAt
<1> HIDE DEF q
<1>0. /\ Len(repl) \in Nat /\ rv \in Seq(Token) /\ DOMAIN repl = 1..Len(repl)
      /\ subst \in Seq(Token)
  BY EndIs DEF IInv, Typed, Listed
<1>2. PICK p : Behind(iter, q, p) BY <1>1
<1>3. /\ p \in {q + 1, q + 2} /\ p \in 1..Len(repl) /\ End[p - 1] = iter
      /\ Len(Parts[p]) >= 1 /\ ~Is(p, "##") /\ ~Is(p, "#")
      /\ p = q + 2 => Is(q + 1, "#")
      /\ iter + 1 \in 1..Len(subst)
  <2>1. p \in 1..Len(repl) => Parts[p] = Becomes(p, args) BY EndIs
  <2> QED BY <1>2, <2>1 DEF Behind
<1>4. /\ q \in 1..Len(repl) /\ q - 1 \in 0..Len(repl) /\ (q - 1) + 1 = q
      /\ iter = End[q - 1] + 1 /\ p \in 0..Len(repl) /\ p # 0
      /\ q + 1 \in 1..Len(repl) /\ (q + 1) - 1 = q /\ (q + 2) - 1 = q + 1 /\ (q + 2) - 2 = q
  <2>1. /\ q \in 2..(Len(repl) - 1) /\ Len(repl) \in Nat /\ End[q - 1] = iter - 1
        /\ p \in 1..Len(repl)
    BY <1>0, <1>1, <1>3
  <2>2. iter \in Int OBVIOUS
  <2>3. iter = End[q - 1] + 1 BY <2>1, <2>2
  <2>4. q \in Int /\ q \in 1..Len(repl) /\ q - 1 \in 0..Len(repl) /\ q + 1 \in 1..Len(repl)
    BY <2>1
  <2>5. p \in 0..Len(repl) /\ p # 0 BY <2>1
  <2>6. (q - 1) + 1 = q /\ (q + 1) - 1 = q /\ (q + 2) - 1 = q + 1 /\ (q + 2) - 2 = q BY <2>4
  <2> QED BY <2>3, <2>4, <2>5, <2>6
<1>5. n = p
  <2>1. iter + 2 # 1 /\ (iter + 2) - 1 = iter + 1 OBVIOUS
  <2>2. n \in 1..Len(repl) /\ Within(n, iter + 1) BY <2>1 DEF ReachedIn
  <2>3. Within(p, iter + 1)
    <3>1. End[p] = End[p - 1] + Len(Parts[p]) /\ Parts[p] \in Seq(Token) BY <1>3, EndIs
    <3>2. Len(Parts[p]) \in Nat BY <3>1
    <3> QED BY <1>3, <3>1, <3>2 DEF Within
  <2> QED BY <1>3, <2>2, <2>3, PartOf
<1> DEFINE b == B[q - 1]
           V == Spelling(rv)
<1>6. Joined(V, b)
  <2>1. Done(B, q - 1) BY <1>4, DoneIs
  <2> QED BY <1>1, <1>4, <2>1 DEF Done
<1>7. /\ rv # <<>> /\ Spelling(Front(rv)) = Front(V) /\ Last(V) = LHS.v /\ Last(b) = LHS.v
      /\ Front(rv) \in Seq(Token)
  <2>1. V # <<>> /\ Last(V) = Last(b) BY <1>6 DEF Joined
  <2>2. rv # <<>> /\ Spelling(Front(rv)) = Front(V) /\ Last(V) = Last(rv).v
    BY <1>0, <2>1, FrontSpelled
  <2> QED BY <1>0, <2>1, <2>2, FrontIn DEF LHS
<1>8. B[p - 1] = b
  <2>1. B[q] = b BY <1>1, <1>4, OperatorAppended DEF Reference
  <2>2. CASE p = q + 1 BY <1>4, <2>1, <2>2
  <2>3. CASE p = q + 2
    <3>1. B[q + 1] = Appended(B[q], q + 1) BY <1>4 DEF Reference
    <3>2. B[q + 1] = B[q] BY <1>3, <2>3, <3>1, OperatorAppended
    <3> QED BY <1>4, <2>1, <2>3, <3>2
  <2> QED BY <1>3, <2>2, <2>3
<1> DEFINE S == Spelling(Parts[p])
           d == Coming(p, iter + 2)
           T == Spelling(d)
<1>9. S = Replaced(p)
  <2>1. ~Neutral(p)
    <3>1. CASE p = q + 1 BY <1>1, <1>4, <3>1 DEF Neutral
    <3>2. CASE p = q + 2 BY <1>3, <1>4, <3>2 DEF Neutral
    <3> QED BY <1>3, <3>1, <3>2
  <2> QED BY <1>3, <2>1, PartSpelled
<1>10. d \in Seq(Token) /\ T \in Lists /\ S = <<RHS.v>> \o T /\ RHS \in Token
  <2>0. p \in 1..Len(repl) /\ p \in 0..Len(repl) BY <1>3, <1>4
  <2>1. End[p] = End[p - 1] + Len(Parts[p]) /\ Parts[p] \in Seq(Token) BY <2>0, EndIs
  <2>20. End[p] \in 0..Len(subst) BY <2>0, EndIs
  <2>2. Len(Parts[p]) \in Nat /\ End[p] \in Nat BY <2>1, <2>20
  <2>3. iter + 1 = End[p - 1] + 1 /\ iter + 1 <= End[p] BY <1>3, <2>1, <2>2
  <2>4. iter + 1 \in 1..(End[p] + 1) /\ iter + 2 \in 1..(End[p] + 1) /\ (iter + 1) + 1 = iter + 2
    BY <2>2, <2>3
  <2>5. Coming(p, iter + 1) = Parts[p] BY <1>4, <2>3, <2>4, ComingIs
  <2>6. /\ subst[iter + 1] \in Token
        /\ Coming(p, iter + 1) = <<subst[iter + 1]>> \o Coming(p, (iter + 1) + 1)
    BY <1>4, <2>3, <2>4, ComingIs
  <2>7. d \in Seq(Token) BY <1>4, <2>4, ComingIs
  <2>8. RHS \in Token /\ <<RHS>> \in Seq(Token) /\ Parts[p] = <<RHS>> \o d
    BY <2>4, <2>5, <2>6 DEF RHS
  <2> HIDE DEF d
  <2>9. S = Spelling(<<RHS>>) \o Spelling(d) BY <2>7, <2>8, SpellingConcat
  <2>10. Spelling(<<RHS>>) = <<RHS.v>> BY <2>8, SpellingFew
  <2> QED BY <2>7, <2>8, <2>9, <2>10, SpellingIs
<1> HIDE DEF b, V, S, d, T
<1>11. /\ b \in Lists /\ Front(b) \in Lists /\ RHS.v \in Seq(Pieces)
       /\ Head(S) = RHS.v /\ Tail(S) = T
  <2>1. b \in Lists /\ b # <<>> BY <1>6 DEF Joined, Alike
  <2>2. Front(b) \in Lists BY <2>1, ListLast
  <2>3. RHS.v \in Seq(Pieces) BY <1>10 DEF Token
  <2>4. \A x \in Seq(Pieces), t \in Seq(Seq(Pieces)) :
          Head(<<x>> \o t) = x /\ Tail(<<x>> \o t) = t
    BY HeadTailConcat
  <2> QED BY <1>10, <2>1, <2>2, <2>3, <2>4 DEF Lists
<1> DEFINE x == LHS.v \o RHS.v
<1>12. B[p] = (Front(b) \o <<x>>) \o T
  <2>1. B[p] = Appended(b, p) BY <1>3, <1>8 DEF Reference
  <2>2. repl[p].t \notin {"#", "##"} BY <1>0, <1>3 DEF Is
  <2>3. ~CommaOpt(p - 1) /\ (Is(p - 1, "##") \/ (Is(p - 1, "#") /\ Is(p - 2, "##")))
    <3>1. CASE p = q + 1 BY <1>1, <1>4, <3>1
    <3>2. CASE p = q + 2
      <4>1. Is(p - 1, "#") /\ Is(p - 2, "##") BY <1>1, <1>3, <1>4, <3>2
      <4> QED BY <4>1 DEF CommaOpt, Is
    <3> QED BY <1>3, <3>1, <3>2
  <2>4. B[p] = Append(Front(b), Last(b) \o Head(S)) \o Tail(S)
    BY <1>9, <2>1, <2>2, <2>3 DEF Appended
  <2>5. Last(b) \o Head(S) = x BY <1>7, <1>11
  <2>6. x \in Seq(Pieces)
    <3>1. LHS.v \in Seq(Pieces)
      <4>1. LHS \in Token BY <1>0, <1>7, FrontIn DEF LHS
      <4> QED BY <4>1 DEF Token
    <3> QED BY <1>11, <3>1, ConcatIs
  <2> HIDE DEF x
  <2>7. \A f \in Seq(Seq(Pieces)), y \in Seq(Pieces) : Append(f, y) = f \o <<y>> OBVIOUS
  <2>8. Append(Front(b), x) = Front(b) \o <<x>> BY <1>11, <2>6, <2>7 DEF Lists
  <2> QED BY <1>11, <2>4, <2>5, <2>8
<1>13. Spelling((Front(rv) \o xs) \o d) = (Front(V) \o Spelling(xs)) \o T
  <2>1. Front(rv) \o xs \in Seq(Token) BY <1>7, ConcatIs
  <2>2. Spelling((Front(rv) \o xs) \o d) = Spelling(Front(rv) \o xs) \o Spelling(d)
    BY <1>10, <2>1, SpellingConcat
  <2>3. Spelling(Front(rv) \o xs) = Spelling(Front(rv)) \o Spelling(xs) BY <1>7, SpellingConcat
  <2> QED BY <1>7, <2>2, <2>3 DEF T
<1>14. Joined(Spelling((Front(rv) \o xs) \o d), B[p])
  <2>1. Alike(Front(V), Front(b)) BY <1>6, JoinedFront
  <2>2. Joined(Spelling(xs), <<x>>) BY <1>7
  <2> HIDE DEF x
  <2>3. Joined(Front(V) \o Spelling(xs), Front(b) \o <<x>>) BY <2>1, <2>2, JoinedBehind
  <2>4. Joined((Front(V) \o Spelling(xs)) \o T, (Front(b) \o <<x>>) \o T)
    BY <1>10, <2>3, JoinedMore
  <2> QED BY <1>12, <1>13, <2>4
<1>15. Alike(Spelling((Front(rv) \o xs) \o d), B[p]) BY <1>14 DEF Joined
<1> QED BY <1>3, <1>5, <1>7, <1>14, <1>15 DEF Progress, d


-----------------------------------------------------------------------------
(* What C says is there, and is what the definition of UpToToken says      *)

LEMMA ReferenceDefined ==
  ASSUME Len(repl) \in Nat
  PROVE  Reference(UpToToken)
<1> DEFINE N == Len(repl)
           T == {n \in 0..N :
                   \E f : f = [p \in 0..n |-> IF p = 0 THEN <<>> ELSE Appended(f[p - 1], p)]}
<1>1. 0 \in T
  <2> DEFINE f == [p \in 0..0 |-> <<>>]
  <2>1. f = [p \in 0..0 |-> IF p = 0 THEN <<>> ELSE Appended(f[p - 1], p)] OBVIOUS
  <2> HIDE DEF f
  <2> QED BY <2>1
<1>2. \A n \in 0..(N - 1) : n \in T => n + 1 \in T
  <2> SUFFICES ASSUME NEW n \in 0..(N - 1), n \in T PROVE n + 1 \in T
    OBVIOUS
  <2>1. PICK f : f = [p \in 0..n |-> IF p = 0 THEN <<>> ELSE Appended(f[p - 1], p)]
    OBVIOUS
  <2> DEFINE g == [p \in 0..(n + 1) |-> IF p = n + 1 THEN Appended(f[n], n + 1) ELSE f[p]]
  <2>2. \A p \in 0..n : g[p] = f[p] OBVIOUS
  <2>3. g[n + 1] = Appended(f[n], n + 1) OBVIOUS
  <2>4. n \in Nat /\ n + 1 \in 0..N OBVIOUS
  <2>5. ASSUME NEW p \in 0..(n + 1)
        PROVE  g[p] = IF p = 0 THEN <<>> ELSE Appended(g[p - 1], p)
    <3>1. CASE p = n + 1
      <4>1. p - 1 = n /\ n \in 0..n /\ p # 0 BY <2>4, <3>1
      <4>2. g[p - 1] = f[n] BY <2>2, <4>1
      <4>3. g[p] = Appended(f[n], n + 1) BY <2>3, <3>1
      <4> HIDE DEF g
      <4> QED BY <3>1, <4>1, <4>2, <4>3
    <3>2. CASE p # n + 1
      <4>1. p \in 0..n /\ (p # 0 => p - 1 \in 0..n) BY <2>4, <3>2
      <4>2. g[p] = f[p] /\ (p # 0 => g[p - 1] = f[p - 1]) BY <2>2, <4>1
      <4>3. f[p] = IF p = 0 THEN <<>> ELSE Appended(f[p - 1], p)
        <5> DEFINE body(x) == IF x = 0 THEN <<>> ELSE Appended(f[x - 1], x)
        <5>1. f = [x \in 0..n |-> body(x)] BY <2>1
        <5> HIDE DEF body
        <5>2. f[p] = body(p) BY <4>1, <5>1
        <5> QED BY <5>2 DEF body
      <4> HIDE DEF g
      <4> QED BY <4>2, <4>3
    <3> QED BY <3>1, <3>2
  <2>6. g = [p \in 0..(n + 1) |-> g[p]] OBVIOUS
  <2> HIDE DEF g
  <2>7. g = [p \in 0..(n + 1) |-> IF p = 0 THEN <<>> ELSE Appended(g[p - 1], p)]
    <3> DEFINE h(p) == IF p = 0 THEN <<>> ELSE Appended(g[p - 1], p)
    <3>1. \A p \in 0..(n + 1) : g[p] = h(p) BY <2>5
    <3> HIDE DEF h
    <3>2. g = [p \in 0..(n + 1) |-> h(p)] BY <2>6, <3>1
    <3> QED BY <3>2 DEF h
  <2> QED BY <2>4, <2>7
<1>3. N \in T
  <2>1. N \in Nat /\ N \in 0..N OBVIOUS
  <2> HIDE DEF T, N
  <2>2. \A n \in 0..N : n \in T BY <1>1, <1>2, <2>1, UpTo
  <2> QED BY <2>1, <2>2
<1>4. \E f : f = [p \in 0..N |-> IF p = 0 THEN <<>> ELSE Appended(f[p - 1], p)] BY <1>3
<1> DEFINE f == UpToToken
<1>5. f = [p \in 0..N |-> IF p = 0 THEN <<>> ELSE Appended(f[p - 1], p)] BY <1>4 DEF UpToToken
<1> HIDE DEF f, T
<1>6. f[0] = <<>>
  <2>1. 0 \in 0..N OBVIOUS
  <2> QED BY <1>5, <2>1
<1>7. \A p \in 1..N : f[p] = Appended(f[p - 1], p)
  <2> TAKE p \in 1..N
  <2> DEFINE body(x) == IF x = 0 THEN <<>> ELSE Appended(f[x - 1], x)
  <2>1. f = [x \in 0..N |-> body(x)] BY <1>5
  <2>2. p \in 0..N /\ p # 0 OBVIOUS
  <2> HIDE DEF body
  <2>3. f[p] = body(p) BY <2>1, <2>2
  <2> QED BY <2>2, <2>3 DEF body
<1> QED BY <1>6, <1>7 DEF Reference, f

(* Without placemarkers a list is what it shows. *)
LEMMA WithoutShown ==
  ASSUME NEW list \in Seq(Token)
  PROVE  Spelling(WithoutPlacemarkers(list)) = Shown(Spelling(list))
<1> DEFINE N == Len(list)
           one(j) == IF IsPlacemarker(list[j]) THEN <<>> ELSE <<list[j]>>
           ss == [j \in DOMAIN list |-> one(j)]
           V == Spelling(list)
           shown(j) == IF V[j] = <<>> THEN <<>> ELSE <<V[j]>>
           tt == [j \in DOMAIN V |-> shown(j)]
<1>1. N \in Nat /\ DOMAIN list = 1..N /\ \A j \in 1..N : list[j] \in Token OBVIOUS
<1>2. V \in Seq(Seq(Pieces)) /\ Len(V) = N /\ \A j \in 1..N : V[j] = list[j].v /\ V[j] \in Seq(Pieces)
  <2>1. V \in Lists /\ Len(V) = N /\ \A j \in 1..N : V[j] = list[j].v BY SpellingIs
  <2> HIDE DEF V
  <2>2. V \in Seq(Seq(Pieces)) BY <2>1 DEF Lists
  <2> QED BY <2>1, <2>2
<1>3. WithoutPlacemarkers(list) = FlattenSeq(ss) BY DEF WithoutPlacemarkers
<1>4. Shown(V) = FlattenSeq(tt) BY DEF Shown
<1>5. \A j \in 1..N : one(j) \in Seq(Token) /\ shown(j) \in Lists /\ Spelling(one(j)) = shown(j)
  <2> TAKE j \in 1..N
  <2> HIDE DEF V, N
  <2>1. list[j] \in Token /\ V[j] = list[j].v /\ V[j] \in Seq(Pieces) BY <1>1, <1>2
  <2>2. <<>> \in Seq(Token) /\ <<list[j]>> \in Seq(Token) BY <2>1
  <2>3. <<>> \in Lists /\ <<V[j]>> \in Lists
    <3>1. <<V[j]>> \in Seq(Seq(Pieces)) BY <2>1
    <3> QED BY <3>1 DEF Lists
  <2>4. Spelling(<<list[j]>>) = <<V[j]>> /\ Spelling(<<>>) = <<>> BY <2>1, SpellingFew
  <2> QED BY <2>1, <2>2, <2>3, <2>4 DEF IsPlacemarker
<1>6. ss \in Seq(Seq(Token)) /\ Len(ss) = N /\ \A j \in 1..N : ss[j] = one(j)
  <2> HIDE DEF one, N
  <2>1. ss \in [1..N -> Seq(Token)] /\ \A j \in 1..N : ss[j] = one(j) BY <1>1, <1>5
  <2> HIDE DEF ss
  <2> QED BY <1>1, <2>1
<1>7. tt \in Seq(Seq(Seq(Pieces))) /\ Len(tt) = N /\ \A j \in 1..N : tt[j] = shown(j)
  <2> HIDE DEF shown, V, N
  <2>0. DOMAIN V = 1..N BY <1>1, <1>2
  <2>1. tt \in [1..N -> Seq(Seq(Pieces))] /\ \A j \in 1..N : tt[j] = shown(j)
    BY <1>1, <1>5, <2>0 DEF Lists
  <2> HIDE DEF tt
  <2> QED BY <1>1, <2>1
<1> HIDE DEF N, one, ss, V, shown, tt
<1>8. PICK F \in [0..N -> Seq(Token)] :
        F[0] = <<>> /\ F[N] = FlattenSeq(ss) /\ Flattened(F, ss)
  BY <1>6, FlattenSteps
<1>9. PICK G \in [0..N -> Seq(Seq(Pieces))] :
        G[0] = <<>> /\ G[N] = FlattenSeq(tt) /\ Flattened(G, tt)
  BY <1>7, FlattenSteps
<1> DEFINE T == {n \in 0..N : Spelling(F[n]) = G[n]}
<1>10. 0 \in T
  <2>1. Spelling(<<>>) = <<>> BY DEF Spelling
  <2> QED BY <1>1, <1>8, <1>9, <2>1
<1>11. \A n \in 0..(N - 1) : n \in T => n + 1 \in T
  <2> SUFFICES ASSUME NEW n \in 0..(N - 1), n \in T PROVE n + 1 \in T
    OBVIOUS
  <2> DEFINE m == n + 1
  <2>1. m \in 1..N /\ m \in 0..N /\ m - 1 = n /\ n \in 0..N BY <1>1
  <2>2. Spelling(F[n]) = G[n] OBVIOUS
  <2> HIDE DEF m, T
  <2>3. F[m] = F[n] \o ss[m] /\ G[m] = G[n] \o tt[m]
    BY <1>6, <1>7, <1>8, <1>9, <2>1 DEF Flattened
  <2>4. F[n] \in Seq(Token) /\ ss[m] \in Seq(Token) /\ Spelling(ss[m]) = tt[m]
    BY <1>5, <1>6, <1>7, <1>8, <2>1
  <2>5. Spelling(F[m]) = G[m] BY <2>2, <2>3, <2>4, SpellingConcat
  <2> QED BY <2>1, <2>5 DEF T, m
<1> HIDE DEF T
<1>12. N \in T
  <2>1. \A n \in 0..N : n \in T BY <1>1, <1>10, <1>11, UpTo
  <2> QED BY <1>1, <2>1
<1>13. Spelling(F[N]) = G[N] BY <1>12 DEF T
<1> QED BY <1>3, <1>4, <1>8, <1>9, <1>13 DEF V


-----------------------------------------------------------------------------
(* Every step                                                              *)

ProgressInv ==
  phase = "paste" /\ err = "none" /\ AsInC =>
    \A B : Reference(B) => InProgress(B, iter, rv)
ExpandedInv ==
  phase = "expanded" /\ AsInC =>
    \A B : Reference(B) => Spelling(rv) = Shown(B[Len(repl)])

(* What C says depends on the spelling of the list and on the arguments.   *)
LEMMA SameReference ==
  ASSUME macro' = macro, args' = args, DOMAIN repl' = DOMAIN repl,
         Len(repl') = Len(repl), DOMAIN repl = 1..Len(repl),
         \A p \in DOMAIN repl : repl'[p].t = repl[p].t
  PROVE  /\ AsInC' <=> AsInC
         /\ \A B : Reference(B)' <=> Reference(B)
<1>1. /\ \A p, t : Is(p, t)' <=> Is(p, t)
      /\ \A p : (Formal(p)' <=> Formal(p)) /\ (CommaOpt(p)' <=> CommaOpt(p))
  BY SameSpelling
<1>2. AsInC' <=> AsInC BY <1>1 DEF AsInC
<1>3. \A p \in DOMAIN repl : Replaced(p)' = Replaced(p)
  BY <1>1 DEF Replaced, Operand
<1>4. \A p \in DOMAIN repl : \A before : Appended(before, p)' = Appended(before, p)
  BY <1>1, <1>3 DEF Appended
<1>5. ASSUME NEW B PROVE Reference(B)' <=> Reference(B) BY <1>4 DEF Reference
<1> QED BY <1>2, <1>5

(* A step of pasteAll changes the result, and where it is. *)
LEMMA SamePlaces ==
  ASSUME UNCHANGED <<macro, repl, args, subst>>
  PROVE  \A B, i, list : InProgress(B, i, list)' <=> InProgress(B, i, list)
<1>1. /\ \A p, t : Is(p, t)' <=> Is(p, t)
      /\ \A p : CommaOpt(p)' <=> CommaOpt(p)
  BY SameSpelling
<1>2. Parts' = Parts BY DEF Parts, Becomes, Argument, Is
<1>3. End' = End BY <1>2 DEF End
<1>4. \A p, i : (ReachedIn(p, i)' <=> ReachedIn(p, i)) /\ Coming(p, i)' = Coming(p, i)
  BY <1>3 DEF ReachedIn, Within, Coming
<1>5. \A B, p, i, list : Progress(B, p, i, list)' <=> Progress(B, p, i, list)
  BY <1>1, <1>4 DEF Progress
<1> QED BY <1>4, <1>5 DEF InProgress

LEMMA ResultProgress ==
  ASSUME IInv, phase = "paste", UNCHANGED <<macro, repl, phase, args, subst>>,
         NEW i, NEW list, iter' = i, rv' = list,
         AsInC => \A B : Reference(B) => InProgress(B, i, list)
  PROVE  (ProgressInv /\ ExpandedInv)'
<1>1. repl' = repl /\ DOMAIN repl = 1..Len(repl) BY DEF IInv, Typed
<1>2. (AsInC' <=> AsInC) /\ \A B : Reference(B)' <=> Reference(B) BY <1>1, SameReference
<1>3. \A B : InProgress(B, i, list)' <=> InProgress(B, i, list) BY SamePlaces
<1>4. \A B : InProgress(B, iter, rv)' <=> InProgress(B, i, list)'
  BY DEF InProgress, ReachedIn, Progress, Coming
<1> QED BY <1>2, <1>3, <1>4 DEF ProgressInv, ExpandedInv

LEMMA CopyStep == ASSUME IInv, ProgressInv, Copy PROVE (ProgressInv /\ ExpandedInv)'
<1> DEFINE tok == [subst[iter] EXCEPT !.own = 0]
           list == Append(rv, tok)
           i == iter + 1
<1>1. /\ phase = "paste" /\ err = "none" /\ iter \in DOMAIN subst
      /\ subst[iter].cat \notin {"hashhash", "commaopt"}
      /\ rv' = list /\ iter' = i /\ UNCHANGED <<macro, repl, phase, args, subst>>
  BY DEF Copy, Pasting, Result
<1>2. iter \in 1..Len(subst) /\ subst[iter] \in Token /\ Len(repl) \in Nat BY <1>1, PasteSteps
<1>3. tok \in Token /\ tok.v = subst[iter].v
  <2>1. 0 \in 0..Len(repl) BY <1>2
  <2> QED BY <1>2, <2>1 DEF Token
<1> HIDE DEF tok
<1>4. ASSUME AsInC, NEW B, Reference(B) PROVE InProgress(B, i, list)
  <2>1. InProgress(B, iter, rv) BY <1>1, <1>4 DEF ProgressInv
  <2> SUFFICES ASSUME NEW n \in 0..Len(repl), ReachedIn(n, iter + 1)
               PROVE  Progress(B, n, iter + 1, Append(rv, tok))
    BY DEF InProgress
  <2> QED BY <1>1, <1>2, <1>3, <1>4, <2>1, CopyProgress
<1> HIDE DEF list, i
<1> QED BY <1>1, <1>4, ResultProgress

LEMMA CommaKeptStep == ASSUME IInv, ProgressInv, CommaKept PROVE (ProgressInv /\ ExpandedInv)'
<1> DEFINE i == iter + 1
           list == rv
<1>1. /\ phase = "paste" /\ err = "none" /\ iter \in DOMAIN subst
      /\ subst[iter].cat = "commaopt" /\ args.given
      /\ rv' = list /\ iter' = i /\ UNCHANGED <<macro, repl, phase, args, subst>>
  BY DEF CommaKept, Pasting, Result
<1>2. iter \in 1..Len(subst) BY <1>1, PasteSteps
<1>3. ASSUME AsInC, NEW B, Reference(B) PROVE InProgress(B, i, list)
  <2>1. InProgress(B, iter, rv) BY <1>1, <1>3 DEF ProgressInv
  <2> SUFFICES ASSUME NEW n \in 0..Len(repl), ReachedIn(n, iter + 1)
               PROVE  Progress(B, n, iter + 1, rv)
    BY DEF InProgress
  <2> QED BY <1>1, <1>2, <1>3, <2>1, CommaKeptProgress
<1> HIDE DEF list, i
<1> QED BY <1>1, <1>3, ResultProgress

LEMMA CommaDeletedStep ==
  ASSUME IInv, ProgressInv, CommaDeleted PROVE (ProgressInv /\ ExpandedInv)'
<1> DEFINE i == iter + 2
           list == Front(rv)
<1>1. /\ phase = "paste" /\ err = "none" /\ iter \in DOMAIN subst
      /\ subst[iter].cat = "commaopt" /\ ~args.given
      /\ rv' = list /\ iter' = i /\ UNCHANGED <<macro, repl, phase, args, subst>>
  BY DEF CommaDeleted, Pasting, Result
<1>2. iter \in 1..Len(subst) BY <1>1, PasteSteps
<1>3. ASSUME AsInC, NEW B, Reference(B) PROVE InProgress(B, i, list)
  <2>1. InProgress(B, iter, rv) BY <1>1, <1>3 DEF ProgressInv
  <2> SUFFICES ASSUME NEW n \in 0..Len(repl), ReachedIn(n, iter + 2)
               PROVE  Progress(B, n, iter + 2, Front(rv))
    BY DEF InProgress
  <2> QED BY <1>1, <1>2, <1>3, <2>1, CommaDeletedProgress
<1> HIDE DEF list, i
<1> QED BY <1>1, <1>3, ResultProgress

(* An exception leaves nothing to be said. *)
LEMMA RaiseStep ==
  ASSUME phase = "paste", Raise("glued") PROVE (ProgressInv /\ ExpandedInv)'
BY DEF Raise, ProgressInv, ExpandedInv

(* A ## has something before it, and pastes it. *)
LEMMA HashHashStep ==
  ASSUME IInv, ProgressInv, NothingToPaste \/ PastePlacemarker \/ Paste
  PROVE  (ProgressInv /\ ExpandedInv)'
<1>1. /\ phase = "paste" /\ err = "none" /\ iter \in DOMAIN subst
      /\ subst[iter].cat = "hashhash"
  BY DEF NothingToPaste, PastePlacemarker, Paste, Pasting
<1>2. /\ iter \in 1..Len(subst) /\ repl \in Seq(ReplToken) /\ rv \in Seq(Token)
      /\ RHS \in Token
  BY <1>1, PasteSteps DEF RHS
<1>3. rv # <<>> => LHS \in Token BY <1>2, FrontIn DEF LHS
<1>4. ASSUME NEW xs \in Seq(Token), rv # <<>>, Joined(Spelling(xs), <<LHS.v \o RHS.v>>),
             AsInC, NEW B, Reference(B)
      PROVE  InProgress(B, iter + 2, Front(rv) \o xs)
  <2>1. InProgress(B, iter, rv) BY <1>1, <1>4 DEF ProgressInv
  <2> SUFFICES ASSUME NEW n \in 0..Len(repl), ReachedIn(n, iter + 2)
               PROVE  Progress(B, n, iter + 2, Front(rv) \o xs)
    BY DEF InProgress
  <2> QED BY <1>1, <1>2, <1>4, <2>1, PasteProgress
<1>5. ASSUME NEW xs \in Seq(Token), rv # <<>>, Joined(Spelling(xs), <<LHS.v \o RHS.v>>),
             Result(Front(rv) \o xs, 2)
      PROVE  (ProgressInv /\ ExpandedInv)'
  <2> DEFINE i == iter + 2
             list == Front(rv) \o xs
  <2>1. rv' = list /\ iter' = i /\ UNCHANGED <<macro, repl, phase, args, subst>>
    BY <1>5 DEF Result
  <2>2. AsInC => \A B : Reference(B) => InProgress(B, i, list) BY <1>4, <1>5
  <2> HIDE DEF i, list
  <2> QED BY <1>1, <2>1, <2>2, ResultProgress
<1>6. CASE NothingToPaste
  <2>1. rv = <<>> /\ iter' = iter + 1 /\ rv' = rv /\ UNCHANGED <<macro, repl, phase, args, subst>>
    BY <1>6 DEF NothingToPaste, Result
  <2> DEFINE i == iter + 1
             list == rv
  <2>2. ASSUME AsInC, NEW B, Reference(B) PROVE InProgress(B, i, list)
    <3>1. InProgress(B, iter, rv) BY <1>1, <2>2 DEF ProgressInv
    <3> DEFINE q == subst[iter].own
    <3>2. q \in 2..(Len(repl) - 1) /\ Is(q, "##") /\ End[q - 1] = iter - 1
      BY <1>1, <1>2, HashHashAt
    <3> HIDE DEF q
    <3>3. Len(repl) \in Nat BY <1>2
    <3>4. q - 1 \in 0..Len(repl) /\ iter = End[q - 1] + 1 /\ (q - 1) + 1 = q BY <1>2, <3>2, <3>3
    <3>5. Done(B, q - 1) BY <1>1, <2>2, <3>1, <3>4, DoneIs
    <3>6. Joined(Spelling(rv), B[q - 1]) BY <3>2, <3>4, <3>5 DEF Done
    <3>7. Spelling(rv) # <<>> BY <3>6 DEF Joined
    <3>8. rv # <<>> BY <1>2, <3>7, FrontSpelled
    <3> QED BY <2>1, <3>8
  <2> HIDE DEF i
  <2> QED BY <1>1, <2>1, <2>2, ResultProgress DEF i
<1>7. CASE PastePlacemarker
  <2>1. /\ rv # <<>> /\ (IsPlacemarker(LHS) \/ IsPlacemarker(RHS))
        /\ Result(Front(rv) \o (IF IsPlacemarker(LHS) THEN <<RHS>> ELSE <<>>)
                            \o (IF IsPlacemarker(RHS) THEN <<LHS>> ELSE <<>>), 2)
    BY <1>7 DEF PastePlacemarker, Needlx
  <2>2. /\ Pasted(LHS, RHS) \in Seq(Token)
        /\ Joined(Spelling(Pasted(LHS, RHS)), <<LHS.v \o RHS.v>>)
    BY <1>2, <1>3, <2>1, PastedSpelled
  <2>3. Front(rv) \o (IF IsPlacemarker(LHS) THEN <<RHS>> ELSE <<>>)
                  \o (IF IsPlacemarker(RHS) THEN <<LHS>> ELSE <<>>) = Front(rv) \o Pasted(LHS, RHS)
    <3> DEFINE f == Front(rv)
               l == IF IsPlacemarker(LHS) THEN <<RHS>> ELSE <<>>
               r == IF IsPlacemarker(RHS) THEN <<LHS>> ELSE <<>>
    <3>1. f \in Seq(Token) BY <1>2, FrontIn
    <3>2. l \in Seq(Token) /\ r \in Seq(Token)
      <4>1. <<LHS>> \in Seq(Token) /\ <<RHS>> \in Seq(Token) /\ <<>> \in Seq(Token)
        BY <1>2, <1>3, <2>1
      <4> QED BY <4>1
    <3>3. Pasted(LHS, RHS) = l \o r BY DEF Pasted
    <3> HIDE DEF f, l, r
    <3>4. (f \o l) \o r = f \o (l \o r) BY <3>1, <3>2, ConcatAssociative
    <3> QED BY <3>3, <3>4 DEF f, l, r
  <2>4. Result(Front(rv) \o Pasted(LHS, RHS), 2) BY <2>1, <2>3
  <2> QED BY <1>5, <2>1, <2>2, <2>4
<1>8. CASE Paste
  <2>1. CASE <<"comma">> \in {LHS.v, RHS.v}
    <3>1. Raise("glued") BY <1>8, <2>1 DEF Paste
    <3> QED BY <1>1, <3>1, RaiseStep
  <2>2. CASE <<"comma">> \notin {LHS.v, RHS.v}
    <3>1. rv # <<>> /\ Result(Append(Front(rv), New(LHS.v \o RHS.v)), 2)
      BY <1>8, <2>2 DEF Paste
    <3> DEFINE new == New(LHS.v \o RHS.v)
    <3>2. <<new>> \in Seq(Token) /\ Joined(Spelling(<<new>>), <<LHS.v \o RHS.v>>)
      BY <1>2, <1>3, <3>1, PastedSpelled
    <3>3. new \in Token
      <4>1. LHS.v \in Seq(Pieces) /\ RHS.v \in Seq(Pieces) BY <1>2, <1>3, <3>1 DEF Token
      <4>2. LHS.v \o RHS.v \in Seq(Pieces) BY <4>1, ConcatIs
      <4> QED BY <1>2, <4>2, NewIs
    <3> HIDE DEF new
    <3>4. Append(Front(rv), new) = Front(rv) \o <<new>>
      <4>1. Front(rv) \in Seq(Token) BY <1>2, FrontIn
      <4>2. \A f \in Seq(Token), y \in Token : Append(f, y) = f \o <<y>> OBVIOUS
      <4> QED BY <3>3, <4>1, <4>2
    <3>5. Result(Front(rv) \o <<new>>, 2) BY <3>1, <3>4 DEF new
    <3> QED BY <1>5, <3>1, <3>2, <3>5
  <2> QED BY <2>1, <2>2
<1> QED BY <1>6, <1>7, <1>8


(* At the start of a call nothing is pasted. *)
Started == phase = "paste" /\ iter = 1 /\ rv = <<>>
LEMMA StartProgress == IInv /\ Started => ProgressInv
<1> SUFFICES ASSUME IInv, Started PROVE ProgressInv
  OBVIOUS
<1>1. phase = "paste" /\ iter = 1 /\ rv = <<>> BY DEF Started
<1> SUFFICES ASSUME AsInC, NEW B, Reference(B), NEW p \in 0..Len(repl), ReachedIn(p, iter)
             PROVE  Progress(B, p, iter, rv)
  BY DEF ProgressInv, InProgress
<1>2. p = 0
  <2> SUFFICES ASSUME p # 0 PROVE FALSE
    OBVIOUS
  <2>1. p \in 1..Len(repl) /\ p - 1 \in 0..Len(repl) BY <1>1, EndIs
  <2>2. Within(p, 0) BY <1>1 DEF ReachedIn
  <2>3. End[p - 1] \in Nat BY <1>1, <2>1, EndIs
  <2> QED BY <2>2, <2>3 DEF Within
<1>3. Coming(p, iter) = <<>>
  <2>1. End[0] = 0 /\ 0 \in 0..Len(repl) BY <1>1, EndIs
  <2>2. iter = End[0] + 1 /\ iter \in 1..(End[0] + 1) BY <1>1, <2>1
  <2> QED BY <1>1, <1>2, <2>1, <2>2, ComingIs
<1>4. B[0] = <<>> BY DEF Reference
<1>5. Spelling(rv \o Coming(p, iter)) = <<>>
  <2>1. <<>> \o <<>> = <<>> OBVIOUS
  <2>2. Spelling(<<>>) = <<>> BY DEF Spelling
  <2> QED BY <1>1, <1>3, <2>1, <2>2
<1>6. Alike(<<>>, <<>>) BY DEF Alike, Lists
<1>7. ~Is(1, "##") /\ ~Is(0, "##")
  <2>1. ~Is(1, "##") BY <1>1 DEF IInv, Listed
  <2>2. 0 \notin DOMAIN repl BY <1>1, EndIs
  <2> QED BY <2>1, <2>2 DEF Is
<1> QED BY <1>2, <1>4, <1>5, <1>6, <1>7 DEF Progress

(* The definition is not yet called. *)
LEMMA DefineStep ==
  ASSUME phase' \notin {"paste", "expanded"} PROVE (ProgressInv /\ ExpandedInv)'
BY DEF ProgressInv, ExpandedInv

LEMMA PushStep == ASSUME IInv, ProgressInv, Push PROVE (ProgressInv /\ ExpandedInv)'
<1>1. /\ phase = "paste" /\ err = "none" /\ iter > Len(subst)
      /\ rv' = WithoutPlacemarkers(rv) /\ phase' = "expanded"
      /\ UNCHANGED <<macro, repl, args>>
  BY DEF Push, WithoutPlacemarkers
<1>2. /\ rv \in Seq(Token) /\ Len(subst) \in Nat /\ iter \in 1..(Len(subst) + 1)
      /\ DOMAIN repl = 1..Len(repl) /\ Len(repl) \in Nat
  BY <1>1 DEF IInv, Typed, Listed
<1>3. (AsInC' <=> AsInC) /\ \A B : Reference(B)' <=> Reference(B) BY <1>1, <1>2, SameReference
<1>4. ASSUME AsInC, NEW B, Reference(B) PROVE Spelling(rv') = Shown(B[Len(repl)])
  <2>1. InProgress(B, iter, rv) BY <1>1, <1>4 DEF ProgressInv
  <2>2. Len(repl) \in 0..Len(repl) /\ iter = End[Len(repl)] + 1
    <3>1. End[Len(repl)] = Len(subst) BY <1>1, EndIs
    <3> QED BY <1>1, <1>2, <3>1
  <2>3. Done(B, Len(repl)) BY <1>1, <1>4, <2>1, <2>2, DoneIs
  <2>4. Shown(Spelling(rv)) = Shown(B[Len(repl)]) BY <2>3 DEF Done, Alike
  <2>5. Spelling(WithoutPlacemarkers(rv)) = Shown(Spelling(rv)) BY <1>2, WithoutShown
  <2> QED BY <1>1, <2>4, <2>5
<1>5. Spelling(rv)' = Spelling(rv') BY DEF Spelling
<1>6. ExpandedInv' BY <1>1, <1>3, <1>4, <1>5 DEF ExpandedInv
<1>7. ProgressInv' BY <1>1 DEF ProgressInv
<1> QED BY <1>6, <1>7

(* What is painted is spelled as before. *)
LEMMA PaintStep == ASSUME IInv, ExpandedInv, Paint PROVE (ProgressInv /\ ExpandedInv)'
<1>1. phase = "expanded" /\ UNCHANGED <<macro, phase, args>> BY DEF Paint
<1>2. /\ rv \in Seq(Token) /\ repl \in Seq(ReplToken) /\ DOMAIN repl = 1..Len(repl)
      /\ Len(repl) \in Nat
  BY DEF IInv, Typed
<1>3. PICK j \in DOMAIN rv :
        /\ rv' = [rv EXCEPT ![j].painted = TRUE]
        /\ repl' = IF rv[j].own = 0 THEN repl ELSE [repl EXCEPT ![rv[j].own].painted = TRUE]
  BY DEF Paint
<1>4. DOMAIN rv' = DOMAIN rv /\ \A i \in DOMAIN rv : rv'[i].v = rv[i].v
  <2>1. \A i \in DOMAIN rv : [rv[i] EXCEPT !.painted = TRUE].v = rv[i].v BY <1>2 DEF Token
  <2>2. rv' = [rv EXCEPT ![j] = [rv[j] EXCEPT !.painted = TRUE]] BY <1>3
  <2> QED BY <2>1, <2>2
<1>5. DOMAIN repl' = DOMAIN repl /\ \A p \in DOMAIN repl : repl'[p].t = repl[p].t
  <2> DEFINE o == rv[j].own
  <2>1. CASE o = 0 BY <1>3, <2>1
  <2>2. CASE o # 0
    <3>1. repl' = [repl EXCEPT ![o] = [repl[o] EXCEPT !.painted = TRUE]] BY <1>3, <2>2
    <3>2. \A p \in DOMAIN repl : [repl[p] EXCEPT !.painted = TRUE].t = repl[p].t
      BY <1>2 DEF ReplToken
    <3> HIDE DEF o
    <3> QED BY <3>1, <3>2
  <2> QED BY <2>1, <2>2
<1>6. Len(repl') = Len(repl)
  <2> DEFINE n == Len(repl)
  <2>1. n \in Nat /\ DOMAIN repl' = 1..n BY <1>2, <1>5
  <2>2. repl' \in Seq(ReplToken) \/ repl' = repl
    <3> DEFINE o == rv[j].own
    <3>1. CASE o = 0 BY <1>3, <3>1
    <3>2. CASE o # 0
      <4>1. repl' = [repl EXCEPT ![o] = [repl[o] EXCEPT !.painted = TRUE]] BY <1>3, <3>2
      <4>2. \A p \in DOMAIN repl : [repl[p] EXCEPT !.painted = TRUE] \in ReplToken
        <5> TAKE p \in DOMAIN repl
        <5>1. repl[p] \in ReplToken BY <1>2
        <5> QED BY <5>1 DEF ReplToken
      <4> HIDE DEF o
      <4> QED BY <1>2, <4>1, <4>2
    <3> QED BY <3>1, <3>2
  <2> QED BY <1>2, <2>1, <2>2
<1>7. (AsInC' <=> AsInC) /\ \A B : Reference(B)' <=> Reference(B)
  BY <1>1, <1>2, <1>5, <1>6, SameReference
<1>8. Spelling(rv)' = Spelling(rv) BY <1>4 DEF Spelling
<1>9. ExpandedInv' BY <1>1, <1>6, <1>7, <1>8 DEF ExpandedInv
<1>10. ProgressInv' BY <1>1 DEF ProgressInv
<1> QED BY <1>9, <1>10

LEMMA StayStep ==
  ASSUME IInv, ProgressInv, ExpandedInv, UNCHANGED vars PROVE (ProgressInv /\ ExpandedInv)'
<1>1. UNCHANGED <<macro, repl, phase, iter, args, subst, rv, calls, err>> BY DEF vars
<1>2. DOMAIN repl = 1..Len(repl) BY DEF IInv, Typed
<1>3. (AsInC' <=> AsInC) /\ \A B : Reference(B)' <=> Reference(B) BY <1>1, <1>2, SameReference
<1>4. ProgressInv'
  <2>1. CASE phase = "paste" BY <1>1, <2>1, ResultProgress DEF ProgressInv
  <2>2. CASE phase # "paste" BY <1>1, <2>2 DEF ProgressInv
  <2> QED BY <2>1, <2>2
<1>5. ExpandedInv' BY <1>1, <1>3 DEF ExpandedInv, Spelling
<1> QED BY <1>4, <1>5

LEMMA StepAsInC ==
  IInv /\ IInv' /\ ProgressInv /\ ExpandedInv /\ [Next]_vars => (ProgressInv /\ ExpandedInv)'
<1> SUFFICES ASSUME IInv, IInv', ProgressInv, ExpandedInv, [Next]_vars
             PROVE  (ProgressInv /\ ExpandedInv)'
  OBVIOUS
<1>1. CASE Call
  <2>1. phase' = "paste" /\ iter' = 1 /\ rv' = <<>> BY <1>1 DEF Call
  <2>2. Started' BY <2>1 DEF Started
  <2>3. IInv' /\ Started' => ProgressInv' BY StartProgress, PTL
  <2>4. ExpandedInv' BY <2>1 DEF ExpandedInv
  <2> QED BY <2>2, <2>3, <2>4
<1>2. CASE Take \/ TakenAll \/ MarkSharp \/ MarkHashHash \/ MarkOther \/ Defined
  <2>1. phase' \notin {"paste", "expanded"}
    BY <1>2 DEF Take, TakenAll, MarkSharp, MarkHashHash, MarkOther, Defined, At, Mark, Raise
  <2> QED BY <2>1, DefineStep
<1>3. CASE CommaKept \/ CommaDeleted \/ Copy
  BY <1>3, CommaKeptStep, CommaDeletedStep, CopyStep
<1>4. CASE NothingToPaste \/ PastePlacemarker \/ Paste BY <1>4, HashHashStep
<1>5. CASE Push \/ Paint BY <1>5, PushStep, PaintStep
<1>6. CASE Stopped \/ UNCHANGED vars BY <1>6, StayStep DEF Stopped
<1> QED BY <1>1, <1>2, <1>3, <1>4, <1>5, <1>6 DEF Next, Step

(* A call of any macro with any arguments gives what C says of them,       *)
(* whatever earlier calls have left in the tokens of the definition        *)
(* (Scan.pasteAll, PP_define.usageOfRepl2).                                *)
THEOREM CallsAsC == Spec => []PastesAsC
<1>1. Init => IInv /\ ProgressInv /\ ExpandedInv
  <2> SUFFICES ASSUME Init PROVE IInv /\ ProgressInv /\ ExpandedInv
    OBVIOUS
  <2>1. IInv BY InitIInv
  <2>2. phase = "take" BY DEF Init
  <2> QED BY <2>1, <2>2 DEF ProgressInv, ExpandedInv
<1>2. /\ IInv /\ ProgressInv /\ ExpandedInv
      /\ [Next]_vars
      => (IInv /\ ProgressInv /\ ExpandedInv)'
  <2> SUFFICES ASSUME IInv, ProgressInv, ExpandedInv, [Next]_vars
               PROVE  (IInv /\ ProgressInv /\ ExpandedInv)'
    OBVIOUS
  <2>1. IInv' BY StepIInv
  <2> QED BY <2>1, StepAsInC
<1>3. IInv /\ ExpandedInv => PastesAsC
  <2> SUFFICES ASSUME IInv, ExpandedInv, phase = "expanded", AsInC
               PROVE  [j \in DOMAIN rv |-> rv[j].v] = Expansion
    BY DEF PastesAsC
  <2>1. Len(repl) \in Nat BY DEF IInv, Typed
  <2>2. Reference(UpToToken) BY <2>1, ReferenceDefined
  <2> DEFINE B == UpToToken
  <2>3. Spelling(rv) = Shown(B[Len(repl)])
    <3> HIDE DEF B
    <3>1. Reference(B) BY <2>2 DEF B
    <3> QED BY <3>1 DEF ExpandedInv
  <2> QED BY <2>3 DEF Expansion, Spelling
<1> QED BY <1>1, <1>2, <1>3, PTL DEF Spec

==============================================================================
