------------------------------- MODULE Pasting -------------------------------
(***************************************************************************)
(* The operators # and ## (PP_define, Scan.get, Scan.pasteAll): what the   *)
(* definition of a macro makes of its replacement list, and what a call    *)
(* with given arguments makes of that.  Tokens are objects: the tokens of  *)
(* the definition are kept, and a change to one is seen by all later calls.*)
(***************************************************************************)
EXTENDS Integers, SequencesExt

CONSTANTS Args,       \* what an argument may be: sequences of "a" and "b"
          MaxTokens,  \* bound: the length of a replacement list
          MaxCalls    \* bound: calls of the macro

ASSUME PastingAssumption ==
  Args \subseteq Seq({"a", "b"}) /\ MaxTokens \in Nat /\ MaxCalls \in Nat

Macros == {"object", "function", "variadic"}
Formals == {"x", "y"}   \* y is __VA_ARGS__ of a variadic macro
Categories == {"none", "hashhash", "commaopt", "stringized", "unscanned", "scanned"}

VARIABLES
  macro,    \* what is defined
  repl,     \* its replacement list, each # still before its parameter
  phase,    \* "take", "usage", "defined", "paste", "expanded"
  iter,     \* the index of the loop
  args,     \* of the call
  subst,    \* the list that is pasted
  rv,       \* its result
  calls,
  err       \* the exception that stopped the run, or "none"

vars == <<macro, repl, phase, iter, args, subst, rv, calls, err>>

Init ==
  /\ macro \in Macros /\ repl = <<>> /\ phase = "take" /\ iter = 0
  /\ args = [x |-> <<>>, y |-> <<>>, given |-> FALSE]
  /\ subst = <<>> /\ rv = <<>> /\ calls = 0 /\ err = "none"

Raise(e) == err' = e /\ UNCHANGED <<macro, repl, phase, iter, args, subst, rv, calls>>

-----------------------------------------------------------------------------
(* The definition *)
Spelled == {"id", "comma", "##"} \cup IF macro = "object" THEN {} ELSE Formals \cup {"#"}
Is(p, t) == p \in DOMAIN repl /\ repl[p].t = t
Formal(p) == p \in DOMAIN repl /\ repl[p].t \in Formals

(* One of several ## in a row is taken. *)
Take ==
  /\ phase = "take" /\ err = "none" /\ Len(repl) < MaxTokens
  /\ \E t \in Spelled :
       repl' = IF t = "##" /\ Is(Len(repl), "##") THEN repl
               ELSE Append(repl, [t |-> t, cat |-> "none", painted |-> FALSE])
  /\ UNCHANGED <<macro, phase, iter, args, subst, rv, calls, err>>

(* checkHH *)
TakenAll ==
  /\ phase = "take" /\ err = "none"
  /\ IF Is(1, "##") \/ Is(Len(repl), "##") THEN Raise("hashhash")
     ELSE /\ repl' = [p \in DOMAIN repl |->
                        IF Is(p, "##") THEN [repl[p] EXCEPT !.cat = "hashhash"] ELSE repl[p]]
          /\ phase' = IF macro = "object" THEN "defined" ELSE "usage"
          /\ iter' = 1
          /\ UNCHANGED <<macro, args, subst, rv, calls, err>>

Mark(cats) ==
  /\ repl' = [p \in DOMAIN repl |->
                IF p \in DOMAIN cats THEN [repl[p] EXCEPT !.cat = cats[p]] ELSE repl[p]]
  /\ iter' = iter + 1
  /\ UNCHANGED <<macro, phase, args, subst, rv, calls, err>>

At(t) == phase = "usage" /\ err = "none" /\ Is(iter, t)

MarkSharp ==
  /\ At("#")
  /\ IF Formal(iter + 1) THEN Mark([p \in {iter + 1} |-> "stringized"]) ELSE Raise("sharp")

(* , ## __VA_ARGS__ *)
CommaOpt(p) == macro = "variadic" /\ Is(p - 1, "comma") /\ Is(p, "##") /\ Is(p + 1, "y")

(* Mutated: the operand before a ## is scanned. *)
MarkHashHashBehind ==
  /\ At("##")
  /\ Mark([p \in {q \in {iter, iter + 1} : q = iter \/ Formal(q)} |->
             IF p # iter THEN "unscanned" ELSE IF CommaOpt(p) THEN "commaopt" ELSE "hashhash"])

MarkHashHash ==
  /\ At("##")
  /\ LET operands == {iter - 1} \cup IF CommaOpt(iter) THEN {} ELSE {iter + 1}
     IN  Mark([p \in {iter} \cup {q \in operands : Formal(q)} |->
                 IF p # iter THEN "unscanned"
                 ELSE IF CommaOpt(p) THEN "commaopt" ELSE "hashhash"])

MarkOther ==
  /\ phase = "usage" /\ err = "none" /\ iter \in DOMAIN repl
  /\ repl[iter].t \notin {"#", "##"}
  /\ LET free == Formal(iter) /\ repl[iter].cat \notin {"stringized", "unscanned"}
     IN  Mark([p \in IF free THEN {iter} ELSE {} |-> "scanned"])

Defined ==
  /\ phase = "usage" /\ err = "none" /\ iter > Len(repl) /\ phase' = "defined"
  /\ UNCHANGED <<macro, repl, iter, args, subst, rv, calls, err>>

-----------------------------------------------------------------------------
(* A call.  A token is its spelling, a sequence of pieces of which a       *)
(* placemarker has none; own is the token of the definition that it is, or *)
(* 0 for an object of the call.                                            *)
New(v) == [v |-> v, cat |-> "none", own |-> 0, painted |-> FALSE]
Placemarker == New(<<>>)
IsPlacemarker(tok) == tok.v = <<>>

(* What expanding an argument gives: of "a" another token, of "b" nothing. *)
Scanned(arg) ==
  FlattenSeq([p \in DOMAIN arg |-> IF arg[p] = "a" THEN <<"A">> ELSE <<>>])
Tokens(arg) == [p \in DOMAIN arg |-> New(<<arg[p]>>)]
Stringized(arg) == << <<"str">> \o arg >>

(* The argument in the variant that this place of the list asks for. *)
Argument(p, as) ==
  LET arg == as[repl[p].t]
      cat == repl[p].cat
  IN  CASE cat = "stringized" -> <<New(Stringized(arg)[1])>>
        [] cat # "stringized" /\ arg = <<>> -> <<Placemarker>>
        [] cat = "unscanned" /\ arg # <<>> -> Tokens(arg)
        [] cat = "scanned" /\ arg # <<>> -> Tokens(Scanned(arg))

(* The list is without the # that were in it. *)
Becomes(p, as) ==
  CASE repl[p].cat \in {"stringized", "unscanned", "scanned"} -> Argument(p, as)
    [] Is(p, "#") -> <<>>
    [] OTHER -> <<[v |-> <<repl[p].t>>, cat |-> repl[p].cat, own |-> p,
                   painted |-> repl[p].painted]>>
Substituted(as) == FlattenSeq([p \in DOMAIN repl |-> Becomes(p, as)])

Call ==
  /\ phase \in {"defined", "expanded"} /\ err = "none" /\ calls < MaxCalls
  /\ args' \in IF macro = "object" THEN {args}
               ELSE {[x |-> ax, y |-> ay, given |-> g] :
                       ax \in Args, ay \in Args, g \in BOOLEAN}
  /\ args'.given \/ args'.y = <<>>
  /\ macro = "function" => args'.given
  /\ subst' = Substituted(args')
  /\ rv' = <<>> /\ iter' = 1 /\ calls' = calls + 1 /\ phase' = "paste"
  /\ UNCHANGED <<macro, repl, err>>

-----------------------------------------------------------------------------
(* pasteAll *)
Pasting(cats) ==
  /\ phase = "paste" /\ err = "none" /\ iter \in DOMAIN subst /\ subst[iter].cat \in cats

Result(list, n) ==
  /\ rv' = list /\ iter' = iter + n
  /\ UNCHANGED <<macro, repl, phase, args, subst, calls, err>>

CommaKept == Pasting({"commaopt"}) /\ args.given /\ Result(rv, 1)

(* Mutated: one more token is passed over. *)
CommaDeletedMore == Pasting({"commaopt"}) /\ ~args.given /\ Result(Front(rv), 3)

(* With the comma goes the placemarker behind it. *)
CommaDeleted == Pasting({"commaopt"}) /\ ~args.given /\ Result(Front(rv), 2)

LHS == Last(rv)
RHS == subst[iter + 1]
Needlx == ~IsPlacemarker(LHS) /\ ~IsPlacemarker(RHS)

NothingToPaste == Pasting({"hashhash"}) /\ rv = <<>> /\ Result(rv, 1)

(* Mutated: a placemarker is not neutral on the left. *)
PlacemarkerLost ==
  /\ Pasting({"hashhash"}) /\ rv # <<>> /\ ~Needlx
  /\ Result(Front(rv) \o (IF IsPlacemarker(RHS) THEN <<LHS>> ELSE <<>>), 2)

PastePlacemarker ==
  /\ Pasting({"hashhash"}) /\ rv # <<>> /\ ~Needlx
  /\ Result(Front(rv) \o (IF IsPlacemarker(LHS) THEN <<RHS>> ELSE <<>>)
                      \o (IF IsPlacemarker(RHS) THEN <<LHS>> ELSE <<>>), 2)

(* A comma is pasted to nothing. *)
Paste ==
  /\ Pasting({"hashhash"}) /\ rv # <<>> /\ Needlx
  /\ IF <<"comma">> \in {LHS.v, RHS.v} THEN Raise("glued")
     ELSE Result(Append(Front(rv), New(LHS.v \o RHS.v)), 2)

(* Mutated: the token of the definition itself goes into the result. *)
CopyNot == Pasting(Categories \ {"hashhash", "commaopt"}) /\ Result(Append(rv, subst[iter]), 1)

Copy ==
  /\ Pasting(Categories \ {"hashhash", "commaopt"})
  /\ Result(Append(rv, [subst[iter] EXCEPT !.own = 0]), 1)

(* replaceSimple: the placemarkers go. *)
Push ==
  /\ phase = "paste" /\ err = "none" /\ iter > Len(subst)
  /\ rv' = FlattenSeq([j \in DOMAIN rv |->
                         IF IsPlacemarker(rv[j]) THEN <<>> ELSE <<rv[j]>>])
  /\ phase' = "expanded"
  /\ UNCHANGED <<macro, repl, iter, args, subst, calls, err>>

(* scanArgs of a call that the result becomes an argument of: a name that  *)
(* is hidden is painted where it is.                                       *)
Paint ==
  /\ phase = "expanded"
  /\ \E j \in DOMAIN rv :
       /\ rv[j].v = <<"id">> /\ ~rv[j].painted
       /\ rv' = [rv EXCEPT ![j].painted = TRUE]
       /\ repl' = IF rv[j].own = 0 THEN repl ELSE [repl EXCEPT ![rv[j].own].painted = TRUE]
  /\ UNCHANGED <<macro, phase, iter, args, subst, calls, err>>

Stopped ==
  /\ err # "none" \/ (phase = "expanded" /\ calls = MaxCalls)
  /\ UNCHANGED vars

Step ==
  \/ Take \/ TakenAll \/ MarkSharp \/ MarkHashHash \/ MarkOther \/ Defined \/ Call
  \/ CommaKept \/ CommaDeleted \/ NothingToPaste \/ PastePlacemarker \/ Paste
  \/ Copy \/ Push \/ Paint
Next == Step \/ Stopped

Spec == Init /\ [][Next]_vars

-----------------------------------------------------------------------------
(* Types.  The loops never run past the end of their list, though one of   *)
(* their steps passes over two tokens (Scan.java:594, 603).                *)
TypeOK ==
  /\ macro \in Macros /\ phase \in {"take", "usage", "defined", "paste", "expanded"}
  /\ \A p \in DOMAIN repl : repl[p].t \in Spelled /\ repl[p].cat \in Categories
  /\ iter \in 0..(1 + Len(IF phase \in {"paste", "expanded"} THEN subst ELSE repl))
  /\ calls \in 0..MaxCalls
  /\ args.x \in Args \cup {<<>>} /\ args.y \in Args \cup {<<>>}
  /\ \A j \in DOMAIN rv : rv[j].own \in 0..Len(repl)
  /\ err \in {"none", "hashhash", "sharp", "glued"}

(* What C says (6.10.3.1 to 6.10.3.3): parameters are replaced, by what    *)
(* they are, by their expansion, or by a string; then each ##, from the    *)
(* left, makes one token of two, of which one may be empty.  A comma is    *)
(* not there when the variable argument behind , ## is not.                *)
Operand(p) == Is(p - 1, "##") \/ Is(p + 1, "##")
Replaced(p) ==
  IF ~Formal(p) \/ macro = "object" THEN <<<<repl[p].t>>>>
  ELSE LET arg == args[repl[p].t]
           each(list) == [k \in DOMAIN list |-> <<list[k]>>]
       IN  IF Is(p - 1, "#") THEN Stringized(arg)
           ELSE IF Operand(p) /\ ~CommaOpt(p - 1)
                THEN (IF arg = <<>> THEN <<arg>> ELSE each(arg))
           ELSE each(Scanned(arg))

Appended(before, p) ==
  LET this == Replaced(p)
      pasted == Is(p - 1, "##") \/ (Is(p - 1, "#") /\ Is(p - 2, "##"))
  IN  IF repl[p].t \in {"#", "##"} THEN before
      ELSE IF CommaOpt(p - 1) THEN (IF args.given THEN before \o this ELSE Front(before))
      ELSE IF pasted
           THEN Append(Front(before), Last(before) \o Head(this)) \o Tail(this)
      ELSE before \o this

(* The replacement list up to each of its tokens, replaced and pasted. *)
UpToToken ==
  LET upto[p \in 0..Len(repl)] == IF p = 0 THEN <<>> ELSE Appended(upto[p - 1], p)
  IN  upto

Shown(spellings) ==
  FlattenSeq([j \in DOMAIN spellings |->
                IF spellings[j] = <<>> THEN <<>> ELSE <<spellings[j]>>])

Expansion == Shown(UpToToken[Len(repl)])

(* A string that is pasted to what follows it has lost its #, and what is  *)
(* pasted to a variable argument that is not there is not: neither is C.   *)
AsInC ==
  /\ \A p \in DOMAIN repl : Is(p, "#") => ~Is(p + 2, "##")
  /\ \A p \in DOMAIN repl : CommaOpt(p) => ~Is(p + 2, "##")

(* A call gives what C says of the macro and its arguments, whatever the   *)
(* calls before it have left in the tokens of the definition               *)
(* (Scan.pasteAll, PP_define.usageOfRepl2).                                *)
PastesAsC ==
  phase = "expanded" /\ AsInC => [j \in DOMAIN rv |-> rv[j].v] = Expansion

(* A token of the definition goes out, and is painted for all later calls, *)
(* only as the operand of a ## behind parameters that are pasted together  *)
(* and were all empty (Scan.java:607): any other is a copy.                *)
Operands(p) ==
  {q \in 1..(p - 2) :
     /\ Formal(q)
     /\ \A o \in q..(p - 1) : \/ Formal(o) /\ Is(o + 1, "##")
                              \/ Is(o, "##") /\ (o = p - 1 \/ Formal(o + 1))}
OwnBehindEmpty ==
  /\ \A j \in DOMAIN rv : rv[j].own # 0 =>
       /\ Operands(rv[j].own) # {}
       /\ \A q \in Operands(rv[j].own) : args[repl[q].t] = <<>>
  /\ \A p \in DOMAIN repl : repl[p].painted => Operands(p) # {}
=============================================================================
