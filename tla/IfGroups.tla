------------------------------- MODULE IfGroups -------------------------------
(***************************************************************************)
(* Conditional inclusion as PP_if2.java does it.                           *)
(*                                                                         *)
(* At an #if the Scan that met it is read, with no directive obeyed, up to *)
(* the #endif: the lines are collected in groups, each with the condition  *)
(* it stands behind, and nested conditionals are only counted.  Then the   *)
(* conditions are judged in turn, and the lines of the first group that is *)
(* wanted are pushed back in front of the queue, where the nested          *)
(* conditionals among them are met again.                                  *)
(*                                                                         *)
(* A line is one item of the queue; an #else and an #endif have nothing    *)
(* behind them.                                                            *)
(***************************************************************************)
EXTENDS CondLines

CONSTANTS IncLimit,   \* 70 in the code
          MaxLines    \* bound: how many lines of the program are read

ASSUME BoundAssumption == IncLimit \in Nat /\ MaxLines \in Nat

VARIABLES
  defs,      \* what each macro stands for
  pend,      \* the queue of the Scan
  mode,      \* where PP_if2.scan is, or "get" outside of it
  groups,    \* iflines
  level,     \* nested conditionals that are open
  open,      \* the length of ifstack
  elseSeen,  \* state has ifstate_else
  next,      \* the group whose condition is judged next
  taken,     \* history: the lines popped since the #if, null ones left out
  inc,       \* the height of incstack
  out,       \* the text that get() returned, with the value of each name
  text,      \* the lines of the program read so far
  ended,     \* the program has been read to its end
  err,       \* the exception that stopped the run, or "none"
  events     \* history: "bare" when an #elif has taken a following line

locals == <<groups, level, open, elseSeen, next, taken>>
source == <<text, ended>>
vars == <<defs, pend, mode, locals, inc, out, source, err, events>>

Modes == {"get", "groups", "condition", "choose"}

(* A PP_ifline: its directive, what the condition took from other lines,   *)
(* its lines, and (history) the place of the directive in taken.           *)
Group == [line : Line, stolen : Seq(Item), toks : Seq(Item), at : Nat \ {0}]
NewGroup(ln, at) == [line |-> ln, stolen |-> <<>>, toks |-> <<>>, at |-> at]

NeedsSource == pend = <<>> /\ ~ended /\ mode # "choose"
Cur == IF pend = <<>> THEN Eof ELSE pend[1]
At(kinds) == pend # <<>> /\ Cur.k \in kinds
Rest == Tail(pend)

Running(m) == err = "none" /\ mode = m /\ ~NeedsSource

Raise(e) ==
  err' = e /\ UNCHANGED <<defs, pend, mode, locals, inc, out, source, events>>

Init ==
  /\ defs = [n \in Names |-> "undefined"]
  /\ pend = <<SB>> /\ mode = "get"
  /\ groups = <<>> /\ level = 0 /\ open = 0 /\ elseSeen = FALSE /\ next = 0
  /\ taken = <<>>
  /\ inc = 0 /\ out = <<>> /\ text = <<>> /\ ended = FALSE
  /\ err = "none" /\ events = {}

(* The next line of the program is there to be read, or its end. *)
ReadLine ==
  /\ err = "none" /\ NeedsSource /\ Len(text) < MaxLines
  /\ \E ln \in SourceLines : pend' = <<ln>> /\ text' = Append(text, ln)
  /\ UNCHANGED <<defs, mode, locals, inc, out, ended, err, events>>

ReadEnd ==
  /\ err = "none" /\ NeedsSource
  /\ pend' = <<SE, Eof>> /\ ended' = TRUE
  /\ UNCHANGED <<defs, mode, locals, inc, out, text, err, events>>

-----------------------------------------------------------------------------
(* The Scan outside of PP_if2. *)

StreamBegin ==
  /\ Running("get") /\ At({"sb"})
  /\ IF inc > IncLimit + 1
     THEN Raise("nesting")
     ELSE /\ pend' = Rest /\ inc' = inc + 1
          /\ UNCHANGED <<defs, mode, locals, out, source, err, events>>

StreamEnd ==
  /\ Running("get") /\ At({"se"})
  /\ IF inc = 0
     THEN Raise("incstack")
     ELSE /\ pend' = Rest /\ inc' = inc - 1
          /\ UNCHANGED <<defs, mode, locals, out, source, err, events>>

EmitText ==
  /\ Running("get") /\ At({"text"})
  /\ pend' = Rest /\ out' = Append(out, [n |-> Cur.n, v |-> defs[Cur.n]])
  /\ UNCHANGED <<defs, mode, locals, inc, source, err, events>>

Define ==
  /\ Running("get") /\ At({"define", "undef"})
  /\ pend' = Rest
  /\ defs' = [defs EXCEPT ![Cur.n] =
                IF Cur.k = "define" THEN Cur.v ELSE "undefined"]
  /\ UNCHANGED <<mode, locals, inc, out, source, err, events>>

Include ==
  /\ Running("get") /\ At({"include"})
  /\ pend' = (<<SB>> \o HeaderText[Cur.h] \o <<SE>>) \o Rest
  /\ UNCHANGED <<defs, mode, locals, inc, out, source, err, events>>

NullDirective ==
  /\ Running("get") /\ At({"null"})
  /\ pend' = Rest
  /\ UNCHANGED <<defs, mode, locals, inc, out, source, err, events>>

(* #elif, #else and #endif are known to pop() and not to dline(). *)
Stray ==
  /\ Running("get") /\ At(Separators \cup {"endif", "unknown"})
  /\ Raise("stray")

(* dline: an #if with nothing behind it is refused (checkLF).              *)
StartIf ==
  /\ Running("get") /\ At(Openers)
  /\ IF Bare(Cur)
     THEN Raise("directive")
     ELSE /\ pend' = Rest /\ mode' = "groups"
          /\ groups' = <<NewGroup(Cur, 1)>> /\ taken' = <<Cur>>
          /\ level' = 0 /\ open' = 1 /\ elseSeen' = FALSE /\ next' = 1
          /\ UNCHANGED <<defs, inc, out, source, err, events>>

-----------------------------------------------------------------------------
(* The loop that collects the groups.                                      *)

AddedToGroup(it) ==
  /\ pend' = Rest /\ taken' = Append(taken, it)
  /\ groups' = [groups EXCEPT ![Len(groups)].toks = Append(@, it)]
  /\ UNCHANGED <<defs, mode, elseSeen, next, inc, out, source, err, events>>

(* "just sharp is ok" *)
GroupNull ==
  /\ Running("groups") /\ At({"null"})
  /\ pend' = Rest
  /\ UNCHANGED <<defs, mode, locals, inc, out, source, err, events>>

NestedIfUncounted ==
  /\ Running("groups") /\ At(Openers)
  /\ AddedToGroup(Cur) /\ open' = open + 1
  /\ level' = IF Cur.k = "ifndef" THEN level ELSE level + 1

NestedIf ==
  /\ Running("groups") /\ At(Openers)
  /\ AddedToGroup(Cur) /\ level' = level + 1 /\ open' = open + 1

NestedSeparator ==
  /\ Running("groups") /\ At(Separators) /\ level > 0
  /\ AddedToGroup(Cur) /\ UNCHANGED <<level, open>>

(* #elif: condition() takes tokens up to the end of a line.  When nothing  *)
(* is behind the #elif itself, that is the end of a following line.        *)
Elif ==
  /\ Running("groups") /\ At({"elif"}) /\ level = 0
  /\ IF elseSeen
     THEN Raise("order")
     ELSE /\ pend' = Rest /\ taken' = Append(taken, Cur)
          /\ groups' = Append(groups, NewGroup(Cur, Len(taken) + 1))
          /\ mode' = IF Bare(Cur) THEN "condition" ELSE "groups"
          /\ events' = IF Bare(Cur) THEN events \cup {"bare"} ELSE events
          /\ UNCHANGED <<defs, level, open, elseSeen, next, inc, out, source, err>>

ConditionTakes ==
  /\ Running("condition") /\ pend # <<>>
  /\ pend' = Rest
  /\ groups' = [groups EXCEPT ![Len(groups)].stolen = Append(@, Cur)]
  /\ taken' = Append(taken, Cur)
  /\ mode' = IF Cur.k \in {"sb", "se", "eof"} THEN "condition" ELSE "groups"
  /\ UNCHANGED <<defs, level, open, elseSeen, next, inc, out, source, err, events>>

(* The input ends in the condition. *)
ConditionEnds ==
  /\ Running("condition") /\ pend = <<>> /\ mode' = "groups"
  /\ UNCHANGED <<defs, pend, locals, inc, out, source, err, events>>

ElseForgotten ==
  /\ Running("groups") /\ At({"else"}) /\ level = 0
  /\ pend' = Rest /\ taken' = Append(taken, Cur)
  /\ groups' = Append(groups, NewGroup(Cur, Len(taken) + 1))
  /\ UNCHANGED <<defs, mode, level, open, elseSeen, next, inc, out, source, err, events>>

Else ==
  /\ Running("groups") /\ At({"else"}) /\ level = 0
  /\ IF elseSeen
     THEN Raise("order")
     ELSE /\ pend' = Rest /\ taken' = Append(taken, Cur)
          /\ groups' = Append(groups, NewGroup(Cur, Len(taken) + 1))
          /\ elseSeen' = TRUE
          /\ UNCHANGED <<defs, mode, level, open, next, inc, out, source, err, events>>

NestedEndifAny ==
  /\ Running("groups") /\ At({"endif"})
  /\ AddedToGroup(Cur) /\ level' = level - 1 /\ open' = open - 1

NestedEndif ==
  /\ Running("groups") /\ At({"endif"}) /\ level > 0
  /\ AddedToGroup(Cur) /\ level' = level - 1 /\ open' = open - 1

Endif ==
  /\ Running("groups") /\ At({"endif"}) /\ level = 0
  /\ pend' = Rest /\ taken' = Append(taken, Cur) /\ mode' = "choose"
  /\ UNCHANGED <<defs, groups, level, open, elseSeen, next, inc, out, source,
                 err, events>>

(* Any other line, directives that are not obeyed and the end of an        *)
(* included file among them.                                               *)
GroupLineObeyed ==
  /\ Running("groups") /\ At({"text", "define", "undef", "include", "unknown", "sb", "se"})
  /\ pend' = Rest /\ taken' = Append(taken, Cur)
  /\ groups' = [groups EXCEPT ![Len(groups)].toks = Append(@, Cur)]
  /\ defs' = IF Cur.k = "define" THEN [defs EXCEPT ![Cur.n] = Cur.v] ELSE defs
  /\ UNCHANGED <<mode, level, open, elseSeen, next, inc, out, source, err, events>>

GroupLine ==
  /\ Running("groups") /\ At({"text", "define", "undef", "include", "unknown", "sb", "se"})
  /\ AddedToGroup(Cur) /\ UNCHANGED <<level, open>>

GroupEof ==
  /\ Running("groups") /\ At({"eof"})
  /\ IF open > 0
     THEN Raise("unterminated")
     ELSE AddedToGroup(Cur) /\ UNCHANGED <<level, open>>

(* scanner.isEmpty(): the loop ends with no error. *)
GroupsExhausted ==
  /\ Running("groups") /\ pend = <<>> /\ mode' = "choose"
  /\ UNCHANGED <<defs, pend, locals, inc, out, source, err, events>>

-----------------------------------------------------------------------------
(* The loop that judges them.                                              *)

Judged == groups[next]

(* A line in the place of a condition: a name has a value, all else is no  *)
(* expression.                                                             *)
StolenFaulty(g) == ~(\E n \in Names : g.stolen = <<[k |-> "text", n |-> n]>>)

GroupFaulty(g) == IF Bare(g.line) THEN StolenFaulty(g) ELSE Faulty(g.line)
GroupHolds(g) == IF Bare(g.line) THEN defs[g.stolen[1].n] = "one"
                                 ELSE Holds(g.line, defs)

Judging == Running("choose") /\ next <= Len(groups)

Leave(q) ==
  /\ pend' = q /\ mode' = "get"
  /\ groups' = <<>> /\ level' = 0 /\ open' = 0 /\ elseSeen' = FALSE /\ next' = 0
  /\ taken' = <<>>
  /\ UNCHANGED <<defs, inc, out, source, err, events>>

FaultyGroup == Judging /\ GroupFaulty(Judged) /\ Raise("condition")

TakeGroupBehind ==
  /\ Judging /\ ~GroupFaulty(Judged) /\ GroupHolds(Judged)
  /\ Leave(pend \o Judged.toks)
TakeGroupWhole ==
  /\ Judging /\ ~GroupFaulty(Judged) /\ GroupHolds(Judged)
  /\ Leave(taken \o pend)

TakeGroup ==
  /\ Judging /\ ~GroupFaulty(Judged) /\ GroupHolds(Judged)
  /\ Leave(Judged.toks \o pend)

SkipGroup ==
  /\ Judging /\ ~GroupFaulty(Judged) /\ ~GroupHolds(Judged)
  /\ next' = next + 1
  /\ UNCHANGED <<defs, pend, mode, groups, level, open, elseSeen, taken, inc,
                 out, source, err, events>>

NoGroup == Running("choose") /\ next > Len(groups) /\ Leave(pend)

-----------------------------------------------------------------------------
Finished == ended /\ mode = "get" /\ Cur = Eof
Stopped == Finished \/ err # "none"
Terminating == Stopped /\ UNCHANGED vars

Step ==
  \/ ReadLine \/ ReadEnd \/ StreamBegin \/ StreamEnd \/ EmitText \/ Define
  \/ Include \/ NullDirective \/ Stray \/ StartIf
  \/ GroupNull \/ NestedIf \/ NestedSeparator \/ Elif \/ ConditionTakes
  \/ ConditionEnds \/ Else \/ NestedEndif \/ Endif \/ GroupLine \/ GroupEof
  \/ GroupsExhausted
  \/ FaultyGroup \/ TakeGroup \/ SkipGroup \/ NoGroup

Next == Step \/ Terminating

Spec == Init /\ [][Next]_vars
FairSpec == Spec /\ WF_vars(Step)

-----------------------------------------------------------------------------
(* Properties.                                                             *)

(* Types.  That level stays in Nat says that PP_if2 never takes the #endif *)
(* of its own conditional for that of a nested one (PP_if2.java:348).      *)
TypeOK ==
  /\ defs \in [Names -> Values]
  /\ pend \in Seq(Item) /\ taken \in Seq(Item)
  /\ mode \in Modes
  /\ groups \in Seq(Group)
  /\ level \in Nat /\ open \in Nat /\ elseSeen \in BOOLEAN /\ next \in Nat
  /\ inc \in Nat
  /\ out \in Seq([n : Names, v : Values])
  /\ text \in Seq(Line) /\ ended \in BOOLEAN
  /\ err \in {"none", "nesting", "incstack", "stray", "directive", "order",
              "unterminated", "condition"}
  /\ events \subseteq {"bare"}

Undisturbed == events = {}

(* Every group that has been collected is a balanced sequence of lines, so *)
(* that the conditionals found in it when it is read again find their      *)
(* #endif in it, and never in what comes behind (PP_if2.java:272).         *)
GroupsNest ==
  Undisturbed /\ mode \in {"groups", "choose"} =>
    \A i \in DOMAIN groups :
      LET q == groups[i].toks
          complete == i < Len(groups) \/ mode = "choose"
      IN  /\ \A j \in 1 .. Len(q) : DepthAt(q, j) >= 0
          /\ DepthAt(q, Len(q)) = IF complete THEN 0 ELSE level

(* A conditional is replaced by the first of its groups that is wanted,    *)
(* and everything else is obeyed in turn (PP_if2.java, scan).              *)
Whole == INSTANCE Conditionals
  WITH input <- taken \o pend, broken <- ~Undisturbed

ImplementsConditionals == Whole!Spec

(* The preprocessor gets to the end of every program, although it reads    *)
(* the lines of a group that is wanted once for every conditional they are *)
(* nested in (PP_if2.java:233).                                            *)
Termination == <>Stopped

-----------------------------------------------------------------------------
(* What the theorems rest on: the inductive invariant.                     *)

(* So many of the lines taken are inside the conditional. *)
Inside == IF mode = "choose" THEN Len(taken) - 1 ELSE Len(taken)

(* The line that is p-th of those taken begins a group of it. *)
HeadAt(p) ==
  p = 1 \/ (taken[p].k \in Separators /\ DepthAt(taken, p) = 1)

(* Group i ends in front of this place. *)
EndOf(i) == IF i < Len(groups) THEN groups[i + 1].at ELSE Inside + 1

TakenNests ==
  /\ Inside > 0 /\ taken[1].k \in Openers
  /\ \A j \in 1 .. Inside : DepthAt(taken, j) >= 1
  /\ IF mode = "choose"
     THEN taken[Len(taken)].k = "endif" /\ DepthAt(taken, Len(taken)) = 0
     ELSE DepthAt(taken, Len(taken)) = level + 1

(* The groups cut what was taken at its heads. *)
GroupsCut ==
  /\ groups[1].at = 1
  /\ \A i \in DOMAIN groups :
       /\ groups[i].at \in 1 .. Inside /\ HeadAt(groups[i].at)
       /\ groups[i].line = taken[groups[i].at] /\ ~Bare(groups[i].line)
       /\ groups[i].toks = SubSeq(taken, groups[i].at + 1, EndOf(i) - 1)
  /\ \A i, j \in DOMAIN groups : i < j => groups[i].at < groups[j].at
  /\ \A p \in 1 .. Inside :
       HeadAt(p) => \E i \in DOMAIN groups : groups[i].at = p

ElseIsLast ==
  /\ \A i \in DOMAIN groups :
       groups[i].line.k = "else" => elseSeen /\ i = Len(groups)
  /\ elseSeen => groups[Len(groups)].line.k = "else"

JudgedSoFar ==
  /\ next <= Len(groups) + 1 /\ (mode = "groups" => next = 1)
  /\ \A i \in 1 .. next - 1 :
       ~Faulty(groups[i].line) /\ ~Holds(groups[i].line, defs)

Collected ==
  Undisturbed /\ mode \in {"groups", "choose"} =>
    TakenNests /\ GroupsCut /\ ElseIsLast /\ JudgedSoFar

(* Whatever was read. *)
Outline ==
  /\ mode = "get" => taken = <<>>
  /\ mode # "get" => groups # <<>> /\ next >= 1 /\ open = level + 1
  /\ mode = "condition" => ~Undisturbed
  /\ Undisturbed /\ ended => pend # <<>> /\ pend[Len(pend)] = Eof

IInv == TypeOK /\ Outline /\ Collected /\ GroupsNest
=============================================================================
