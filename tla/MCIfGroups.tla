------------------------------ MODULE MCIfGroups ------------------------------
(***************************************************************************)
(* Small programs for IfGroups, and conditional inclusion as C describes   *)
(* it: one pass over the lines, with a stack of the conditionals that are  *)
(* open, in which the groups that are not wanted are skipped as they come. *)
(***************************************************************************)
EXTENDS IfGroups

If(k, op, n) == [k |-> k, c |-> [op |-> op, n |-> n]]
Ifdef(k, op, n, m) == [k |-> k, c |-> [op |-> op, n |-> n, more |-> m]]
Word(k) == [k |-> k]
Text(n) == [k |-> "text", n |-> n]
DefineLine(n, v) == [k |-> "define", n |-> n, v |-> v]
UndefLine(n) == [k |-> "undef", n |-> n]
IncludeLine(t) == [k |-> "include", h |-> t]

(* Conditionals in one another.                                            *)
NestLines ==
  {Ifdef("ifndef", "name", "A", 0), If("if", "value", "A"), If("elif", "value", "A"),
   Word("else"), Word("endif"), Text("A"), DefineLine("A", "one")}

(* Every form of condition, lines that cannot be evaluated or obeyed, and  *)
(* definitions that conditions depend on.                                  *)
FormLines ==
  {If("if", "defined", "A"), If("if", "value", "A"), If("if", "invalid", "A"), If("if", "none", "A"),
   If("elif", "value", "A"), If("elif", "invalid", "A"), If("elif", "none", "A"),
   Ifdef("ifdef", "name", "A", 0), Ifdef("ifndef", "name", "A", 0),
   Ifdef("ifdef", "name", "A", 2), Ifdef("ifdef", "invalid", "A", 0), Word("else"), Word("endif"), Word("null"),
   Word("unknown"), Text("A"), DefineLine("A", "one"), DefineLine("A", "zero"),
   UndefLine("A"), IncludeLine("guard")}
GuardText ==
  [t \in {"guard"} |->
     <<Ifdef("ifndef", "name", "A", 0), DefineLine("A", "one"), Text("A"), Word("endif")>>]

(* The programs of a run are of several kinds: the lines they are written  *)
(* with, and how many of them.                                             *)
AllKinds == <<[lines |-> NestLines, most |-> 6], [lines |-> FormLines, most |-> 4]>>
AllLines == NestLines \cup FormLines

CONSTANT Kinds
VARIABLE kind   \* of the program

Written ==
  /\ UNCHANGED kind
  /\ text' # text =>
       Len(text') <= Kinds[kind].most /\ text'[Len(text')] \in Kinds[kind].lines

MCInit == Init /\ kind \in DOMAIN Kinds
MCNext == Next /\ Written
MCSpec == MCInit /\ [][MCNext]_<<vars, kind>> /\ WF_<<vars, kind>>(Step /\ Written)

-----------------------------------------------------------------------------
(* The reference: st holds what is defined, the text produced, the errors, *)
(* and the conditionals that are open in this file.  A conditional knows   *)
(* whether the lines around it are wanted, whether its present group is,   *)
(* whether it has had one that was, and whether it has had its #else.      *)

Open(st) == st.stack # <<>>
Inner(st) == st.stack[Len(st.stack)]
Live(st) == ~Open(st) \/ Inner(st).live
ReplaceInner(st, c) == [st EXCEPT !.stack[Len(st.stack)] = c]
Error(st, e) == [st EXCEPT !.errs = @ \cup {e}]

(* What C says of a condition: a name that is no macro counts as 0, and    *)
(* there is one name, and nothing else, behind #ifdef.                     *)
Unfit(ln) ==
  /\ ln.k # "else"
  /\ \/ ln.c.op \in {"invalid", "none"}
     \/ ln.k \in {"ifdef", "ifndef"} /\ ln.c.more # 0

True(ln, macros) ==
  CASE ln.k = "else" -> TRUE
    [] ln.k = "ifndef" -> macros[ln.c.n] = "undefined"
    [] ln.k = "ifdef" \/ ln.c.op = "defined" -> macros[ln.c.n] # "undefined"
    [] OTHER -> macros[ln.c.n] = "one"

(* A condition, which is asked for only when the answer matters.           *)
Enter(st, ln) ==
  LET asked == Live(st)
      bad == asked /\ Unfit(ln)
      yes == asked /\ ~bad /\ True(ln, st.defs)
      st2 == [st EXCEPT !.stack = Append(@, [around |-> asked, live |-> yes,
                                             had |-> yes, else |-> FALSE])]
  IN  IF ~bad THEN st2
      ELSE Error(st2, IF Bare(ln) THEN "directive" ELSE "condition")

Turn(st, ln) ==
  LET c == Inner(st)
      asked == c.around /\ ~c.had
      bad == asked /\ Unfit(ln)
      yes == asked /\ ~bad /\ True(ln, st.defs)
      st2 == ReplaceInner(st, [c EXCEPT !.live = yes, !.had = @ \/ yes,
                                        !.else = @ \/ ln.k = "else"])
  IN  IF ~Open(st) THEN Error(st, "stray")
      ELSE IF c.around /\ c.else THEN Error(st, "order")
      ELSE IF bad THEN Error(st2, "condition") ELSE st2

Close(st) ==
  IF Open(st) THEN [st EXCEPT !.stack = SubSeq(@, 1, Len(@) - 1)]
  ELSE Error(st, "stray")

RECURSIVE Obey(_, _), ObeyAll(_, _)
Obey(st, ln) ==
  CASE ln.k \in Openers -> Enter(st, ln)
    [] ln.k \in Separators -> Turn(st, ln)
    [] ln.k = "endif" -> Close(st)
    [] OTHER ->
       IF ~Live(st) THEN st
       ELSE CASE ln.k = "text" -> [st EXCEPT !.out = Append(@, [n |-> ln.n, v |-> st.defs[ln.n]])]
              [] ln.k = "define" -> [st EXCEPT !.defs[ln.n] = ln.v]
              [] ln.k = "undef" -> [st EXCEPT !.defs[ln.n] = "undefined"]
              [] ln.k = "include" ->
                   [ObeyAll([st EXCEPT !.stack = <<>>], HeaderText[ln.h])
                      EXCEPT !.stack = st.stack]
              [] ln.k = "unknown" -> Error(st, "stray")
              [] OTHER -> st

(* A file: its lines in turn, and every conditional closed at its end.     *)
ObeyAll(st, q) ==
  IF q # <<>> THEN ObeyAll(Obey(st, Head(q)), Tail(q))
  ELSE IF Open(st) THEN Error(st, "unterminated") ELSE st

Reference ==
  ObeyAll([defs |-> [n \in Names |-> "undefined"], out |-> <<>>, errs |-> {},
           stack |-> <<>>], text)

(* A program without errors gives the text and the macros that one pass    *)
(* over its lines gives; an error is raised only of a program that has it  *)
(* (PP_if2.java, scan).                                                    *)
ReadsAsOnePass ==
  Stopped /\ Undisturbed =>
    IF err = "none"
    THEN Reference.errs = {} /\ out = Reference.out /\ defs = Reference.defs
    ELSE err \in Reference.errs
=============================================================================
