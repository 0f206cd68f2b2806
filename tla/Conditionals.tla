----------------------------- MODULE Conditionals -----------------------------
(***************************************************************************)
(* What PP_if2 promises, free of lists of groups, counters and lookahead:  *)
(* an #if with its #endif is replaced, in one step, by the first of its    *)
(* groups whose condition holds, and every other line is obeyed in turn.   *)
(*                                                                         *)
(* An #elif with nothing behind it breaks the promise, for PP_if2 then     *)
(* takes its condition from the lines that follow.                         *)
(***************************************************************************)
EXTENDS CondLines

VARIABLES input,   \* the lines that have arrived and have not been obeyed
          defs,    \* what each macro stands for
          out,     \* the text produced, with the value each name had then
          err,     \* the error that stopped the run, or "none"
          broken   \* a condition was taken from the following lines

vars == <<input, defs, out, err, broken>>

Init ==
  /\ input = <<SB>> /\ defs = [n \in Names |-> "undefined"] /\ out = <<>>
  /\ err = "none" /\ broken = FALSE

Running == err = "none" /\ ~broken
Starts(kinds) == input # <<>> /\ input[1].k \in kinds

(* More of the program is there to be read. *)
Arrive ==
  /\ Running
  /\ \/ \E ln \in SourceLines : input' = Append(input, ln)
     \/ input' = input \o <<SE, Eof>>
  /\ UNCHANGED <<defs, out, err, broken>>

Produce ==
  /\ Running /\ Starts({"text"})
  /\ input' = Tail(input)
  /\ out' = Append(out, [n |-> input[1].n, v |-> defs[input[1].n]])
  /\ UNCHANGED <<defs, err, broken>>

Assign ==
  /\ Running /\ Starts({"define", "undef"})
  /\ input' = Tail(input)
  /\ defs' = [defs EXCEPT ![input[1].n] =
                IF input[1].k = "define" THEN input[1].v ELSE "undefined"]
  /\ UNCHANGED <<out, err, broken>>

Include ==
  /\ Running /\ Starts({"include"})
  /\ input' = (<<SB>> \o HeaderText[input[1].h] \o <<SE>>) \o Tail(input)
  /\ UNCHANGED <<defs, out, err, broken>>

PassMarker ==
  /\ Running /\ Starts({"sb", "se"})
  /\ input' = Tail(input)
  /\ UNCHANGED <<defs, out, err, broken>>

(* A null directive has no effect, wherever it stands. *)
Vanish ==
  /\ Running
  /\ \E p \in DOMAIN input :
       /\ input[p].k = "null"
       /\ input' = SubSeq(input, 1, p - 1) \o SubSeq(input, p + 1, Len(input))
  /\ UNCHANGED <<defs, out, err, broken>>

-----------------------------------------------------------------------------
(* The conditional that the input starts with.                             *)

(* Everything up to e is inside it. *)
InsideUpTo(e) == Starts(Openers) /\ \A j \in 1 .. e : DepthAt(input, j) >= 1

Matching(e) ==
  /\ e \in DOMAIN input /\ input[e].k = "endif" /\ DepthAt(input, e) = 0
  /\ InsideUpTo(e - 1)

(* The lines its groups stand behind. *)
IsHead(p) ==
  p = 1 \/ (input[p].k \in Separators /\ DepthAt(input, p) = 1)

(* Nothing but the #endif comes behind an #else. *)
ElseLast(e) ==
  \A p, q \in 1 .. e - 1 :
    IsHead(p) /\ IsHead(q) /\ p < q => input[p].k # "else"

(* Of the heads in front of e, p is the first whose condition holds, and   *)
(* none before it is faulty.                                               *)
DecidedAt(p, e) ==
  /\ p \in 1 .. e - 1 /\ IsHead(p)
  /\ \A j \in 1 .. p - 1 :
       IsHead(j) => ~Holds(input[j], defs) /\ ~Faulty(input[j])

(* The group behind p ends in front of q. *)
GroupEnd(p, q, e) ==
  /\ q \in p + 1 .. e
  /\ q < e => IsHead(q)
  /\ \A j \in p + 1 .. q - 1 : ~IsHead(j)

After(e) == SubSeq(input, e + 1, Len(input))

Resolve ==
  /\ Running
  /\ \E e \in DOMAIN input :
       /\ Matching(e) /\ ElseLast(e)
       /\ \/ \E p, q \in 1 .. e :
               /\ DecidedAt(p, e) /\ GroupEnd(p, q, e)
               /\ ~Faulty(input[p]) /\ Holds(input[p], defs)
               /\ input' = SubSeq(input, p + 1, q - 1) \o After(e)
          \/ /\ \A p \in 1 .. e - 1 :
                  IsHead(p) => ~Holds(input[p], defs) /\ ~Faulty(input[p])
             /\ input' = After(e)
  /\ UNCHANGED <<defs, out, err, broken>>

(* Every error has its reason. *)
Refused(e) ==
  CASE e = "nesting" -> Starts({"sb"})
    [] e = "incstack" -> Starts({"se"})
    [] e = "stray" -> Starts(Separators \cup {"endif", "unknown"})
    [] e = "directive" -> Starts(Openers) /\ Bare(input[1])
    [] e = "order" -> \E p, q \in DOMAIN input :
                        /\ p < q /\ input[p].k = "else"
                        /\ input[q].k \in Separators
                        /\ IsHead(p) /\ IsHead(q) /\ InsideUpTo(q)
    [] e = "unterminated" -> \E p \in DOMAIN input :
                               input[p] = Eof /\ InsideUpTo(p)
    [] e = "condition" -> \E end \in DOMAIN input : \E p \in 1 .. end :
                            /\ Matching(end) /\ DecidedAt(p, end)
                            /\ Faulty(input[p])
    [] OTHER -> FALSE

Refuse ==
  /\ Running /\ err' # "none" /\ Refused(err')
  /\ UNCHANGED <<input, defs, out, broken>>

(* Some #elif of the conditional has nothing behind it. *)
Break ==
  /\ Running /\ broken'
  /\ \E p \in DOMAIN input : Bare(input[p]) /\ IsHead(p) /\ InsideUpTo(p)
  /\ UNCHANGED <<input, defs, out, err>>

Anything == broken /\ broken'

Next ==
  \/ Arrive \/ Produce \/ Assign \/ Include \/ PassMarker \/ Vanish
  \/ Resolve \/ Refuse \/ Break \/ Anything

Spec == Init /\ [][Next]_vars
=============================================================================
