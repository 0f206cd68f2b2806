------------------------------ MODULE CondLines ------------------------------
(***************************************************************************)
(* The lines of a program as conditional inclusion sees them, and the      *)
(* truth of a condition (PP_if2.java, expressionTrue and ifdefsTrue).      *)
(*                                                                         *)
(* A line is one item.  What a condition says is abstracted to the macro   *)
(* it asks about: its value, whether it is defined, or nothing that can be *)
(* evaluated at all.                                                       *)
(***************************************************************************)
EXTENDS Integers, Sequences, FiniteSets

CONSTANTS
  Names,        \* the macros conditions ask about
  Headers,      \* the names of the files a program may include
  HeaderText,   \* the lines of each of them
  SourceLines   \* what a program may be written with

(* A macro that is no macro, or is replaced by 0, or by 1. *)
Values == {"undefined", "zero", "one"}

(* The rest of an #if or #elif line: the macro n as an expression,         *)
(* "defined n", tokens that are no expression, or no token at all.         *)
Expr == [op : {"value", "defined", "invalid", "none"}, n : Names]

(* The rest of an #ifdef or #ifndef line: a name, or something else, and   *)
(* the number of tokens behind it.                                         *)
Operand == [op : {"name", "invalid", "none"}, n : Names, more : 0 .. 2]

Openers == {"if", "ifdef", "ifndef"}
Separators == {"elif", "else"}

Line ==
  [k : {"if", "elif"}, c : Expr] \cup [k : {"ifdef", "ifndef"}, c : Operand]
    \cup [k : {"else", "endif", "null", "unknown"}]
    \cup [k : {"text", "undef"}, n : Names]
    \cup [k : {"define"}, n : Names, v : {"zero", "one"}]
    \cup [k : {"include"}, h : Headers]

Marker == [k : {"sb", "se", "eof"}]
SB == [k |-> "sb"]
SE == [k |-> "se"]
Eof == [k |-> "eof"]

Item == Line \cup Marker

ASSUME LinesAssumption ==
  /\ HeaderText \in [Headers -> Seq(Line)]
  /\ SourceLines \subseteq Line

(* #elif or #if with nothing behind it *)
Bare(ln) == ln.k \in Openers \cup {"elif"} /\ ln.c.op = "none"

(* Evaluating the condition raises: it is no expression, or there are      *)
(* tokens behind the name.  One such token is let through.                 *)
Faulty(ln) ==
  \/ ln.k \in Openers \cup {"elif"} /\ ln.c.op = "invalid"
  \/ ln.k \in {"ifdef", "ifndef"} /\ ln.c.more > 1

(* The group behind the line is wanted. *)
HoldsNoUndefined(ln, defs) ==
  \/ ln.k = "else"
  \/ ln.k \in {"if", "elif"} /\ ln.c.op = "value" /\ defs[ln.c.n] # "zero"
  \/ ln.k \in {"if", "elif"} /\ ln.c.op = "defined" /\ defs[ln.c.n] # "undefined"
  \/ ln.k = "ifdef" /\ defs[ln.c.n] # "undefined"
  \/ ln.k = "ifndef" /\ defs[ln.c.n] = "undefined"

Holds(ln, defs) ==
  \/ ln.k = "else"
  \/ ln.k \in {"if", "elif"} /\ ln.c.op = "value" /\ defs[ln.c.n] = "one"
  \/ ln.k \in {"if", "elif"} /\ ln.c.op = "defined" /\ defs[ln.c.n] # "undefined"
  \/ ln.k = "ifdef" /\ defs[ln.c.n] # "undefined"
  \/ ln.k = "ifndef" /\ defs[ln.c.n] = "undefined"

(* How many conditionals are open behind the first i items of q.           *)
DepthAt(q, i) ==
  Cardinality({j \in 1 .. i : q[j].k \in Openers})
    - Cardinality({j \in 1 .. i : q[j].k = "endif"})
=============================================================================
