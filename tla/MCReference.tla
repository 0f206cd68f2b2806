---------------------------- MODULE MCReference ----------------------------
(***************************************************************************)
(* The macro expander against the algorithm with hide sets that the C      *)
(* committee worked from: each token carries the set of the macros whose   *)
(* expansion made it, and a name in its own hide set is left alone.        *)
(***************************************************************************)
EXTENDS MCScan, SequencesExt

VARIABLE kind   \* of the program

(* A program is written with the items of its kind. *)
Written ==
  /\ UNCHANGED kind
  /\ text' # text => Last(text') \in Kinds[kind].items /\ Len(text') <= Kinds[kind].most

MCInit == Init /\ kind \in DOMAIN Kinds /\ text \in Kinds[kind].prologues
MCNext == Next /\ Written
MCSpec == MCInit /\ [][MCNext]_<<vars, kind>> /\ WF_<<vars, kind>>(Step /\ Written)

-----------------------------------------------------------------------------

\* A token with its hide set.
Hidable(ts, hs) == [p \in DOMAIN ts |-> [t |-> ts[p], hs |-> hs]]
AddHs(q, hs) == [p \in DOMAIN q |-> [q[p] EXCEPT !.hs = @ \cup hs]]

(* The position of the parenthesis that closes the one at position 1. *)
RECURSIVE Closing(_, _, _)
Closing(q, p, depth) ==
  LET d == CASE q[p].t.k = "lp" -> depth + 1
             [] q[p].t.k = "rp" -> depth - 1
             [] OTHER -> depth
  IN  IF d = 0 THEN p ELSE Closing(q, p + 1, d)

(* The arguments between them, cut at the commas of the outermost level,   *)
(* the variable ones kept together.                                        *)
RECURSIVE SplitArgs(_, _, _)
SplitArgs(q, depth, most) ==
  IF q = <<>> THEN <<(<<>>)>>
  ELSE LET c == Head(q).t.k
           d == CASE c = "lp" -> depth + 1 [] c = "rp" -> depth - 1 [] OTHER -> depth
           cut == c = "comma" /\ depth = 0 /\ most > 1
           tail == SplitArgs(Tail(q), d, IF cut THEN most - 1 ELSE most)
       IN  IF cut THEN <<(<<>>)>> \o tail
           ELSE <<(<<Head(q)>> \o Head(tail))>> \o Tail(tail)

RECURSIVE Expand(_, _)
Expand(q, D) ==
  IF q = <<>> THEN <<>>
  ELSE LET e == Head(q)
           rest == Tail(q)
           keep == <<e>> \o Expand(rest, D)
       IN CASE e.t.k = "define" ->
                 Expand(rest, [D EXCEPT ![e.t.n] = e.t.d])
            [] e.t.k = "undef" -> Expand(rest, [D EXCEPT ![e.t.n] = NoDef])
            [] e.t.k = "id" /\ D[e.t.n] # NoDef /\ e.t.n \notin e.hs ->
                 LET d == D[e.t.n]
                     called == rest # <<>> /\ Head(rest).t.k = "lp"
                     close == Closing(rest, 1, 0)
                     args == SplitArgs(SubSeq(rest, 2, close - 1), 0, d.arity)
                     missing == d.vararg /\ IF d.arity = 1 THEN args[1] = <<>>
                                            ELSE Len(args) < d.arity
                     Arg(i) == IF i <= Len(args) THEN args[i] ELSE <<>>
                     Put(b) ==
                       CASE b.k = "formal" /\ b.cat = "scanned" -> Expand(Arg(b.i), D)
                         [] b.k = "formal" /\ b.cat # "scanned" ->
                              Hidable(<<Tok("str")>>, {})
                         [] b.k = "commava" ->
                              IF missing THEN <<>>
                              ELSE Hidable(<<Tok("comma")>>, {})
                                     \o Expand(Arg(d.arity), D)
                         [] OTHER -> Hidable(<<b>>, {})
                 IN  IF d.arity = -1
                     THEN Expand(Hidable(d.body, e.hs \cup {e.t.n}) \o rest, D)
                     ELSE IF ~called THEN keep
                     ELSE Expand(
                            AddHs(FlattenSeq([p \in DOMAIN d.body |-> Put(d.body[p])]),
                                  (e.hs \cap rest[close].hs) \cup {e.t.n})
                            \o SubSeq(rest, close + 1, Len(rest)), D)
            [] OTHER -> keep

Plain(q) == [p \in DOMAIN q |-> IF q[p].k = "id" THEN Id(q[p].n) ELSE q[p]]

Reference(items) ==
  LET q == Expand(Hidable(items, {}), [n \in Names |-> NoDef])
  IN  [p \in DOMAIN q |-> q[p].t]

(* What the expander returns for a program is what the reference says, when *)
(* no call was completed with text from outside the expansion it began in  *)
(* and none ran out of input, which C leaves unspecified, and the program  *)
(* has no directives but the definitions it begins with.                   *)
DefinesFirst ==
  \A p \in DOMAIN text :
    /\ text[p].k \notin {"undef", "include"}
    /\ text[p].k = "define" => \A o \in 1..p : text[o].k = "define"
ExpandsAsReference ==
  Finished /\ err = "none" /\ events = {} /\ DefinesFirst =>
    Plain(Top.out) = Reference(text)
=============================================================================
