------------------------------- MODULE MCScan -------------------------------
(***************************************************************************)
(* Small programs for the macro expander: the macro tables they start      *)
(* from, the items they are written with, and the files they include.      *)
(***************************************************************************)
EXTENDS Scan, TLC

f == "f"
g == "g"
h == "h"

Formal1(i, c) == [k |-> "formal", i |-> i, cat |-> c]
Object(b) == [arity |-> -1, vararg |-> FALSE, body |-> b]
Function(a, b) == [arity |-> a, vararg |-> FALSE, body |-> b]
Variadic(a, b) == [arity |-> a, vararg |-> TRUE, body |-> b]

x == Formal1(1, "scanned")
y == Formal1(2, "scanned")
strx == Formal1(1, "stringized")
lp == Tok("lp")
rp == Tok("rp")
comma == Tok("comma")
num == Tok("num")

DefineItem(n, d) == [k |-> "define", n |-> n, d |-> d]
UndefItem(n) == [k |-> "undef", n |-> n]
IncludeItem(t) == [k |-> "include", h |-> t]

(* Macros that call one another, themselves, and each other's heads.       *)
NestFunctions ==
  { Function(1, <<x, Id(h), x>>),                 \* #define f(x) x h x
    Function(1, <<Id(g), lp, x, rp>>),            \* #define f(x) g ( x )
    Function(1, <<strx, Id(f)>>),                 \* #define f(x) #x f
    Function(0, <<Id(g), Id(f)>>),                \* #define f() g f
    Function(2, <<y, lp, x, rp>>),                \* #define f(x,y) y ( x )
    Variadic(1, <<Id(g), lp, CommaVa, rp>>),      \* #define f(...) g (, ## __VA_ARGS__)
    Variadic(2, <<x, CommaVa, strx>>) }           \* #define f(x,...) x , ## __VA_ARGS__ #x
NestObjects ==
  { Object(<<Id(f), lp, Id(h)>>),                 \* #define g f ( h
    Object(<<Id(h), num>>),                       \* #define g h 1
    Object(<<Id(f)>>) }                           \* #define g f
NestLast ==
  { Object(<<Id(g)>>),                            \* #define h g
    Object(<<Id(g), rp>>) }                       \* #define h g )
NestDefs == NestFunctions \cup NestObjects \cup NestLast

NestPairs ==
  {<<DefineItem(f, F), DefineItem(g, G)>> :
      F \in NestFunctions,
      G \in NestObjects \cup {Function(1, <<x, Id(h), x>>), Function(0, <<Id(g), Id(f)>>)}}
NestTriples == {P \o <<DefineItem(h, d)>> : P \in NestPairs, d \in NestLast}
NestItems == {Id(f), Id(g), lp, rp, comma}

(* Programs with directives between and inside the calls: of the macro     *)
(* that is called, of another, and in files that include one another.      *)
DirectiveDefs ==
  { Function(1, <<x, Id(g)>>), Object(<<Id(f)>>), Object(<<Id(f), lp, num>>) }
DirectiveTables ==
  {<<DefineItem(f, Function(1, <<x, Id(g)>>)), DefineItem(g, G)>> :
      G \in {d \in DirectiveDefs : d.arity = -1}}
DirectiveItems ==
  {Id(f), Id(g), lp, rp, UndefItem(f), DefineItem(f, Object(<<Id(f)>>)),
   UndefItem(g)} \cup {IncludeItem(t) : t \in {"once", "plain"}}
DirectiveText ==
  [t \in {"once", "plain"} |->
     IF t = "once" THEN <<[k |-> "once", h |-> t], Id(g)>>
     ELSE <<IncludeItem("once"), UndefItem(g), lp>>]

(* Programs that include a file that includes itself. *)
LoopDefs == { Object(<<Id(g), num>>) }
LoopTables == {<<DefineItem(g, Object(<<Id(g), num>>))>>}
LoopItems == {Id(g), UndefItem(g)} \cup {IncludeItem(t) : t \in {"loop", "guard", "twice"}}
LoopText ==
  [t \in {"loop", "guard", "twice"} |->
     CASE t = "loop" -> <<Id(g), IncludeItem("loop"), Id(g)>>
       [] t = "guard" -> <<[k |-> "once", h |-> t], IncludeItem("guard"), Id(g)>>
       [] t = "twice" -> <<Id(g), IncludeItem("guard")>>]

(* Macros that lead back to themselves. *)
CycleDefs ==
  { Function(1, <<Id(f), lp, x, rp>>), Function(1, <<Id(g)>>),
    Object(<<Id(h)>>), Object(<<Id(f), lp, num, rp>>), Object(<<Id(g)>>) }
CycleTables ==
  {<<DefineItem(f, F), DefineItem(g, G), DefineItem(h, Object(<<Id(g)>>))>> :
      F \in {d \in CycleDefs : d.arity = 1}, G \in {d \in CycleDefs : d.arity = -1}}
CycleItems == {Id(f), Id(g), lp, rp, UndefItem(g)}

(* The programs of a run are of several kinds, each with its own items.    *)
Kinds == <<
  [prologues |-> NestPairs,       items |-> NestItems,      most |-> 6],
  [prologues |-> NestTriples,     items |-> NestItems,      most |-> 7],
  [prologues |-> DirectiveTables, items |-> DirectiveItems, most |-> 6],
  [prologues |-> LoopTables,      items |-> LoopItems,      most |-> 6],
  [prologues |-> CycleTables,     items |-> CycleItems,     most |-> 7] >>

AllPrologues == UNION {Kinds[i].prologues : i \in DOMAIN Kinds}
AllItems == UNION {Kinds[i].items : i \in DOMAIN Kinds}
AllDefs == NestDefs \cup DirectiveDefs \cup LoopDefs \cup CycleDefs
AllText == DirectiveText @@ LoopText
=============================================================================
