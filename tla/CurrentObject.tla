----------------------------- MODULE CurrentObject -----------------------------
(***************************************************************************)
(* What the C language says of an initializer list (C11 6.7.9, paragraphs  *)
(* 17 to 20): each item, in the order in which the program has them, is    *)
(* for the current object.  The steps of this module write such a list one *)
(* token at a time and record for every expression the object it is for.   *)
(***************************************************************************)
EXTENDS Integers, Sequences, FiniteSetsExt, SequencesExt

CONSTANTS Types,       \* kind "scalar"; "struct" with fields; "array" with elem and len
          Roots,       \* the types that are initialized
          MaxItems,    \* bound: how many expressions, braces and designations there are
          MaxIndex,    \* bound: of a designator for an array of unknown length
          FieldsInRow  \* may the item after one with a designator for a field have none

(* A type is declared behind those of its parts; a struct has a field, and *)
(* its first one begins where it begins.                                   *)
ASSUME TypesAssumption ==
  /\ Len(Types) \in Nat /\ DOMAIN Types = 1..Len(Types)
  /\ \A t \in DOMAIN Types :
       \/ Types[t].kind = "scalar"
       \/ /\ Types[t].kind = "struct"
          /\ Types[t].fields \in Seq([type : 1..(t - 1), off : Nat])
          /\ Types[t].fields # <<>> /\ Types[t].fields[1].off = 0
       \/ Types[t].kind = "array" /\ Types[t].elem \in 1..(t - 1) /\ Types[t].len \in Nat
  /\ \A t \in DOMAIN Types : Types[t].size \in Nat
  /\ Roots \subseteq DOMAIN Types
  /\ MaxItems \in Nat /\ MaxIndex \in Nat

VARIABLES
  tok,          \* the token the parser looks at
  levels,       \* of braces that are open: the path from its object to the current one
  designating,  \* the last token was a designator
  placed,       \* the object of every expression so far
  items

source == <<tok, levels, designating, placed, items>>

(* An object is a type and an offset.  A struct has a field at every       *)
(* position, an array of unknown length has all elements; a scalar in      *)
(* braces counts as its own only part.                                     *)
Count(t) ==
  CASE Types[t].kind = "scalar" -> 1
    [] Types[t].kind = "struct" -> Len(Types[t].fields)
    [] Types[t].kind = "array"  -> Types[t].len

Unbounded(t) == Count(t) = 0

(* Only what is initialized may have an unknown length; a part lies inside *)
(* of what it is part of, and what has a known length has a size.          *)
ASSUME SizesAssumption ==
  \A t \in DOMAIN Types :
    /\ Unbounded(t) \/ Types[t].size >= 1
    /\ Types[t].kind = "struct" =>
         \A i \in 1..Count(t) :
           /\ ~Unbounded(Types[t].fields[i].type)
           /\ Types[t].fields[i].off + Types[Types[t].fields[i].type].size <= Types[t].size
    /\ Types[t].kind = "array" =>
         /\ ~Unbounded(Types[t].elem)
         /\ Types[t].len * Types[Types[t].elem].size <= Types[t].size

Aggregate(t) == Types[t].kind # "scalar"

Part(o, i) ==
  CASE Types[o.type].kind = "scalar" -> o
    [] Types[o.type].kind = "struct" ->
         LET f == Types[o.type].fields[i + 1] IN [type |-> f.type, off |-> o.off + f.off]
    [] Types[o.type].kind = "array"  ->
         LET e == Types[o.type].elem IN [type |-> e, off |-> o.off + i * Types[e].size]

(* One step of a path: an object, which part of it is next, and whether    *)
(* that is the one that a designator for a field chose, or one behind it.  *)
At(o, i, byName) == [obj |-> o, idx |-> i, byName |-> byName]
Room(a) == Unbounded(a.obj.type) \/ a.idx < Count(a.obj.type)

Path == Last(levels)
Current == Part(Last(Path).obj, Last(Path).idx)
HasRoom == Room(Last(Path))

(* The path behind the current object: the innermost object that has       *)
(* another part, or the end of the object in braces.                       *)
Behind(path) ==
  LET next == [k \in DOMAIN path |-> [path[k] EXCEPT !.idx = @ + 1]]
      k == Max({1} \cup {j \in DOMAIN path : Room(next[j])})
  IN  Append(SubSeq(path, 1, k - 1),
             [next[k] EXCEPT !.byName = \E j \in k..Len(path) : path[j].byName])

(* The aggregates that begin where one of a type begins, from the outside. *)
Leading ==
  LET in[t \in DOMAIN Types] ==
        IF Aggregate(t) THEN <<t>> \o in[Part([type |-> t, off |-> 0], 0).type] ELSE <<>>
  IN  in

(* The path inward to the first scalar: braces are left out.               *)
Inward(path) ==
  LET o == Part(Last(path).obj, Last(path).idx)
  IN  path \o [k \in DOMAIN Leading[o.type] |->
                 At([type |-> Leading[o.type][k], off |-> o.off], 0, FALSE)]

Write(kind) == tok' = [kind |-> kind, at |-> 0]
OnPath(path) == [levels EXCEPT ![Len(levels)] = path]

SourceInit ==
  /\ tok = [kind |-> "open", at |-> 0]
  /\ \E t \in Roots : levels = << <<At([type |-> t, off |-> 0], 0, FALSE)>> >>
  /\ designating = FALSE /\ placed = <<>> /\ items = 0

-----------------------------------------------------------------------------
Exceeded ==
  ~Unbounded(Path[1].obj.type) /\ Path[1].idx > Count(Path[1].obj.type)
Started == Len(Path) > 1 \/ Path[1].idx > 0
MayFollow ==
  /\ HasRoom
  /\ designating \/ FieldsInRow \/ ~Last(Path).byName

Expression ==
  /\ levels # <<>> /\ MayFollow
  /\ items < MaxItems \/ designating \/ ~Started
  /\ LET path == Inward(Path)
         o == Part(Last(path).obj, Last(path).idx)
     IN  /\ placed' = Append(placed, [type |-> o.type, off |-> o.off, nr |-> Len(placed) + 1])
         /\ levels' = OnPath(Behind(path))
  /\ Write("expr")
  /\ designating' = FALSE /\ items' = items + 1

(* There are more expressions than parts: nothing but the end of the list  *)
(* follows.                                                                *)
Excess ==
  /\ levels # <<>> /\ ~HasRoom /\ items < MaxItems
  /\ FieldsInRow \/ ~Last(Path).byName
  /\ levels' = OnPath(<<[Path[1] EXCEPT !.idx = @ + 1]>>)
  /\ Write("expr")
  /\ items' = items + 1 /\ UNCHANGED <<designating, placed>>

OpenBrace ==
  /\ levels # <<>> /\ MayFollow /\ items < MaxItems
  /\ levels' = Append(OnPath(Behind(Path)), <<At(Current, 0, FALSE)>>)
  /\ Write("open")
  /\ designating' = FALSE /\ items' = items + 1 /\ UNCHANGED placed

CloseBrace ==
  /\ levels # <<>> /\ ~designating /\ Started
  /\ levels' = Front(levels)
  /\ Write("close")
  /\ UNCHANGED <<designating, placed, items>>

(* The first designator of a designation is for the object in braces, the  *)
(* others are for the part that the one before chose.                      *)
Designator ==
  /\ levels # <<>>
  /\ designating \/ (items < MaxItems /\ ~Exceeded)
  /\ LET o == IF designating THEN Current ELSE Path[1].obj
         t == o.type
         struct == Types[t].kind = "struct"
     IN  /\ Aggregate(t)
         /\ \E i \in 0..(IF Unbounded(t) THEN MaxIndex ELSE Count(t) - 1) :
              /\ tok' = [kind |-> IF struct THEN "dot" ELSE "index", at |-> i]
              /\ levels' = OnPath(Append(IF designating THEN Path ELSE <<>>, At(o, i, struct)))
  /\ items' = IF designating THEN items ELSE items + 1
  /\ designating' = TRUE /\ UNCHANGED placed

EndOfSource ==
  /\ levels = <<>> /\ tok.kind = "close" /\ Write("end")
  /\ UNCHANGED <<levels, designating, placed, items>>

NextToken ==
  Expression \/ Excess \/ OpenBrace \/ CloseBrace \/ Designator \/ EndOfSource
=============================================================================
