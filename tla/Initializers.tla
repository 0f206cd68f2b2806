------------------------------ MODULE Initializers ------------------------------
(***************************************************************************)
(* The reader of initializer lists (ParseInitializer): read_list,          *)
(* read_struct_inits and read_array_inits call each other; the calls that  *)
(* have not returned are a stack.  A comma and an equals sign are skipped  *)
(* wherever they may be, and have no token here.                           *)
(***************************************************************************)
EXTENDS CurrentObject

VARIABLES
  stack,  \* calls of read_struct_inits and read_array_inits
  inits,  \* List<Initializer>
  len,    \* what CArrayType.len becomes when it was not given; 0 before
  phase   \* "start", "read", "skip" in skip_to_brace, "done"

vars == <<source, stack, inits, len, phase>>

NoCursor == [type |-> 0, off |-> 0]

(* read_list of what is no array or struct makes an array of one of it, of *)
(* which no element is designated.                                         *)
NewCall(o, brace, designated) ==
  [obj |-> o, brace |-> brace, designated |-> designated /\ Aggregate(o.type),
   idx |-> 0, cursor |-> NoCursor]

Init ==
  /\ SourceInit
  /\ stack = <<>> /\ inits = <<>> /\ len = 0 /\ phase = "start"

-----------------------------------------------------------------------------
Call == Last(stack)
IsStruct == Types[Call.obj.type].kind = "struct"
With(call) == Append(Front(stack), call)
AtLoop == phase = "read" /\ stack # <<>> /\ Call.cursor = NoCursor
AtElement == phase = "read" /\ stack # <<>> /\ Call.cursor # NoCursor

Take(taken) == IF taken THEN NextToken ELSE UNCHANGED source

Parse ==
  /\ phase = "start" /\ phase' = "read"
  /\ stack' = <<NewCall(Last(Path).obj, TRUE, FALSE)>>
  /\ NextToken
  /\ UNCHANGED <<inits, len>>

(* Mutated: the length is the last index. *)
ListEndsLastIndex ==
  /\ AtLoop /\ tok.kind = "close"
  /\ len' = IF Unbounded(Call.obj.type) THEN Call.idx - 1 ELSE len
  /\ stack' = Front(stack)
  /\ Take(Call.brace)
  /\ UNCHANGED <<inits, phase>>

(* A brace ends the list, and the lists without braces in it. *)
ListEnds ==
  /\ AtLoop /\ tok.kind = "close"
  /\ len' = IF Unbounded(Call.obj.type) THEN Call.idx ELSE len
  /\ stack' = Front(stack)
  /\ Take(Call.brace)
  /\ UNCHANGED <<inits, phase>>

IsDesignator == tok.kind \in {"dot", "index"}
Own == Call.brace \/ Call.designated

(* A designator is not for a list that has no braces of its own. *)
LeftToOuter ==
  /\ AtLoop /\ IsDesignator /\ ~Own
  /\ stack' = Front(stack)
  /\ UNCHANGED <<source, inits, len, phase>>

Chosen == tok.kind = IF IsStruct THEN "dot" ELSE "index"

Designated ==
  /\ AtLoop /\ Chosen /\ Own
  /\ stack' = With([Call EXCEPT !.cursor = Part(Call.obj, tok.at), !.idx = tok.at,
                                !.designated = TRUE])
  /\ NextToken
  /\ UNCHANGED <<inits, len, phase>>

Undesignated == AtLoop /\ tok.kind # "close" /\ ~Chosen /\ (IsDesignator => Own)
Exhausted ==
  ~Call.designated /\ ~Unbounded(Call.obj.type) /\ Call.idx >= Count(Call.obj.type)

(* The next field, or element. *)
NextPart ==
  /\ Undesignated /\ ~Exhausted
  /\ stack' = With([Call EXCEPT !.cursor = Part(Call.obj, Call.idx),
                                !.idx = IF IsStruct THEN @ + 1 ELSE @])
  /\ UNCHANGED <<source, inits, len, phase>>

(* Mutated: what else there is in braces stays. *)
LastWasReadStays ==
  /\ Undesignated /\ Exhausted
  /\ stack' = IF Call.brace THEN stack ELSE Front(stack)
  /\ UNCHANGED <<source, inits, len, phase>>

(* All are read: what else there is in braces is skipped. *)
LastWasRead ==
  /\ Undesignated /\ Exhausted
  /\ IF Call.brace THEN phase' = "skip" /\ UNCHANGED stack
                   ELSE stack' = Front(stack) /\ UNCHANGED phase
  /\ UNCHANGED <<source, inits, len>>

Skip ==
  /\ phase = "skip" /\ NextToken
  /\ IF tok.kind = "close" THEN phase' = "read" /\ stack' = Front(stack)
                           ELSE UNCHANGED <<phase, stack>>
  /\ UNCHANGED <<inits, len>>

(* Mutated: a designated element is not passed. *)
ContinuedThere ==
  [Call EXCEPT !.cursor = NoCursor, !.designated = FALSE,
               !.idx = IF IsStruct \/ Call.designated THEN @ ELSE @ + 1]

(* The loop goes on when read_initializer_elem has returned. *)
Continued ==
  [Call EXCEPT !.cursor = NoCursor, !.designated = FALSE, !.idx = IF IsStruct THEN @ ELSE @ + 1]

Listed == Aggregate(Call.cursor.type) \/ tok.kind = "open"

ReadExpression ==
  /\ AtElement /\ ~Listed /\ tok.kind = "expr"
  /\ inits' = Append(inits, [type |-> Call.cursor.type, off |-> Call.cursor.off,
                             nr |-> Len(inits) + 1])
  /\ stack' = With(Continued)
  /\ NextToken
  /\ UNCHANGED <<len, phase>>

ReadList ==
  /\ AtElement /\ Listed
  /\ stack' = Append(With(Continued), NewCall(Call.cursor, tok.kind = "open", Call.designated))
  /\ Take(tok.kind = "open")
  /\ UNCHANGED <<inits, len, phase>>

(* Mutated: what compares equal is turned around. *)
SortedTurned(s) ==
  LET place(i) == Cardinality({j \in DOMAIN s : s[j].off < s[i].off \/ (s[j].off = s[i].off /\ j >= i)})
  IN  [n \in DOMAIN s |-> s[CHOOSE i \in DOMAIN s : place(i) = n]]

(* Collections.sort keeps the order of what compares equal. *)
Sorted(s) ==
  LET place(i) == Cardinality({j \in DOMAIN s : s[j].off < s[i].off \/ (s[j].off = s[i].off /\ j <= i)})
  IN  [n \in DOMAIN s |-> s[CHOOSE i \in DOMAIN s : place(i) = n]]

Return ==
  /\ phase = "read" /\ stack = <<>>
  /\ inits' = Sorted(inits) /\ phase' = "done"
  /\ UNCHANGED <<source, stack, len>>

Done == phase = "done" /\ UNCHANGED vars

Step ==
  \/ Parse \/ ListEnds \/ LeftToOuter \/ Designated \/ NextPart \/ LastWasRead \/ Skip
  \/ ReadExpression \/ ReadList \/ Return
Next == Step \/ Done

Spec == Init /\ [][Next]_vars
FairSpec == Spec /\ WF_vars(Step)

-----------------------------------------------------------------------------
(* Every expression becomes an initializer of the object that it is for,   *)
(* in the order of the source: braces left out, designators with parts of  *)
(* parts, and lists that go on behind a designator lead read_struct_inits  *)
(* and read_array_inits to the same objects as the language.               *)
GoesToItsObject == phase # "done" => IsPrefix(inits, placed)

(* When the list is sorted by offset, the last initializer of an object is *)
(* still the last one of the source: it is the one that counts.            *)
LastOneCounts ==
  phase = "done" =>
    /\ Len(inits) = Len(placed)
    /\ \A i \in DOMAIN inits, j \in DOMAIN inits :
         i < j => \/ inits[i].off < inits[j].off
                  \/ inits[i].off = inits[j].off /\ inits[i].nr < inits[j].nr

(* Every list is read to its end (ParseInitializer.parse returns).         *)
Termination == <>(phase = "done")

(* The call for an array that was declared without a length returns: the   *)
(* array ends behind the element that the last expression is for, though   *)
(* calls inside may have read that, and the index counts elements with     *)
(* braces, without, and designated (ParseInitializer.java:136).  The last  *)
(* expression need not be for the last element: see AllElements.           *)
BehindLast ==
  stack # <<>> /\ stack' = <<>> /\ Unbounded(stack[1].obj.type) =>
    LET size == Types[Types[stack[1].obj.type].elem].size
    IN  placed' # <<>> /\ len' = Last(placed').off \div size + 1
EndsBehindLast == [][BehindLast]_vars

(* An array that was declared without a length has every element that its  *)
(* initializer names: Test_Typedefs.java:521 initializes int a[][2] with   *)
(* { [1] = { 1,2 }, [0] = { 3,4 }, }, and the next line reads a[1][0]==1.  *)
AllElements ==
  phase = "done" /\ len > 0 => \A t \in Roots : Unbounded(t) =>
    \A i \in DOMAIN placed : placed[i].off \div Types[Types[t].elem].size < len
=============================================================================
