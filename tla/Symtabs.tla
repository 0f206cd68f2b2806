------------------------------- MODULE Symtabs -------------------------------
(***************************************************************************)
(* The symbol tables of the parser (Symtab.java, Scope.java, Parse.java):  *)
(* a stack of scopes, each with a table of symbols, one of typedef names   *)
(* and one of tags.  The code keeps three stacks, which are pushed and     *)
(* popped together and nowhere else (Parse.pushscope, Parse.popscope).     *)
(***************************************************************************)
EXTENDS Integers, Sequences

CONSTANTS Names,   \* identifiers of objects, functions, constants, typedefs
          Tags     \* identifiers behind struct and enum

Levels == {"file", "method", "block"}

(* A CSymbol, or the type behind a typedef name.  id tells declarations    *)
(* apart; 0 is that of no declaration.                                     *)
Types == {"int", "struct", "fn", "constant"}
Entry == [id : Nat, st : {"none", "extern", "auto"}, ty : Types]
NoEntry == [id |-> 0, st |-> "none", ty |-> "int"]

Scope == [level : Levels, syms : [Names -> Entry], types : [Names -> Entry],
          tags : [Tags -> Nat]]

NewScope(level) ==
  [level |-> level, syms |-> [n \in Names |-> NoEntry],
   types |-> [n \in Names |-> NoEntry], tags |-> [s \in Tags |-> 0]]

(* The scopes, the innermost one last. *)
Inner(scopes) == scopes[Len(scopes)]
Push(scopes, level) == Append(scopes, NewScope(level))
Pop(scopes) == SubSeq(scopes, 1, Len(scopes) - 1)
IsFileScope(scopes) == Inner(scopes).level = "file"

(* getsym: from the innermost scope outwards. *)
(* Mutated: the outermost one. *)
FirstOf(D) == CHOOSE i \in D : \A j \in D : j >= i

LastOf(D) == CHOOSE i \in D : \A j \in D : j <= i

Sym(scopes, n) ==
  LET D == {i \in DOMAIN scopes : scopes[i].syms[n].id # 0}
  IN  IF D = {} THEN NoEntry ELSE scopes[LastOf(D)].syms[n]

Typedef(scopes, n) ==
  LET D == {i \in DOMAIN scopes : scopes[i].types[n].id # 0}
  IN  IF D = {} THEN NoEntry ELSE scopes[LastOf(D)].types[n]

IsTypedefName(scopes, n) == Typedef(scopes, n).id # 0

TagOf(scopes, s) ==
  LET D == {i \in DOMAIN scopes : scopes[i].tags[s] # 0}
  IN  IF D = {} THEN 0 ELSE scopes[LastOf(D)].tags[s]

CurrentTag(scopes, s) == Inner(scopes).tags[s]

(* addsym *)
AddSym(scopes, n, e) == [scopes EXCEPT ![Len(scopes)].syms[n] = e]
AddType(scopes, n, e) == [scopes EXCEPT ![Len(scopes)].types[n] = e]
AddTag(scopes, s, t) == [scopes EXCEPT ![Len(scopes)].tags[s] = t]

(* defineSym: what may follow a declaration of the same scope. *)
AcceptedAgain(prev, e) ==
  \/ e.ty = "fn" /\ prev.ty = "fn"
  \/ e.st = "extern" /\ prev.st = "extern"

Redefines(scopes, n, e) ==
  LET prev == Inner(scopes).syms[n]
  IN  prev.id # 0 /\ ~AcceptedAgain(prev, e)
=============================================================================
