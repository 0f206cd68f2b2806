------------------------------ MODULE NameSpaces ------------------------------
(***************************************************************************)
(* What the symbol tables promise: the ordinary identifiers of C are one   *)
(* name space.  Objects, functions, constants and typedef names hide one   *)
(* another, from the place where they are declared to the end of their     *)
(* scope, and a name that is used means its innermost declaration.         *)
(***************************************************************************)
EXTENDS Integers, Sequences

CONSTANTS Names

VARIABLES chain,    \* the scopes that are open: what each name is there
          meaning,  \* the name used last, and the declaration it was taken for
          refused,  \* why the program was refused, and the name it was for
          broken    \* something happened that C or the code leaves open

vars == <<chain, meaning, refused, broken>>

Undeclared == [id |-> 0, role |-> "none", st |-> "none"]
Blank == [n \in Names |-> Undeclared]

Running == refused.e = "none" /\ ~broken

Top == Len(chain)
Visible(c, n) ==
  LET D == {i \in DOMAIN c : c[i][n].id # 0}
  IN  IF D = {} THEN Undeclared
      ELSE c[CHOOSE i \in D : \A j \in D : j <= i][n]

(* One scope may declare a function again, or a name of another file, or a *)
(* typedef name.                                                           *)
Again(prev, d) ==
  \/ prev.role = "fn" /\ d.role = "fn"
  \/ prev.st = "extern" /\ d.st = "extern" /\ "constant" \notin {prev.role, d.role}
  \/ prev.role = "typedef" /\ d.role = "typedef"

(* c2 is c with one more declaration of n in its innermost scope. *)
Adds(c, c2, n) ==
  /\ Len(c2) = Len(c)
  /\ LET prev == c[Len(c)][n]
         d == c2[Len(c)][n]
     IN  /\ d.id # 0 /\ (prev.id = 0 \/ Again(prev, d))
         /\ c2 = [c EXCEPT ![Len(c)][n] = d]

Init ==
  /\ chain = <<Blank>> /\ meaning = [n |-> "none", id |-> 0]
  /\ refused.e = "none" /\ broken = FALSE

Open == chain' = Append(chain, Blank) /\ UNCHANGED meaning

Close == Top > 1 /\ chain' = SubSeq(chain, 1, Top - 1) /\ UNCHANGED meaning

Declare == (\E n \in Names : Adds(chain, chain', n)) /\ UNCHANGED meaning

(* A function and its parameter, or a loop and the variable it declares:   *)
(* a scope is opened and has its first name.                               *)
EnterFunction ==
  /\ Len(chain') = Top + 1 /\ UNCHANGED meaning
  /\ \E n \in Names : Adds(chain, SubSeq(chain', 1, Top), n)
  /\ \E p \in Names : Adds(Append(SubSeq(chain', 1, Top), Blank), chain', p)

EnterLoop ==
  /\ UNCHANGED meaning
  /\ \E p \in Names : Adds(Append(chain, Blank), chain', p)

(* A name in an expression is that of an object. *)
UseIn(c, m) ==
  /\ Visible(c, m).id # 0 /\ Visible(c, m).role # "typedef"
  /\ meaning' = [n |-> m, id |-> Visible(c, m).id]

Use == UNCHANGED chain /\ \E m \in Names : UseIn(chain, m)

(* A declaration that is initialized with what a name stands for. *)
DeclareFrom ==
  \E n, m \in Names : Adds(chain, chain', n) /\ UseIn(chain', m)

Act ==
  /\ Running /\ ~broken' /\ UNCHANGED refused
  /\ \/ Open \/ Close \/ Declare \/ EnterFunction \/ EnterLoop \/ Use
     \/ DeclareFrom

(* A name that is not declared is refused when no object of that name is   *)
(* visible, and a redefinition when its scope has something of that name.  *)
Refuse ==
  /\ Running /\ refused'.e # "none" /\ UNCHANGED <<chain, meaning, broken>>
  /\ refused'.e = "undeclared" => Visible(chain, refused'.n).role \in {"none", "typedef"}
  /\ refused'.e = "redefinition" => chain[Top][refused'.n].id # 0

Break == Running /\ broken'
Anything == broken /\ broken'

Next == Act \/ Refuse \/ Break \/ Anything

Spec == Init /\ [][Next]_vars
=============================================================================
