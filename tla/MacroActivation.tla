--------------------------- MODULE MacroActivation ---------------------------
(***************************************************************************)
(* What the hide()/unhide() discipline of the macro expander promises,     *)
(* whatever the queues, the marks and the argument Scans that carry it     *)
(* out.  A macro is being expanded or not; it is not entered again before  *)
(* it is left, and the table of macros changes only between expansions.    *)
(*                                                                         *)
(* The one exception is a directive that redefines the macro whose call is *)
(* being read: it breaks the discipline, and nothing is promised after it. *)
(***************************************************************************)
CONSTANTS Names,     \* the identifiers
          Meanings,  \* what a macro can stand for
          NoMeaning  \* the meaning of an identifier that is no macro

VARIABLES table,     \* what each identifier stands for
          active,    \* the macros that are being expanded
          broken     \* a call has lost its macro

vars == <<table, active, broken>>

Tables == [Names -> Meanings \cup {NoMeaning}]

Init == table = [n \in Names |-> NoMeaning] /\ active = {} /\ broken = FALSE

Enter(n) ==
  /\ ~broken /\ table[n] # NoMeaning /\ n \notin active
  /\ active' = active \cup {n}
  /\ UNCHANGED <<table, broken>>

Leave(n) ==
  /\ ~broken /\ n \in active
  /\ active' = active \ {n}
  /\ UNCHANGED <<table, broken>>

Redefine(n) ==
  /\ ~broken /\ active = {}
  /\ table' \in Tables /\ \A o \in Names \ {n} : table'[o] = table[o]
  /\ broken' \in BOOLEAN
  /\ UNCHANGED active

Anything ==
  /\ broken /\ broken'
  /\ table' \in Tables /\ active' \in SUBSET Names

Next ==
  \/ \E n \in Names : Enter(n) \/ Leave(n) \/ Redefine(n)
  \/ Anything

Spec == Init /\ [][Next]_vars
=============================================================================
