------------------------------- MODULE PeNames -------------------------------
(* The names an executable is made from. *)
EXTENDS Integers

CONSTANTS Symbols,      \* strings; a data symbol is named by its contents
          Dlls, Procedures,
          Length        \* bytes of every string and name, without its zero

ASSUME PeNamesAssumption ==
  \A name \in Symbols \cup Dlls \cup Procedures : Length[name] \in Nat
=============================================================================
