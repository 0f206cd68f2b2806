------------------------------ MODULE MCPeImage ------------------------------
(***************************************************************************)
(* Instances of PeImage, of two shapes: a program of three lines with two  *)
(* strings and the procedures of one DLL, and the procedures of two DLLs   *)
(* that a program of one line uses.                                        *)
(***************************************************************************)
EXTENDS PeImage

CONSTANTS s1, s2, s3, A, B, proc1, proc2

MCTwoSymbols == {s1, s2}
MCThreeSymbols == {s1, s2, s3}
MCOneSymbol == {s1}
MCDlls == {A, B}
MCOneDll == {A}
MCProcedures == {proc1, proc2}
MCOneProcedure == {proc1}
MCLabels == {"l", "m"}
MCOneLabel == {"l"}
MCLow == {"low"}
MCHigh == {"high"}
MCBlocks == {3, 4094}
MCBlock == {3}
MCNoAddress == {}

(* The first string fills two pages with its zero; a block of the file is  *)
(* filled by the import section with one name and not with another.        *)
MCLength == s1 :> 8191 @@ s2 :> 8 @@ s3 :> 3 @@ A :> 4 @@ B :> 12
              @@ proc1 :> 6 @@ proc2 :> 410

AllShapes == << [symbols |-> {s1, s2}, dlls |-> {A}, lines |-> 3],
                [symbols |-> {s1}, dlls |-> {A, B}, lines |-> 1] >>
ThirdSymbolShapes == <<[symbols |-> {s1, s2, s3}, dlls |-> {A}, lines |-> 1]>>

CONSTANT Shapes
VARIABLE shape   \* of the program

Written ==
  /\ UNCHANGED shape
  /\ Range(strings') \subseteq Shapes[shape].symbols
  /\ \A d \in DOMAIN import_dlls' : import_dlls'[d].name \in Shapes[shape].dlls
  /\ Len(lines') <= Shapes[shape].lines

MCInit == Init /\ shape \in DOMAIN Shapes
MCNext == Next /\ Written
MCSpec == MCInit /\ [][MCNext]_<<vars, shape>>
=============================================================================
