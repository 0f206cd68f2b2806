------------------------------ MODULE MCPasting ------------------------------
(* Instances of Pasting. *)
EXTENDS Pasting

MCArgs == {<<>>, <<"b">>, <<"a", "b">>}
=============================================================================
