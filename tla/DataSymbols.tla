----------------------------- MODULE DataSymbols -----------------------------
(***************************************************************************)
(* The strings of a program (DataSymbols.java): their bytes, one behind    *)
(* another, and the offset remembered for each.                            *)
(***************************************************************************)
EXTENDS Integers, Sequences, PeNames

VARIABLES
  strings,         \* what is written to the stream: the strings, in order
  data_bytes,      \* Ubuf.bytes of the stream
  symbols,         \* the offset of every symbol
  current_offset

dataVars == <<strings, data_bytes, symbols, current_offset>>

DataInit == strings = <<>> /\ data_bytes = 0 /\ symbols = <<>> /\ current_offset = 0

-----------------------------------------------------------------------------
(* Mutated: the zero behind a string is forgotten. *)
AddDataNoZero(sym) ==
  /\ sym \notin DOMAIN symbols
  /\ strings' = Append(strings, sym)
  /\ data_bytes' = data_bytes + Length[sym] + 1
  /\ symbols' = [s \in DOMAIN symbols \cup {sym} |->
                   IF s = sym THEN current_offset ELSE symbols[s]]
  /\ current_offset' = current_offset + data_bytes + Length[sym]

(* add, which refuses a symbol it has.  The offset is advanced by all the  *)
(* bytes of the stream, not by those of the string.                        *)
AddData(sym) ==
  /\ sym \notin DOMAIN symbols
  /\ strings' = Append(strings, sym)
  /\ data_bytes' = data_bytes + Length[sym] + 1
  /\ symbols' = [s \in DOMAIN symbols \cup {sym} |->
                   IF s = sym THEN current_offset ELSE symbols[s]]
  /\ current_offset' = current_offset + data_bytes'

(* symbol, for the strings there are, at the address of the section *)
DataAddresses(rva) == [sym \in DOMAIN symbols |-> symbols[sym] + rva]
=============================================================================
