------------------------------ MODULE MCParser ------------------------------
(* Instances of Parser: what the programs of each run are written with.    *)
EXTENDS Parser

MCNames == {"x", "t"}
MCTags == {"S"}
MCLabels == {"l"}
MCNoName == "none"

Of(kinds) == [k : kinds]
Punctuation == Of({"lbrace", "rbrace", "semi"})
Object0 == [k : {"object"}, n : {"x"}, st : {"none", "extern"}, ty : {"int"}]
Function0 == [k : {"function"}, n : {"x"}, p : {"t"}]

(* Declarations and uses of two names in nested scopes.                    *)
NameItems ==
  Punctuation \cup Object0 \cup [k : {"function"}, n : {"x"}, p : {"x", "t"}]
  \cup [k : {"object"}, n : {"x", "t"}, st : {"none"}, ty : {"int", "fn"}]
  \cup [k : {"typedef"}, n : {"t"}, ty : {"int", "fn"}]
  \cup [k : {"alias"}, t : {"t"}, n : {"x"}] \cup [k : {"use"}, n : MCNames]
  \cup [k : {"init"}, n : {"x"}, m : MCNames] \cup [k : {"for"}, n : {"x", MCNoName}]
  \cup [k : {"enum"}, s : {"S"}, n : {"x"}]

(* Tags in nested scopes.                                                  *)
TagItems ==
  Punctuation \cup Function0 \cup [k : {"struct"}, s : {"S"}]
  \cup [k : {"literal"}, s : {"S", MCNoName}] \cup [k : {"use"}, n : {"x"}]
  \cup [k : {"enum"}, s : {"S"}, n : {"x"}] \cup Of({"assert"})

(* Statements.                                                             *)
StatementItems ==
  Function0 \cup Of({"lbrace", "rbrace", "semi", "if", "else", "while", "do", "switch",
                     "case", "default", "break", "continue"})
  \cup [k : {"for"}, n : {MCNoName}] \cup [k : {"goto", "label"}, l : MCLabels]

(* Labels behind a switch that has ended, in the switch around it.         *)
SwitchItems == Function0 \cup Of({"lbrace", "rbrace", "semi", "switch", "case", "default"})

AssertItems == Punctuation \cup Function0 \cup Of({"assert", "specassert"})

(* The programs of a run are of several kinds: the items they are written  *)
(* with, and how many of them.                                             *)
AllKinds ==
  << [items |-> NameItems, most |-> 5], [items |-> TagItems, most |-> 7],
     [items |-> StatementItems, most |-> 5], [items |-> AssertItems, most |-> 3],
     [items |-> SwitchItems, most |-> 8] >>
TagKinds == <<[items |-> TagItems, most |-> 5]>>
AllItems == UNION {AllKinds[i].items : i \in DOMAIN AllKinds}

CONSTANT Kinds
VARIABLE kind   \* of the program

Written ==
  /\ UNCHANGED kind
  /\ items' # items => items' <= Kinds[kind].most /\ tok' \in Kinds[kind].items

MCInit == Init /\ kind \in DOMAIN Kinds
MCNext == Next /\ Written
MCSpec == MCInit /\ [][MCNext]_<<vars, kind>> /\ WF_<<vars, kind>>(Step /\ Written)
=============================================================================
