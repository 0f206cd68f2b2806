-------------------------------- MODULE Scan --------------------------------
(***************************************************************************)
(* The macro expander of jscan (preproc/preprocess/Scan.java), with the    *)
(* macro table of Sym.java and Ident.java, and the directives #define,     *)
(* #undef, #include and #pragma once.                                      *)
(*                                                                         *)
(* A Scan reads a queue of tokens (its "rescan" list followed by what is   *)
(* left of its token list).  A macro found by get() is hidden, its         *)
(* replacement is pushed in front of the queue, and the replacement ends   *)
(* in an unhide mark: when the mark is read back, the macro is visible     *)
(* again.  Arguments are collected by scanArgs(), which obeys directives   *)
(* on the way, and each one is expanded by a Scan of its own.              *)
(*                                                                         *)
(* frames is the stack of the Scans that are running: the first reads the  *)
(* program, each other one an argument of the call the Scan below it is    *)
(* expanding.  A directive with its line is one item of a queue.           *)
(***************************************************************************)
EXTENDS Integers, Sequences, FiniteSets

CONSTANTS
  Names,         \* the identifiers of the program
  Headers,       \* the names of the files it may include
  HeaderText,    \* what each of them contains
  SourceItems,   \* what a program may be written with
  Defs,          \* what a #define may say of a macro
  Prologues,     \* how it may begin: a set of sequences of such items
  NoDef,         \* "this identifier is not a macro" (Ident.sym == null)
  NoCall,        \* "this Scan is in no call of a function-like macro"
  IncLimit,      \* 70 in the code
  MaxLen         \* bound: how many items of the program are read

Punct == {"lp", "rp", "comma", "num", "str"}

Token == [k : {"id"}, n : Names, p : BOOLEAN] \cup [k : Punct]

Id(n) == [k |-> "id", n |-> n, p |-> FALSE]
Painted(n) == [k |-> "id", n |-> n, p |-> TRUE]
Tok(c) == [k |-> c]

(* The T_SPEC_UNHIDE token that createVtok makes. *)
MarkItem == [k : {"mark"}, n : Names]
Mark(n) == [k |-> "mark", n |-> n]

(* TOKEN_STREAMBEGIN, TOKEN_STREAMEND and TOKEN_EOF. *)
StreamMarker == [k : {"sb", "se", "eof"}]
SB == [k |-> "sb"]
SE == [k |-> "se"]
Eof == [k |-> "eof"]

(* A replacement list: tokens, formal parameters with what is wanted of    *)
(* the argument, and "commava" for the GNU sequence  , ## __VA_ARGS__ .    *)
Formal == [k : {"formal"}, i : Nat \ {0}, cat : {"scanned", "stringized"}]
CommaVa == [k |-> "commava"]
BodyItem == Token \cup Formal \cup {CommaVa}

Definition == [arity : Nat \cup {-1}, vararg : BOOLEAN, body : Seq(BodyItem)]
Symbol == [arity : Nat \cup {-1}, vararg : BOOLEAN,
           body : Seq(BodyItem \cup MarkItem)]

Directive ==
  [k : {"define"}, n : Names, d : Defs] \cup [k : {"undef"}, n : Names]
    \cup [k : {"include", "once"}, h : Headers]

Item == Token \cup MarkItem \cup StreamMarker \cup Directive
ArgItem == Token \cup StreamMarker

(* What a definition may say: an object-like macro has no parameters, and  *)
(* the parameters of the others are those of their list.                   *)
WellFormed(d) ==
  /\ d \in Definition
  /\ \A p \in DOMAIN d.body :
       /\ d.body[p] \in Formal => d.body[p].i <= d.arity
       /\ d.body[p] = CommaVa => d.vararg
       /\ d.body[p].k = "id" => ~d.body[p].p
  /\ d.vararg => d.arity > 0

ASSUME DefsAssumption == \A d \in Defs : WellFormed(d)
ASSUME HeaderAssumption ==
  /\ HeaderText \in [Headers -> Seq(Token \cup Directive)]
  /\ SourceItems \subseteq Token \cup Directive
  /\ Prologues \subseteq Seq(Token \cup Directive)
ASSUME NoneAssumption == /\ NoDef \notin Symbol \cup Definition
                         /\ IncLimit \in Nat /\ MaxLen \in Nat

VARIABLES
  defs,    \* identifier -> its Sym, or NoDef
  hidden,  \* the macros whose Sym has isHidden set
  frames,  \* the Scans that are running, the one of the program first
  once,    \* Hash_once: the files that said #pragma once
  text,    \* the items of the program read so far
  ended,   \* the program has been read to its end
  err,     \* the exception that stopped the run, or "none"
  events   \* history: what happened that C leaves to the implementation

vars == <<defs, hidden, frames, once, text, ended, err, events>>

-----------------------------------------------------------------------------
(* The Scans.                                                              *)

Modes == {"get", "head", "nullary", "args", "expand", "subst"}
Infos == {"noinfo", "not_present", "present_empty", "present_normal",
          "single_empty", "single_normal"}

(* A call of a function-like macro: its name and Sym as get() read them,   *)
(* the arguments collected and the depth of parentheses, the arguments     *)
(* expanded so far, and the part of the replacement already substituted.   *)
Call == [n : Names, sym : Symbol, stale : BOOLEAN, args : Seq(Seq(ArgItem)),
         nest : Nat, info : Infos, exp : Seq(Seq(Token)),
         res : Seq(Token \cup MarkItem), pos : Nat]

Frame == [pend : Seq(Item), mode : Modes, call : Call \cup {NoCall},
          inc : Nat, out : Seq(Token)]

NewScan(q) ==
  [pend |-> q, mode |-> "get", call |-> NoCall, inc |-> 0, out |-> <<>>]

Depth == Len(frames)
Top == frames[Depth]
Rest == Tail(Top.pend)
SetTop(fr) == frames' = [frames EXCEPT ![Depth] = fr]

AtEnd == Top.pend = <<>>
Cur == IF AtEnd THEN Eof ELSE Head(Top.pend)
At(kinds) == ~AtEnd /\ Cur.k \in kinds

(* The program is read as it is needed. *)
NeedsSource ==
  Depth = 1 /\ AtEnd /\ ~ended /\ Top.mode \in {"get", "head", "nullary", "args"}

Running(modes) == err = "none" /\ ~NeedsSource /\ Top.mode \in modes

Raise(e) == err' = e /\ UNCHANGED <<defs, hidden, frames, once, text, ended, events>>

(* A step that only moves the Scan on top. *)
MoveTop(fr) ==
  SetTop(fr) /\ UNCHANGED <<defs, hidden, once, text, ended, err, events>>

Sees(n, what) == defs[n] # NoDef /\ (IF what = "object" THEN defs[n].arity = -1
                                                      ELSE defs[n].arity >= 0)

-----------------------------------------------------------------------------
(* The constructor of Sym: the replacement list ends in the mark.          *)
SymUnmarked(n, d) == [arity |-> d.arity, vararg |-> d.vararg, body |-> d.body]
SymMarkedFirst(n, d) == [arity |-> d.arity, vararg |-> d.vararg,
                         body |-> <<Mark(n)>> \o d.body]

Sym(n, d) == [arity |-> d.arity, vararg |-> d.vararg,
              body |-> Append(d.body, Mark(n))]

Init ==
  /\ defs = [n \in Names |-> NoDef]
  /\ hidden = {}
  /\ \E P \in Prologues : frames = <<NewScan(<<SB>> \o P)>> /\ text = P
  /\ once = {}
  /\ ended = FALSE
  /\ err = "none"
  /\ events = {}

(* The next item of the file is there to be read, or its end. *)
ReadSource ==
  /\ err = "none" /\ NeedsSource /\ Len(text) < MaxLen
  /\ \E it \in SourceItems : /\ SetTop([Top EXCEPT !.pend = <<it>>])
                             /\ text' = Append(text, it)
  /\ UNCHANGED <<defs, hidden, once, ended, err, events>>

ReadEnd ==
  /\ err = "none" /\ NeedsSource
  /\ SetTop([Top EXCEPT !.pend = <<SE, Eof>>])
  /\ ended' = TRUE
  /\ UNCHANGED <<defs, hidden, once, text, err, events>>

-----------------------------------------------------------------------------
(* goThroughStreamMarkers: the stack of the open files, by its height.     *)
StreamBeginOneMore ==
  /\ Running({"get"}) /\ At({"sb"})
  /\ IF Top.inc > IncLimit + 2
     THEN Raise("nesting")
     ELSE MoveTop([Top EXCEPT !.pend = Rest, !.inc = @ + 1])

StreamBegin ==
  /\ Running({"get"}) /\ At({"sb"})
  /\ IF Top.inc > IncLimit + 1
     THEN Raise("nesting")
     ELSE MoveTop([Top EXCEPT !.pend = Rest, !.inc = @ + 1])

StreamEnd ==
  /\ Running({"get"}) /\ At({"se"})
  /\ IF Top.inc = 0
     THEN Raise("incstack")
     ELSE MoveTop([Top EXCEPT !.pend = Rest, !.inc = @ - 1])

(* dline, from get() and from scanArgs().  A #define or an #undef of the   *)
(* macro whose arguments are being collected leaves get() with a Sym the   *)
(* table no longer has.                                                    *)
Redefines(n) == Top.mode = "args" /\ Top.call.n = n

PopAndOutdate(n) ==
  IF Redefines(n)
  THEN /\ SetTop([Top EXCEPT !.pend = Rest, !.call.stale = TRUE])
       /\ events' = events \cup {"redefined"}
  ELSE SetTop([Top EXCEPT !.pend = Rest]) /\ UNCHANGED events

Define ==
  /\ Running({"get", "args"}) /\ At({"define"})
  /\ defs' = [defs EXCEPT ![Cur.n] = Sym(Cur.n, Cur.d)]
  /\ hidden' = hidden \ {Cur.n}
  /\ PopAndOutdate(Cur.n)
  /\ UNCHANGED <<once, text, ended, err>>

Undef ==
  /\ Running({"get", "args"}) /\ At({"undef"})
  /\ defs' = [defs EXCEPT ![Cur.n] = NoDef]
  /\ hidden' = hidden \ {Cur.n}
  /\ PopAndOutdate(Cur.n)
  /\ UNCHANGED <<once, text, ended, err>>

(* pushTokensFromInclude: the tokens of the file, with its stream markers  *)
(* and without its TOKEN_EOF, in front of the rest.                        *)
IncludeNoEnd ==
  /\ Running({"get", "args"}) /\ At({"include"})
  /\ MoveTop([Top EXCEPT !.pend =
       IF Cur.h \in once THEN Rest ELSE (<<SB>> \o HeaderText[Cur.h]) \o Rest])

Include ==
  /\ Running({"get", "args"}) /\ At({"include"})
  /\ MoveTop([Top EXCEPT !.pend =
       IF Cur.h \in once THEN Rest
       ELSE (<<SB>> \o HeaderText[Cur.h] \o <<SE>>) \o Rest])

PragmaOnce ==
  /\ Running({"get", "args"}) /\ At({"once"})
  /\ once' = once \cup {Cur.h}
  /\ SetTop([Top EXCEPT !.pend = Rest])
  /\ UNCHANGED <<defs, hidden, text, ended, err, events>>

-----------------------------------------------------------------------------
(* unhide(u), which every loop that reads tokens calls first.  The mark    *)
(* names the macro and acts on the Sym the macro has by then.              *)
UnhideEverything ==
  /\ Running({"get", "head", "nullary", "args"}) /\ At({"mark"})
  /\ IF Cur.n \notin hidden
     THEN Raise("unhide")
     ELSE /\ hidden' = {}
          /\ SetTop([Top EXCEPT !.pend = Rest])
          /\ UNCHANGED <<defs, once, text, ended, err, events>>

Unhide ==
  /\ Running({"get", "head", "nullary", "args"}) /\ At({"mark"})
  /\ IF Cur.n \notin hidden
     THEN Raise("unhide")
     ELSE /\ hidden' = hidden \ {Cur.n}
          /\ SetTop([Top EXCEPT !.pend = Rest])
          /\ events' = IF Top.mode \in {"get", "head"} THEN events ELSE events \cup {"crossed"}
          /\ UNCHANGED <<defs, once, text, ended, err>>

(* get() returns a token: to the client, or to the call that expands the   *)
(* argument this Scan reads.                                               *)
Emit(t, rest) ==
  MoveTop([Top EXCEPT !.pend = rest, !.mode = "get", !.call = NoCall,
                      !.out = Append(@, t)])

EmitPlain ==
  /\ Running({"get"}) /\ At({"id"} \cup Punct)
  /\ Cur.k = "id" => Cur.p \/ defs[Cur.n] = NoDef
  /\ Emit(Cur, Rest)

EmitHiddenUnpainted ==
  /\ Running({"get"}) /\ At({"id"})
  /\ ~Cur.p /\ defs[Cur.n] # NoDef /\ Cur.n \in hidden
  /\ Emit(Cur, Rest)

EmitHidden ==
  /\ Running({"get"}) /\ At({"id"})
  /\ ~Cur.p /\ defs[Cur.n] # NoDef /\ Cur.n \in hidden
  /\ Emit(Painted(Cur.n), Rest)

(* replaceSimple: hide() the Sym get() holds and push the replacement in   *)
(* front of the rest.  A Sym that is no longer in the table is hidden to   *)
(* no effect.                                                              *)
ReplaceSimpleBehind(n, stale, repl, rest) ==
  /\ hidden' = hidden \cup {n}
  /\ SetTop([Top EXCEPT !.pend = rest \o repl, !.mode = "get", !.call = NoCall])
  /\ UNCHANGED <<defs, once, text, ended, err, events>>

ReplaceSimple(n, stale, repl, rest) ==
  IF ~stale /\ n \in hidden
  THEN Raise("hide")
  ELSE /\ hidden' = IF stale THEN hidden ELSE hidden \cup {n}
       /\ SetTop([Top EXCEPT !.pend = repl \o rest, !.mode = "get",
                             !.call = NoCall])
       /\ UNCHANGED <<defs, once, text, ended, err, events>>

ExpandObject ==
  /\ Running({"get"}) /\ At({"id"})
  /\ ~Cur.p /\ Sees(Cur.n, "object") /\ Cur.n \notin hidden
  /\ ReplaceSimple(Cur.n, FALSE, defs[Cur.n].body, Rest)

(* The name of a function-like macro: is it followed by a parenthesis?     *)
NewCall == [n |-> Cur.n, sym |-> defs[Cur.n], stale |-> FALSE,
            args |-> <<>>, nest |-> 0, info |-> "noinfo",
            exp |-> <<>>, res |-> <<>>, pos |-> 0]

MeetHeadHidden ==
  /\ Running({"get"}) /\ At({"id"}) /\ ~Cur.p /\ Sees(Cur.n, "function")
  /\ MoveTop([Top EXCEPT !.pend = Rest, !.mode = "head", !.call = NewCall])

MeetHead ==
  /\ Running({"get"}) /\ At({"id"})
  /\ ~Cur.p /\ Sees(Cur.n, "function") /\ Cur.n \notin hidden
  /\ MoveTop([Top EXCEPT !.pend = Rest, !.mode = "head", !.call = NewCall])

(* No: what was read is pushed back, and the name is an ordinary token.    *)
EmitHead ==
  /\ Running({"head"}) /\ ~At({"lp", "mark"})
  /\ Emit(Id(Top.call.n), Top.pend)

OpenCall ==
  /\ Running({"head"}) /\ At({"lp"})
  /\ MoveTop(IF Top.call.sym.arity = 0
             THEN [Top EXCEPT !.pend = Rest, !.mode = "nullary"]
             ELSE [Top EXCEPT !.pend = Rest, !.mode = "args",
                              !.call.args = <<(<<>>)>>])

(* A macro with no parameters takes nothing between its parentheses. *)
CloseNullary ==
  /\ Running({"nullary"}) /\ ~AtEnd /\ ~At({"mark"})
  /\ IF At({"rp"})
     THEN MoveTop([Top EXCEPT !.pend = Rest, !.mode = "expand"])
     ELSE Raise("nullary")

-----------------------------------------------------------------------------
(* scanArgs.                                                               *)
NArgs == Len(Top.call.args)
LastArg == Top.call.args[NArgs]
AtLastArg == NArgs = Top.call.sym.arity

AddToArg(t, nest, ev) ==
  /\ SetTop([Top EXCEPT !.pend = Rest, !.call.nest = nest,
                        !.call.args[NArgs] = Append(@, t)])
  /\ events' = events \cup ev
  /\ UNCHANGED <<defs, hidden, once, text, ended, err>>

(* A token of the argument; a macro that is hidden now is never to be      *)
(* expanded at this place.                                                 *)
ArgToken ==
  /\ Running({"args"}) /\ At({"id", "num", "str"})
  /\ AddToArg(IF Cur.k = "id" /\ Cur.n \in hidden THEN Painted(Cur.n) ELSE Cur,
              Top.call.nest, {})

(* Stream markers are kept as tokens of the argument. *)
ArgMark ==
  /\ Running({"args"}) /\ At({"sb", "se", "eof", "mark"})
  /\ AddToArg(Cur, Top.call.nest, {})
ArgDirective ==
  /\ Running({"args"}) /\ At({"sb", "se", "eof", "define", "undef"})
  /\ AddToArg(Cur, Top.call.nest, {"stream"})

ArgStreamMarker ==
  /\ Running({"args"}) /\ At({"sb", "se", "eof"})
  /\ AddToArg(Cur, Top.call.nest, {"stream"})

ArgComma ==
  /\ Running({"args"}) /\ At({"comma"})
  /\ IF Top.call.nest > 0 \/ (AtLastArg /\ Top.call.sym.vararg)
     THEN AddToArg(Cur, Top.call.nest, {})
     ELSE IF AtLastArg THEN Raise("arity")
     ELSE MoveTop([Top EXCEPT !.pend = Rest, !.call.args = Append(@, <<>>)])

ArgParen ==
  /\ Running({"args"})
  /\ \/ At({"lp"}) /\ AddToArg(Cur, Top.call.nest + 1, {})
     \/ At({"rp"}) /\ Top.call.nest > 0 /\ AddToArg(Cur, Top.call.nest - 1, {})

(* The lists the code allocates for every parameter in advance. *)
AllArgs == [i \in 1 .. Top.call.sym.arity |->
              IF i <= NArgs THEN Top.call.args[i] ELSE <<>>]

VarargInfo ==
  LET arity == Top.call.sym.arity
      empty == AllArgs[arity] = <<>>
  IN  IF ~Top.call.sym.vararg THEN "noinfo"
      ELSE IF arity = 1 THEN IF empty THEN "single_empty" ELSE "single_normal"
      ELSE IF NArgs < arity THEN "not_present"
      ELSE IF empty THEN "present_empty" ELSE "present_normal"

CollectedArgs(rest) ==
  [Top EXCEPT !.pend = rest, !.mode = "expand", !.call.args = AllArgs,
              !.call.nest = 0, !.call.info = VarargInfo]

CloseArgs ==
  /\ Running({"args"}) /\ At({"rp"}) /\ Top.call.nest = 0
  /\ IF AtLastArg \/ Top.call.sym.vararg
     THEN MoveTop(CollectedArgs(Rest))
     ELSE Raise("arity")

(* The input ends before the call does: the loops stop, with no check.     *)
RunOutOfArgs ==
  /\ Running({"nullary", "args"}) /\ AtEnd
  /\ SetTop(CollectedArgs(<<>>))
  /\ events' = events \cup {"unterminated"}
  /\ UNCHANGED <<defs, hidden, once, text, ended, err>>

-----------------------------------------------------------------------------
(* The expansion of the arguments, each in a new Scan, and the             *)
(* substitution.  An empty argument is a placemarker token from here until *)
(* replaceSimple drops it; it is the empty sequence throughout.            *)
Wanted(sym, i, cat) ==
  \E p \in DOMAIN sym.body :
    \/ sym.body[p].k = "formal" /\ sym.body[p].i = i /\ sym.body[p].cat = cat
    \/ sym.body[p].k = "commava" /\ i = sym.arity /\ cat = "scanned"

NextArg == Len(Top.call.exp) + 1
Expanding == Running({"expand"}) /\ NextArg <= Top.call.sym.arity

SkipArg ==
  /\ Expanding
  /\ ~Wanted(Top.call.sym, NextArg, "scanned") \/ Top.call.args[NextArg] = <<>>
  /\ MoveTop([Top EXCEPT !.call.exp = Append(@, <<>>)])

ExpandArg ==
  /\ Expanding
  /\ Wanted(Top.call.sym, NextArg, "scanned") /\ Top.call.args[NextArg] # <<>>
  /\ frames' = Append(frames, NewScan(Top.call.args[NextArg]))
  /\ UNCHANGED <<defs, hidden, once, text, ended, err, events>>

(* get() has returned Env.EOF_TOKEN_ENTRY for the argument. *)
ArgExpanded ==
  /\ Running({"get"}) /\ Depth > 1 /\ Cur = Eof
  /\ frames' = [SubSeq(frames, 1, Depth - 1) EXCEPT
                  ![Depth - 1].call.exp = Append(@, Top.out)]
  /\ UNCHANGED <<defs, hidden, once, text, ended, err, events>>

StartSubst ==
  /\ Running({"expand"}) /\ NextArg > Top.call.sym.arity
  /\ MoveTop([Top EXCEPT !.mode = "subst"])

(* The loop over the replacement list, with what pasteAll makes of         *)
(*  , ## __VA_ARGS__  when the variable arguments are missing.             *)
DeleteComma == Top.call.info \in {"not_present", "single_empty"}

Piece(b) ==
  CASE b.k = "formal" -> IF b.cat = "scanned" THEN Top.call.exp[b.i] ELSE <<Tok("str")>>
    [] b.k = "commava" -> IF DeleteComma THEN <<>>
                          ELSE <<Tok("comma")>> \o Top.call.exp[Top.call.sym.arity]
    [] OTHER -> <<b>>

Subst ==
  /\ Running({"subst"}) /\ Top.call.pos < Len(Top.call.sym.body)
  /\ MoveTop([Top EXCEPT !.call.pos = @ + 1,
                         !.call.res = @ \o Piece(Top.call.sym.body[Top.call.pos + 1])])

Install ==
  /\ Running({"subst"}) /\ Top.call.pos = Len(Top.call.sym.body)
  /\ ReplaceSimple(Top.call.n, Top.call.stale, Top.call.res, Top.pend)

-----------------------------------------------------------------------------
(* The client of the program's Scan stops at TOKEN_EOF. *)
Finished == ended /\ Depth = 1 /\ Top.mode = "get" /\ Cur = Eof
Stopped == Finished \/ err # "none"

Terminating == Stopped /\ UNCHANGED vars

Step ==
  \/ ReadSource \/ ReadEnd \/ StreamBegin \/ StreamEnd
  \/ Define \/ Undef \/ Include \/ PragmaOnce
  \/ Unhide \/ EmitPlain \/ EmitHidden \/ ExpandObject
  \/ MeetHead \/ EmitHead \/ OpenCall \/ CloseNullary
  \/ ArgToken \/ ArgStreamMarker \/ ArgComma \/ ArgParen
  \/ CloseArgs \/ RunOutOfArgs
  \/ SkipArg \/ ExpandArg \/ ArgExpanded \/ StartSubst \/ Subst \/ Install

Next == Step \/ Terminating

Spec == Init /\ [][Next]_vars
FairSpec == Spec /\ WF_vars(Step)

-----------------------------------------------------------------------------
(* Properties.                                                             *)

(* Every variable has its type; in particular an argument never holds a    *)
(* mark, which get() and stringize() call "unexpecting unhide", and a Scan *)
(* that waits for an argument waits at the place it asked for it.          *)
TypeOK ==
  /\ defs \in [Names -> Symbol \cup {NoDef}]
  /\ hidden \subseteq Names
  /\ frames \in Seq(Frame) /\ frames # <<>>
  /\ once \subseteq Headers
  /\ text \in Seq(Token \cup Directive)
  /\ ended \in BOOLEAN
  /\ err \in {"none", "nesting", "incstack", "unhide", "hide", "nullary", "arity"}
  /\ events \subseteq {"redefined", "crossed", "unterminated", "stream"}

Undisturbed == "redefined" \notin events

MarkAt(i, p, n) == frames[i].pend[p] = Mark(n)

(* A macro is hidden exactly while its unhide mark waits in the queue of   *)
(* some Scan, and there is one such mark: hide() and the mark go in        *)
(* together and nothing but unhide() takes the mark out (Scan.java:700).   *)
MarksMatchHidden ==
  Undisturbed =>
    \A n \in Names :
      /\ n \in hidden <=> \E i \in DOMAIN frames :
                            \E p \in DOMAIN frames[i].pend : MarkAt(i, p, n)
      /\ \A i, j \in DOMAIN frames :
           \A p \in DOMAIN frames[i].pend, q \in DOMAIN frames[j].pend :
             MarkAt(i, p, n) /\ MarkAt(j, q, n) => i = j /\ p = q

(* The assertions of Sym.hide and Sym.unhide (Sym.java:89, 96) never fire, *)
(* unless a directive redefines a macro whose call is being read.          *)
SymAssertions == Undisturbed => err \notin {"hide", "unhide"}

(* The Sym that a call took from the table when it met the name is still   *)
(* the one in the table at every later step of the call, however many      *)
(* arguments, directives and files are read before it is used.             *)
HeldSymIsCurrent ==
  Undisturbed =>
    \A i \in DOMAIN frames :
      frames[i].mode # "get" => defs[frames[i].call.n] = frames[i].call.sym

(* A directive is only obeyed when no macro is being expanded, so that a   *)
(* new Sym never takes the place of a hidden one (Scan.java:267, 481).     *)
DirectivesSeeNothingHidden ==
  [][Undisturbed /\ defs' # defs => hidden = {} /\ hidden' = {}]_vars

(* The stack of open files matches the stream markers still to be read, so *)
(* that STREAMEND never finds it empty, as long as no call has taken a     *)
(* stream marker into an argument (Scan.java:136).                         *)
Waiting(c) == Cardinality({p \in DOMAIN frames[1].pend : frames[1].pend[p].k = c})

StreamsBalanced ==
  "stream" \notin events =>
    /\ err # "incstack"
    /\ frames[1].inc + Waiting("sb") = Waiting("se") + (IF ended THEN 0 ELSE 1)

(* Scan.java:138, "stack to avoid too nested include recursion": the       *)
(* included files that are open, each by its STREAMEND, never outnumber    *)
(* the limit by more than the check's slack and the one to be refused, as  *)
(* long as no call has taken a stream marker, which is not counted.        *)
IncludeDepthLimited == "stream" \notin events => Waiting("se") <= IncLimit + 2

(* Expansion ends: get() answers for every token of every program, because *)
(* a hidden macro is not expanded again.                                   *)
Termination == <>Stopped

-----------------------------------------------------------------------------
(* What MarksMatchHidden and the others rest on: the inductive invariant.  *)

(* A replacement list: the mark of the macro is its last token, and what   *)
(* stands before it is made of S.                                          *)
MarkLast(q, n, S) ==
  /\ Len(q) > 0 /\ q[Len(q)] = Mark(n)
  /\ \A p \in 1 .. Len(q) - 1 : q[p] \in S

GoodSym(s, n) ==
  /\ s \in Symbol
  /\ MarkLast(s.body, n, BodyItem)
  /\ \A p \in 1 .. Len(s.body) :
       /\ s.body[p].k = "formal" => s.body[p].i <= s.arity
       /\ s.body[p].k = "commava" => s.arity > 0

(* How far a call has come, by the place get() has reached.                *)
GoodCall(fr) ==
  LET c == fr.call IN
  /\ c \in Call /\ GoodSym(c.sym, c.n) /\ c.sym.arity >= 0
  /\ fr.mode \in {"head", "nullary"} => c.args = <<>>
  /\ fr.mode = "nullary" => c.sym.arity = 0
  /\ fr.mode = "args" => Len(c.args) \in 1 .. c.sym.arity
  /\ fr.mode \in {"expand", "subst"} => Len(c.args) = c.sym.arity
  /\ fr.mode = "expand" => Len(c.exp) <= c.sym.arity
  /\ fr.mode = "subst" => Len(c.exp) = c.sym.arity /\ c.pos <= Len(c.sym.body)
  /\ fr.mode \notin {"expand", "subst"} => c.exp = <<>>
  /\ fr.mode # "subst" => c.pos = 0 /\ c.res = <<>>
  /\ IF c.pos < Len(c.sym.body) THEN c.res \in Seq(Token)
     ELSE MarkLast(c.res, c.n, Token)

GoodTable == \A n \in Names : defs[n] # NoDef => GoodSym(defs[n], n)

Shape ==
  /\ \A i \in DOMAIN frames : frames[i].mode # "get" => GoodCall(frames[i])
  /\ \A i \in 1 .. Depth - 1 :
       frames[i].mode = "expand" /\ Len(frames[i].call.exp) < frames[i].call.sym.arity

(* Nothing that a directive could stand behind holds back a mark: marks    *)
(* come before every directive and the end of the input, and only the      *)
(* program's own Scan reads directives.                                    *)
Barrier == {"define", "undef", "include", "once", "eof"}

MarksFirst ==
  \A i \in DOMAIN frames : \A p, q \in DOMAIN frames[i].pend :
    p < q /\ frames[i].pend[p].k \in Barrier => frames[i].pend[q].k # "mark"

InnerScans ==
  \A i \in DOMAIN frames : i > 1 => frames[i].pend \in Seq(ArgItem \cup MarkItem)

(* The macro of a call is not hidden where the call will put it.           *)
HeadsUnmarked ==
  Undisturbed =>
    \A i \in DOMAIN frames : frames[i].mode # "get" =>
      /\ ~frames[i].call.stale
      /\ \A j \in 1 .. i : \A p \in DOMAIN frames[j].pend :
           frames[j].pend[p] # Mark(frames[i].call.n)

TypeInv == TypeOK /\ GoodTable /\ Shape /\ InnerScans

IInv == /\ TypeInv /\ MarksFirst /\ HeadsUnmarked
        /\ MarksMatchHidden /\ SymAssertions /\ HeldSymIsCurrent

(* As long as no call has taken a stream marker, they are all in the       *)
(* program's own queue, and a file that has just been included begins at   *)
(* once: nothing that takes tokens is between get() and its STREAMBEGIN.   *)
NoMarkers(q) == \A p \in DOMAIN q : q[p].k \notin {"sb", "se", "eof"}

MarkersInPlace ==
  "stream" \notin events =>
    /\ \A i \in DOMAIN frames : i > 1 => NoMarkers(frames[i].pend)
    /\ \A i \in DOMAIN frames : frames[i].mode # "get" =>
         \A a \in DOMAIN frames[i].call.args : NoMarkers(frames[i].call.args[a])
    /\ \A p \in DOMAIN frames[1].pend :
         frames[1].pend[p].k \in {"sb", "include"} =>
           /\ ~ended
           /\ frames[1].pend[p].k = "sb" => p = 1 /\ frames[1].mode \in {"get", "args"}
    /\ frames[1].inc <= IncLimit + 2

StreamInv == MarkersInPlace /\ StreamsBalanced

(* The hide()/unhide() discipline, free of queues and marks. *)
Activation == INSTANCE MacroActivation
  WITH Meanings <- Symbol, NoMeaning <- NoDef,
       table <- defs, active <- hidden, broken <- ~Undisturbed

ImplementsActivation == Activation!Spec

(* Sym.java:96 as it stands: unhide() is only called of a hidden macro.    *)
UnhideAssertion == err # "unhide"

=============================================================================
