-------------------------------- MODULE Parser --------------------------------
(***************************************************************************)
(* The parser's declarations and statements (ParseExternal, Parse-         *)
(* Declarations, ParseStruct3, ParseEnum3, ParseStatement, BreakContinue), *)
(* with the scopes they open and close, the tags they complete, the loops  *)
(* and switches that statements are in, and the look-ahead that reads a    *)
(* type name twice.                                                        *)
(*                                                                         *)
(* The recursive descent is a stack of productions; what stands between    *)
(* two of its decisions is one item of the program: the head of an         *)
(* expression, a declaration with its semicolon.                           *)
(***************************************************************************)
EXTENDS Symtabs, SequencesExt

CONSTANTS Labels,
          SourceItems,   \* what a program may be written with
          NoName,        \* no identifier
          MaxItems       \* bound: how many items of the program are read

(* An item is a declaration, the head of a statement, or one token, with    *)
(* the names that are in it.                                               *)
OneToken == {"lbrace", "rbrace", "semi", "if", "else", "while", "do", "switch", "case",
             "default", "break", "continue", "assert", "specassert"}
ObjectTypes == Types \ {"constant"}
Items ==
  [k : OneToken]
  \cup [k : {"object"}, n : Names, st : {"none", "extern"}, ty : ObjectTypes]
  \cup [k : {"init"}, n : Names, m : Names]
  \cup [k : {"typedef"}, n : Names, ty : ObjectTypes]
  \cup [k : {"alias"}, t : Names, n : Names]
  \cup [k : {"use"}, n : Names]
  \cup [k : {"function"}, n : Names, p : Names]
  \cup [k : {"for"}, n : Names \cup {NoName}]
  \cup [k : {"enum"}, s : Tags, n : Names]
  \cup [k : {"struct"}, s : Tags]
  \cup [k : {"literal"}, s : Tags \cup {NoName}]
  \cup [k : {"goto", "label"}, l : Labels]

ASSUME ParserAssumption ==
  /\ MaxItems \in Nat /\ NoName \notin Names \cup Tags
  /\ SourceItems \subseteq Items

VARIABLES
  scopes,    \* symbols, typedefs, tags
  ctypes,    \* the struct and enum types that tags stand for
  fn,        \* currentFn: its labels, gotos, locals; or NoFunction
  stack,     \* the productions that have begun, the innermost one last
  loops,     \* ParseStatement.loops: what each loop is
  switches,  \* ParseStatement.switches
  mode,      \* what the production on top of the stack does next
  head,      \* the tag behind struct, and what it stood for there
  tok,       \* the current token, or NoTok when it has not been looked at
  items,     \* how much of the program has been read
  saved,     \* the tables when a ParseState was taken
  lastid,    \* history: how many declarations there have been
  meaning,   \* history: the name used last, and its declaration
  cases,     \* history: the switch of each case and default label
  err,       \* the exception that ended the run, and the name it is about
  events     \* history: what makes the tables differ from C's name spaces

tables == <<scopes, ctypes>>
nesting == <<stack, loops, switches>>
history == <<lastid, meaning, cases>>
vars == <<tables, fn, nesting, mode, head, tok, items, saved, history, err, events>>

NoTok == [k |-> "notok"]
Eof == [k |-> "eof"]
NoFunction == [on |-> FALSE, labels |-> {}, gotos |-> {}, locals |-> <<>>]
NewFunction == [NoFunction EXCEPT !.on = TRUE]
NoErr == [e |-> "none", n |-> NoName]
NoHead == [s |-> NoName, cur |-> 0, all |-> 0]

Init ==
  /\ scopes = <<NewScope("file")>> /\ ctypes = <<>>
  /\ fn = NoFunction
  /\ stack = <<[k |-> "unit", ty |-> 0]>>
  /\ loops = <<>> /\ switches = <<>>
  /\ mode = "leading" /\ head = NoHead /\ tok = NoTok /\ items = 0 /\ saved = <<>>
  /\ lastid = 0 /\ meaning = [n |-> "none", id |-> 0] /\ cases = [sw |-> 0, at |-> 0]
  /\ err = NoErr /\ events = {}

Top == stack[Len(stack)]
In(kinds) == Top.k \in kinds
DeclKinds == {"unit", "body", "block"}
Sub == {"label", "default", "case", "then", "else", "for", "while", "switch", "do"}

PushFrame(k, ty) == stack' = Append(stack, [k |-> k, ty |-> ty])
PopFrame == stack' = SubSeq(stack, 1, Len(stack) - 1)

At(m, kinds) == err = NoErr /\ mode = m /\ tok.k \in kinds

(* The item has been read, and nothing has happened but what is said. *)
Consume == tok' = NoTok

RaiseAt(e, n) ==
  /\ err' = [e |-> e, n |-> n]
  /\ UNCHANGED <<tables, fn, nesting, mode, head, tok, items, saved, history, events>>
Raise(e) == RaiseAt(e, NoName)

(* The statement or declaration is complete. *)
Done(m) == mode' = m

-----------------------------------------------------------------------------
(* The next token.  Outside functions a keyword of a statement is taken    *)
(* for a name and a label for a bit-field: programs have none there.  Of    *)
(* what may stand behind a type, one item of each kind is read.            *)
StatementKinds == {"if", "else", "while", "do", "for", "switch", "case", "default",
                   "break", "continue", "goto", "label", "literal"}
InFunction == In({"body", "block"} \cup Sub)

Read ==
  /\ err = NoErr /\ tok = NoTok
  /\ \/ /\ items < MaxItems /\ items' = items + 1
        /\ \E it \in SourceItems :
             /\ it.k \in StatementKinds => InFunction
             /\ mode \in {"tag", "typed"} => it.k \in {"lbrace", "rbrace", "semi", "use"}
             /\ tok' = it
     \/ tok' = Eof /\ UNCHANGED items
  /\ UNCHANGED <<tables, fn, nesting, mode, head, saved, history, err, events>>

-----------------------------------------------------------------------------
(* Parse.defineSym.                                                        *)

(* Both tables have the name: C's one name space is two. *)
SymEvents(n, e) ==
  (IF IsTypedefName(scopes, n) THEN {"mixed"} ELSE {})
    \cup (LET prev == Inner(scopes).syms[n]
          IN  IF prev.id # 0 /\ "constant" \in {prev.ty, e.ty} THEN {"twice"} ELSE {})

AsLocal(e) == IF e.ty = "constant" THEN 0 ELSE e.id
(* Mutated: those of file scope. *)
WithLocalOfFile(f, e, isFile) ==
  IF f.on /\ isFile THEN [f EXCEPT !.locals = Append(@, AsLocal(e))] ELSE f

WithLocal(f, e, isFile) ==
  IF f.on /\ ~isFile THEN [f EXCEPT !.locals = Append(@, AsLocal(e))] ELSE f

DefineSym(n, st, ty) ==
  LET e == [id |-> lastid + 1, st |-> st, ty |-> ty]
  IN  IF Redefines(scopes, n, e)
      THEN RaiseAt("redefinition", n)
      ELSE /\ scopes' = AddSym(scopes, n, e)
           /\ fn' = WithLocal(fn, e, IsFileScope(scopes))
           /\ lastid' = lastid + 1 /\ events' = events \cup SymEvents(n, e)
           /\ Consume /\ Done("done")
           /\ UNCHANGED <<ctypes, nesting, head, items, saved, meaning, cases, err>>

(* An item with no effect on the tables. *)
Skip ==
  /\ Consume /\ Done("done")
  /\ UNCHANGED <<tables, fn, nesting, head, items, saved, history, err, events>>

(* parseInitDeclarator without an initializer, and a member of a struct.   *)
Object ==
  /\ At("start", {"object"})
  /\ CASE In(DeclKinds) -> DefineSym(tok.n, tok.st, tok.ty)
       [] In({"struct"}) -> Skip
       [] OTHER -> Raise("expression")

(* With an initializer: the name is defined after it has been parsed.      *)
InitializedOk ==
  LET m == Sym(scopes, tok.m)
      e == [id |-> lastid + 1, st |-> "none", ty |-> "int"]
  IN  /\ scopes' = AddSym(scopes, tok.n, e)
      /\ fn' = WithLocal(fn, e, IsFileScope(scopes))
      /\ lastid' = lastid + 1 /\ meaning' = [n |-> tok.m, id |-> m.id]
      /\ events' = events \cup SymEvents(tok.n, e)
                     \cup (IF tok.n = tok.m THEN {"own"} ELSE {})
      /\ Consume /\ Done("done")
      /\ UNCHANGED <<ctypes, nesting, head, items, saved, cases, err>>

Initialized ==
  /\ At("start", {"init"}) /\ In(DeclKinds)
  /\ IF Sym(scopes, tok.m).id = 0 THEN RaiseAt("undeclared", tok.m)
     ELSE IF Redefines(scopes, tok.n, [id |-> 1, st |-> "none", ty |-> "int"])
     THEN RaiseAt("redefinition", tok.n)
     ELSE InitializedOk

(* parseAndDefineOneTypedef *)
TypedefDecl ==
  /\ At("start", {"typedef"})
  /\ CASE In(DeclKinds) ->
            LET prev == Inner(scopes).types[tok.n]
                e == [id |-> lastid + 1, st |-> "none", ty |-> tok.ty]
            IN  IF prev.id # 0 /\ prev.ty # tok.ty
                THEN RaiseAt("redefinition", tok.n)
                ELSE /\ scopes' = AddType(scopes, tok.n, e)
                     /\ lastid' = lastid + 1
                     /\ events' = events \cup
                          (IF Sym(scopes, tok.n).id # 0 THEN {"mixed"} ELSE {})
                     /\ Consume /\ Done("done")
                     /\ UNCHANGED <<ctypes, fn, nesting, head, items, saved,
                                    meaning, cases, err>>
       [] In({"struct"}) -> Skip
       [] OTHER -> Raise("expression")

(* Two identifiers: the first is a typedef name or there is an error.      *)
Alias ==
  /\ At("start", {"alias"})
  /\ IF In({"struct"} \cup DeclKinds) /\ IsTypedefName(scopes, tok.t)
     THEN IF In({"struct"}) THEN Skip
          ELSE DefineSym(tok.n, "none", Typedef(scopes, tok.t).ty)
     ELSE IF ~In({"struct", "unit"}) /\ Sym(scopes, tok.t).id = 0
     THEN RaiseAt("undeclared", tok.t)
     ELSE IF In({"unit"}) /\ Redefines(scopes, tok.t, [id |-> 1, st |-> "none", ty |-> "int"])
     THEN RaiseAt("redefinition", tok.t)
     ELSE Raise("syntax")

Mention ==
  LET e == Sym(scopes, tok.n)
  IN  IF e.id = 0
      THEN RaiseAt("undeclared", tok.n)
      ELSE /\ meaning' = [n |-> tok.n, id |-> e.id]
           /\ Consume /\ Done("done")
           /\ UNCHANGED <<tables, fn, nesting, head, items, saved, lastid, cases,
                          err, events>>

(* One identifier: a declaration without a declarator, or an expression,   *)
(* or what a specifier that was left out makes an int.                     *)
UseName ==
  /\ At("start", {"use"})
  /\ IF In({"struct"} \cup DeclKinds) /\ IsTypedefName(scopes, tok.n) THEN Skip
     ELSE IF In({"struct"}) THEN Skip
     ELSE IF In({"unit"}) THEN DefineSym(tok.n, "none", "int")
     ELSE Mention

-----------------------------------------------------------------------------
(* ParseEnum3, ParseStruct3.                                               *)

(* Mutated: a tag of an outer scope is never another one. *)
TypeForVisible(cur, all, next) == all

(* What the tag stands for behind struct or enum, when this token follows  *)
(* it: a tag of an outer scope is another one if it is declared here.      *)
TypeFor(cur, all, next) ==
  IF all = 0 \/ (cur = 0 /\ next \in {"semi", "lbrace"}) THEN 0 ELSE all

NewType(kw, s) == [kw |-> kw, s |-> s, complete |-> FALSE]

(* incompl: a new type if there is none yet. *)
TypesWith(t, kw, s) == IF t = 0 THEN Append(ctypes, NewType(kw, s)) ELSE ctypes
ScopesWith(t, s) == IF t = 0 THEN AddTag(scopes, s, Len(ctypes) + 1) ELSE scopes
IdOf(t) == IF t = 0 THEN Len(ctypes) + 1 ELSE t

Completed(types, t) == [types EXCEPT ![t].complete = TRUE]

(* enum s { n } ;                                                          *)
EnumDecl ==
  /\ At("start", {"enum"}) /\ In({"struct"} \cup DeclKinds)
  /\ LET cur == CurrentTag(scopes, tok.s)
         all == TagOf(scopes, tok.s)
         t == TypeFor(cur, all, "lbrace")
         tagged == ScopesWith(t, tok.s)
         e == [id |-> lastid + 1, st |-> "extern", ty |-> "constant"]
     IN  IF cur # 0 /\ ctypes[cur].complete
         THEN Raise("tag")
         ELSE IF Redefines(tagged, tok.n, e)
         THEN RaiseAt("redefinition", tok.n)
         ELSE IF TypesWith(t, "enum", tok.s)[IdOf(t)].kw # "enum"
         THEN Raise("null")
         ELSE /\ ctypes' = Completed(TypesWith(t, "enum", tok.s), IdOf(t))
              /\ scopes' = AddSym(tagged, tok.n, e)
              /\ fn' = WithLocal(fn, e, IsFileScope(scopes))
              /\ lastid' = lastid + 1 /\ events' = events \cup SymEvents(tok.n, e)
              /\ Consume /\ Done("done")
              /\ UNCHANGED <<nesting, head, items, saved, meaning, cases, err>>

(* struct s, with no more of the declaration: both tables are asked here.  *)
StructHead ==
  /\ At("start", {"struct"}) /\ In({"struct"} \cup DeclKinds)
  /\ head' = [s |-> tok.s, cur |-> CurrentTag(scopes, tok.s),
              all |-> TagOf(scopes, tok.s)]
  /\ Consume /\ mode' = "tag"
  /\ UNCHANGED <<tables, fn, nesting, items, saved, history, err, events>>

HeadType(next) == TypeFor(head.cur, head.all, next)

(* The members follow. *)
StructBody ==
  /\ At("tag", {"lbrace"})
  /\ LET t == HeadType("lbrace")
     IN  IF head.cur # 0 /\ ctypes[head.cur].complete
         THEN Raise("tag")
         ELSE /\ ctypes' = TypesWith(t, "struct", head.s)
              /\ scopes' = ScopesWith(t, head.s)
              /\ PushFrame("struct", IdOf(t))
              /\ head' = NoHead /\ Consume /\ mode' = "start"
              /\ UNCHANGED <<fn, loops, switches, items, saved, history, err, events>>

(* setFields: the type is complete. *)
StructEnd ==
  /\ At("start", {"rbrace"}) /\ In({"struct"})
  /\ IF ctypes[Top.ty].kw # "struct"
     THEN Raise("null")
     ELSE /\ ctypes' = Completed(ctypes, Top.ty)
          /\ PopFrame /\ Consume /\ mode' = "typed"
          /\ UNCHANGED <<scopes, fn, loops, switches, head, items, saved,
                         history, err, events>>

(* struct s ;  and  } ;                                                    *)
NoDeclarator ==
  /\ At("tag", {"semi"}) \/ At("typed", {"semi"})
  /\ LET t == HeadType("semi")
     IN  IF mode = "typed" THEN UNCHANGED tables
         ELSE ctypes' = TypesWith(t, "struct", head.s) /\ scopes' = ScopesWith(t, head.s)
  /\ head' = NoHead /\ Consume /\ Done("done")
  /\ UNCHANGED <<fn, nesting, items, saved, history, err, events>>

(* A declarator behind the type: the name is not looked up.  A member must *)
(* have a complete type.                                                   *)
Declarator ==
  /\ At("tag", {"use"}) \/ At("typed", {"use"})
  /\ LET t == HeadType("ident")
         e == [id |-> lastid + 1, st |-> "none", ty |-> "struct"]
         sc == IF mode = "typed" THEN scopes ELSE ScopesWith(t, head.s)
         ct == IF mode = "typed" THEN ctypes ELSE TypesWith(t, "struct", head.s)
     IN  IF In({"struct"})
         THEN IF mode = "tag" /\ ~ct[IdOf(t)].complete
              THEN Raise("incomplete")
              ELSE /\ head' = NoHead /\ Consume /\ Done("done")
                   /\ UNCHANGED <<tables, fn, nesting, items, saved, history, err, events>>
         ELSE IF Redefines(sc, tok.n, e)
         THEN RaiseAt("redefinition", tok.n)
         ELSE /\ scopes' = AddSym(sc, tok.n, e) /\ ctypes' = ct
              /\ fn' = WithLocal(fn, e, IsFileScope(scopes))
              /\ lastid' = lastid + 1 /\ events' = events \cup SymEvents(tok.n, e)
              /\ head' = NoHead /\ Consume /\ Done("done")
              /\ UNCHANGED <<nesting, items, saved, meaning, cases, err>>

BadDeclaration ==
  /\ err = NoErr
  /\ \/ mode = "tag" /\ tok.k \notin {"notok", "lbrace", "semi", "use"}
     \/ mode = "typed" /\ tok.k \notin {"notok", "semi", "use"}
  /\ Raise("syntax")

-----------------------------------------------------------------------------
(* e_cast and e_postfix: ( struct s { ... } ) { ... } ;  The type name is  *)
(* read to see whether a brace follows it, and then read again.            *)

(* Without a tag, the type is a new one each time. *)
TypenameTwice == saved # <<>>

ParseTypename ==
  LET named == tok.s # NoName
      cur == IF named THEN CurrentTag(scopes, tok.s) ELSE 0
      t == IF named THEN TypeFor(cur, TagOf(scopes, tok.s), "lbrace") ELSE 0
  IN  IF cur # 0 /\ ctypes[cur].complete
      THEN Raise("tag")
      ELSE IF TypesWith(t, "struct", tok.s)[IdOf(t)].kw # "struct"
      THEN Raise("null")
      ELSE /\ ctypes' = Completed(TypesWith(t, "struct", tok.s), IdOf(t))
           /\ scopes' = IF named THEN ScopesWith(t, tok.s) ELSE scopes
           /\ IF TypenameTwice
              THEN saved' = <<>> /\ Consume /\ Done("done")
              ELSE /\ saved' = <<[scopes |-> scopes, ctypes |-> ctypes]>>
                   /\ mode' = "again" /\ UNCHANGED tok
           /\ UNCHANGED <<fn, nesting, head, items, history, err, events>>

LookAhead == At("start", {"literal"}) /\ ParseTypename
ReadAgain == At("again", {"literal"}) /\ ParseTypename

-----------------------------------------------------------------------------
(* ParseExternal.functionDefinition, with one parameter.                   *)

FunctionStart ==
  /\ At("start", {"function"})
  /\ LET e == [id |-> lastid + 1, st |-> "none", ty |-> "fn"]
         p == [id |-> lastid + 2, st |-> "auto", ty |-> "int"]
         inside == Push(AddSym(scopes, tok.n, e), "method")
     IN  IF In(Sub) THEN Raise("expression")
         ELSE IF ~In({"struct"}) /\ Redefines(scopes, tok.n, e)
         THEN RaiseAt("redefinition", tok.n)
         ELSE IF ~In({"unit"}) THEN Raise("syntax")
         ELSE /\ scopes' = AddSym(inside, tok.p, p)
              /\ fn' = [NewFunction EXCEPT !.locals = <<p.id>>]
              /\ lastid' = lastid + 2
              /\ events' = events \cup SymEvents(tok.n, e)
                   \cup (IF IsTypedefName(scopes, tok.p) THEN {"mixed"} ELSE {})
              /\ PushFrame("body", 0) /\ Consume
              /\ UNCHANGED <<ctypes, loops, switches, mode, head, items, saved,
                             meaning, cases, err>>

(* Mutated: the file scope is closed with it. *)
FunctionEndTwice ==
  /\ At("start", {"rbrace"}) /\ In({"body"})
  /\ fn' = NoFunction /\ scopes' = Pop(Pop(scopes))
  /\ PopFrame /\ Consume /\ Done("done")
  /\ UNCHANGED <<ctypes, loops, switches, head, items, saved, history, err, events>>

(* The end of the body, and checkLabels.                                   *)
FunctionEnd ==
  /\ At("start", {"rbrace"}) /\ In({"body"})
  /\ IF ~(fn.gotos \subseteq fn.labels)
     THEN Raise("label")
     ELSE /\ fn' = NoFunction /\ scopes' = Pop(scopes)
          /\ PopFrame /\ Consume /\ Done("done")
          /\ UNCHANGED <<ctypes, loops, switches, head, items, saved, history,
                         err, events>>

(* moveStraySemicolon.                                                     *)
StraySemicolon ==
  /\ err = NoErr /\ In({"unit"}) /\ tok.k = "semi"
  /\ mode \in {"leading", "start", "stray"}
  /\ Consume /\ mode' = IF mode = "leading" THEN mode ELSE "stray"
  /\ UNCHANGED <<tables, fn, nesting, head, items, saved, history, err, events>>

BeginDeclaration ==
  /\ err = NoErr /\ mode \in {"leading", "stray"} /\ tok.k \notin {"notok", "semi", "eof"}
  /\ mode' = "start"
  /\ UNCHANGED <<tables, fn, nesting, head, tok, items, saved, history, err, events>>

(* isFunc at the end of the program: restoreState refuses its own state.   *)
NothingBehindStray == At("stray", {"eof"}) /\ Raise("offset")

-----------------------------------------------------------------------------
(* ParseStatement.                                                         *)

Keep == UNCHANGED <<ctypes, head, items, saved, lastid, meaning, err, events>>

(* These begin no statement here. *)
NoStatement ==
  /\ \/ At("start", {"rbrace"}) /\ In({"unit"})
     \/ At("start", {"lbrace"}) /\ In({"unit", "struct"})
     \/ At("start", {"rbrace", "else", "struct", "enum"}) /\ In(Sub)
     \/ At("start", {"else"}) /\ In({"body", "block"})
     \/ At("start", {"init"}) /\ ~In(DeclKinds)
     \/ At("start", {"eof"}) /\ ~In({"unit"})
  /\ Raise(IF tok.k \in {"rbrace", "lbrace", "eof"} \/ In({"struct"})
           THEN "syntax" ELSE "expression")

(* Mutated: the semicolon stays. *)
SemicolonStays ==
  /\ At("start", {"semi"}) /\ ~In({"unit"}) /\ Done("done")
  /\ UNCHANGED <<tables, fn, nesting, head, tok, items, saved, history, err, events>>

(* A null statement, or a member declaration without a member. *)
Semicolon == At("start", {"semi"}) /\ ~In({"unit"}) /\ Skip

BlockStart ==
  /\ At("start", {"lbrace"}) /\ InFunction
  /\ scopes' = Push(scopes, "block") /\ PushFrame("block", 0)
  /\ Consume /\ UNCHANGED <<fn, loops, switches, mode, cases>> /\ Keep

BlockEnd ==
  /\ At("start", {"rbrace"}) /\ In({"block"})
  /\ scopes' = Pop(scopes) /\ PopFrame
  /\ Consume /\ Done("done") /\ UNCHANGED <<fn, loops, switches, cases>> /\ Keep

If ==
  /\ At("start", {"if"})
  /\ PushFrame("then", 0) /\ Consume
  /\ UNCHANGED <<scopes, fn, loops, switches, mode, cases>> /\ Keep

Loop ==
  /\ At("start", {"while", "do"})
  /\ loops' = Append(loops, tok.k) /\ PushFrame(tok.k, 0) /\ Consume
  /\ UNCHANGED <<scopes, fn, switches, mode, cases>> /\ Keep

(* for ( int n ; ; ), or with nothing declared: a scope of its own.        *)
For ==
  /\ At("start", {"for"})
  /\ loops' = Append(loops, "for") /\ PushFrame("for", 0) /\ Consume
  /\ LET inside == Push(scopes, "block")
         e == [id |-> lastid + 1, st |-> "none", ty |-> "int"]
     IN  IF tok.n = NoName
         THEN scopes' = inside /\ UNCHANGED <<fn, lastid, events>>
         ELSE /\ scopes' = AddSym(inside, tok.n, e)
              /\ fn' = WithLocal(fn, e, FALSE) /\ lastid' = lastid + 1
              /\ events' = events \cup
                   (IF IsTypedefName(scopes, tok.n) THEN {"mixed"} ELSE {})
  /\ UNCHANGED <<ctypes, switches, mode, head, items, saved, meaning, cases, err>>

Switch ==
  /\ At("start", {"switch"})
  /\ switches' = Append(switches, items) /\ PushFrame("switch", items) /\ Consume
  /\ UNCHANGED <<scopes, fn, loops, mode, cases>> /\ Keep

(* A label of the switch on top. *)
PushCase(kind) ==
  /\ cases' = [sw |-> switches[Len(switches)], at |-> items]
  /\ PushFrame(kind, 0) /\ mode' = "start"
  /\ UNCHANGED <<scopes, fn, loops, switches>> /\ Keep

Case ==
  /\ At("start", {"case"})
  /\ IF switches = <<>> THEN Raise("stray") ELSE PushCase("case") /\ Consume

(* What follows "default :" is looked at before the switch is. *)
Default ==
  /\ At("start", {"default"})
  /\ Consume /\ mode' = "default"
  /\ UNCHANGED <<scopes, fn, nesting, cases>> /\ Keep

DefaultStatement ==
  /\ err = NoErr /\ mode = "default" /\ tok # NoTok
  /\ IF tok.k = "rbrace" THEN Raise("syntax")
     ELSE IF switches = <<>> THEN Raise("stray")
     ELSE PushCase("default") /\ UNCHANGED tok

(* BreakContinue *)
CanBreak == switches # <<>> \/ loops # <<>>
CanContinue == loops # <<>>

Jump ==
  /\ At("start", {"break", "continue"})
  /\ IF \/ tok.k = "break" /\ ~CanBreak
        \/ tok.k = "continue" /\ ~CanContinue
     THEN Raise("stray")
     ELSE Skip

Goto ==
  /\ At("start", {"goto"})
  /\ fn' = [fn EXCEPT !.gotos = @ \cup {tok.l}] /\ Consume /\ Done("done")
  /\ UNCHANGED <<scopes, nesting, cases>> /\ Keep

Label ==
  /\ At("start", {"label"})
  /\ fn' = [fn EXCEPT !.labels = @ \cup {tok.l}] /\ PushFrame("label", 0)
  /\ Consume /\ UNCHANGED <<scopes, loops, switches, mode, cases>> /\ Keep

(* The statement is complete, and with it the one it is the body of.       *)
NextInList ==
  /\ err = NoErr /\ mode = "done" /\ In({"struct"} \cup DeclKinds) /\ mode' = "start"
  /\ UNCHANGED <<scopes, fn, nesting, tok, cases>> /\ Keep

EndLabelled ==
  /\ err = NoErr /\ mode = "done" /\ In({"label", "case", "default", "else"})
  /\ PopFrame /\ UNCHANGED <<scopes, fn, loops, switches, mode, tok, cases>> /\ Keep

EndWhile ==
  /\ err = NoErr /\ mode = "done" /\ In({"while"})
  /\ PopFrame /\ loops' = Front(loops)
  /\ UNCHANGED <<scopes, fn, switches, mode, tok, cases>> /\ Keep

(* Mutated: the scope of the loop stays open. *)
EndForOpen ==
  /\ err = NoErr /\ mode = "done" /\ In({"for"})
  /\ PopFrame /\ loops' = Front(loops)
  /\ UNCHANGED <<scopes, fn, switches, mode, tok, cases>> /\ Keep

EndFor ==
  /\ err = NoErr /\ mode = "done" /\ In({"for"})
  /\ PopFrame /\ loops' = Front(loops) /\ scopes' = Pop(scopes)
  /\ UNCHANGED <<fn, switches, mode, tok, cases>> /\ Keep

(* Mutated: the switch stays on its stack. *)
EndSwitchKept ==
  /\ err = NoErr /\ mode = "done" /\ In({"switch"})
  /\ PopFrame /\ UNCHANGED <<scopes, fn, loops, switches, mode, tok, cases>> /\ Keep

EndSwitch ==
  /\ err = NoErr /\ mode = "done" /\ In({"switch"})
  /\ PopFrame /\ switches' = Front(switches)
  /\ UNCHANGED <<scopes, fn, loops, mode, tok, cases>> /\ Keep

(* An else belongs to the if that has just been complete without it.       *)
EndThen ==
  /\ err = NoErr /\ mode = "done" /\ In({"then"}) /\ tok # NoTok
  /\ IF tok.k = "else"
     THEN /\ stack' = [stack EXCEPT ![Len(stack)].k = "else"]
          /\ Consume /\ mode' = "start"
     ELSE PopFrame /\ UNCHANGED <<tok, mode>>
  /\ UNCHANGED <<scopes, fn, loops, switches, cases>> /\ Keep

(* while ( ... ) and the semicolon, behind the statement of a do.          *)
DoWhile ==
  /\ err = NoErr /\ mode = "done" /\ In({"do"}) /\ tok # NoTok
  /\ IF tok.k # "while" THEN Raise("syntax")
     ELSE /\ Consume /\ mode' = "dosemi"
          /\ UNCHANGED <<scopes, fn, nesting, cases>> /\ Keep

EndDo ==
  /\ err = NoErr /\ mode = "dosemi" /\ tok # NoTok
  /\ IF tok.k # "semi" THEN Raise("syntax")
     ELSE /\ Consume /\ Done("done") /\ PopFrame /\ loops' = Front(loops)
          /\ UNCHANGED <<scopes, fn, switches, cases>> /\ Keep

-----------------------------------------------------------------------------
(* A static assertion, which is a declaration and a member of its own; and *)
(* one behind a specifier, where isDeclSpecStart lets it in and no branch  *)
(* of ParseBaseType takes it.                                              *)
StaticAssert ==
  /\ At("start", {"assert"})
  /\ IF In(Sub) THEN Raise("expression") ELSE Skip

AssertAsSpecifier ==
  /\ At("start", {"specassert"})
  /\ IF In(Sub) THEN Raise("expression")
     ELSE /\ mode' = "spin"
          /\ UNCHANGED <<tables, fn, nesting, head, tok, items, saved, history,
                         err, events>>

Spin == err = NoErr /\ mode = "spin" /\ UNCHANGED vars

-----------------------------------------------------------------------------
Finished == tok = Eof /\ mode \in {"leading", "start"} /\ In({"unit"})
Stopped == Finished \/ err # NoErr
Terminating == Stopped /\ UNCHANGED vars

Step ==
  \/ Read \/ Object \/ Initialized \/ TypedefDecl \/ Alias \/ UseName
  \/ EnumDecl \/ StructHead \/ StructBody \/ StructEnd \/ NoDeclarator
  \/ Declarator \/ BadDeclaration \/ LookAhead \/ ReadAgain
  \/ FunctionStart \/ FunctionEnd \/ StraySemicolon \/ BeginDeclaration
  \/ NothingBehindStray
  \/ NoStatement \/ Semicolon \/ BlockStart \/ BlockEnd \/ If \/ Loop \/ For
  \/ Switch \/ Case \/ Default \/ DefaultStatement \/ Jump \/ Goto \/ Label
  \/ NextInList \/ EndLabelled \/ EndWhile \/ EndFor \/ EndSwitch \/ EndThen
  \/ DoWhile \/ EndDo \/ StaticAssert \/ AssertAsSpecifier

Next == Step \/ Spin \/ Terminating

Spec == Init /\ [][Next]_vars
FairSpec == Spec /\ WF_vars(Step)

-----------------------------------------------------------------------------
LoopKinds == {"while", "do", "for"}

FrameKinds == Sub \cup DeclKinds \cup {"struct"}
Modes == {"leading", "stray", "start", "done", "tag", "typed", "again", "default",
          "dosemi", "spin"}

CType == [kw : {"struct", "enum"}, s : Tags \cup {NoName}, complete : BOOLEAN]
Function == [on : BOOLEAN, labels : SUBSET Labels, gotos : SUBSET Labels, locals : Seq(Nat)]
Frame == [k : FrameKinds, ty : Nat]

TypeOK ==
  /\ scopes \in Seq(Scope) /\ Len(scopes) > 0
  /\ ctypes \in Seq(CType) /\ fn \in Function
  /\ stack \in Seq(Frame) /\ Len(stack) > 0
  /\ loops \in Seq(LoopKinds) /\ switches \in Seq(Nat)
  /\ mode \in Modes /\ tok \in SourceItems \cup {NoTok, Eof}
  /\ items \in 0..MaxItems /\ lastid \in Nat
  /\ events \subseteq {"mixed", "twice", "own"}

(* The productions of these kinds among the first i of the stack.          *)
Counted(s, kinds, i) == {j \in 1..i : s[j].k \in kinds}
Count(s, kinds, i) == Cardinality(Counted(s, kinds, i))
Open(kinds) == Count(stack, kinds, Len(stack))
Scoped == {"body", "block", "for"}

(* The scopes, the loops and the switches, which are pushed and popped by   *)
(* hand, are those of the productions that have begun: none is left on a   *)
(* stack by a statement that is over, on any way out of it.                *)
LoopsAgree ==
  /\ Len(loops) = Open(LoopKinds)
  /\ \A i \in DOMAIN stack :
       stack[i].k \in LoopKinds => loops[Count(stack, LoopKinds, i)] = stack[i].k
SwitchesAgree ==
  /\ Len(switches) = Open({"switch"})
  /\ \A i \in DOMAIN stack :
       stack[i].k = "switch" => switches[Count(stack, {"switch"}, i)] = stack[i].ty
ScopesAgree ==
  /\ Len(scopes) = 1 + Open(Scoped)
  /\ \A i \in DOMAIN scopes :
       scopes[i].level = IF i = 1 THEN "file" ELSE IF i = 2 THEN "method" ELSE "block"
  /\ fn.on <=> \E i \in DOMAIN stack : stack[i].k = "body"
NestingAgrees == LoopsAgree /\ SwitchesAgree /\ ScopesAgree

(* A case or default label belongs to the innermost switch statement that  *)
(* it is in, whatever loops and blocks are between them.                   *)
InnermostSwitch(i) ==
  /\ i \in DOMAIN stack /\ stack[i].k = "switch"
  /\ \A j \in DOMAIN stack : stack[j].k = "switch" => j <= i
CaseGoesToInnermostSwitch ==
  [][cases' # cases => \E i \in DOMAIN stack : InnermostSwitch(i) /\ cases'.sw = stack[i].ty]_vars

(* What the function's frame is laid out from lists every object that is   *)
(* visible in its scopes: parameters, block-scope objects, those of a for. *)
LocalsRecorded ==
  \A i \in 2..Len(scopes) : \A n \in Names :
    LET e == scopes[i].syms[n]
    IN  e.id # 0 /\ e.ty # "constant" => \E j \in DOMAIN fn.locals : fn.locals[j] = e.id

(* A struct that is declared in an inner scope is another type than the    *)
(* one of that tag outside: members complete a type of their own scope.    *)
CompletesOwnTag ==
  [][\A t \in DOMAIN ctypes' :
       ctypes'[t].complete /\ (t \in DOMAIN ctypes => ~ctypes[t].complete)
         => ctypes'[t].s = NoName \/ CurrentTag(scopes', ctypes'[t].s) = t]_vars

(* The parser's two tables of names implement one name space, as long as   *)
(* no name is a typedef name in one scope and an object in another.        *)
RoleIn(scope, n) ==
  IF scope.types[n].id # 0
  THEN [id |-> scope.types[n].id, role |-> "typedef", st |-> "none"]
  ELSE LET e == scope.syms[n]
       IN  [id |-> e.id, role |-> IF e.id = 0 THEN "none" ELSE e.ty, st |-> e.st]

NamesIn(sc) == [i \in DOMAIN sc |-> [n \in Names |-> RoleIn(sc[i], n)]]

OneSpace ==
  INSTANCE NameSpaces WITH
    chain <- NamesIn(scopes), refused <- err, broken <- events # {}

ImplementsNameSpaces == OneSpace!Spec

(* Every program is read to its end or refused, and no token leaves the    *)
(* parser where it was, but for a static assertion behind a specifier.     *)
Termination == <>(Stopped \/ mode = "spin")

-----------------------------------------------------------------------------
(* "if next is `{` return compound, restore state otherwise"               *)
(* (ParseExpression.java:448): what is read again is read in the state     *)
(* that it was read in first.                                              *)
StateRestored == mode = "again" => tables = <<saved[1].scopes, saved[1].ctypes>>

-----------------------------------------------------------------------------
(* What the theorems about the parser rest on: the inductive invariant.     *)

(* A function's body is on the unit, statements and blocks are in the body, *)
(* and nothing but members of structs is in a struct; a keyword of a        *)
(* statement is looked at where a statement may stand.                      *)
StackNests ==
  /\ stack[1].k = "unit"
  /\ \A i \in DOMAIN stack :
       /\ stack[i].k = "unit" => i = 1
       /\ stack[i].k = "body" => i = 2
       /\ stack[i].k \in Sub \cup {"block"} => i > 2 /\ stack[2].k = "body"
       /\ stack[i].k = "struct" => \A j \in i..Len(stack) : stack[j].k = "struct"
  /\ tok.k \in StatementKinds \/ mode = "default" => InFunction
  /\ mode = "dosemi" => In({"do"})

(* What the tables say of a tag is a type of that tag. *)
TagsKnown ==
  \A i \in DOMAIN scopes : \A s \in Tags :
    LET t == scopes[i].tags[s] IN t # 0 => t \in DOMAIN ctypes /\ ctypes[t].s = s

(* What was asked behind struct still holds when the next token is judged.  *)
HeadIsCurrent ==
  /\ head \in [s : Tags \cup {NoName}, cur : Nat, all : Nat]
  /\ mode = "tag" => /\ head.s \in Tags
                     /\ head.cur = CurrentTag(scopes, head.s)
                     /\ head.all = TagOf(scopes, head.s)

(* A struct whose members are read is what its tag stands for in this scope. *)
MembersOfOwnTag ==
  \A i \in DOMAIN stack : stack[i].k = "struct" =>
    LET t == stack[i].ty
    IN  t \in DOMAIN ctypes /\ ctypes[t].s \in Tags /\ CurrentTag(scopes, ctypes[t].s) = t

(* No name is in both tables, if the history says so. *)
Unmixed ==
  "mixed" \notin events => \A n \in Names :
    \/ \A i \in DOMAIN scopes : scopes[i].types[n].id = 0
    \/ \A i \in DOMAIN scopes : scopes[i].syms[n].id = 0

IInv ==
  /\ TypeOK /\ StackNests /\ NestingAgrees /\ LocalsRecorded
  /\ TagsKnown /\ HeadIsCurrent /\ MembersOfOwnTag /\ Unmixed
=============================================================================
