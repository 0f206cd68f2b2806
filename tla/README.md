# A verification project for jscan

jscan is a C preprocessor, a C parser and a writer of PE executables, in Java
(`src/src/main/java`).  It is a sequential program: one file is read, expanded,
parsed.  What makes it hard is not concurrency but state that is threaded
through long sequences of calls: flags and tokens that must stay in agreement,
lists that are read again after they were changed, tables consulted before and
after the thing they describe was redefined.  The modules here model those
protocols, check them with TLC on small programs, and prove them with TLAPS for
programs of every size.

Paths below are relative to `src/src/main/java`; a class without a path is in
`jscan/preproc/preprocess`.

## 1. The system

| Part | State | Operations | Speaks to |
| --- | --- | --- | --- |
| Lexer (`jscan/tokenize/Stream`, `buffers/Cbuf`) | position in the text, flags of the line | next token, skip comments, splice lines | Hash_stream keeps its token lists |
| Macro expander (`Scan`) | token list and `rescan` queue, stack of open files, head being read | `get`, `pop`, `push`, `scanArgs`, `pasteAll`, `replaceSimple`, `unhide`, `dline` | directives; a Scan of its own for each argument, `#if` and `#include` line |
| Macro table (`preproc/Sym`, `symtab/Ident`) | the Sym of each name, its `isHidden` flag | `defineSym`, `undefSym`, `hide`, `unhide` | Scan, all directives |
| Directives (`PP_define`, `PP_undef`, `PP_include`, `PP_pragma`, `PP_if2`, ...) | none of their own | `scan` | pop from and push to the Scan that met them |
| Caches (`jscan/hashed`) | identifiers, strings, token lists of files, files read once | get, clear | static, shared by all |
| Expressions of `#if` (`PP_expr2`), literals (`jscan/literals`) | position | parse, evaluate | PP_if2, parser |
| Parser (`cc/parse`) | token, symbol, typedef and tag tables, current function, loops and switches | one method per production | builders, types |
| Types (`cc/types`, `cc/builders`) | sizes, alignments, completeness of types | combine, merge, lay out, type expressions | parser |
| Emitter (`jscan/asm`, `jscan/pe`, `jscan/buffers/Ubuf`) | growing buffer, section table, import and data addresses | `o1`..`o8`, `alignUp`, build headers | file |

### How the parts interact

The client calls `Scan.get` for one token after another.  `get` pops from the
`rescan` queue and then from the token list.  A directive at the beginning of a
line is handed to `dline`, and the directive pops its own operands from the same
queue; `#include` and `#if` push tokens back in front of it.  A macro name
starts an expansion: for a function-like macro `get` reads on (through marks,
files and directives) for the parenthesis, `scanArgs` collects the arguments
from the same queue, each argument that needs it is expanded by a nested `Scan`,
and the replacement is pushed in front of the queue.  The Sym of the macro is
hidden at that moment.  Its replacement ends in a special token that names the
macro, the *unhide mark*; whoever pops the mark makes the macro visible again.

### What makes it correct

* Expander: the tokens C asks for; the marks in the queues agree with the hidden
  flags; no assertion of `Sym` fires; the Sym held over a call is current;
  directives never replace a hidden Sym; the stack of open files matches the
  stream markers; expansion ends.
* Conditional groups: exactly the first group with a true condition is kept,
  whatever is nested in it; every other is skipped without effect.
* Parser: scopes are pushed and popped in pairs on every path; a name means what
  its innermost declaration says; look-ahead has no effect but on errors;
  `break`, `continue`, `case` and labels are inside what they belong to.
* Types: a set of specifiers gives one type whatever its order; members of a
  structure are aligned and do not overlap; an initializer goes to the member C
  says.
* Emitter: sections are aligned and disjoint; every address that was computed
  before a byte was written is that of what is written there in the end; calls,
  loads and jumps reach what they name.

## 2. The plan

In this order, each module with its MC module, runs and mutants:

1. `Scan`, `MacroActivation`, `ScanProofs`: the macro expander with its
   directives, the abstract discipline it implements, and proofs. **Done.**
2. `CondLines`, `Conditionals`, `IfGroups`, `IfGroupsProofs`: `PP_if2`, the
   one-step promise it implements, and proofs. **Done.**
3. `Symtabs`, `NameSpaces`, `Parser`, `ParserProofs`: the parser's tables,
   declarations and statements, its look-ahead, C's one name space as the
   promise, and proofs. **Done.**
4. `Layout`, `LayoutProofs`: structures and unions. **Done.**
5. `CurrentObject`, `Initializers`, `InitializersProofs`: initializer lists
   against the current object of C, and proofs. **Done.**
6. `Sections`, `DataSymbols`, `ImportSymbols`, `Asm86`, `PeImage`,
   `PeImageProofs`: the executable and its parts, composed, and proofs. **Done.**
7. `Pasting`, `PastingProofs`: `#` and `##`, the identity of the tokens of a
   definition, and proofs. **Done.**

`SequenceLemmas` has what several of the proofs need: induction over the natural
numbers, and what `FlattenSeq` makes of a sequence of sequences.

Lines and white space, the arithmetic of `#if`, literals and combinations of
specifiers are not planned: each is a function of one piece of text without
state of its own (section 6).

`Scan` is written for composition: a queue of items, one action per branch of
`get` and `scanArgs`; `IfGroups` reads and pushes the same kind of queue, but its
items are whole lines, because what `PP_if2` does depends on nothing smaller.

## 3. Module by module

### `Scan` — the macro expander

State:

| Variable | Code |
| --- | --- |
| `defs` | `Ident.sym` of every identifier: its Sym or none |
| `hidden` | the Syms of the table with `isHidden` set |
| `frames` | the Scans that are running, the program's first, the nested ones of arguments above it |
| `frames[i].pend` | `rescan` followed by the rest of the token list of that Scan |
| `frames[i].mode`, `.call` | where `get` is, and its local variables: the Sym, the arguments, their expansions, the result |
| `frames[i].inc` | the height of `incstack` |
| `frames[i].out` | what `get` has returned |
| `once` | `Hash_once` |
| `text`, `ended` | the program, chosen item by item as it is read |
| `err` | the exception that ended the run |
| `events` | history: which of the cases happened that C leaves open or a property excludes |

A directive with its operands is one item of a queue: its line is read in one
step (`PP_define`, `PP_undef`, `PP_include`, `PP_pragma` read no farther than
their line).  Each action is one branch:

| Action | Code |
| --- | --- |
| `ReadSource`, `ReadEnd` | the next item of the program, or TOKEN_STREAMEND and TOKEN_EOF |
| `StreamBegin`, `StreamEnd` | `goThroughStreamMarkers` |
| `Define`, `Undef`, `Include`, `PragmaOnce` | `dline` from `get` or from `scanArgs`, and the whole directive |
| `Unhide` | `unhide(u)`, at the head of every loop that pops tokens |
| `EmitPlain`, `EmitHidden`, `EmitHead` | the returns of `get`; a hidden name is painted |
| `ExpandObject`, `Install` | the two calls of `replaceSimple` |
| `MeetHead`, `OpenCall`, `CloseNullary` | the search for the parenthesis, the call without parameters |
| `ArgToken`, `ArgStreamMarker`, `ArgComma`, `ArgParen`, `CloseArgs`, `RunOutOfArgs` | the loop of `scanArgs`, its end, its end without a closing parenthesis |
| `SkipArg`, `ExpandArg`, `ArgExpanded` | the expansion of each argument by a new Scan |
| `StartSubst`, `Subst` | the loop over the replacement list, with the deletion of the comma in `, ## __VA_ARGS__` |

Abstracted: a token is an identifier with its painted flag, a parenthesis, a
comma, a number or a string; the text of a stringized argument is a string; a
placemarker is the empty sequence.  An exception stops the program.

Not modelled in `Scan`: `##` other than in `, ## __VA_ARGS__` and the identity
of token objects (both are in `Pasting`), `#if` (that is `IfGroups`), `defined`,
`__LINE__` and `__FILE__`, white space, and `#pragma` other than `once`.

### `MacroActivation` — what hiding promises

The table of macros and the set of those being expanded.  A macro is entered
when it is not active, left when it is, and the table changes only when none is
active.  The one exception is the finding below, after which nothing is
promised.  `Scan` implements it with `active <- hidden`, `table <- defs`.

### `MCScan`, `MCReference`

`MCScan` gives the constants: macro tables to start from (macros that call one
another, take one another's heads as arguments, lead back to themselves, are
variadic, stringize, take no argument), files that include themselves or say
`#pragma once`, and the items programs are written with.  `MCReference` defines
the hide-set algorithm on which the C committee's wording is based, as a
recursive function over whole programs, and compares results.  Its variable `kind` is what
a program is about: calls nested in one another (of two macros, or three),
directives between and inside calls, includes, or cycles.  It is chosen at the
beginning, and `Written` keeps the program to the items, the macro table and the
length of its kind, so that one run has them all.  The other MC modules have a
`kind` or a `shape` in the same way.

### `Pasting` — the operators `#` and `##`

`Scan` has tokens by value.  `Pasting` has one macro, its definition and its
calls, with tokens as objects: `repl` is the list the Sym keeps, and each token
of a result names in `own` the token of `repl` that it *is*, or 0 if it is a
copy.  A change to one is seen in all.

| Variable | Code |
| --- | --- |
| `macro`, `repl` | what is defined; its replacement list, each token with its `cat` (the `Fcategory` `usageOfRepl2` gives it) and whether it is painted |
| `phase`, `iter` | which of the loops runs, and its index |
| `args` | the arguments of the call at hand |
| `subst`, `rv` | the list that `pasteAll` and `replaceSimple` read, and the one they make |
| `calls`, `err` | how many calls there have been; the exception |

| Action | Code |
| --- | --- |
| `Take`, `TakenAll` | the loop of `PP_define.scan` over the line, `checkHH` at its end |
| `MarkSharp`, `MarkHashHash`, `MarkOther` | the branches of `usageOfRepl2` |
| `Call` | `scanArgs` and the arguments it hands over |
| `CommaKept`, `CommaDeleted`, `NothingToPaste`, `PastePlacemarker`, `Paste`, `Copy`, `Push` | the branches of `pasteAll` and `replaceSimple` |
| `Paint` | a token of the result is painted in place, as `scanArgs` does with a hidden name that it meets (`makeBuiltinToken` writes into `__LINE__` in place in the same way) |

A spelling is the sequence of the pieces it was pasted from; the argument `a`
expands to `A` and `b` to nothing.  The promise, `Expansion`, is C's: operands of
`##` are joined from left to right, an empty one is nothing, `#` is applied
first; it is a function over `repl` that knows neither loops nor categories nor
objects.

### `CondLines`, `IfGroups` — conditional inclusion

`PP_if2.scan` works in two passes.  It reads on to the `#endif` and collects the
lines in groups, each with the line it stands behind; nested conditionals are
only counted.  Then it judges the conditions in turn and pushes the first group
that is wanted back in front of the queue, where the conditionals in it are met
again.  `CondLines` says what a line is and when a condition holds or cannot be
evaluated; `IfGroups` is the machine:

| Variable | Code |
| --- | --- |
| `pend` | the queue of the Scan |
| `mode` | outside of `PP_if2.scan`, in its collecting loop, in `condition()`, in its judging loop |
| `groups` | `iflines`: for each its directive, its lines, and what its condition took from other lines |
| `level`, `open` | `level`, and the length of `ifstack` |
| `elseSeen` | the bit `ifstate_else` of `state` |
| `next` | how far the judging loop has come |
| `taken` | history: the lines popped since the `#if`; `groups[i].at` is the place of a directive in it |
| `defs` | what each macro stands for: nothing, 0 or 1 |
| `inc`, `out` | the height of `incstack`, what `get` has returned |
| `text`, `ended` | the program, chosen line by line as it is read |
| `err` | the exception that ended the run |
| `events` | history: whether an `#elif` had nothing behind it |

| Action | Code |
| --- | --- |
| `ReadLine`, `ReadEnd` | the next line of the program, or TOKEN_STREAMEND and TOKEN_EOF |
| `StreamBegin`, `StreamEnd`, `EmitText` | `Scan.get` |
| `Define`, `Include`, `NullDirective`, `Stray` | `dline` |
| `StartIf` | `checkLF` and the head of `PP_if2.scan` |
| `GroupNull`, `NestedIf`, `NestedSeparator`, `Elif`, `Else`, `NestedEndif`, `Endif`, `GroupLine`, `GroupEof`, `GroupsExhausted` | the branches of the collecting loop, and its end |
| `ConditionTakes`, `ConditionEnds` | the loop of `condition()` when nothing is behind the `#elif` itself |
| `FaultyGroup`, `TakeGroup`, `SkipGroup`, `NoGroup` | the judging loop: the condition raises, is true, is false; nothing is left |

Abstracted: a line is one item, an `#else` and an `#endif` have nothing behind
them, and a condition asks for the value of one macro, whether it is defined, or
is no expression.  Not modelled here: the arithmetic of conditions and an `#if`
between the parentheses of a call.

### `Conditionals` — what conditional inclusion promises

The same lines without groups, counters or look-ahead: a conditional, from its
`#if` to the matching `#endif`, is replaced in one step by the first group whose
condition holds, and every other line is obeyed in turn.  An error is raised
only for its reason (`Refused`).  `IfGroups` implements it with
`input <- taken \o pend`, `broken <- ~Undisturbed`: while lines are collected
nothing has happened, and pushing a group back is the step.  `#define` lines of
groups that are not wanted have no effect because no step of the promise would
let them have one.

### `MCIfGroups`

The line forms of the runs, an included file with an include guard, and a
reference: C's conditional inclusion as one pass over the lines with a stack of
open conditionals.

### `Symtabs`, `Parser` — declarations and statements

The parser reads its tokens by recursive descent.  `Symtabs` has the scopes and
the lookups; `Parser` is the descent, with the calls that have not returned as a
stack of productions:

| Variable | Code |
| --- | --- |
| `scopes` | `Parse.symbols`, `typedefs` and `tags`, which are pushed and popped together |
| `ctypes` | the struct and enum types that tags stand for, complete or not |
| `fn` | `currentFn`: whether there is one, its labels, gotos and locals |
| `stack` | productions that have begun: unit, body, block, members of a struct, bodies of statements |
| `loops`, `switches` | `ParseStatement.loops`, `switches` |
| `mode`, `head` | where the production on top is; the tag and what it stood for when it was read |
| `tok`, `items` | the token looked at, how many were read |
| `saved` | the tables when `saveState` was called |
| `err` | the exception that ended the run |
| `lastid`, `meaning`, `cases`, `events` | history: declarations counted, what a name was taken for, the switch of a label, what makes tables and name spaces differ |

| Action | Code |
| --- | --- |
| `Object`, `Initialized`, `TypedefDecl`, `Alias`, `UseName` | `ParseDeclarations`, `Parse.defineSym`, and a name in an expression |
| `EnumDecl`, `StructHead`, `StructBody`, `StructEnd`, `NoDeclarator`, `Declarator`, `BadDeclaration` | `ParseEnum3`, `ParseStruct3`: the tag is asked for, the members are read, the type is completed |
| `LookAhead`, `ReadAgain` | a type name in parentheses: `saveState`, `restoreState` |
| `FunctionStart`, `FunctionEnd` | `ParseExternal` with `checkLabels` |
| `StraySemicolon`, `BeginDeclaration`, `NothingBehindStray` | `moveStraySemicolon`, `isFunc` |
| `If`, `Loop`, `For`, `Switch`, `Case`, `Default`, `Jump`, `Goto`, `Label`, `BlockStart`, ... and an action for each end | `ParseStatement`, `BreakContinue` |
| `StaticAssert`, `AssertAsSpecifier`, `Spin` | `ParseStaticAssert`, and `_Static_assert` among specifiers |

An item of the program is a declaration with its semicolon, the head of a
statement, a brace.  Types are of four kinds; what a declarator adds to a type,
and the operators of expressions, are left out.  What two scopes have of one
name is all the tables tell apart, so two names are enough.

### `NameSpaces` — what the tables promise

Objects, functions, constants and typedef names are one name space: a scope is
opened or closed, a name is declared in the innermost one if C allows it there,
and a name that is used means its innermost declaration.  `Parser` keeps typedef
names in a table of their own and implements this with `chain` the union of both
tables, up to the step at which one name is in both (`events`), because the code
then takes the typedef name whichever is nearer.

### `Layout` — structures and unions

One type after another is declared: `Begin`, `AddMember` (a primitive, a struct
or union declared before, an array of either, an anonymous struct), `BodyEnds`;
then `PlaceInStruct` or `PlaceInUnion` places one member after another
(`lay_out_struct_field`, `lay_out_union_field`) and `Finish` rounds up the size
and numbers the positions (`examine_struct_union_type`).  `types`, `pos`,
`members`, `offsets` and `info` are the fields of the same meaning.

### `CurrentObject`, `Initializers` — initializer lists

`CurrentObject` writes a list one token at a time, and records for each
expression which object C says it is for: the path from the object in braces to
the current one.  `Initializers` is the reader: the calls of `read_struct_inits`
and `read_array_inits` that have not returned are `stack`, with the local
variables `idx` and `designated` and the object at hand, the result `inits`, the
length an array gets `len`.  `Designated`, `NextPart`, `LastWasRead`,
`LeftToOuter`, `ListEnds` are the branches of their loops, `ReadExpression` and
`ReadList` those of `read_initializer_elem`, `Skip` is `skip_to_brace`, `Return`
the sort at the end.  The two share the token only: `placed` is never read by
the reader.

### `Sections`, `DataSymbols`, `ImportSymbols`, `Asm86`, `PeImage` — the executable

`PeMainWriter.write` puts together what four builders collected.

| Module | State | Actions |
| --- | --- | --- |
| `DataSymbols` | strings, bytes of the stream, offset of each symbol | `AddData` |
| `ImportSymbols` | DLLs with their procedures, thunks, descriptors | `AddDll`, `AddProcedure`, `Prepare`; `ImportPieces` is what `build` writes |
| `Asm86` | lines of code, labels, and the loops of `set_rva` and `toBytes` | `Api` (one line), `SetRva`, `ApplyOffset`, `ResolveLabels`, `ResolveJump`, `ResolveCall`, `ResolveLoad`, `ResolveOther`, `Fails`, `ToBytes`, `PutLine` |
| `Sections` | sizes, section headers, next addresses, what is written | `AddSection`, `BuildHeader`, `WriteHeaders`, `WriteSection` |
| `PeImage` | how far `write` is | the steps of `write`, each a step of one of the four |

Bytes are counted and not written: a string or name is its length, an
instruction its length and what `set_rva` asks of its first bytes.  The
properties of `PeImage` read the file as a loader does: an address is that of a
piece of the import section, or of a string, if the lengths of all that was
written before add up to it.  The builders know nothing of one another, so data,
imports and code are collected in this order; `prepare` is called once, when the
imports are complete, as its callers do.

## 4. The runs

| Run | Question | Bound |
| --- | --- | --- |
| `expander` | Do marks and flags agree in every state, do Sym's assertions hold, is the Sym of a call current, does the table change only in the open? Is the stack of files balanced and limited, is `MacroActivation` implemented, is the result that of the hide-set algorithm, does expansion end? | nested calls: every program of up to 6 items with two macros, 7 with three; directives, and files that include themselves: 6; macros in cycles: 7; limit 1 for the 70 of the code |
| `if_groups` | Are groups cut where the nesting says, is the result that of one pass, is `Conditionals` implemented, does reading again end? | seven forms of lines, up to 6; all twenty forms, with includes, redefinitions and errors, up to 4 |
| `parser` | Do the tables implement one name space, does a function record its locals, do members complete a type of their own scope, do the stacks agree with the productions, do labels find their switch, does reading end? | names: 5 items; tags: 7; statements: 5; static assertions: 3; nested switches: 8, so that a label of the outer one comes behind an inner one that has ended |
| `layout` | Are members apart, aligned, inside, nothing wasted, numbered in order? | one type of three members, all sizes, arrays of 0 and 3; three types of two members, sizes 1 and 8 |
| `initializers` | Does each expression go to its object, does the last one count, does the array end behind the last element, does reading end? | three types of two levels, up to 5 items |
| `executable` | Does every jump, call and load lead to what is written, are sections apart and where their headers say, does a loader find the imports? | three lines, two labels, two strings, two procedures; one line, two DLLs of up to two procedures |
| `pasting` | Is the result of `#` and `##` what C says, in every call, and which tokens of the definition go out? | replacement lists of up to 5 tokens, two calls, arguments of up to two tokens |
| `redefine` (violation) | Can "Macros already unhidden" be raised? | the directives of `expander` |
| `parser_lookahead` (violation) | Is the state restored after look-ahead? | the tags of `parser`, up to 5 items |
| `initializers_fields` (violation) | Does the list go on behind a designated field? | a struct of two fields |
| `initializers_length` (violation) | Has an array all the elements that were initialized? | an array without a length, up to 4 items |
| `pe_third_symbol` (violation) | Does a load lead to its symbol? | three symbols, one line |

The bounds are enough for the interesting cases: six items write two nested
calls `f ( f ( g`, a call completed by text behind the macro that began it, and
a directive between the parentheses; macro tables reach three names because the
shortest cycles through an argument and a head need three.  `IncLimit` is 1
because what matters is that it is reached.  `MaxLen` bounds the program only:
no run cuts off an expansion.

Six lines write a conditional in a group of another, with an `#else` of the
inner or of the outer one, or with a text in both, which is what the counting
of `level` is for.  Four lines of every form put each kind of error behind each
kind of condition, judged or not.  `MaxLines` bounds the program only.

In the parser, seven items nest a struct in a struct of the same tag, complete
both and use them; five nest two statements in a function and end them.  In a layout only
sizes and alignments count, and three members show every order of them; three
types are a struct in a struct in a struct.  Five items of an initializer go
into an inner object without braces, come out of it by a designator, and go on.
The code of `executable` has instructions of 3 and of 4094 bytes and its data a
string of two pages, so that it is just under and just over one page; one of the
names of procedures fills a block of the file.  `MaxItems`, `MaxTypes`,
`MaxMembers`, `MaxIndex`, `MaxLines`, `MaxDlls` and `MaxProcedures` bound the
input only.

Five tokens of a replacement list hold two `##` between three operands, a `#` and
a `##`, or `, ## __VA_ARGS__` behind an operand; the second call is there for
what the first one left in the tokens of the definition.

### Findings

What a text of the repository says and the code does not do; each has its run:

* `redefine`: `f( #undef f ... )` or `f( #define f ... )`.  `get` holds the old
  Sym, `replaceSimple` hides it, and the mark acts on the new Sym or on none, so
  that `Sym.unhide` raises "Macros already unhidden" (`preproc/Sym.java:97`).
  C leaves open what a directive among the arguments of a macro does; the code
  obeys it there (`Scan.java:481`), and then its own assertion fails.
* `parser_lookahead`: `( struct S { int a; } ) { 1 }` declares S while it looks
  ahead and refuses it when it reads it again (`cc/parse/Parse.java:424`).
* `initializers_fields`: in `{ .a = 1, 2 }` the 2 is for `a` again
  (`cc/parse/ParseInitializer.java:98`).
* `initializers_length`: `int a[][2] = { [1] = ..., [0] = ... }` has one element
  (`cc/parse/ParseInitializer.java:137`), where a test of the repository reads
  two (`src/test/java/ast_test/Test_Typedefs.java:521`).
* `pe_third_symbol`: the offset of a symbol is advanced by all the bytes before
  it, again (`jscan/pe/datas/DataSymbols.java:28`); the third one is wrong.

### Deviations that have no run of their own

But for the last one, the models have these as the code does; the properties, or
what the programs of the runs are written with, exclude them.

* An `#include` inside the arguments of a call puts its stream markers into the
  argument (`Scan.java:509`), so that the stack meant "to avoid too nested
  include recursion" (`Scan.java:138`) does not count it.
* The end of an included file is put into the group like any other token
  (`PP_if2.java:377`), and the `#endif` is taken from the file that includes it;
  "unterminated #if..." (`PP_if2.java:373`) is said only at the end of the whole
  program.
* One token more passes behind the name of `#ifdef`: the name has been taken off
  the list when its size is compared with 1 (`PP_if2.java:149`).
* `# x ## y` loses the `#` (`PP_define.java:99`): what is pasted is the spelling
  of the argument, not the string.  `AsInC` excludes it, and a variable argument
  pasted to what follows it.
* The right operand of `##` is put into the result itself and not copied when all
  that was pasted together before it is empty (`Scan.java:607`): painted there, it
  is painted in all later calls.  `OwnBehindEmpty` says that this is the only way
  a token of the definition goes out.
* `struct S { struct S { int a; } x; int b; }` gives one type its members twice
  (`cc/parse/ParseStruct3.java:77`).
* An object does not hide a typedef name of an outer scope
  (`cc/parse/Parse.java:395`).
* A constant may replace an extern object or another constant of its scope
  (`cc/parse/ParseEnum3.java:97`).
* A semicolon at the end of a program raises "set offset overflow."
  (`jscan/utils/Tokenlist.java:57`).
* `int _Static_assert` is read for ever (`cc/parse/ParseBaseType.java:63`):
  `Termination` of `Parser` excepts `mode = "spin"`.
* Fields of anonymous structs are found by name with the offset they have in that
  struct, and positions count them one by one where the reader of initializers
  takes a position for an index (`cc/types/CStructType.java:56`,
  `cc/builders/TypeSizeApplier.java:77`).
* `set_rva` knows loads by their first two bytes, which those into r8 to r15 do
  not have and a `lea` of two low registers has (`jscan/asm/Asm86.java:225`).
* The white space before a parameter is that of its last use in the replacement
  list (`Scan.java:428`); white space is in no model.

### What the properties exclude

The runs that pass exclude these cases by what their programs are written with
(no item of `specassert` among other kinds, `FieldsInRow = FALSE`, two symbols,
low registers for loads) or by history variables.

Those of `Scan` exclude two: `Undisturbed` says that no call has had its macro
redefined, and `StreamsBalanced` and `IncludeDepthLimited` speak of runs in which
no call has taken a stream marker.  `ExpandsAsReference` compares runs in which
nothing happened that C leaves unspecified (`events = {}`): a mark read while a call is being collected,
a call that runs out of input.  It is stated of programs that define their macros
first (`DefinesFirst`): the hide-set algorithm has no directives.

In `IfGroups` the model has both deviations as they are (`Conditionals` promises
nothing about the ends of files, and lets one token through), and the properties
exclude one case, `Undisturbed`: no `#elif` has had nothing behind it.
`condition()` then takes the following line for the condition, even an `#endif`;
C has no meaning for such a line, unless its group is skipped.

### Fairness

`FairSpec`, or `MCSpec` where programs have kinds (`WF(Step /\ Written)`, which is
`Step` for the programs of that kind), asks for weak fairness of `Step`: the
program is one thread that keeps running, and the reader of its output asks for tokens until TOKEN_EOF.
There is nothing else for it to do, so no stronger assumption is made.
`Termination` is checked of programs of every kind, with files that include
themselves, but none that does so inside a call, where nothing limits it.
`IfGroups` is the same
thread, with the same `WF_vars(Step)`; there `Termination` says that although a
line is collected once for every conditional it is nested in, and pushed back
each time, the queue runs out.  `Parser` and `Initializers` are that thread too:
`WF_vars(Step)` says that the parser goes on until the program is read or
refused.  `Spin`, the loop that takes no token, is a step of the code that
changes nothing, so no fairness of a changing step asks for it.  An executable is written or the
writer has failed: `Spec` of `PeImage` has no fairness and its runs no liveness,
and they allow the model to stop there (`CHECK_DEADLOCK FALSE`).

## 5. What is proved

Every theorem holds for all values of the constants that its module's assumptions
admit.  The assumptions are about the input, not about the program: a definition
refers to its own parameters, files and programs are made of tokens, lines and
directives (`Scan`, `CondLines`), lengths, addresses and bounds are numbers
(`Asm86`, `PeNames`, `IfGroups`, `Layout`), alignments are powers of two
(`Layout`), arguments of a call are made of two kinds of tokens (`Pasting`), a type
is declared behind those of its parts, which lie inside it, and only what is
initialized may have no length (`CurrentObject`; a flexible array member is left
out).

### Induction

A recursive function, `FlattenSeq`, or a sum is reasoned about by what it is at
each number up to the length of its sequence.  The induction is over a set:
`UpTo` of `SequenceLemmas` says that a set that has 0, and with each number the
next one, has all up to the bound; it follows from the least element of what is
missing (`LeastOfNaturals`), which `WellFoundedInduction` gives without an
operator as a parameter.  In this form what `UpToToken` of `Pasting`, the
positions of `Layout`, the counts of markers in the queues of `Scan` and the
running sums of `ImportSymbols` are for every input is proved, although they are
recursive.  `FlattenSteps`, `FlattenPlaces` and `EndsCover` say where each element
of a flattened sequence comes from.

### The macro expander

`ScanProofs`:

| Theorem | Says |
| --- | --- |
| `TypeCorrect` | `Spec => []TypeOK` |
| `MarksMatchHiddenAlways` | `Spec => []MarksMatchHidden` |
| `SymAssertionsHold` | `Spec => []SymAssertions` |
| `HeldSymStaysCurrent` | `Spec => []HeldSymIsCurrent` |
| `StreamsAlwaysBalanced` | `Spec => []StreamsBalanced` |
| `IncludeDepthAlwaysLimited` | `Spec => []IncludeDepthLimited` |
| `DirectivesObeyedInTheOpen` | `Spec => DirectivesSeeNothingHidden` |
| `ActivationImplemented` | `Spec => ImplementsActivation` |

All rest on `Inductive: Spec => []IInv`.  That marks and flags agree is not
inductive by itself, for two reasons.

1. `Install` hides the macro of a call that was met long before.  It must still
   be visible then, although arguments and directives have been read since.
   `HeadsUnmarked` says that the mark of an open call's macro is in no queue at
   or below the Scan of the call; nested Scans above it hide it and unhide it
   again, and are gone, with no mark left in their queues, when the call goes on.
2. `Define` and `Undef` make a macro visible whatever its mark does.
   `MarksFirst` says that in every queue marks come before directives and before
   the end of the input, and `InnerScans` that the queues of nested Scans hold no
   directive; so a directive is met only when no mark is waiting anywhere in the
   queue of the program's Scan, and, there being no nested Scan, nothing is
   hidden.

Underneath, `TypeInv` gives the shape of calls and replacement lists: every
replacement list ends in the one mark of its macro (the constructor of Sym), the
arguments are as many as the parameters, and a Scan below another one is waiting
for the argument it asked for.

The proof has one lemma per group of actions for types (`...Types`) and one for
marks (`...Marks`).  What a step does to the queues is stated once: `MovesOn`
and `Shifted` (the queue on top loses its first item or none), `Installed` (a
replacement is put in front of it), and the lemmas that go with them.
`ActivationImplemented` maps `ExpandObject` and `Install` to `Enter`, `Unhide` to
`Leave`, `Define` and `Undef` to `Redefine`, and all else to a stutter.

The two theorems about files rest on `StreamInv`.  The balance alone is not
inductive: nothing in it forbids a marker in an argument, which is copied as often
as its parameter is used.  `MarkersInPlace` says that, until a call takes one, markers are only in
the queue of the program's own Scan, that a STREAMBEGIN is only at its head, and
that `inc` is at most `IncLimit + 2` (the code compares before it pushes, and with
`>`): what was just included begins before anything else is read, so no second
include can pass the test meanwhile.  The markers of a queue are counted with
`CountOf`, and the lemmas say how the count goes with queues that are pushed to,
popped and joined.

### Conditional inclusion

`IfGroupsProofs` proves, however deeply a program is nested:

| Theorem | Says |
| --- | --- |
| `Invariant` | `Spec => []IInv` |
| `TypeCorrect` | `Spec => []TypeOK` |
| `GroupsAlwaysNest` | `Spec => []GroupsNest` |
| `ConditionalsImplemented` | `Spec => ImplementsConditionals` |

That groups are balanced follows only from what is known of all the lines taken
together, so the invariant speaks of `taken`.  `TakenNests`: its first line opens
the conditional, and the depth behind every later one is at least 1 and equals
`level + 1` at the end.  `GroupsCut`: the groups begin exactly at the lines of
depth 1 that separate groups, and hold exactly what is between them.
`ElseIsLast` agrees `elseSeen` with the last group.  `JudgedSoFar`: no group
before `next` was wanted, and nothing the loop does changes `defs`, so the answer
still holds when a group is pushed back.  `Outline` is what remains true when an
`#elif` had nothing behind it.

The depth of a place is a difference of two cardinalities: `DepthNext` and
`DepthAppend` are its recursion as lemmas, and `InLines`, `LinesKept` and
`LinesBehind` say that it is not disturbed by lines behind the place, or by
removing a null directive in front of it.  The steps of
`ConditionalsImplemented`: `TakeGroup` and `NoGroup` map to `Resolve`, the
witnesses being the `#endif` at the end of `taken` and the places of two groups
that follow one another; `GroupNull` to `Vanish`; what raises to `Refuse`; the
rest of collecting and judging to a stutter.

### The parser

`ParserProofs` proves, over any names, tags and labels:

| Theorem | Says |
| --- | --- |
| `InvariantHolds` | `Spec => []IInv` |
| `TypeCorrect` | `Spec => []TypeOK` |
| `NestingAlwaysAgrees` | `Spec => []NestingAgrees` |
| `LocalsAlwaysRecorded` | `Spec => []LocalsRecorded` |
| `CasesGoToInnermostSwitch` | `Spec => CaseGoesToInnermostSwitch` |
| `AlwaysCompletesOwnTag` | `Spec => CompletesOwnTag` |
| `NameSpacesImplemented` | `Spec => ImplementsNameSpaces` |

That the stacks of loops, switches and scopes agree with the productions is not
inductive without `StackNests`: where a body, a statement or a struct may stand in
the stack of productions, so that what a step takes off is what is on top.
`TagsKnown`, `HeadIsCurrent` and `MembersOfOwnTag` carry the answer the tables
gave behind `struct` to the place where the members are complete: a type that is
being read is still what its tag means in the same scope, because nothing opens a
scope between its braces.  Everything a step does to the stacks is one of
`Stays`, `Opens`, `Closes` and `ThenElse` (`StepOf`); `Shadow` says that a
stack of the code holds what the productions of its kinds hold, in their order,
and is proved to survive each of them.

The refinement maps the two tables of a scope to one row of roles.  It is a
function only while no name is in both tables of its scopes, which the code allows
and C does not; `Unmixed` says that the history `events` knows of every such
name.  Until then each action is one of `NameSpaces` (`Open`, `Close`, `Declare`,
`EnterFunction`, `EnterLoop`, `Use`, `DeclareFrom` or `Refuse`), or it changes nothing there; the
lemmas `...Promised` are one for each group of actions.

### The layout of structures

`LayoutProofs` proves, for any alignments, any length of arrays and any number of
types and members: `TypeCorrect`, `MembersAlignedAlways`, `MembersApartAlways`,
`TightAlways` and `PositionsAlwaysInOrder`.  The invariant adds to what is said of
finished types the same of the one that is being laid out: `Phases` (nothing is
placed before the body ends), `PlacedAligned` (the members placed so far are
aligned, and `max_align` is a multiple of each of their alignments: all are
powers of two, `LargerIsMultiple`), `PlacedApart` (they do not overlap and end
where `info.size` says), `PlacedTight` (between them is less than the alignment
of what follows).

That positions are in order is an induction over the types: those of anonymous
members are numbered again by each type that has them.  `Acyclic` and
`SubsBefore` give it its ground: a type comes behind those of its members.
`FieldsInOrder` says of the list of fields of a type that of the fields of any
type there are in it all or none, each before the next, even if they are there several times
(`Chained`, `Paired`); `LastAt` is the place a field gets its position from.

### Initializers

`InitializersProofs` proves, for all types and for lists of any length, nested in
braces as deeply as one likes:

| Theorem | Says |
| --- | --- |
| `CallsAgree` | `Spec => []Agree`, the inductive invariant |
| `InitializersGoToTheirObjects` | `Spec => []GoesToItsObject` |
| `LastInitializerCounts` | `Spec => []LastOneCounts` |
| `ArraysEndBehindLast` | `Spec => EndsBehindLast` |

That `inits` is a prefix of `placed` says nothing of where the next expression
goes.  The reader and the language hold the same place in two forms that differ
between any two tokens: the language moves its path at once to the next object
that has room, and inward only when an expression asks for it; the reader leaves
calls one by one when they are exhausted, and begins new ones before it knows
what they will read.  So `Agree` says that there is a path that the reader is at.
The stack is cut into pieces, one for each list in braces (`Outer`), and a piece
of calls waits for a path of as many steps (`Waits`): each call has the object of
its step and is behind its part.  While a loop goes on (`Looping`), the path the
language has is the one behind it, found by leaving exhausted objects, or the
token in hand is what the language made of that path: an expression for the
object inward of it, a brace, a designator that begins a path of its own.  When a
call has a part (`Reading`) the token is for that part or for one inside it.
`Skipping` is what is left in braces when there are more expressions than parts.

All of it needs the hypothesis `~FieldsInRow`, that an item behind a designation
that ends with a field has a designation too.  Without it `GoesToItsObject` is
false (`initializers_fields`); `byName` of a step is there to carry the
difference, and `Waiting` says what the index of the reader is then.

`LastOneCounts` is about the sort.  Its place for each initializer is the number
of those that stand before it; the places are different (`PlaceOrder`), and are
all there are because there are as many as initializers (`PlaceTaken`, by
cardinality).  `Numbered` gives it the order of the source.

`EndsBehindLast` needs to know where the array reaches at every moment.  `Extent`
says that all the calls, and their parts, lie before the end of the element that
the outermost call is at (`Kept`: a part lies inside what it is part of, so what
holds of a call holds of those above it), and that the last initializer is in that
element when a loop goes on (`Settled`).  This is not so between a designator and
the expression it is for: the index of the outermost call has moved and nothing
has been read since.  Then a call has a part, or one has just begun; `Fresh` says
of it that its list cannot end there, for it has read nothing and the token is
not the brace.  Only `ListEnds` can be the last to return from an array without a
length (`ExtentShows`), and the length it gives is the index, one more than the
number of the element.  That this need not be the largest element is the finding
`initializers_length`.

### The executable

The first part of `PeImageProofs` proves of `Sections`, for sections of any size, `SectionsApartAlways`
and `WrittenWhereSaidAlways`.  `SecInv` says that the next addresses are aligned
and behind all sections that have headers (`NextBehindAll`), that each section
begins in the file where the one before it ends, rounded up (`InSequence`), and
that the file is as long as what has been written says (`FileInSequence`); the
headers fill exactly one block, which is why the writer needs no padding behind
them.  Of `Asm86` it proves, for programs of every length, any addresses and any
tables of symbols, `JumpsLandAlways`, `CallsReachAlways` and `LoadsReachAlways`:
the displacement of a line, added to the place behind it in the bytes that are
written, gives what its label or table has.  `AsmInv` follows the three loops:
`Sized` (set_rva replaces a line by one of the same length), `Offsets` (those
taken by the first loop are still true, and the count of the loop at hand runs
along), `LabelsKnown`, `Patched` and `PlacesKept`.

Then it puts the parts together, for any DLLs, procedures and names:

| Theorem | Says |
| --- | --- |
| `PeInvAlways` | the inductive invariant of the writer |
| `SectionsImplemented` | the writer's sections are those of `Sections` |
| `ImageSectionsApart`, `ImageWrittenWhereSaid` | so they do not overlap, and are where their headers say |
| `LoaderFindsImportsAlways` | `Spec => []LoaderFindsImports` |
| `CallsLandAlways` | `Spec => []CallsLand` |
| `ImageJumpsLand` | `Spec => []JumpsLand` |
| `FirstLoadsLand` | loads lead to their strings, where there are at most two |

`PeInv` joins `AsmInv` and `SecInv` by what holds between them: `SizesKept` (what
was announced of a section is still its size when its bytes are made),
`AddressesKept` (what `set_rva` was given is what the headers say) and
`WrittenInOrder`.  The imports are computed from sums (`prepare`) and written
piece by piece (`build`).  `ThunksPlaced`, `DescriptorsPlaced` and `NamesPlaced`
say where each piece ends up, by induction over the pieces, and that this is what the sums
say; a loader that follows the descriptors then finds the names, in both tables.

`FirstLoadsLand` has three hypotheses: loads are into low registers, which are
those `set_rva` recognises (`LoadsKnown` then says that every load is), no string is named like a
procedure, whose names `set_rva` looks up in the same field, and there are at most
two strings, because the offset of the third is wrong (section 4,
`pe_third_symbol`).

### `#` and `##`

`PastingProofs` proves, for replacement lists and arguments of any length and any
number of calls:

| Theorem | Says |
| --- | --- |
| `TypesKept` | `Spec => []TypeOK` |
| `DefinitionIsCopied` | `Spec => []OwnBehindEmpty` |
| `CallsAsC` | `Spec => []PastesAsC` |

`Typed` and `Listed` say what is known of the list in each phase: two `##` do not
follow one another and none is first or last, the tokens passed have the category
their neighbours give them (`MarkedBefore`), behind each `#` is a parameter, and
the list `pasteAll` reads is the list with the arguments in it.  That the loop of
`pasteAll` never runs past its end follows from where the tokens of each part of
the list end (`Parts`, `End`): behind a `##` there is always something, a
placemarker at least.  `OwnInv` follows the tokens of the definition themselves: in the result they stand
only behind operands that are all empty (`OutOnly`), and only they are painted
(`PaintedOnly`).  A placemarker does not tell where it comes from, so `ChainsEmpty`
says it: if the result ends in one, or in nothing, where a `##` is next, then all
parameters that are pasted together before that `##` were empty, and so they were
before a `##` that has just been passed.

`CallsAsC` compares two readings of a list: the code flattens it and pastes from
left to right; C takes the operators part by part (`UpToToken`).  `ProgressInv`
says that at every moment the result so far, with what is still to come of the
part at hand, shows the same as C's list up to that part (`Alike`), and that where
a `##` follows also the last elements agree (`Joined`), since it is they
that are pasted.  Showing the same is less than being the same: a placemarker of
the code may stand where C has nothing (`Neutral`).  `Reference` is a list that
keeps C's recursion; that `UpToToken` is one is an induction over the list.

### What is only model-checked

* `Termination` of the four machines: liveness.
* `ExpandsAsReference` and `ReadsAsOnePass`: their references are RECURSIVE
  operators, which the provers do not see through.
* `LoadsLand` for more than two strings does not hold; its run has two.

## 6. Not modelled

`PROJECT.json` lists every component with its status, and the hazards that no
property covers yet.  Parts that hold no state worth a model (input and output,
tables of keywords, printing, locations) stay out, and so do functions of one
piece of text: the lexer, whose result is in the items of the models; `PP_expr2`
and the literals, which compute with 64-bit numbers and digits, out of reach of
TLC's integers; `TypeCombiner` and the typing of operators, which are tables.
Seven hazards have no property: tokens of a file painted in the cache, the white
space above, an `#elif` with nothing behind it and a static assertion among
specifiers (for which nothing says what they should do), a conditional that ends
in another file, the registers of a load, and static tables after an exception.
Others have a property that leaves out one case; the note of the hazard names it.
Of the parts that are
modelled, these are left out:

* Parser: the shape of declarators, operators and attributes.  The code accepts
  a function that is defined twice and a `case` that is there twice, and refuses
  tentative definitions; the model does the same, and no property speaks of it.
* Initializers: unions, strings and whole structs for a member, the members of
  anonymous structs, of which positions are not indices (section 4).  Earlier initializers of an object
  that is overridden as a whole stay in the list.
* Layout: bit-fields, and sizes that overflow 32 bits.
* Executable: the fields of the headers, the bytes of an instruction other than
  their number and the two that `set_rva` looks at, the checks of ranges in
  `Ubuf` and its growth, and names that are not ASCII, whose bytes and characters
  are not equally many.
