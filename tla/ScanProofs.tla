----------------------------- MODULE ScanProofs -----------------------------
(***************************************************************************)
(* Theorems about the macro expander, for every set of names, files,       *)
(* definitions and programs.                                               *)
(***************************************************************************)
EXTENDS Scan, SequenceTheorems, FiniteSetTheorems, TLAPS

-----------------------------------------------------------------------------
(* The kinds of items tell them apart.                                     *)

(* What an item of a replacement list is follows from its kind (the lists  *)
(* that PP_define.java:150 builds).                                        *)
LEMMA BodyKinds ==
  ASSUME NEW b \in BodyItem \cup MarkItem
  PROVE  /\ b.k = "formal" => b \in Formal
         /\ b.k = "commava" => b = CommaVa
         /\ b.k = "mark" => b \in MarkItem
         /\ b.k \notin {"formal", "commava", "mark"} => b \in Token
  BY DEF BodyItem, MarkItem, Formal, CommaVa, Token, Punct

(* What an item of a queue is follows from its kind (Token and T in the    *)
(* code).                                                                  *)
LEMMA ItemKinds ==
  ASSUME NEW it \in Item
  PROVE  /\ it.k \in {"id"} \cup Punct => it \in Token
         /\ it.k = "id" => it.n \in Names /\ it.p \in BOOLEAN
         /\ it.k = "mark" => it \in MarkItem /\ it.n \in Names
         /\ it.k \in {"sb", "se", "eof"} => it \in StreamMarker
         /\ it.k = "define" => it.n \in Names /\ it.d \in Defs
         /\ it.k = "undef" => it.n \in Names
         /\ it.k \in {"include", "once"} => it.h \in Headers
         /\ it.k \in {"mark"} \cup {"id"} \cup Punct \cup {"sb", "se", "eof"}
                       \cup {"define", "undef", "include", "once"}
  BY DEF Item, MarkItem, StreamMarker, Directive, Token, Punct

(* An argument collected by scanArgs is made of items of a queue, and      *)
(* holds neither marks nor directives (Scan.java:465).                     *)
LEMMA ArgItems ==
  ASSUME NEW it \in ArgItem
  PROVE  it \in Item /\ it.k # "mark" /\ it.k \notin {"define", "undef", "include", "once"}
  BY DEF ArgItem, Item, StreamMarker, Token, Punct

-----------------------------------------------------------------------------
(* Steps of the Scan on top.                                               *)

(* There is a Scan on top, its queue has items, and taking one leaves the  *)
(* others where pop() finds them (Scan.java:48).                           *)
LEMMA TopFrame ==
  ASSUME TypeOK
  PROVE  /\ Depth \in Nat \ {0} /\ DOMAIN frames = 1 .. Depth
         /\ Depth \in DOMAIN frames
         /\ Top \in Frame
         /\ Top.pend \in Seq(Item)
         /\ ~AtEnd => /\ Cur \in Item /\ Rest \in Seq(Item)
                      /\ Cur = Top.pend[1]
                      /\ Len(Rest) = Len(Top.pend) - 1
                      /\ \A p \in 1 .. Len(Rest) : Rest[p] = Top.pend[p + 1]
  <1>1. Depth \in Nat \ {0} /\ DOMAIN frames = 1 .. Depth
    BY EmptySeq, LenProperties DEF TypeOK, Depth
  <1>2. Depth \in DOMAIN frames
    BY <1>1
  <1>3. Top \in Frame
    BY <1>1, <1>2, ElementOfSeq DEF TypeOK, Top, Depth
  <1>4. Top.pend \in Seq(Item)
    BY <1>3 DEF Frame
  <1>5. ASSUME ~AtEnd
        PROVE  /\ Cur \in Item /\ Rest \in Seq(Item)
               /\ Cur = Top.pend[1]
               /\ Len(Rest) = Len(Top.pend) - 1
               /\ \A p \in 1 .. Len(Rest) : Rest[p] = Top.pend[p + 1]
    BY <1>4, <1>5, HeadTailProperties DEF AtEnd, Cur, Rest
  <1> QED
    BY <1>1, <1>2, <1>3, <1>4, <1>5

(* A step of the Scan on top leaves the Scans below it alone.              *)
LEMMA SetTopFrames ==
  ASSUME TypeOK, NEW fr \in Frame, SetTop(fr)
  PROVE  /\ frames' \in Seq(Frame) /\ frames' # <<>>
         /\ Len(frames') = Depth /\ DOMAIN frames' = 1 .. Depth
         /\ frames'[Depth] = fr
         /\ \A i \in 1 .. Depth : i # Depth => frames'[i] = frames[i]
  <1>1. Depth \in 1 .. Len(frames) /\ Depth \in Nat \ {0}
    BY TopFrame DEF Depth
  <1>2. frames \in Seq(Frame)
    BY DEF TypeOK
  <1>3. frames' = [frames EXCEPT ![Depth] = fr]
    BY DEF SetTop
  <1>4. /\ frames' \in Seq(Frame)
        /\ Len(frames') = Len(frames)
        /\ \A j \in 1 .. Len(frames) :
             frames'[j] = IF j = Depth THEN fr ELSE frames[j]
    <2>1. Depth \in 1 .. Len(frames)
      BY <1>1
    <2>2. /\ [frames EXCEPT ![Depth] = fr] \in Seq(Frame)
          /\ Len([frames EXCEPT ![Depth] = fr]) = Len(frames)
          /\ \A j \in 1 .. Len(frames) :
               [frames EXCEPT ![Depth] = fr][j] = IF j = Depth THEN fr ELSE frames[j]
      BY <1>2, <2>1, ExceptSeq
    <2> QED
      BY <1>3, <2>2
  <1>5. frames' # <<>> /\ DOMAIN frames' = 1 .. Depth
    BY <1>1, <1>4, LenProperties, EmptySeq DEF Depth
  <1> QED
    BY <1>1, <1>4, <1>5 DEF Depth

(* The Scan on top moves, to a state of its own that makes sense. *)
LEMMA TopMoves ==
  ASSUME TypeInv, NEW fr \in Frame, SetTop(fr),
         fr.mode # "get" => GoodCall(fr),
         Depth > 1 => fr.pend \in Seq(ArgItem \cup MarkItem)
  PROVE  /\ frames' \in Seq(Frame) /\ frames' # <<>>
         /\ Shape' /\ InnerScans'
  <1>1. TypeOK
    BY DEF TypeInv
  <1>2. /\ frames' \in Seq(Frame) /\ frames' # <<>>
        /\ Len(frames') = Depth /\ DOMAIN frames' = 1 .. Depth
        /\ frames'[Depth] = fr
        /\ \A i \in 1 .. Depth : i # Depth => frames'[i] = frames[i]
    BY <1>1, SetTopFrames
  <1>3. Depth \in Nat \ {0} /\ DOMAIN frames = 1 .. Depth
    BY <1>1, TopFrame
  <1>4. \A i \in DOMAIN frames' : frames'[i].mode # "get" => GoodCall(frames'[i])
    <2> SUFFICES ASSUME NEW i \in DOMAIN frames', frames'[i].mode # "get"
                 PROVE  GoodCall(frames'[i])
      OBVIOUS
    <2>1. CASE i = Depth
      BY <1>2, <2>1
    <2>2. CASE i # Depth
      BY <1>2, <1>3, <2>2 DEF TypeInv, Shape
    <2> QED
      BY <2>1, <2>2
  <1>5. \A i \in 1 .. Len(frames') - 1 :
          frames'[i].mode = "expand"
            /\ Len(frames'[i].call.exp) < frames'[i].call.sym.arity
    <2>1. \A i \in 1 .. Depth - 1 : frames'[i] = frames[i]
      BY <1>2, <1>3
    <2> QED
      BY <1>2, <1>3, <2>1 DEF TypeInv, Shape
  <1>6. InnerScans'
    <2> SUFFICES ASSUME NEW i \in DOMAIN frames', i > 1
                 PROVE  frames'[i].pend \in Seq(ArgItem \cup MarkItem)
      BY DEF InnerScans
    <2>1. CASE i = Depth
      BY <1>2, <2>1
    <2>2. CASE i # Depth
      BY <1>2, <1>3, <2>2 DEF TypeInv, InnerScans
    <2> QED
      BY <2>1, <2>2
  <1>7. Shape'
    BY <1>4, <1>5 DEF Shape, Depth, GoodCall, GoodSym, MarkLast
  <1> QED
    BY <1>2, <1>6, <1>7

(* A step that only moves the Scan on top keeps the types if the new Scan  *)
(* is well formed.                                                         *)
LEMMA MoveTopTypes ==
  ASSUME TypeInv, NEW fr \in Frame, MoveTop(fr),
         fr.mode # "get" => GoodCall(fr),
         Depth > 1 => fr.pend \in Seq(ArgItem \cup MarkItem)
  PROVE  TypeInv'
  <1>1. SetTop(fr) /\ UNCHANGED <<defs, hidden, once, text, ended, err, events>>
    BY DEF MoveTop
  <1>2. /\ frames' \in Seq(Frame) /\ frames' # <<>>
        /\ Shape' /\ InnerScans'
    BY <1>1, TopMoves
  <1>3. GoodTable'
    BY <1>1 DEF TypeInv, GoodTable
  <1>4. TypeOK'
    BY <1>1, <1>2 DEF TypeInv, TypeOK
  <1> QED
    BY <1>2, <1>3, <1>4 DEF TypeInv

(* An exception stops the run and changes nothing else.                    *)
LEMMA RaiseTypes ==
  ASSUME TypeInv,
         NEW e \in {"nesting", "incstack", "unhide", "hide", "nullary", "arity"},
         Raise(e)
  PROVE  TypeInv'
  <1>1. TypeOK'
    BY DEF TypeInv, TypeOK, Raise
  <1>2. GoodTable' /\ Shape' /\ InnerScans'
    BY DEF TypeInv, GoodTable, Shape, InnerScans, Raise, Depth
  <1> QED
    BY <1>1, <1>2 DEF TypeInv

(* What the Scan on top has still to read, without its first item. *)
LEMMA RestTypes ==
  ASSUME TypeInv, ~AtEnd
  PROVE  /\ Rest \in Seq(Item)
         /\ Depth > 1 => Rest \in Seq(ArgItem \cup MarkItem)
  <1>1. TypeOK
    BY DEF TypeInv
  <1>2. Rest \in Seq(Item)
    BY <1>1, TopFrame
  <1>3. ASSUME Depth > 1
        PROVE  Rest \in Seq(ArgItem \cup MarkItem)
    <2>1. Top.pend \in Seq(ArgItem \cup MarkItem)
      BY <1>1, <1>3, TopFrame DEF TypeInv, InnerScans, Top
    <2> QED
      BY <2>1, HeadTailProperties DEF Rest, AtEnd
  <1> QED
    BY <1>2, <1>3

(* The queue of a Scan that expands an argument holds no directive         *)
(* (Scan.java:388).                                                        *)
LEMMA TopPend ==
  ASSUME TypeInv
  PROVE  Depth > 1 => Top.pend \in Seq(ArgItem \cup MarkItem)
  BY TopFrame DEF TypeInv, InnerScans, Top

(* A Scan that is in a call is in a well formed one.                       *)
LEMMA TopCall ==
  ASSUME TypeInv, Top.mode # "get"
  PROVE  GoodCall(Top) /\ Top.call \in Call
  BY TopFrame DEF TypeInv, Shape, GoodCall, Top

(* New values for the queue of a Scan. *)
LEMMA PendFrame ==
  ASSUME NEW fr \in Frame, NEW q \in Seq(Item)
  PROVE  /\ [fr EXCEPT !.pend = q] \in Frame
         /\ [fr EXCEPT !.pend = q].mode = fr.mode
         /\ [fr EXCEPT !.pend = q].call = fr.call
         /\ [fr EXCEPT !.pend = q].pend = q
  BY DEF Frame

(* Only the place in a call and the call itself decide whether it is well  *)
(* formed.                                                                 *)
LEMMA SameCall ==
  ASSUME NEW fr, NEW fs, fr.mode = fs.mode, fr.call = fs.call, GoodCall(fs)
  PROVE  GoodCall(fr)
  BY DEF GoodCall

-----------------------------------------------------------------------------
(* Type correctness, one lemma per group of actions.                       *)

(* The types hold before the first token is read.                          *)
LEMMA InitTypes == Init => TypeInv
  <1> SUFFICES ASSUME Init PROVE TypeInv
    OBVIOUS
  <1> PICK P \in Prologues : frames = <<NewScan(<<SB>> \o P)>> /\ text = P
    BY DEF Init
  <1>1. P \in Seq(Token \cup Directive)
    BY HeaderAssumption
  <1>2. <<SB>> \o P \in Seq(Item)
    <2>1. P \in Seq(Item)
      BY <1>1, SeqMonotonic DEF Item
    <2>2. <<SB>> \in Seq(Item)
      BY DEF Item, StreamMarker, SB
    <2> QED
      BY <2>1, <2>2, ConcatProperties
  <1>3. NewScan(<<SB>> \o P) \in Frame
    BY <1>2 DEF NewScan, Frame, Modes
  <1>4. TypeOK
    <2>1. frames \in Seq(Frame) /\ frames # <<>>
      BY <1>3
    <2>2. text \in Seq(Token \cup Directive)
      BY <1>1
    <2> QED
      BY <2>1, <2>2 DEF Init, TypeOK
  <1>5. GoodTable
    BY DEF Init, GoodTable
  <1>6. Shape
    BY DEF Shape, NewScan, Depth
  <1>7. InnerScans
    BY DEF InnerScans
  <1> QED
    BY <1>4, <1>5, <1>6, <1>7 DEF TypeInv

(* Reading the program keeps the types.                                    *)
LEMMA SourceTypes ==
  ASSUME TypeInv, ReadSource \/ ReadEnd
  PROVE  TypeInv'
  <1>0. Depth = 1 /\ Top \in Frame /\ TypeOK
    BY TopFrame DEF ReadSource, ReadEnd, NeedsSource, TypeInv
  <1>1. CASE ReadSource
    <2> PICK it \in SourceItems : /\ SetTop([Top EXCEPT !.pend = <<it>>])
                                  /\ text' = Append(text, it)
      BY <1>1 DEF ReadSource
    <2> DEFINE fr == [Top EXCEPT !.pend = <<it>>]
    <2>1. it \in Token \cup Directive /\ it \in Item
      BY HeaderAssumption DEF Item
    <2>2. <<it>> \in Seq(Item)
      BY <2>1
    <2>3. fr \in Frame /\ fr.mode = Top.mode /\ fr.call = Top.call
      BY <1>0, <2>2, PendFrame
    <2>a. SetTop(fr)
      OBVIOUS
    <2> HIDE DEF fr
    <2>4. frames' \in Seq(Frame) /\ frames' # <<>> /\ Shape' /\ InnerScans'
      BY <1>0, <2>3, <2>a, TopMoves, TopCall, SameCall
    <2>b. text' \in Seq(Token \cup Directive)
      BY <1>0, <2>1, AppendProperties DEF TypeOK
    <2>5. TypeOK'
      BY <1>0, <1>1, <2>b, <2>4 DEF TypeOK, ReadSource
    <2>6. GoodTable'
      BY <1>1 DEF ReadSource, TypeInv, GoodTable
    <2> QED
      BY <2>4, <2>5, <2>6 DEF TypeInv
  <1>2. CASE ReadEnd
    <2> DEFINE fr == [Top EXCEPT !.pend = <<SE, Eof>>]
    <2>2. <<SE, Eof>> \in Seq(Item)
      BY DEF Item, StreamMarker, SE, Eof
    <2>3. fr \in Frame /\ fr.mode = Top.mode /\ fr.call = Top.call
      BY <1>0, <2>2, PendFrame
    <2>a. SetTop(fr)
      BY <1>2 DEF ReadEnd
    <2> HIDE DEF fr
    <2>4. frames' \in Seq(Frame) /\ frames' # <<>> /\ Shape' /\ InnerScans'
      BY <1>0, <2>3, <2>a, TopMoves, TopCall, SameCall
    <2>5. TypeOK'
      BY <1>0, <1>2, <2>4 DEF TypeOK, ReadEnd
    <2>6. GoodTable'
      BY <1>2 DEF ReadEnd, TypeInv, GoodTable
    <2> QED
      BY <2>4, <2>5, <2>6 DEF TypeInv
  <1> QED
    BY <1>1, <1>2

(* goThroughStreamMarkers (Scan.java:136) keeps the types.                 *)
LEMMA StreamTypes ==
  ASSUME TypeInv, StreamBegin \/ StreamEnd
  PROVE  TypeInv'
  <1>0. Top \in Frame /\ Top.mode = "get" /\ ~AtEnd
    BY TopFrame DEF StreamBegin, StreamEnd, Running, At, TypeInv
  <1>1. CASE StreamBegin /\ Top.inc > IncLimit + 1
    BY <1>1, RaiseTypes DEF StreamBegin
  <1>2. CASE StreamBegin /\ ~(Top.inc > IncLimit + 1)
    <2> DEFINE fr == [Top EXCEPT !.pend = Rest, !.inc = @ + 1]
    <2>1. MoveTop(fr)
      BY <1>2 DEF StreamBegin
    <2>2. fr \in Frame /\ fr.mode = "get" /\ fr.pend = Rest
      <3>1. Top.inc + 1 \in Nat
        BY <1>0 DEF Frame
      <3>2. Rest \in Seq(Item)
        BY <1>0, RestTypes
      <3> QED
        BY <1>0, <3>1, <3>2 DEF Frame
    <2> HIDE DEF fr
    <2> QED
      BY <1>0, <2>1, <2>2, RestTypes, MoveTopTypes
  <1>3. CASE StreamEnd /\ Top.inc = 0
    BY <1>3, RaiseTypes DEF StreamEnd
  <1>4. CASE StreamEnd /\ Top.inc # 0
    <2> DEFINE fr == [Top EXCEPT !.pend = Rest, !.inc = @ - 1]
    <2>1. MoveTop(fr)
      BY <1>4 DEF StreamEnd
    <2>2. fr \in Frame /\ fr.mode = "get" /\ fr.pend = Rest
      <3>1. Top.inc - 1 \in Nat
        BY <1>0, <1>4 DEF Frame
      <3>2. Rest \in Seq(Item)
        BY <1>0, RestTypes
      <3> QED
        BY <1>0, <3>1, <3>2 DEF Frame
    <2> HIDE DEF fr
    <2> QED
      BY <1>0, <2>1, <2>2, RestTypes, MoveTopTypes
  <1> QED
    BY <1>1, <1>2, <1>3, <1>4

(* The constructor of Sym (Sym.java:43) makes a replacement list whose     *)
(* mark is last.                                                           *)
LEMMA GoodSymOfDef ==
  ASSUME NEW n \in Names, NEW d \in Defs
  PROVE  GoodSym(Sym(n, d), n) /\ Sym(n, d) # NoDef
  <1>1. WellFormed(d)
    BY DefsAssumption
  <1>2. d \in Definition /\ d.body \in Seq(BodyItem) /\ Mark(n) \in BodyItem \cup MarkItem
    BY <1>1 DEF WellFormed, Definition, Mark, MarkItem
  <1>3. d.body \in Seq(BodyItem \cup MarkItem)
    BY <1>2, SeqMonotonic
  <1> DEFINE b == Append(d.body, Mark(n))
  <1>4. /\ b \in Seq(BodyItem \cup MarkItem)
        /\ Len(b) = Len(d.body) + 1
        /\ \A p \in 1 .. Len(d.body) : b[p] = d.body[p]
        /\ b[Len(d.body) + 1] = Mark(n)
    BY <1>2, <1>3, AppendProperties
  <1>5. Len(d.body) \in Nat /\ DOMAIN d.body = 1 .. Len(d.body)
    BY <1>2, LenProperties
  <1>6. \A p \in 1 .. Len(d.body) : d.body[p] \in BodyItem
    BY <1>2, ElementOfSeq
  <1> HIDE DEF b
  <1>7. Sym(n, d) = [arity |-> d.arity, vararg |-> d.vararg, body |-> b]
    BY DEF Sym, b
  <1>8. Sym(n, d) \in Symbol
    BY <1>2, <1>4, <1>7 DEF Symbol, Definition
  <1>9. MarkLast(b, n, BodyItem)
    BY <1>4, <1>5, <1>6 DEF MarkLast
  <1>10. ASSUME NEW p \in 1 .. Len(b)
         PROVE  /\ b[p].k = "formal" => b[p].i <= d.arity
                /\ b[p].k = "commava" => d.arity > 0
    <2>1. CASE p = Len(d.body) + 1
      BY <1>4, <2>1 DEF Mark
    <2>2. CASE p \in 1 .. Len(d.body)
      BY <1>1, <1>4, <1>5, <1>6, <2>2, BodyKinds DEF WellFormed
    <2> QED
      BY <1>4, <1>5, <2>1, <2>2
  <1> QED
    BY <1>7, <1>8, <1>9, <1>10, NoneAssumption DEF GoodSym

(* A Scan of an argument never meets a directive. *)
LEMMA OnlyTheProgramHasDirectives ==
  ASSUME TypeInv, At({"define", "undef", "include", "once"})
         \/ At({"define"}) \/ At({"undef"}) \/ At({"include"}) \/ At({"once"})
  PROVE  Depth = 1
  <1>0. TypeOK /\ ~AtEnd /\ Cur = Top.pend[1] /\ Depth \in Nat \ {0}
    BY TopFrame DEF TypeInv, At
  <1>1. Cur.k \in {"define", "undef", "include", "once"}
    BY DEF At
  <1>2. ASSUME Depth > 1
        PROVE  FALSE
    <2>1. Top.pend \in Seq(ArgItem \cup MarkItem)
      BY <1>2, TopPend
    <2>2. Cur \in ArgItem \cup MarkItem
      BY <1>0, <2>1, HeadTailProperties DEF Cur, AtEnd
    <2> QED
      BY <1>1, <2>2, ArgItems DEF MarkItem
  <1> QED
    BY <1>0, <1>2

(* dline obeys a directive: in the queue it is only removed, or gives way  *)
(* to the text of a file.                                                  *)
LEMMA PopAndOutdateTypes ==
  ASSUME TypeInv, NEW n \in Names, PopAndOutdate(n), ~AtEnd
  PROVE  /\ frames' \in Seq(Frame) /\ frames' # <<>>
         /\ Shape' /\ InnerScans'
         /\ events' \subseteq {"redefined", "crossed", "unterminated", "stream"}
  <1>0. Top \in Frame /\ TypeOK
    BY TopFrame DEF TypeInv
  <1>1. CASE Redefines(n)
    <2> DEFINE fr == [Top EXCEPT !.pend = Rest, !.call.stale = TRUE]
    <2>1. SetTop(fr) /\ events' = events \cup {"redefined"}
      BY <1>1 DEF PopAndOutdate
    <2>2. Top.mode = "args" /\ GoodCall(Top) /\ Top.call \in Call
      BY <1>1, TopCall DEF Redefines
    <2>3. fr \in Frame /\ fr.mode = "args" /\ fr.pend = Rest
          /\ fr.call = [Top.call EXCEPT !.stale = TRUE]
      BY <1>0, <2>2, RestTypes DEF Frame, Call
    <2> HIDE DEF fr
    <2>4. GoodCall(fr)
      <3>1. /\ fr.call \in Call /\ fr.call.n = Top.call.n
            /\ fr.call.sym = Top.call.sym /\ fr.call.args = Top.call.args
            /\ fr.call.exp = Top.call.exp /\ fr.call.pos = Top.call.pos
            /\ fr.call.res = Top.call.res
        BY <2>2, <2>3 DEF Call
      <3> QED
        BY <2>2, <2>3, <3>1 DEF GoodCall
    <2> QED
      BY <1>0, <2>1, <2>3, <2>4, RestTypes, TopMoves DEF TypeOK
  <1>2. CASE ~Redefines(n)
    <2> DEFINE fr == [Top EXCEPT !.pend = Rest]
    <2>1. SetTop(fr) /\ events' = events
      BY <1>2 DEF PopAndOutdate
    <2>2. fr \in Frame /\ fr.mode = Top.mode /\ fr.call = Top.call /\ fr.pend = Rest
      BY <1>0, RestTypes, PendFrame
    <2> HIDE DEF fr
    <2> QED
      BY <1>0, <2>1, <2>2, RestTypes, TopMoves, TopCall, SameCall DEF TypeOK
  <1> QED
    BY <1>1, <1>2

(* dline (Scan.java:93) keeps the types: files are read into the queue of  *)
(* the program's own Scan, or of its arguments, and a new Sym is well      *)
(* formed.                                                                 *)
LEMMA DirectiveTypes ==
  ASSUME TypeInv, Define \/ Undef \/ Include \/ PragmaOnce
  PROVE  TypeInv'
  <1>0. Top \in Frame /\ TypeOK /\ ~AtEnd /\ Cur \in Item
    BY TopFrame DEF TypeInv, Define, Undef, Include, PragmaOnce, At
  <1>1. CASE Define
    <2>1. Cur.n \in Names /\ Cur.d \in Defs
      BY <1>0, <1>1, ItemKinds DEF Define, At
    <2>2. /\ frames' \in Seq(Frame) /\ frames' # <<>>
          /\ Shape' /\ InnerScans'
          /\ events' \subseteq {"redefined", "crossed", "unterminated", "stream"}
      BY <1>0, <1>1, <2>1, PopAndOutdateTypes DEF Define
    <2>3. GoodSym(Sym(Cur.n, Cur.d), Cur.n)
      BY <2>1, GoodSymOfDef
    <2>4. defs' = [defs EXCEPT ![Cur.n] = Sym(Cur.n, Cur.d)]
      BY <1>1 DEF Define
    <2>5. defs' \in [Names -> Symbol \cup {NoDef}] /\ GoodTable'
      <3>1. Sym(Cur.n, Cur.d) \in Symbol
        BY <2>3 DEF GoodSym
      <3>2. GoodTable
        BY DEF TypeInv
      <3> QED
        BY <1>0, <2>1, <2>3, <2>4, <3>1, <3>2 DEF TypeOK, GoodTable
    <2> QED
      BY <1>0, <1>1, <2>2, <2>5 DEF TypeInv, TypeOK, Define
  <1>2. CASE Undef
    <2>1. Cur.n \in Names
      BY <1>0, <1>2, ItemKinds DEF Undef, At
    <2>2. /\ frames' \in Seq(Frame) /\ frames' # <<>>
          /\ Shape' /\ InnerScans'
          /\ events' \subseteq {"redefined", "crossed", "unterminated", "stream"}
      BY <1>0, <1>2, <2>1, PopAndOutdateTypes DEF Undef
    <2>3. defs' \in [Names -> Symbol \cup {NoDef}] /\ GoodTable'
      BY <1>0, <1>2, <2>1 DEF TypeInv, TypeOK, GoodTable, Undef
    <2> QED
      BY <1>0, <1>2, <2>2, <2>3 DEF TypeInv, TypeOK, Undef
  <1>3. CASE Include
    <2> DEFINE inc == (<<SB>> \o HeaderText[Cur.h]) \o <<SE>>
    <2> DEFINE q == IF Cur.h \in once THEN Rest ELSE inc \o Rest
    <2>1. inc \in Seq(Item)
      <3>1. Cur.h \in Headers
        BY <1>0, <1>3, ItemKinds DEF Include, At
      <3>2. HeaderText[Cur.h] \in Seq(Item)
        <4>1. HeaderText[Cur.h] \in Seq(Token \cup Directive)
          BY <3>1, HeaderAssumption
        <4> QED
          BY <4>1, SeqMonotonic DEF Item
      <3>3. <<SB>> \in Seq(Item) /\ <<SE>> \in Seq(Item)
        BY DEF Item, StreamMarker, SB, SE
      <3>4. <<SB>> \o HeaderText[Cur.h] \in Seq(Item)
        BY <3>2, <3>3, ConcatProperties
      <3> QED
        BY <3>3, <3>4, ConcatProperties
    <2>2. q \in Seq(Item)
      BY <1>0, <2>1, RestTypes, ConcatProperties
    <2>3. Depth = 1
      BY <1>0, <1>3, OnlyTheProgramHasDirectives DEF Include
    <2> DEFINE fr == [Top EXCEPT !.pend = q]
    <2>4. MoveTop(fr)
      BY <1>3 DEF Include
    <2>5. fr \in Frame /\ fr.mode = Top.mode /\ fr.call = Top.call
      BY <1>0, <2>2, PendFrame
    <2> HIDE DEF fr
    <2> QED
      BY <1>0, <2>3, <2>4, <2>5, MoveTopTypes, TopCall, SameCall
  <1>4. CASE PragmaOnce
    <2>1. Cur.h \in Headers
      BY <1>0, <1>4, ItemKinds DEF PragmaOnce, At
    <2> DEFINE fr == [Top EXCEPT !.pend = Rest]
    <2>2. SetTop(fr)
      BY <1>4 DEF PragmaOnce
    <2>3. fr \in Frame /\ fr.mode = Top.mode /\ fr.call = Top.call /\ fr.pend = Rest
      BY <1>0, RestTypes, PendFrame
    <2> HIDE DEF fr
    <2>4. frames' \in Seq(Frame) /\ frames' # <<>> /\ Shape' /\ InnerScans'
      BY <1>0, <2>2, <2>3, RestTypes, TopMoves, TopCall, SameCall
    <2>5. GoodTable'
      BY <1>4 DEF PragmaOnce, TypeInv, GoodTable
    <2>6. TypeOK'
      BY <1>0, <1>4, <2>1, <2>4 DEF PragmaOnce, TypeOK
    <2> QED
      BY <2>4, <2>5, <2>6 DEF TypeInv
  <1> QED
    BY <1>1, <1>2, <1>3, <1>4

(* unhide (Scan.java:713) keeps the types.                                 *)
LEMMA UnhideTypes ==
  ASSUME TypeInv, Unhide
  PROVE  TypeInv'
  <1>0. Top \in Frame /\ TypeOK /\ ~AtEnd
    BY TopFrame DEF TypeInv, Unhide, At
  <1>1. CASE Cur.n \notin hidden
    BY <1>1, RaiseTypes DEF Unhide
  <1>2. CASE Cur.n \in hidden
    <2> DEFINE fr == [Top EXCEPT !.pend = Rest]
    <2>1. SetTop(fr)
      BY <1>2 DEF Unhide
    <2>2. fr \in Frame /\ fr.mode = Top.mode /\ fr.call = Top.call /\ fr.pend = Rest
      BY <1>0, RestTypes, PendFrame
    <2> HIDE DEF fr
    <2>3. frames' \in Seq(Frame) /\ frames' # <<>> /\ Shape' /\ InnerScans'
      BY <1>0, <2>1, <2>2, RestTypes, TopMoves, TopCall, SameCall
    <2>4. GoodTable'
      BY <1>2 DEF Unhide, TypeInv, GoodTable
    <2>5. TypeOK'
      BY <1>0, <1>2, <2>3 DEF Unhide, TypeOK
    <2> QED
      BY <2>3, <2>4, <2>5 DEF TypeInv
  <1> QED
    BY <1>1, <1>2

(* Returning a token from get() keeps the types.                           *)
LEMMA EmitTypes ==
  ASSUME TypeInv, NEW t \in Token, NEW rest \in Seq(Item),
         Depth > 1 => rest \in Seq(ArgItem \cup MarkItem),
         Emit(t, rest)
  PROVE  TypeInv'
  <1> DEFINE fr == [Top EXCEPT !.pend = rest, !.mode = "get", !.call = NoCall,
                               !.out = Append(@, t)]
  <1>1. MoveTop(fr)
    BY DEF Emit
  <1>2. Top \in Frame
    BY TopFrame DEF TypeInv
  <1>3. Append(Top.out, t) \in Seq(Token)
    BY <1>2, AppendProperties DEF Frame
  <1>4. fr \in Frame /\ fr.mode = "get" /\ fr.pend = rest
    BY <1>2, <1>3 DEF Frame, Modes
  <1> HIDE DEF fr
  <1> QED
    BY <1>1, <1>4, MoveTopTypes

(* replaceSimple (Scan.java:700) keeps the types: what it pushes is made   *)
(* of items, and of no directive in an argument.                           *)
LEMMA ReplaceSimpleTypes ==
  ASSUME TypeInv, NEW n \in Names, NEW stale, NEW repl, NEW rest \in Seq(Item),
         repl \in Seq(Item), repl \in Seq(ArgItem \cup MarkItem),
         Depth > 1 => rest \in Seq(ArgItem \cup MarkItem),
         ReplaceSimple(n, stale, repl, rest)
  PROVE  TypeInv'
  <1>0. Top \in Frame /\ TypeOK
    BY TopFrame DEF TypeInv
  <1>1. CASE ~stale /\ n \in hidden
    BY <1>1, RaiseTypes DEF ReplaceSimple
  <1>2. CASE ~(~stale /\ n \in hidden)
    <2> DEFINE fr == [Top EXCEPT !.pend = repl \o rest, !.mode = "get", !.call = NoCall]
    <2>1. SetTop(fr)
      BY <1>2 DEF ReplaceSimple
    <2>2. repl \o rest \in Seq(Item)
      BY ConcatProperties
    <2>3. Depth > 1 => repl \o rest \in Seq(ArgItem \cup MarkItem)
      BY ConcatProperties
    <2>4. fr \in Frame /\ fr.mode = "get" /\ fr.pend = repl \o rest
      BY <1>0, <2>2 DEF Frame, Modes
    <2> HIDE DEF fr
    <2>5. frames' \in Seq(Frame) /\ frames' # <<>> /\ Shape' /\ InnerScans'
      BY <2>1, <2>3, <2>4, TopMoves
    <2>6. GoodTable'
      BY <1>2 DEF ReplaceSimple, TypeInv, GoodTable
    <2>7. TypeOK'
      BY <1>0, <1>2, <2>5 DEF ReplaceSimple, TypeOK
    <2> QED
      BY <2>5, <2>6, <2>7 DEF TypeInv
  <1> QED
    BY <1>1, <1>2

(* The replacement of an object-like macro, and the one a call has         *)
(* substituted, are tokens and a mark.                                     *)
LEMMA MarkLastTypes ==
  ASSUME NEW S, NEW q \in Seq(S), NEW n \in Names, MarkLast(q, n, Token)
  PROVE  q \in Seq(Item) /\ q \in Seq(ArgItem \cup MarkItem)
  <1>1. q \in [1 .. Len(q) -> Item \cap (ArgItem \cup MarkItem)]
    <2>1. Len(q) \in Nat /\ q \in [1 .. Len(q) -> S]
      BY LenProperties
    <2>2. ASSUME NEW p \in 1 .. Len(q)
          PROVE  q[p] \in Item \cap (ArgItem \cup MarkItem)
      <3>1. CASE p = Len(q)
        BY <3>1 DEF MarkLast, Mark, MarkItem, Item
      <3>2. CASE p # Len(q)
        <4>0. Len(q) \in Int /\ p \in Int /\ 1 <= p /\ p <= Len(q)
          BY <2>1
        <4>1. p \in 1 .. Len(q) - 1
          BY <4>0, <3>2
        <4>2. q[p] \in Token
          BY <4>1 DEF MarkLast
        <4> QED
          BY <4>2 DEF Item, ArgItem
      <3> QED
        BY <3>1, <3>2
    <2> QED
      BY <2>1, <2>2
  <1>2. Len(q) \in Nat
    BY LenProperties
  <1>3. q \in Seq(Item \cap (ArgItem \cup MarkItem))
    BY <1>1, <1>2
  <1> QED
    BY <1>3, SeqMonotonic

(* The replacement list of an object-like macro is tokens and its mark.    *)
LEMMA ObjectBody ==
  ASSUME NEW s, NEW n \in Names, GoodSym(s, n), s.arity = -1
  PROVE  MarkLast(s.body, n, Token) /\ s.body \in Seq(BodyItem \cup MarkItem)
  <1>1. s.body \in Seq(BodyItem \cup MarkItem)
    BY DEF GoodSym, Symbol
  <1>2. MarkLast(s.body, n, BodyItem)
    BY DEF GoodSym
  <1>3. ASSUME NEW p \in 1 .. Len(s.body) - 1
        PROVE  s.body[p] \in Token
    <2>1. s.body[p] \in BodyItem /\ p \in 1 .. Len(s.body)
      BY <1>1, <1>2, LenProperties DEF MarkLast
    <2>2. s.body[p].k = "formal" => s.body[p].i \in Nat \ {0}
      BY <2>1, BodyKinds DEF Formal
    <2>3. s.body[p].k \notin {"formal", "commava"}
      BY <2>1, <2>2 DEF GoodSym
    <2>4. s.body[p].k # "mark"
      BY <2>1 DEF BodyItem, Token, Punct, Formal, CommaVa
    <2> QED
      BY <2>1, <2>3, <2>4, BodyKinds
  <1> QED
    BY <1>1, <1>2, <1>3 DEF MarkLast

(* The branches of get() that meet a name (Scan.java:280) keep the types.  *)
LEMMA GetTypes ==
  ASSUME TypeInv, EmitPlain \/ EmitHidden \/ ExpandObject \/ MeetHead \/ EmitHead
  PROVE  TypeInv'
  <1>0. Top \in Frame /\ Top.pend \in Seq(Item) /\ TypeOK /\ (~AtEnd => Cur \in Item)
    BY TopFrame DEF TypeInv
  <1>1. CASE EmitPlain
    <2>1. ~AtEnd /\ Cur \in Token
      BY <1>0, <1>1, ItemKinds DEF EmitPlain, At
    <2> QED
      BY <1>1, <2>1, RestTypes, EmitTypes DEF EmitPlain
  <1>2. CASE EmitHidden
    <2>1. ~AtEnd /\ Painted(Cur.n) \in Token
      BY <1>0, <1>2, ItemKinds DEF EmitHidden, At, Painted, Token
    <2> QED
      BY <1>2, <2>1, RestTypes, EmitTypes DEF EmitHidden
  <1>3. CASE ExpandObject
    <2>1. ~AtEnd /\ Cur.n \in Names
      BY <1>0, <1>3, ItemKinds DEF ExpandObject, At
    <2>2. GoodSym(defs[Cur.n], Cur.n) /\ defs[Cur.n].arity = -1
      BY <1>3, <2>1 DEF ExpandObject, Sees, TypeInv, GoodTable
    <2>3. /\ defs[Cur.n].body \in Seq(Item)
          /\ defs[Cur.n].body \in Seq(ArgItem \cup MarkItem)
      BY <2>1, <2>2, ObjectBody, MarkLastTypes
    <2> QED
      BY <1>3, <2>1, <2>3, RestTypes, ReplaceSimpleTypes DEF ExpandObject
  <1>4. CASE MeetHead
    <2> DEFINE fr == [Top EXCEPT !.pend = Rest, !.mode = "head", !.call = NewCall]
    <2>1. MoveTop(fr)
      BY <1>4 DEF MeetHead
    <2>2. ~AtEnd /\ Cur.n \in Names
      BY <1>0, <1>4, ItemKinds DEF MeetHead, At
    <2>3. GoodSym(defs[Cur.n], Cur.n) /\ defs[Cur.n].arity >= 0
      BY <1>4, <2>2 DEF MeetHead, Sees, TypeInv, GoodTable
    <2>4. NewCall \in Call
      BY <2>2, <2>3 DEF NewCall, Call, GoodSym, Infos
    <2>5. fr \in Frame /\ fr.mode = "head" /\ fr.pend = Rest /\ fr.call = NewCall
      BY <1>0, <2>2, <2>4, RestTypes DEF Frame, Modes
    <2> HIDE DEF fr
    <2>6. GoodCall(fr)
      <3>1. 0 < Len(NewCall.sym.body) /\ <<>> \in Seq(Token)
        BY <2>3 DEF NewCall, GoodSym, MarkLast
      <3>2. /\ NewCall.n = Cur.n /\ NewCall.sym = defs[Cur.n] /\ NewCall.pos = 0
            /\ NewCall.res = <<>> /\ NewCall.exp = <<>> /\ NewCall.args = <<>>
        BY DEF NewCall
      <3> QED
        BY <2>3, <2>4, <2>5, <3>1, <3>2 DEF GoodCall
    <2> QED
      BY <2>1, <2>2, <2>5, <2>6, RestTypes, MoveTopTypes
  <1>5. CASE EmitHead
    <2>1. Top.call.n \in Names
      BY <1>5, TopCall DEF EmitHead, Running, Call
    <2>2. Id(Top.call.n) \in Token
      BY <2>1 DEF Id, Token
    <2> QED
      BY <1>0, <1>5, <2>2, TopPend, EmitTypes DEF EmitHead
  <1> QED
    BY <1>1, <1>2, <1>3, <1>4, <1>5

(* A parenthesis follows the name, and a macro with no parameters closes   *)
(* it at once.                                                             *)
LEMMA OpenTypes ==
  ASSUME TypeInv, OpenCall \/ CloseNullary
  PROVE  TypeInv'
  <1>0. /\ Top \in Frame /\ TypeOK /\ ~AtEnd /\ Top.mode \in {"head", "nullary"}
        /\ GoodCall(Top) /\ Top.call \in Call
    BY TopFrame, TopCall DEF TypeInv, OpenCall, CloseNullary, Running, At
  <1>1. CASE OpenCall /\ Top.call.sym.arity = 0
    <2> DEFINE fr == [Top EXCEPT !.pend = Rest, !.mode = "nullary"]
    <2>1. MoveTop(fr)
      BY <1>1 DEF OpenCall
    <2>2. fr \in Frame /\ fr.mode = "nullary" /\ fr.pend = Rest /\ fr.call = Top.call
      BY <1>0, RestTypes DEF Frame, Modes
    <2> HIDE DEF fr
    <2>3. GoodCall(fr)
      BY <1>0, <1>1, <2>2 DEF GoodCall
    <2> QED
      BY <1>0, <2>1, <2>2, <2>3, RestTypes, MoveTopTypes
  <1>2. CASE OpenCall /\ Top.call.sym.arity # 0
    <2> DEFINE fr == [Top EXCEPT !.pend = Rest, !.mode = "args",
                                 !.call.args = <<(<<>>)>>]
    <2>1. MoveTop(fr) /\ Top.mode = "head"
      BY <1>2 DEF OpenCall, Running
    <2>a. <<(<<>>)>> \in Seq(Seq(ArgItem)) /\ Len(<<(<<>>)>>) = 1
      OBVIOUS
    <2>2. /\ fr \in Frame /\ fr.mode = "args" /\ fr.pend = Rest
          /\ fr.call = [Top.call EXCEPT !.args = <<(<<>>)>>]
      BY <1>0, <2>a, RestTypes DEF Frame, Modes, Call
    <2> HIDE DEF fr
    <2>3. /\ fr.call \in Call /\ fr.call.n = Top.call.n
          /\ fr.call.sym = Top.call.sym /\ Len(fr.call.args) = 1
          /\ fr.call.exp = Top.call.exp /\ fr.call.pos = Top.call.pos
          /\ fr.call.res = Top.call.res
      BY <1>0, <2>a, <2>2 DEF Call
    <2>4. Top.call.sym.arity \in Nat
      BY <1>0 DEF GoodCall, GoodSym, Symbol
    <2>5. GoodCall(fr)
      BY <1>0, <1>2, <2>1, <2>2, <2>3, <2>4 DEF GoodCall
    <2> QED
      BY <1>0, <2>1, <2>2, <2>5, RestTypes, MoveTopTypes
  <1>3. CASE CloseNullary /\ At({"rp"})
    <2> DEFINE fr == [Top EXCEPT !.pend = Rest, !.mode = "expand"]
    <2>1. MoveTop(fr) /\ Top.mode = "nullary"
      BY <1>3 DEF CloseNullary, Running
    <2>2. fr \in Frame /\ fr.mode = "expand" /\ fr.pend = Rest /\ fr.call = Top.call
      BY <1>0, RestTypes DEF Frame, Modes
    <2> HIDE DEF fr
    <2>3. GoodCall(fr)
      <3>1. Top.call.args = <<>> /\ Top.call.exp = <<>> /\ Top.call.sym.arity = 0
        BY <1>0, <2>1 DEF GoodCall
      <3>2. Len(Top.call.args) = 0 /\ Len(Top.call.exp) = 0
        BY <3>1
      <3> QED
        BY <1>0, <2>1, <2>2, <3>1, <3>2 DEF GoodCall
    <2> QED
      BY <1>0, <2>1, <2>2, <2>3, RestTypes, MoveTopTypes
  <1>4. CASE CloseNullary /\ ~At({"rp"})
    <2>1. Raise("nullary")
      BY <1>4 DEF CloseNullary
    <2> QED
      BY <2>1, RaiseTypes
  <1> QED
    BY <1>1, <1>2, <1>3, <1>4

(* scanArgs: a token goes to the argument that is being read. *)
LEMMA AddToArgTypes ==
  ASSUME TypeInv, NEW t \in ArgItem, NEW nest \in Nat,
         NEW ev \in SUBSET {"redefined", "crossed", "unterminated", "stream"},
         Top.mode = "args", ~AtEnd, AddToArg(t, nest, ev)
  PROVE  TypeInv'
  <1>0. Top \in Frame /\ TypeOK /\ GoodCall(Top) /\ Top.call \in Call
    BY TopFrame, TopCall DEF TypeInv
  <1> DEFINE args == [Top.call.args EXCEPT ![NArgs] = Append(@, t)]
  <1> DEFINE fr == [Top EXCEPT !.pend = Rest, !.call.nest = nest,
                               !.call.args[NArgs] = Append(@, t)]
  <1>1. SetTop(fr) /\ events' = events \cup ev
        /\ UNCHANGED <<defs, hidden, once, text, ended, err>>
    BY DEF AddToArg
  <1>2. /\ Top.call.args \in Seq(Seq(ArgItem)) /\ Len(Top.call.args) \in Nat
        /\ NArgs = Len(Top.call.args) /\ NArgs \in 1 .. Len(Top.call.args)
    BY <1>0, LenProperties DEF GoodCall, Call, NArgs
  <1>3. Append(Top.call.args[NArgs], t) \in Seq(ArgItem)
    BY <1>2, ElementOfSeq, AppendProperties
  <1>4. args \in Seq(Seq(ArgItem)) /\ Len(args) = NArgs
    BY <1>2, <1>3, ExceptSeq
  <1>5. /\ fr \in Frame /\ fr.mode = "args" /\ fr.pend = Rest
        /\ fr.call = [Top.call EXCEPT !.nest = nest, !.args = args]
    <2>1. Rest \in Seq(Item)
      BY RestTypes
    <2> HIDE DEF args
    <2>2. [Top EXCEPT !.pend = Rest,
                      !.call = [Top.call EXCEPT !.nest = nest, !.args = args]] = fr
      BY <1>0 DEF Frame, Call, args
    <2>3. [Top.call EXCEPT !.nest = nest, !.args = args] \in Call
      BY <1>0, <1>4 DEF Call
    <2> HIDE DEF fr
    <2> QED
      BY <1>0, <2>1, <2>2, <2>3 DEF Frame
  <1> HIDE DEF args, fr
  <1>6. /\ fr.call \in Call /\ fr.call.n = Top.call.n
        /\ fr.call.sym = Top.call.sym /\ Len(fr.call.args) = NArgs
        /\ fr.call.exp = Top.call.exp /\ fr.call.pos = Top.call.pos
        /\ fr.call.res = Top.call.res
    BY <1>0, <1>4, <1>5 DEF Call
  <1>7. GoodCall(fr)
    BY <1>0, <1>2, <1>5, <1>6 DEF GoodCall
  <1>8. frames' \in Seq(Frame) /\ frames' # <<>> /\ Shape' /\ InnerScans'
    BY <1>1, <1>5, <1>7, RestTypes, TopMoves
  <1>9. GoodTable'
    BY <1>1 DEF TypeInv, GoodTable
  <1>10. TypeOK'
    BY <1>0, <1>1, <1>8 DEF TypeOK
  <1> QED
    BY <1>8, <1>9, <1>10 DEF TypeInv

(* The loop of scanArgs (Scan.java:465) keeps the types.                   *)
LEMMA ArgTypes ==
  ASSUME TypeInv, ArgToken \/ ArgStreamMarker \/ ArgComma \/ ArgParen
  PROVE  TypeInv'
  <1>0. /\ Top \in Frame /\ TypeOK /\ ~AtEnd /\ Top.mode = "args" /\ Cur \in Item
        /\ GoodCall(Top) /\ Top.call \in Call /\ Top.call.nest \in Nat
    BY TopFrame, TopCall
    DEF TypeInv, ArgToken, ArgStreamMarker, ArgComma, ArgParen, Running, At, Call
  <1>1. CASE ArgToken
    <2>1. Cur \in Token /\ (Cur.k = "id" => Painted(Cur.n) \in Token)
      BY <1>0, <1>1, ItemKinds DEF ArgToken, At, Punct, Painted, Token
    <2>2. (IF Cur.k = "id" /\ Cur.n \in hidden THEN Painted(Cur.n) ELSE Cur) \in ArgItem
      BY <2>1 DEF ArgItem
    <2> QED
      BY <1>0, <1>1, <2>2, AddToArgTypes DEF ArgToken
  <1>2. CASE ArgStreamMarker
    <2>1. Cur \in ArgItem
      BY <1>0, <1>2, ItemKinds DEF ArgStreamMarker, At, ArgItem
    <2> QED
      BY <1>0, <1>2, <2>1, AddToArgTypes DEF ArgStreamMarker
  <1>3. CASE ArgComma
    <2>0. Cur \in ArgItem
      BY <1>0, <1>3, ItemKinds DEF ArgComma, At, ArgItem, Punct
    <2>1. CASE Top.call.nest > 0 \/ (AtLastArg /\ Top.call.sym.vararg)
      <3>1. AddToArg(Cur, Top.call.nest, {})
        BY <1>3, <2>1 DEF ArgComma
      <3> QED
        BY <1>0, <2>0, <3>1, AddToArgTypes
    <2>2. CASE ~(Top.call.nest > 0 \/ (AtLastArg /\ Top.call.sym.vararg)) /\ AtLastArg
      <3>1. Raise("arity")
        BY <1>3, <2>2 DEF ArgComma
      <3> QED
        BY <3>1, RaiseTypes
    <2>3. CASE ~(Top.call.nest > 0 \/ (AtLastArg /\ Top.call.sym.vararg)) /\ ~AtLastArg
      <3> DEFINE args == Append(Top.call.args, <<>>)
      <3> DEFINE fr == [Top EXCEPT !.pend = Rest, !.call.args = Append(@, <<>>)]
      <3>1. MoveTop(fr)
        BY <1>3, <2>3 DEF ArgComma
      <3>2. args \in Seq(Seq(ArgItem)) /\ Len(args) = Len(Top.call.args) + 1
        <4>1. Top.call.args \in Seq(Seq(ArgItem)) /\ <<>> \in Seq(ArgItem)
          BY <1>0 DEF Call
        <4> QED
          BY <4>1, AppendProperties
      <3> HIDE DEF args
      <3>3. fr = [Top EXCEPT !.pend = Rest, !.call = [Top.call EXCEPT !.args = args]]
        BY <1>0 DEF Frame, Call, args
      <3>4. [Top.call EXCEPT !.args = args] \in Call
        BY <1>0, <3>2 DEF Call
      <3> HIDE DEF fr
      <3>5. /\ fr \in Frame /\ fr.mode = "args" /\ fr.pend = Rest
            /\ fr.call = [Top.call EXCEPT !.args = args]
        BY <1>0, <3>3, <3>4, RestTypes DEF Frame
      <3>6. /\ fr.call \in Call /\ fr.call.n = Top.call.n
            /\ fr.call.sym = Top.call.sym /\ fr.call.args = args
            /\ fr.call.exp = Top.call.exp /\ fr.call.pos = Top.call.pos
            /\ fr.call.res = Top.call.res
        BY <1>0, <3>4, <3>5 DEF Call
      <3>7. Len(args) \in 1 .. Top.call.sym.arity
        <4>1. Len(Top.call.args) \in 1 .. Top.call.sym.arity /\ Top.call.sym \in Symbol
          BY <1>0 DEF GoodCall, GoodSym
        <4>2. Top.call.sym.arity \in Int
          BY <4>1 DEF Symbol
        <4>3. Len(Top.call.args) # Top.call.sym.arity
          BY <2>3 DEF AtLastArg, NArgs
        <4> QED
          BY <3>2, <4>1, <4>2, <4>3
      <3>8. GoodCall(fr)
        BY <1>0, <3>5, <3>6, <3>7 DEF GoodCall
      <3> QED
        BY <3>1, <3>5, <3>8, <1>0, RestTypes, MoveTopTypes
    <2> QED
      BY <2>1, <2>2, <2>3
  <1>4. CASE ArgParen
    <2>1. Cur \in ArgItem
      BY <1>0, <1>4, ItemKinds DEF ArgParen, At, ArgItem, Punct
    <2>2. CASE AddToArg(Cur, Top.call.nest + 1, {})
      BY <1>0, <2>1, <2>2, AddToArgTypes
    <2>3. CASE Top.call.nest > 0 /\ AddToArg(Cur, Top.call.nest - 1, {})
      BY <1>0, <2>1, <2>3, AddToArgTypes
    <2> QED
      BY <1>4, <2>2, <2>3 DEF ArgParen
  <1> QED
    BY <1>1, <1>2, <1>3, <1>4

(* The call is read to its end: one list for every parameter. *)
LEMMA AllArgsTypes ==
  ASSUME TypeInv, Top.mode \in {"nullary", "args"}
  PROVE  /\ AllArgs \in Seq(Seq(ArgItem)) /\ Len(AllArgs) = Top.call.sym.arity
         /\ Top.call.sym.arity \in Nat
  <1>1. GoodCall(Top) /\ Top.call \in Call
    BY TopCall
  <1>2. Top.call.sym \in Symbol /\ Top.call.sym.arity >= 0
    BY <1>1 DEF GoodCall, GoodSym
  <1>3. Top.call.sym.arity \in Nat
    BY <1>2 DEF Symbol
  <1>4. Top.call.args \in Seq(Seq(ArgItem)) /\ NArgs = Len(Top.call.args) /\ NArgs \in Nat
    BY <1>1, LenProperties DEF Call, NArgs
  <1>5. ASSUME NEW i \in 1 .. Top.call.sym.arity
        PROVE  (IF i <= NArgs THEN Top.call.args[i] ELSE <<>>) \in Seq(ArgItem)
    BY <1>3, <1>4, ElementOfSeq
  <1>6. AllArgs \in [1 .. Top.call.sym.arity -> Seq(ArgItem)]
    BY <1>5 DEF AllArgs
  <1> QED
    BY <1>3, <1>6, LenProperties

(* When the arguments are collected there is one for every parameter       *)
(* (Scan.java:454).                                                        *)
LEMMA CollectedArgsTypes ==
  ASSUME TypeInv, Top.mode \in {"nullary", "args"}, NEW rest \in Seq(Item)
  PROVE  /\ CollectedArgs(rest) \in Frame
         /\ CollectedArgs(rest).mode = "expand" /\ CollectedArgs(rest).pend = rest
         /\ GoodCall(CollectedArgs(rest))
  <1>0. Top \in Frame /\ GoodCall(Top) /\ Top.call \in Call
    BY TopFrame, TopCall DEF TypeInv
  <1>1. /\ AllArgs \in Seq(Seq(ArgItem)) /\ Len(AllArgs) = Top.call.sym.arity
        /\ Top.call.sym.arity \in Nat
    BY AllArgsTypes
  <1>2. VarargInfo \in Infos
    BY DEF VarargInfo, Infos
  <1> DEFINE c == [Top.call EXCEPT !.args = AllArgs, !.nest = 0, !.info = VarargInfo]
  <1> DEFINE fr == CollectedArgs(rest)
  <1>3. c \in Call
    BY <1>0, <1>1, <1>2 DEF Call
  <1>4. fr = [Top EXCEPT !.pend = rest, !.mode = "expand", !.call = c]
    BY <1>0 DEF Frame, Call, CollectedArgs
  <1>5. /\ c.n = Top.call.n /\ c.sym = Top.call.sym /\ c.args = AllArgs
        /\ c.exp = Top.call.exp /\ c.pos = Top.call.pos /\ c.res = Top.call.res
    BY <1>0 DEF Call
  <1> HIDE DEF c, fr
  <1>6. fr \in Frame /\ fr.mode = "expand" /\ fr.pend = rest /\ fr.call = c
    BY <1>0, <1>3, <1>4 DEF Frame, Modes
  <1>7. Len(c.exp) <= c.sym.arity
    <2>1. Top.call.exp = <<>>
      BY <1>0 DEF GoodCall
    <2> QED
      BY <1>1, <1>5, <2>1
  <1>8. GoodCall(fr)
    BY <1>0, <1>1, <1>3, <1>5, <1>6, <1>7 DEF GoodCall
  <1> QED
    BY <1>6, <1>8 DEF fr

(* The end of a call, and the end of the input inside one, keep the types. *)
LEMMA CloseTypes ==
  ASSUME TypeInv, CloseArgs \/ RunOutOfArgs
  PROVE  TypeInv'
  <1>0. Top \in Frame /\ TypeOK
    BY TopFrame DEF TypeInv
  <1>1. CASE CloseArgs /\ (AtLastArg \/ Top.call.sym.vararg)
    <2>1. MoveTop(CollectedArgs(Rest)) /\ Top.mode = "args" /\ ~AtEnd
      BY <1>1 DEF CloseArgs, Running, At
    <2> QED
      BY <2>1, RestTypes, CollectedArgsTypes, MoveTopTypes
  <1>2. CASE CloseArgs /\ ~(AtLastArg \/ Top.call.sym.vararg)
    <2>1. Raise("arity")
      BY <1>2 DEF CloseArgs
    <2> QED
      BY <2>1, RaiseTypes
  <1>3. CASE RunOutOfArgs
    <2>1. SetTop(CollectedArgs(<<>>)) /\ Top.mode \in {"nullary", "args"}
      BY <1>3 DEF RunOutOfArgs, Running
    <2>2. <<>> \in Seq(Item) /\ <<>> \in Seq(ArgItem \cup MarkItem)
      OBVIOUS
    <2>3. frames' \in Seq(Frame) /\ frames' # <<>> /\ Shape' /\ InnerScans'
      BY <2>1, <2>2, CollectedArgsTypes, TopMoves
    <2>4. GoodTable'
      BY <1>3 DEF RunOutOfArgs, TypeInv, GoodTable
    <2>5. TypeOK'
      BY <1>0, <1>3, <2>3 DEF RunOutOfArgs, TypeOK
    <2> QED
      BY <2>3, <2>4, <2>5 DEF TypeInv
  <1> QED
    BY <1>1, <1>2, <1>3

(* One more argument is expanded. *)
LEMMA OneMoreExp ==
  ASSUME NEW fr \in Frame, GoodCall(fr), fr.mode = "expand",
         Len(fr.call.exp) < fr.call.sym.arity, NEW v \in Seq(Token)
  PROVE  LET fs == [fr EXCEPT !.call.exp = Append(@, v)]
         IN  /\ fs \in Frame /\ fs.mode = "expand" /\ fs.pend = fr.pend
             /\ GoodCall(fs)
             /\ fs.call.n = fr.call.n /\ fs.call.sym = fr.call.sym
             /\ fs.call.stale = fr.call.stale
  <1>0. fr.call \in Call
    BY DEF GoodCall
  <1> DEFINE e == Append(fr.call.exp, v)
  <1> DEFINE c == [fr.call EXCEPT !.exp = e]
  <1> DEFINE fs == [fr EXCEPT !.call.exp = Append(@, v)]
  <1>1. fr.call.exp \in Seq(Seq(Token))
    BY <1>0 DEF Call
  <1>2. e \in Seq(Seq(Token)) /\ Len(e) = Len(fr.call.exp) + 1 /\ Len(fr.call.exp) \in Nat
    BY <1>1, AppendProperties, LenProperties
  <1>3. fs = [fr EXCEPT !.call = c]
    BY DEF Frame
  <1> HIDE DEF e
  <1>4. /\ c \in Call /\ c.n = fr.call.n /\ c.sym = fr.call.sym /\ c.exp = e
        /\ c.args = fr.call.args /\ c.pos = fr.call.pos /\ c.res = fr.call.res
        /\ c.stale = fr.call.stale
    BY <1>0, <1>2 DEF Call
  <1> HIDE DEF c, fs
  <1>5. fs \in Frame /\ fs.mode = "expand" /\ fs.pend = fr.pend /\ fs.call = c
    BY <1>3, <1>4 DEF Frame
  <1>6. Len(c.exp) <= c.sym.arity
    <2>1. fr.call.sym.arity \in Int
      BY DEF GoodCall, GoodSym, Symbol
    <2> QED
      BY <1>2, <1>4, <2>1
  <1>7. GoodCall(fs)
    BY <1>4, <1>5, <1>6 DEF GoodCall
  <1> QED
    BY <1>4, <1>5, <1>7 DEF fs

(* The expansion of the arguments (Scan.java:352) keeps the types: the     *)
(* Scan below waits for the argument it asked for.                         *)
LEMMA ExpandTypes ==
  ASSUME TypeInv, SkipArg \/ ExpandArg \/ ArgExpanded
  PROVE  TypeInv'
  <1>0. /\ Top \in Frame /\ TypeOK /\ Depth \in Nat \ {0}
        /\ DOMAIN frames = 1 .. Depth /\ frames \in Seq(Frame) /\ Len(frames) = Depth
    BY TopFrame DEF TypeInv, TypeOK, Depth
  <1>1. ASSUME Expanding
        PROVE  /\ Top.mode = "expand" /\ GoodCall(Top) /\ Top.call \in Call
               /\ Len(Top.call.exp) < Top.call.sym.arity
               /\ NextArg \in 1 .. Len(Top.call.args)
    <2>1. Top.mode = "expand" /\ NextArg <= Top.call.sym.arity
      BY <1>1 DEF Expanding, Running
    <2>2. GoodCall(Top) /\ Top.call \in Call
      BY <2>1, TopCall
    <2>3. Len(Top.call.exp) \in Nat /\ Len(Top.call.args) = Top.call.sym.arity
      BY <2>1, <2>2, LenProperties DEF Call, GoodCall
    <2>4. Top.call.sym.arity \in Int
      BY <2>2 DEF GoodCall, GoodSym, Symbol
    <2> QED
      BY <2>1, <2>2, <2>3, <2>4 DEF NextArg
  <1>2. CASE SkipArg
    <2>1. Expanding
      BY <1>2 DEF SkipArg
    <2> DEFINE fr == [Top EXCEPT !.call.exp = Append(@, <<>>)]
    <2>2. MoveTop(fr)
      BY <1>2 DEF SkipArg
    <2>3. <<>> \in Seq(Token)
      OBVIOUS
    <2>4. fr \in Frame /\ fr.mode = "expand" /\ fr.pend = Top.pend /\ GoodCall(fr)
      BY <1>0, <1>1, <2>1, <2>3, OneMoreExp
    <2> HIDE DEF fr
    <2> QED
      BY <2>2, <2>4, TopPend, MoveTopTypes
  <1>3. CASE ExpandArg
    <2>1. Expanding
      BY <1>3 DEF ExpandArg
    <2> DEFINE a == Top.call.args[NextArg]
    <2> DEFINE fr == NewScan(a)
    <2>2. a \in Seq(ArgItem)
      BY <1>1, <2>1, ElementOfSeq DEF Call
    <2>3. a \in Seq(Item) /\ a \in Seq(ArgItem \cup MarkItem)
      BY <2>2, SeqMonotonic, ArgItems
    <2> HIDE DEF a
    <2>4. fr \in Frame /\ fr.mode = "get" /\ fr.pend = a
      BY <2>3 DEF NewScan, Frame, Modes
    <2>5. frames' = Append(frames, fr)
          /\ UNCHANGED <<defs, hidden, once, text, ended, err, events>>
      BY <1>3 DEF ExpandArg, a
    <2> HIDE DEF fr
    <2>6. /\ frames' \in Seq(Frame) /\ Len(frames') = Depth + 1
          /\ DOMAIN frames' = 1 .. Depth + 1
          /\ \A i \in 1 .. Depth : frames'[i] = frames[i]
          /\ frames'[Depth + 1] = fr
      BY <1>0, <2>4, <2>5, AppendProperties, LenProperties
    <2>7. frames' # <<>>
      BY <1>0, <2>6
    <2>8. \A i \in DOMAIN frames' : frames'[i].mode # "get" => GoodCall(frames'[i])
      BY <1>0, <2>4, <2>6 DEF TypeInv, Shape
    <2>9. ASSUME NEW i \in 1 .. Len(frames') - 1
          PROVE  frames'[i].mode = "expand"
                 /\ Len(frames'[i].call.exp) < frames'[i].call.sym.arity
      <3>1. CASE i = Depth
        BY <1>1, <2>1, <2>6, <3>1 DEF Top
      <3>2. CASE i # Depth
        BY <1>0, <2>6, <3>2 DEF TypeInv, Shape
      <3> QED
        BY <3>1, <3>2
    <2>10. Shape'
      BY <2>8, <2>9 DEF Shape, Depth, GoodCall, GoodSym, MarkLast
    <2>11. InnerScans'
      BY <1>0, <2>3, <2>4, <2>6 DEF TypeInv, InnerScans
    <2>12. GoodTable'
      BY <2>5 DEF TypeInv, GoodTable
    <2>13. TypeOK'
      BY <1>0, <2>5, <2>6, <2>7 DEF TypeOK
    <2> QED
      BY <2>10, <2>11, <2>12, <2>13 DEF TypeInv
  <1>4. CASE ArgExpanded
    <2>1. Depth - 1 \in 1 .. Depth /\ Depth > 1
      BY <1>0, <1>4 DEF ArgExpanded
    <2> DEFINE below == SubSeq(frames, 1, Depth - 1)
    <2>2. /\ below \in Seq(Frame) /\ Len(below) = Depth - 1
          /\ \A i \in 1 .. Depth - 1 : below[i] = frames[i]
      BY <1>0, <2>1, SubSeqProperties
    <2> DEFINE fr == [below[Depth - 1] EXCEPT !.call.exp = Append(@, Top.out)]
    <2>3. /\ below[Depth - 1] \in Frame /\ below[Depth - 1].mode = "expand"
          /\ GoodCall(below[Depth - 1]) /\ below[Depth - 1].pend = frames[Depth - 1].pend
          /\ Len(below[Depth - 1].call.exp) < below[Depth - 1].call.sym.arity
      BY <1>0, <2>1, <2>2, ElementOfSeq DEF TypeInv, Shape
    <2>4. Top.out \in Seq(Token)
      BY <1>0 DEF Frame
    <2>5. frames' = [below EXCEPT ![Depth - 1] = fr]
          /\ UNCHANGED <<defs, hidden, once, text, ended, err, events>>
      BY <1>4 DEF ArgExpanded
    <2>6. /\ fr \in Frame /\ fr.mode = "expand" /\ GoodCall(fr)
          /\ fr.pend = frames[Depth - 1].pend
      <3> HIDE DEF below
      <3> QED
        BY <2>3, <2>4, OneMoreExp
    <2> HIDE DEF fr, below
    <2>7. /\ frames' \in Seq(Frame) /\ Len(frames') = Depth - 1
          /\ \A i \in 1 .. Depth - 1 :
               frames'[i] = IF i = Depth - 1 THEN fr ELSE frames[i]
      BY <2>1, <2>2, <2>5, <2>6, ExceptSeq
    <2>8. DOMAIN frames' = 1 .. Depth - 1 /\ frames' # <<>>
      BY <1>0, <2>1, <2>7, LenProperties
    <2>9. \A i \in DOMAIN frames' : frames'[i].mode # "get" => GoodCall(frames'[i])
      BY <1>0, <2>6, <2>7, <2>8 DEF TypeInv, Shape
    <2>10. \A i \in 1 .. Len(frames') - 1 :
             frames'[i].mode = "expand"
               /\ Len(frames'[i].call.exp) < frames'[i].call.sym.arity
      BY <1>0, <2>1, <2>7 DEF TypeInv, Shape
    <2>11. Shape'
      BY <2>9, <2>10 DEF Shape, Depth, GoodCall, GoodSym, MarkLast
    <2>12. InnerScans'
      BY <1>0, <2>1, <2>6, <2>7, <2>8 DEF TypeInv, InnerScans
    <2>13. GoodTable'
      BY <2>5 DEF TypeInv, GoodTable
    <2>14. TypeOK'
      BY <1>0, <2>5, <2>7, <2>8 DEF TypeOK
    <2> QED
      BY <2>11, <2>12, <2>13, <2>14 DEF TypeInv
  <1> QED
    BY <1>2, <1>3, <1>4

(* What takes the place of one item of the replacement list. *)
LEMMA PieceTypes ==
  ASSUME TypeInv, Top.mode = "subst", Top.call.pos < Len(Top.call.sym.body)
  PROVE  LET p == Top.call.pos + 1
             b == Top.call.sym.body[p]
         IN  /\ p < Len(Top.call.sym.body) => Piece(b) \in Seq(Token)
             /\ p = Len(Top.call.sym.body) => Piece(b) = <<Mark(Top.call.n)>>
  <1> DEFINE c == Top.call
  <1> DEFINE p == c.pos + 1
  <1> DEFINE b == c.sym.body[p]
  <1>1. GoodCall(Top) /\ c \in Call
    BY TopCall
  <1>2. GoodSym(c.sym, c.n) /\ Len(c.exp) = c.sym.arity /\ c.sym.arity >= 0
    BY <1>1 DEF GoodCall
  <1>3. /\ c.exp \in Seq(Seq(Token)) /\ c.pos \in Nat /\ Len(c.exp) \in Nat
        /\ c.sym.body \in Seq(BodyItem \cup MarkItem) /\ Len(c.sym.body) \in Nat
    BY <1>1, <1>2, LenProperties DEF Call, GoodSym, Symbol
  <1>4. MarkLast(c.sym.body, c.n, BodyItem)
    BY <1>2 DEF GoodSym
  <1>5. p \in 1 .. Len(c.sym.body)
    BY <1>3
  <1>6. /\ b.k = "formal" => b.i <= c.sym.arity
        /\ b.k = "commava" => c.sym.arity > 0
    BY <1>2, <1>5 DEF GoodSym
  <1>7. CASE p < Len(c.sym.body)
    <2>1. b \in BodyItem
      <3>1. p \in 1 .. Len(c.sym.body) - 1
        BY <1>3, <1>5, <1>7
      <3> QED
        BY <1>4, <3>1 DEF MarkLast
    <2>2. ASSUME b.k = "formal"
          PROVE  Piece(b) \in Seq(Token)
      <3>1. b.i \in 1 .. Len(c.exp)
        <4>1. b.i \in Nat \ {0}
          BY <2>1, <2>2, BodyKinds DEF Formal
        <4> QED
          BY <1>2, <1>3, <1>6, <2>2, <4>1
      <3>2. c.exp[b.i] \in Seq(Token)
        BY <1>3, <3>1, ElementOfSeq
      <3>3. <<Tok("str")>> \in Seq(Token)
        BY DEF Tok, Token, Punct
      <3>4. Piece(b) = IF b.cat = "scanned" THEN c.exp[b.i] ELSE <<Tok("str")>>
        BY <2>2 DEF Piece
      <3> QED
        BY <3>2, <3>3, <3>4
    <2>3. ASSUME b.k = "commava"
          PROVE  Piece(b) \in Seq(Token)
      <3>1. c.sym.arity \in 1 .. Len(c.exp)
        BY <1>2, <1>3, <1>6, <2>3
      <3>2. c.exp[c.sym.arity] \in Seq(Token)
        BY <1>3, <3>1, ElementOfSeq
      <3>3. <<Tok("comma")>> \in Seq(Token) /\ <<>> \in Seq(Token)
        BY DEF Tok, Token, Punct
      <3>4. <<Tok("comma")>> \o c.exp[c.sym.arity] \in Seq(Token)
        BY <3>2, <3>3, ConcatProperties
      <3>5. Piece(b) = IF DeleteComma THEN <<>>
                       ELSE <<Tok("comma")>> \o c.exp[c.sym.arity]
        BY <2>3 DEF Piece
      <3> QED
        BY <3>3, <3>4, <3>5
    <2>4. ASSUME b.k \notin {"formal", "commava"}
          PROVE  Piece(b) \in Seq(Token)
      <3>1. b.k # "mark"
        BY <2>1 DEF BodyItem, Token, Punct, Formal, CommaVa
      <3>2. b \in Token
        BY <2>1, <2>4, <3>1, BodyKinds
      <3>3. Piece(b) = <<b>>
        BY <2>4 DEF Piece
      <3> QED
        BY <3>2, <3>3
    <2> QED
      BY <1>7, <2>2, <2>3, <2>4
  <1>8. CASE p = Len(c.sym.body)
    <2>1. b = Mark(c.n)
      BY <1>4, <1>8 DEF MarkLast
    <2>2. Piece(b) = <<b>>
      BY <2>1 DEF Piece, Mark
    <2> QED
      BY <1>8, <2>1, <2>2
  <1> QED
    BY <1>5, <1>7, <1>8

(* The loop over the replacement list (Scan.java:405) keeps the types:     *)
(* what it has built so far ends in the mark when the list does.           *)
LEMMA SubstTypes ==
  ASSUME TypeInv, StartSubst \/ Subst \/ Install
  PROVE  TypeInv'
  <1>0. /\ Top \in Frame /\ Top.pend \in Seq(Item) /\ TypeOK
        /\ Top.mode \in {"expand", "subst"} /\ GoodCall(Top) /\ Top.call \in Call
    BY TopFrame, TopCall DEF TypeInv, StartSubst, Subst, Install, Running
  <1>1. /\ Top.call.pos \in Nat /\ Len(Top.call.sym.body) \in Nat
        /\ Top.call.n \in Names
    BY <1>0, LenProperties DEF Call, GoodCall, GoodSym, Symbol
  <1>2. CASE StartSubst
    <2> DEFINE fr == [Top EXCEPT !.mode = "subst"]
    <2>1. MoveTop(fr) /\ Top.mode = "expand" /\ Len(Top.call.exp) + 1 > Top.call.sym.arity
      BY <1>2 DEF StartSubst, Running, NextArg
    <2>2. fr \in Frame /\ fr.mode = "subst" /\ fr.pend = Top.pend /\ fr.call = Top.call
      BY <1>0 DEF Frame, Modes
    <2> HIDE DEF fr
    <2>3. Len(Top.call.exp) = Top.call.sym.arity
      <3>1. Len(Top.call.exp) \in Nat /\ Top.call.sym.arity \in Int
        BY <1>0, LenProperties DEF Call, GoodCall, GoodSym, Symbol
      <3>2. Len(Top.call.exp) <= Top.call.sym.arity
        BY <1>0, <2>1 DEF GoodCall
      <3> QED
        BY <2>1, <3>1, <3>2
    <2>4. Top.call.pos <= Len(Top.call.sym.body)
      BY <1>0, <1>1, <2>1 DEF GoodCall
    <2>5. GoodCall(fr)
      BY <1>0, <2>1, <2>2, <2>3, <2>4 DEF GoodCall
    <2> QED
      BY <2>1, <2>2, <2>5, TopPend, MoveTopTypes
  <1>3. CASE Subst
    <2> DEFINE piece == Piece(Top.call.sym.body[Top.call.pos + 1])
    <2> DEFINE res == Top.call.res \o piece
    <2> DEFINE fr == [Top EXCEPT !.call.pos = @ + 1, !.call.res = @ \o piece]
    <2> DEFINE c == [Top.call EXCEPT !.pos = @ + 1, !.res = res]
    <2>1. MoveTop(fr) /\ Top.mode = "subst" /\ Top.call.pos < Len(Top.call.sym.body)
      BY <1>3 DEF Subst, Running
    <2>2. Top.call.res \in Seq(Token) /\ GoodSym(Top.call.sym, Top.call.n)
      BY <1>0, <2>1 DEF GoodCall
    <2>3. /\ Top.call.pos + 1 < Len(Top.call.sym.body) => piece \in Seq(Token)
          /\ Top.call.pos + 1 = Len(Top.call.sym.body) => piece = <<Mark(Top.call.n)>>
      BY <2>1, PieceTypes
    <2> HIDE DEF piece
    <2>4. Top.call.pos + 1 < Len(Top.call.sym.body) => res \in Seq(Token)
      BY <2>2, <2>3, ConcatProperties
    <2>5. Top.call.pos + 1 = Len(Top.call.sym.body) => MarkLast(res, Top.call.n, Token)
      <3> SUFFICES ASSUME Top.call.pos + 1 = Len(Top.call.sym.body)
                   PROVE  MarkLast(res, Top.call.n, Token)
        OBVIOUS
      <3>1. res = Append(Top.call.res, Mark(Top.call.n))
        <4>1. Top.call.res \in Seq(Token \cup MarkItem)
          BY <2>2, SeqMonotonic
        <4>2. Mark(Top.call.n) \in Token \cup MarkItem
          BY <1>1 DEF Mark, MarkItem
        <4>3. res = Top.call.res \o <<Mark(Top.call.n)>>
          BY <2>3
        <4> QED
          BY <4>1, <4>2, <4>3, AppendIsConcat
      <3>2. /\ Len(res) = Len(Top.call.res) + 1 /\ res[Len(res)] = Mark(Top.call.n)
            /\ \A p \in 1 .. Len(Top.call.res) : res[p] = Top.call.res[p]
            /\ Len(Top.call.res) \in Nat
        <4>1. Top.call.res \in Seq(Token \cup MarkItem)
          BY <2>2, SeqMonotonic
        <4>2. Mark(Top.call.n) \in Token \cup MarkItem
          BY <1>1 DEF Mark, MarkItem
        <4> HIDE DEF res
        <4> QED
          BY <3>1, <4>1, <4>2, AppendProperties, LenProperties
      <3>3. \A p \in 1 .. Len(Top.call.res) : Top.call.res[p] \in Token
        BY <2>2, ElementOfSeq
      <3> HIDE DEF res
      <3> QED
        BY <3>2, <3>3 DEF MarkLast
    <2>6. res \in Seq(Token \cup MarkItem)
      <3>1. Top.call.res \in Seq(Token \cup MarkItem)
        BY <2>2, SeqMonotonic
      <3>2. piece \in Seq(Token \cup MarkItem)
        <4>1. CASE Top.call.pos + 1 < Len(Top.call.sym.body)
          BY <2>3, <4>1, SeqMonotonic
        <4>2. CASE Top.call.pos + 1 = Len(Top.call.sym.body)
          <5>1. piece = <<Mark(Top.call.n)>>
            BY <2>3, <4>2
          <5>2. Mark(Top.call.n) \in Token \cup MarkItem
            BY <1>1 DEF Mark, MarkItem
          <5> QED
            BY <5>1, <5>2
        <4> QED
          BY <1>1, <2>1, <4>1, <4>2
      <3> QED
        BY <3>1, <3>2, ConcatProperties
    <2>7. fr = [Top EXCEPT !.call = c]
      <3>1. Top.call = [Top.call EXCEPT !.pos = Top.call.pos]
        BY <1>0 DEF Call
      <3> HIDE DEF piece
      <3> QED
        BY <1>0, <3>1 DEF Frame, Call
    <2> HIDE DEF res
    <2>8. /\ c \in Call /\ c.n = Top.call.n /\ c.sym = Top.call.sym
          /\ c.args = Top.call.args /\ c.exp = Top.call.exp
          /\ c.pos = Top.call.pos + 1 /\ c.res = res
      <3>1. Top.call.pos + 1 \in Nat
        BY <1>1
      <3> QED
        BY <1>0, <2>6, <3>1 DEF Call
    <2> HIDE DEF c, fr
    <2>9. fr \in Frame /\ fr.mode = "subst" /\ fr.pend = Top.pend /\ fr.call = c
      BY <1>0, <2>1, <2>7, <2>8 DEF Frame
    <2>10. c.pos <= Len(c.sym.body)
      BY <1>1, <2>1, <2>8
    <2>11. IF c.pos < Len(c.sym.body) THEN c.res \in Seq(Token)
           ELSE MarkLast(c.res, c.n, Token)
      BY <1>1, <2>1, <2>4, <2>5, <2>8
    <2>12. GoodCall(fr)
      BY <1>0, <2>1, <2>8, <2>9, <2>10, <2>11 DEF GoodCall
    <2> QED
      BY <2>1, <2>9, <2>12, TopPend, MoveTopTypes
  <1>4. CASE Install
    <2>1. ReplaceSimple(Top.call.n, Top.call.stale, Top.call.res, Top.pend)
          /\ Top.call.pos = Len(Top.call.sym.body)
      BY <1>4 DEF Install
    <2>2. MarkLast(Top.call.res, Top.call.n, Token)
      BY <1>0, <1>1, <2>1 DEF GoodCall
    <2>3. Top.call.res \in Seq(Token \cup MarkItem)
      BY <1>0 DEF Call
    <2>4. Top.call.res \in Seq(Item) /\ Top.call.res \in Seq(ArgItem \cup MarkItem)
      BY <1>1, <2>2, <2>3, MarkLastTypes
    <2> QED
      BY <1>0, <1>1, <2>1, <2>4, TopPend, ReplaceSimpleTypes
  <1> QED
    BY <1>2, <1>3, <1>4

(* No step leaves the types, the shape of the calls and of their stack. *)
LEMMA StepTypes == TypeInv /\ [Next]_vars => TypeInv'
  <1> SUFFICES ASSUME TypeInv, [Next]_vars PROVE TypeInv'
    OBVIOUS
  <1>1. CASE Step
    BY <1>1, SourceTypes, StreamTypes, DirectiveTypes, UnhideTypes, GetTypes,
       OpenTypes, ArgTypes, CloseTypes, ExpandTypes, SubstTypes DEF Step
  <1>2. CASE UNCHANGED vars
    BY <1>2 DEF vars, TypeInv, TypeOK, GoodTable, Shape, InnerScans, Depth,
                GoodCall, GoodSym, MarkLast
  <1> QED
    BY <1>1, <1>2 DEF Next, Terminating

(* Types, shape of the calls, contents of the macro table and of the       *)
(* nested Scans, at every step of every run of Scan.get (Scan.java:251).   *)
THEOREM TypeInvHolds == Spec => []TypeInv
  BY InitTypes, StepTypes, PTL DEF Spec

(* Every variable keeps its type, whatever is defined and included: in     *)
(* particular no mark ever gets into an argument (Scan.java:465), and no   *)
(* Scan that waits for an argument finds its call changed.                 *)
THEOREM TypeCorrect == Spec => []TypeOK
  <1>1. TypeInv => TypeOK
    BY DEF TypeInv
  <1> QED
    BY <1>1, TypeInvHolds, PTL

-----------------------------------------------------------------------------
(* The marks and the hidden macros.  Every step does one of five things to *)
(* the queues: it takes an item that is no mark, takes a mark, puts in a   *)
(* replacement, changes the queue of the program while no mark is left in  *)
(* it, or adds or removes the Scan of an argument.                         *)

MarkInv == /\ MarksFirst /\ HeadsUnmarked
           /\ MarksMatchHidden /\ SymAssertions /\ HeldSymIsCurrent

(* What a call needs to be installed. *)
Unmarked(n) ==
  \A j \in DOMAIN frames : \A p \in DOMAIN frames[j].pend :
    frames[j].pend[p] # Mark(n)

Installable(c) == ~c.stale /\ defs[c.n] = c.sym /\ Unmarked(c.n)

(* A mark names one macro.                                                 *)
LEMMA MarkNames ==
  /\ \A n, m : Mark(n) = Mark(m) => n = m
  /\ \A n : Mark(n).k = "mark"
  BY DEF Mark

(* An item of the kind of marks is the mark of a macro.                    *)
LEMMA MarkOfItem ==
  ASSUME NEW it \in Item, it.k = "mark"
  PROVE  it.n \in Names /\ it = Mark(it.n)
  BY ItemKinds DEF MarkItem, Mark

(* Every running Scan has a queue of items.                                *)
LEMMA Pends ==
  ASSUME TypeOK, NEW i \in DOMAIN frames
  PROVE  /\ i \in 1 .. Depth /\ frames[i] \in Frame
         /\ frames[i].pend \in Seq(Item) /\ Len(frames[i].pend) \in Nat
         /\ DOMAIN frames[i].pend = 1 .. Len(frames[i].pend)
         /\ \A p \in DOMAIN frames[i].pend : frames[i].pend[p] \in Item
  <1>1. i \in 1 .. Depth /\ frames[i] \in Frame
    BY TopFrame, ElementOfSeq DEF TypeOK, Depth
  <1>2. frames[i].pend \in Seq(Item)
    BY <1>1 DEF Frame
  <1> QED
    BY <1>1, <1>2, LenProperties, ElementOfSeq

(* While no call has been redefined, the macro of the call on top can be   *)
(* hidden.                                                                 *)
LEMMA TopInstallable ==
  ASSUME TypeOK, MarkInv, Undisturbed, Top.mode # "get"
  PROVE  Installable(Top.call)
  <1>1. Depth \in DOMAIN frames /\ DOMAIN frames = 1 .. Depth /\ Top = frames[Depth]
    BY TopFrame DEF Top
  <1> QED
    BY <1>1 DEF MarkInv, HeadsUnmarked, HeldSymIsCurrent, Installable, Unmarked

(* A macro that is not hidden and that is in the table can be hidden       *)
(* (Sym.java:84).                                                          *)
LEMMA UnhiddenInstallable ==
  ASSUME TypeOK, MarkInv, Undisturbed, NEW c, c.n \in Names, c.n \notin hidden,
         ~c.stale, defs[c.n] = c.sym
  PROVE  Installable(c)
  BY DEF MarkInv, MarksMatchHidden, MarkAt, Installable, Unmarked

(* The Scan on top moves on by k items: what stands where in its queue.    *)
Shift(i, k) == IF i = Depth THEN k ELSE 0

(* When the Scan on top moves on by k items, every item keeps its place    *)
(* among those left, so that no mark overtakes a directive.                *)
LEMMA Shifted ==
  ASSUME TypeInv, MarksFirst, NEW fr \in Frame, SetTop(fr), NEW k \in {0, 1},
         Len(fr.pend) = Len(Top.pend) - k,
         \A p \in 1 .. Len(fr.pend) : fr.pend[p] = Top.pend[p + k]
  PROVE  /\ \A i \in DOMAIN frames' : \A p \in DOMAIN frames'[i].pend :
              /\ p \in Nat /\ Shift(i, k) \in {0, 1}
              /\ p + Shift(i, k) \in DOMAIN frames[i].pend
              /\ frames'[i].pend[p] = frames[i].pend[p + Shift(i, k)]
         /\ \A i \in DOMAIN frames : \A q \in DOMAIN frames[i].pend :
              \/ i = Depth /\ k = 1 /\ q = 1
              \/ /\ q \in Nat /\ q - Shift(i, k) \in DOMAIN frames'[i].pend
                 /\ frames'[i].pend[q - Shift(i, k)] = frames[i].pend[q]
         /\ MarksFirst'
  <1>0. TypeOK
    BY DEF TypeInv
  <1>1. /\ Len(frames') = Depth /\ DOMAIN frames' = 1 .. Depth
        /\ frames'[Depth] = fr
        /\ \A i \in 1 .. Depth : i # Depth => frames'[i] = frames[i]
    BY <1>0, SetTopFrames
  <1>2. /\ DOMAIN frames = 1 .. Depth /\ Depth \in Nat \ {0} /\ Top = frames[Depth]
        /\ Top.pend \in Seq(Item)
    BY <1>0, TopFrame DEF Top
  <1>3. fr.pend \in Seq(Item) /\ DOMAIN fr.pend = 1 .. Len(fr.pend) /\ Len(fr.pend) \in Nat
    BY LenProperties DEF Frame
  <1>4. ASSUME NEW j \in DOMAIN frames', NEW p \in DOMAIN frames'[j].pend
        PROVE  /\ p \in Nat /\ Shift(j, k) \in {0, 1}
               /\ p + Shift(j, k) \in DOMAIN frames[j].pend
               /\ frames'[j].pend[p] = frames[j].pend[p + Shift(j, k)]
    <2>1. CASE j = Depth
      <3>1. DOMAIN Top.pend = 1 .. Len(Top.pend) /\ Len(Top.pend) \in Nat
        BY <1>2, LenProperties
      <3>2. p \in 1 .. Len(fr.pend)
        BY <1>1, <1>3, <2>1
      <3>3. p \in Nat /\ p + k \in 1 .. Len(Top.pend)
        BY <3>1, <3>2
      <3>4. frames'[j].pend[p] = Top.pend[p + k]
        BY <1>1, <2>1, <3>2
      <3>5. Shift(j, k) = k /\ frames[j] = Top
        BY <1>2, <2>1 DEF Shift
      <3> QED
        BY <3>1, <3>3, <3>4, <3>5
    <2>2. CASE j # Depth
      BY <1>0, <1>1, <1>2, <2>2, Pends DEF Shift
    <2> QED
      BY <2>1, <2>2
  <1>5. ASSUME NEW j \in DOMAIN frames, NEW q \in DOMAIN frames[j].pend,
               ~(j = Depth /\ k = 1 /\ q = 1)
        PROVE  /\ q \in Nat /\ q - Shift(j, k) \in DOMAIN frames'[j].pend
               /\ frames'[j].pend[q - Shift(j, k)] = frames[j].pend[q]
    <2>1. q \in 1 .. Len(frames[j].pend) /\ Len(frames[j].pend) \in Nat
      BY <1>0, Pends
    <2>2. CASE j = Depth
      <3>1. Len(fr.pend) = Len(frames[j].pend) - k /\ frames'[j] = fr
        BY <1>1, <1>2, <2>2
      <3>2. k = 1 => q # 1
        BY <1>5, <2>2
      <3>3. q - k \in 1 .. Len(fr.pend) /\ (q - k) + k = q
        BY <2>1, <3>1, <3>2
      <3>4. Shift(j, k) = k /\ frames[j] = Top
        BY <1>2, <2>2 DEF Shift
      <3>5. fr.pend[q - k] = Top.pend[q]
        <4>1. fr.pend[q - k] = Top.pend[(q - k) + k]
          BY <3>3
        <4> QED
          BY <4>1, <3>3
      <3> QED
        BY <1>3, <2>1, <3>1, <3>3, <3>4, <3>5
    <2>3. CASE j # Depth
      BY <1>1, <1>2, <2>1, <2>3 DEF Shift
    <2> QED
      BY <2>2, <2>3
  <1>6. MarksFirst'
    <2> SUFFICES ASSUME NEW i \in DOMAIN frames',
                        NEW p \in DOMAIN frames'[i].pend, NEW q \in DOMAIN frames'[i].pend,
                        p < q, frames'[i].pend[p].k \in Barrier
                 PROVE  frames'[i].pend[q].k # "mark"
      BY DEF MarksFirst
    <2>1. i \in DOMAIN frames
      BY <1>1, <1>2
    <2>2. p + Shift(i, k) < q + Shift(i, k)
      BY <1>4
    <2> QED
      BY <1>4, <2>1, <2>2 DEF MarksFirst
  <1> QED
    BY <1>4, <1>5, <1>6

(* rest is what the Scan on top has still to read when it has taken k      *)
(* items, no mark among them.                                                *)
MovesOn(rest, k) ==
  /\ Len(rest) = Len(Top.pend) - k
  /\ \A p \in 1 .. Len(rest) : rest[p] = Top.pend[p + k]
  /\ k = 1 => Top.pend[1].k # "mark"

(* It takes no mark. *)
LEMMA KeepsMarks ==
  ASSUME TypeInv, MarkInv, NEW fr \in Frame, SetTop(fr), NEW k \in {0, 1},
         MovesOn(fr.pend, k),
         fr.mode # "get" /\ Undisturbed => Installable(fr.call),
         Undisturbed' => Undisturbed,
         UNCHANGED <<defs, hidden>>, err' = err
  PROVE  MarkInv'
  <1>a. /\ Len(fr.pend) = Len(Top.pend) - k
        /\ \A p \in 1 .. Len(fr.pend) : fr.pend[p] = Top.pend[p + k]
        /\ k = 1 => Top.pend[1].k # "mark"
    BY DEF MovesOn
  <1>0. TypeOK
    BY DEF TypeInv
  <1>1. /\ Len(frames') = Depth /\ DOMAIN frames' = 1 .. Depth
        /\ frames'[Depth] = fr
        /\ \A i \in 1 .. Depth : i # Depth => frames'[i] = frames[i]
    BY <1>0, SetTopFrames
  <1>2. DOMAIN frames = 1 .. Depth /\ Depth \in Nat \ {0} /\ Top = frames[Depth]
    BY <1>0, TopFrame DEF Top
  <1>4. \A i \in DOMAIN frames' : \A p \in DOMAIN frames'[i].pend :
           /\ p \in Nat /\ Shift(i, k) \in {0, 1}
           /\ p + Shift(i, k) \in DOMAIN frames[i].pend
           /\ frames'[i].pend[p] = frames[i].pend[p + Shift(i, k)]
    BY <1>a, Shifted DEF MarkInv
  <1>5. ASSUME NEW i \in DOMAIN frames, NEW q \in DOMAIN frames[i].pend,
               frames[i].pend[q].k = "mark"
        PROVE  /\ q - Shift(i, k) \in DOMAIN frames'[i].pend
               /\ frames'[i].pend[q - Shift(i, k)] = frames[i].pend[q]
    <2>1. ~(i = Depth /\ k = 1 /\ q = 1)
      BY <1>2, <1>5, <1>a
    <2> QED
      BY <1>a, <2>1, Shifted DEF MarkInv
  <1>6. MarksFirst'
    BY <1>a, Shifted DEF MarkInv
  <1>7. ASSUME Undisturbed', NEW n \in Names
        PROVE  n \in hidden' <=> \E i \in DOMAIN frames' :
                  \E p \in DOMAIN frames'[i].pend : frames'[i].pend[p] = Mark(n)
    <2>1. n \in hidden <=> \E i \in DOMAIN frames :
                  \E p \in DOMAIN frames[i].pend : frames[i].pend[p] = Mark(n)
      BY <1>7 DEF MarkInv, MarksMatchHidden, MarkAt
    <2>2. ASSUME NEW i \in DOMAIN frames', NEW p \in DOMAIN frames'[i].pend,
                 frames'[i].pend[p] = Mark(n)
          PROVE  n \in hidden
      BY <1>1, <1>2, <1>4, <2>1, <2>2
    <2>3. ASSUME NEW i \in DOMAIN frames, NEW q \in DOMAIN frames[i].pend,
                 frames[i].pend[q] = Mark(n)
          PROVE  \E j \in DOMAIN frames' :
                   \E p \in DOMAIN frames'[j].pend : frames'[j].pend[p] = Mark(n)
      BY <1>1, <1>2, <1>5, <2>3, MarkNames
    <2> QED
      BY <2>1, <2>2, <2>3
  <1>8. ASSUME Undisturbed', NEW n \in Names,
               NEW i \in DOMAIN frames', NEW j \in DOMAIN frames',
               NEW p \in DOMAIN frames'[i].pend, NEW q \in DOMAIN frames'[j].pend,
               frames'[i].pend[p] = Mark(n), frames'[j].pend[q] = Mark(n)
        PROVE  i = j /\ p = q
    <2>1. i \in DOMAIN frames /\ j \in DOMAIN frames
      BY <1>1, <1>2
    <2>2. /\ p + Shift(i, k) \in DOMAIN frames[i].pend
          /\ frames[i].pend[p + Shift(i, k)] = Mark(n)
          /\ q + Shift(j, k) \in DOMAIN frames[j].pend
          /\ frames[j].pend[q + Shift(j, k)] = Mark(n)
      BY <1>4, <1>8
    <2>3. i = j /\ p + Shift(i, k) = q + Shift(j, k)
      BY <1>8, <2>1, <2>2 DEF MarkInv, MarksMatchHidden, MarkAt
    <2> QED
      BY <1>4, <2>3
  <1>9. MarksMatchHidden'
    BY <1>7, <1>8 DEF MarksMatchHidden, MarkAt
  <1>10. ASSUME Undisturbed', NEW i \in DOMAIN frames', frames'[i].mode # "get"
         PROVE  /\ ~frames'[i].call.stale
                /\ defs'[frames'[i].call.n] = frames'[i].call.sym
                /\ \A j \in 1 .. i : \A q \in DOMAIN frames[j].pend :
                     frames[j].pend[q] # Mark(frames'[i].call.n)
    <2>1. CASE i = Depth
      BY <1>1, <1>2, <1>10, <2>1 DEF Installable, Unmarked
    <2>2. CASE i # Depth
      BY <1>1, <1>2, <1>10, <2>2 DEF MarkInv, HeadsUnmarked, HeldSymIsCurrent
    <2> QED
      BY <2>1, <2>2
  <1>11. HeadsUnmarked'
    <2> SUFFICES ASSUME Undisturbed', NEW i \in DOMAIN frames', frames'[i].mode # "get",
                        NEW j \in 1 .. i, NEW p \in DOMAIN frames'[j].pend
                 PROVE  frames'[j].pend[p] # Mark(frames'[i].call.n)
      BY <1>10 DEF HeadsUnmarked
    <2>1. j \in DOMAIN frames'
      BY <1>1, <1>2
    <2> QED
      BY <1>4, <1>10, <2>1
  <1>12. HeldSymIsCurrent'
    BY <1>10 DEF HeldSymIsCurrent
  <1>13. SymAssertions'
    BY DEF MarkInv, SymAssertions
  <1> QED
    BY <1>6, <1>9, <1>11, <1>12, <1>13 DEF MarkInv

(* It takes a mark, and the macro is visible again. *)
LEMMA TakesMark ==
  ASSUME TypeInv, MarkInv, Unhide
  PROVE  MarkInv'
  <1>0. TypeOK /\ ~AtEnd /\ Cur.k = "mark"
    BY DEF TypeInv, Unhide, At
  <1>1. /\ Cur \in Item /\ Cur = Top.pend[1] /\ Rest \in Seq(Item)
        /\ Len(Rest) = Len(Top.pend) - 1
        /\ \A p \in 1 .. Len(Rest) : Rest[p] = Top.pend[p + 1]
        /\ DOMAIN frames = 1 .. Depth /\ Depth \in Nat \ {0} /\ Top = frames[Depth]
        /\ Top \in Frame /\ Top.pend \in Seq(Item)
    BY <1>0, TopFrame DEF Top
  <1> DEFINE m == Cur.n
  <1>2. m \in Names /\ Top.pend[1] = Mark(m)
    BY <1>0, <1>1, MarkOfItem
  <1>3. Depth \in DOMAIN frames /\ 1 \in DOMAIN frames[Depth].pend
        /\ frames[Depth].pend[1] = Mark(m)
    <2>1. Len(Top.pend) \in Nat \ {0} /\ DOMAIN Top.pend = 1 .. Len(Top.pend)
      BY <1>0, <1>1, LenProperties, EmptySeq DEF AtEnd
    <2> QED
      BY <1>1, <1>2, <2>1
  <1>4. Undisturbed => m \in hidden
    BY <1>2, <1>3 DEF MarkInv, MarksMatchHidden, MarkAt
  <1>5. CASE m \notin hidden
    <2>1. ~Undisturbed /\ UNCHANGED <<events, frames>>
      BY <1>4, <1>5 DEF Unhide, Raise
    <2>2. ~Undisturbed' /\ MarksFirst'
      BY <2>1 DEF MarkInv, MarksFirst, Undisturbed
    <2> QED
      BY <2>2 DEF MarkInv, HeadsUnmarked, MarksMatchHidden, SymAssertions, HeldSymIsCurrent
  <1>6. CASE m \in hidden
    <2> DEFINE fr == [Top EXCEPT !.pend = Rest]
    <2>1. /\ SetTop(fr) /\ hidden' = hidden \ {m} /\ defs' = defs /\ err' = err
          /\ Undisturbed' => Undisturbed
      BY <1>6 DEF Unhide, Undisturbed
    <2>2. fr \in Frame /\ fr.pend = Rest /\ fr.mode = Top.mode /\ fr.call = Top.call
      BY <1>1, PendFrame
    <2> HIDE DEF fr
    <2>3. /\ DOMAIN frames' = 1 .. Depth /\ frames'[Depth] = fr
          /\ \A i \in 1 .. Depth : i # Depth => frames'[i] = frames[i]
      BY <1>0, <2>1, <2>2, SetTopFrames
    <2>4. /\ \A i \in DOMAIN frames' : \A p \in DOMAIN frames'[i].pend :
               /\ p \in Nat /\ Shift(i, 1) \in {0, 1}
               /\ p + Shift(i, 1) \in DOMAIN frames[i].pend
               /\ frames'[i].pend[p] = frames[i].pend[p + Shift(i, 1)]
          /\ \A i \in DOMAIN frames : \A q \in DOMAIN frames[i].pend :
               \/ i = Depth /\ q = 1
               \/ /\ q \in Nat /\ q - Shift(i, 1) \in DOMAIN frames'[i].pend
                  /\ frames'[i].pend[q - Shift(i, 1)] = frames[i].pend[q]
          /\ MarksFirst'
      BY <1>1, <2>1, <2>2, Shifted DEF MarkInv
    <2>5. ASSUME Undisturbed', NEW n \in Names,
                 NEW i \in DOMAIN frames', NEW j \in DOMAIN frames',
                 NEW p \in DOMAIN frames'[i].pend, NEW q \in DOMAIN frames'[j].pend,
                 frames'[i].pend[p] = Mark(n), frames'[j].pend[q] = Mark(n)
          PROVE  i = j /\ p = q
      <3>1. i \in DOMAIN frames /\ j \in DOMAIN frames
        BY <1>1, <2>3
      <3>2. /\ p + Shift(i, 1) \in DOMAIN frames[i].pend
            /\ frames[i].pend[p + Shift(i, 1)] = Mark(n)
            /\ q + Shift(j, 1) \in DOMAIN frames[j].pend
            /\ frames[j].pend[q + Shift(j, 1)] = Mark(n)
        BY <2>4, <2>5
      <3>3. i = j /\ p + Shift(i, 1) = q + Shift(j, 1)
        BY <2>1, <2>5, <3>1, <3>2 DEF MarkInv, MarksMatchHidden, MarkAt
      <3> QED
        BY <2>4, <3>3
    <2>6. ASSUME Undisturbed', NEW i \in DOMAIN frames', NEW p \in DOMAIN frames'[i].pend
          PROVE  frames'[i].pend[p] # Mark(m)
      <3> SUFFICES ASSUME frames'[i].pend[p] = Mark(m)
                   PROVE  FALSE
        OBVIOUS
      <3>1. i \in DOMAIN frames /\ p \in Nat
            /\ p + Shift(i, 1) \in DOMAIN frames[i].pend
            /\ frames[i].pend[p + Shift(i, 1)] = Mark(m)
        BY <1>1, <2>3, <2>4
      <3>2. i = Depth /\ p + Shift(i, 1) = 1
        BY <1>2, <1>3, <2>1, <2>6, <3>1 DEF MarkInv, MarksMatchHidden, MarkAt
      <3>3. p \in 1 .. Len(Rest)
        BY <2>2, <2>3, <1>1, <3>2, LenProperties
      <3> QED
        BY <3>2, <3>3 DEF Shift
    <2>7. ASSUME Undisturbed', NEW n \in Names
          PROVE  n \in hidden' <=> \E i \in DOMAIN frames' :
                    \E p \in DOMAIN frames'[i].pend : frames'[i].pend[p] = Mark(n)
      <3>1. n \in hidden <=> \E i \in DOMAIN frames :
                    \E p \in DOMAIN frames[i].pend : frames[i].pend[p] = Mark(n)
        BY <2>1, <2>7 DEF MarkInv, MarksMatchHidden, MarkAt
      <3>2. CASE n = m
        BY <2>1, <2>6, <2>7, <3>2
      <3>3. CASE n # m
        <4>1. ASSUME NEW i \in DOMAIN frames', NEW p \in DOMAIN frames'[i].pend,
                     frames'[i].pend[p] = Mark(n)
              PROVE  n \in hidden
          BY <1>1, <2>3, <2>4, <3>1, <4>1
        <4>2. ASSUME NEW i \in DOMAIN frames, NEW q \in DOMAIN frames[i].pend,
                     frames[i].pend[q] = Mark(n)
              PROVE  \E j \in DOMAIN frames' :
                       \E p \in DOMAIN frames'[j].pend : frames'[j].pend[p] = Mark(n)
          <5>1. ~(i = Depth /\ q = 1)
            BY <1>3, <3>3, <4>2, MarkNames
          <5> QED
            BY <1>1, <2>3, <2>4, <4>2, <5>1
        <4> QED
          BY <2>1, <3>1, <3>3, <4>1, <4>2
      <3> QED
        BY <3>2, <3>3
    <2>8. MarksMatchHidden'
      BY <2>5, <2>7 DEF MarksMatchHidden, MarkAt
    <2>9. ASSUME NEW i \in DOMAIN frames'
          PROVE  i \in DOMAIN frames /\ frames'[i].mode = frames[i].mode
                 /\ frames'[i].call = frames[i].call
      BY <1>1, <2>2, <2>3
    <2>10. HeadsUnmarked'
      <3> SUFFICES ASSUME Undisturbed', NEW i \in DOMAIN frames', frames'[i].mode # "get"
                   PROVE  /\ ~frames'[i].call.stale
                          /\ \A j \in 1 .. i : \A p \in DOMAIN frames'[j].pend :
                               frames'[j].pend[p] # Mark(frames'[i].call.n)
        BY DEF HeadsUnmarked
      <3>1. \A j \in 1 .. i : \A p \in DOMAIN frames[j].pend :
              frames[j].pend[p] # Mark(frames[i].call.n)
        BY <2>1, <2>9 DEF MarkInv, HeadsUnmarked
      <3>2. 1 .. i \subseteq DOMAIN frames'
        BY <1>1, <2>3
      <3>3. ~frames[i].call.stale
        BY <2>1, <2>9 DEF MarkInv, HeadsUnmarked
      <3> QED
        BY <2>4, <2>9, <3>1, <3>2, <3>3
    <2>11. HeldSymIsCurrent'
      BY <2>1, <2>9 DEF MarkInv, HeldSymIsCurrent
    <2>12. SymAssertions'
      BY <2>1 DEF MarkInv, SymAssertions
    <2> QED
      BY <2>4, <2>8, <2>10, <2>11, <2>12 DEF MarkInv
  <1> QED
    BY <1>5, <1>6

(* An exception leaves everything as it was. *)
LEMMA RaiseKeepsMarks ==
  ASSUME MarkInv, NEW e, Raise(e), Undisturbed => e \notin {"hide", "unhide"}
  PROVE  MarkInv'
  <1>1. UNCHANGED <<defs, hidden, frames, events>> /\ err' = e
    BY DEF Raise
  <1>2. (Undisturbed' <=> Undisturbed) /\ SymAssertions'
    BY <1>1 DEF Undisturbed, SymAssertions
  <1>3. MarksFirst' /\ HeadsUnmarked' /\ MarksMatchHidden' /\ HeldSymIsCurrent'
    BY <1>1, <1>2 DEF MarkInv, MarksFirst, HeadsUnmarked, MarksMatchHidden, MarkAt,
                      HeldSymIsCurrent
  <1> QED
    BY <1>2, <1>3 DEF MarkInv

(* No mark is left in the queue of the program, before and after: nothing  *)
(* is hidden, and the table may change.                                    *)
LEMMA NoMarksLeft ==
  ASSUME TypeInv, MarkInv, Depth = 1, NEW fr \in Frame, SetTop(fr),
         \A p \in DOMAIN Top.pend : Top.pend[p].k # "mark",
         \A p \in DOMAIN fr.pend : fr.pend[p].k # "mark",
         fr.mode # "get" /\ Undisturbed' =>
           ~fr.call.stale /\ defs'[fr.call.n] = fr.call.sym,
         Undisturbed' => Undisturbed,
         hidden' \subseteq hidden, err' = err
  PROVE  MarkInv' /\ (Undisturbed => hidden = {})
  <1>0. TypeOK
    BY DEF TypeInv
  <1>1. DOMAIN frames' = {1} /\ frames'[1] = fr
    BY <1>0, SetTopFrames
  <1>2. DOMAIN frames = {1} /\ frames[1] = Top
    BY <1>0, TopFrame DEF Top
  <1>3. Undisturbed => hidden = {}
    <2> SUFFICES ASSUME Undisturbed, NEW n \in hidden PROVE FALSE
      OBVIOUS
    <2>1. n \in Names
      BY <1>0 DEF TypeOK
    <2>2. PICK i \in DOMAIN frames : \E p \in DOMAIN frames[i].pend : frames[i].pend[p] = Mark(n)
      BY <2>1 DEF MarkInv, MarksMatchHidden, MarkAt
    <2> QED
      BY <1>2, <2>2, MarkNames
  <1>4. \A i \in DOMAIN frames' : \A p \in DOMAIN frames'[i].pend :
          frames'[i].pend[p].k # "mark"
    BY <1>1
  <1>5. MarksFirst'
    BY <1>4 DEF MarksFirst
  <1>6. \A n \in Names : \A i \in DOMAIN frames' : \A p \in DOMAIN frames'[i].pend :
          frames'[i].pend[p] # Mark(n)
    BY <1>4, MarkNames
  <1>7. MarksMatchHidden'
    <2>1. Undisturbed' => hidden' = {}
      BY <1>3
    <2> QED
      BY <1>6, <2>1 DEF MarksMatchHidden, MarkAt
  <1>8. HeadsUnmarked'
    <2>1. \A j \in 1 .. 1 : \A p \in DOMAIN frames'[j].pend :
            frames'[j].pend[p] # Mark(fr.call.n)
      BY <1>1, <1>4, MarkNames
    <2> QED
      BY <1>1, <2>1 DEF HeadsUnmarked
  <1>9. HeldSymIsCurrent' /\ SymAssertions'
    BY <1>1 DEF HeldSymIsCurrent, SymAssertions, MarkInv
  <1> QED
    BY <1>3, <1>5, <1>7, <1>8, <1>9 DEF MarkInv

(* A new Scan reads an argument, which holds no mark. *)
LEMMA PushKeepsMarks ==
  ASSUME TypeInv, MarkInv, ExpandArg
  PROVE  MarkInv'
  <1>0. /\ TypeOK /\ DOMAIN frames = 1 .. Depth /\ Depth \in Nat \ {0}
        /\ frames \in Seq(Frame) /\ Len(frames) = Depth
    BY TopFrame DEF TypeInv, TypeOK, Depth
  <1> DEFINE a == Top.call.args[NextArg]
  <1>1. a \in Seq(ArgItem)
    <2>1. Top.mode = "expand" /\ NextArg <= Top.call.sym.arity
      BY DEF ExpandArg, Expanding, Running
    <2>2. GoodCall(Top) /\ Top.call \in Call
      BY <2>1, TopCall
    <2>3. Len(Top.call.exp) \in Nat /\ Len(Top.call.args) = Top.call.sym.arity
          /\ Top.call.sym.arity \in Int
      BY <2>1, <2>2, LenProperties DEF Call, GoodCall, GoodSym, Symbol
    <2>4. NextArg \in 1 .. Len(Top.call.args)
      BY <2>1, <2>3 DEF NextArg
    <2> QED
      BY <2>2, <2>4, ElementOfSeq DEF Call
  <1> HIDE DEF a
  <1>2. frames' = Append(frames, NewScan(a)) /\ UNCHANGED <<defs, hidden, err, events>>
    BY DEF ExpandArg, a
  <1>3. NewScan(a).pend = a /\ NewScan(a).mode = "get" /\ NewScan(a) \in Frame
    <2>1. a \in Seq(Item)
      BY <1>1, SeqMonotonic, ArgItems
    <2> QED
      BY <2>1 DEF NewScan, Frame, Modes
  <1>4. /\ DOMAIN frames' = 1 .. Depth + 1
        /\ \A i \in 1 .. Depth : frames'[i] = frames[i]
        /\ frames'[Depth + 1] = NewScan(a)
    BY <1>0, <1>2, <1>3, AppendProperties, LenProperties
  <1>5. \A p \in DOMAIN a : a[p].k # "mark"
    BY <1>1, ElementOfSeq, LenProperties, ArgItems
  <1>6. \A i \in DOMAIN frames' : \/ i \in DOMAIN frames /\ frames'[i] = frames[i]
                                  \/ frames'[i].pend = a /\ frames'[i].mode = "get"
    BY <1>0, <1>3, <1>4
  <1>7. \A i \in DOMAIN frames : i \in DOMAIN frames' /\ frames'[i] = frames[i]
    BY <1>0, <1>4
  <1>8. MarksFirst'
    BY <1>5, <1>6 DEF MarkInv, MarksFirst
  <1>9. Undisturbed' <=> Undisturbed
    BY <1>2 DEF Undisturbed
  <1>10. HeadsUnmarked'
    <2> SUFFICES ASSUME Undisturbed, NEW i \in DOMAIN frames', frames'[i].mode # "get"
                 PROVE  /\ ~frames'[i].call.stale
                        /\ \A j \in 1 .. i : \A p \in DOMAIN frames'[j].pend :
                             frames'[j].pend[p] # Mark(frames'[i].call.n)
      BY <1>9 DEF HeadsUnmarked
    <2>1. i \in DOMAIN frames /\ frames'[i] = frames[i]
      BY <1>6
    <2>2. \A j \in 1 .. i : frames'[j] = frames[j]
      BY <1>0, <1>4, <2>1
    <2> QED
      BY <2>1, <2>2 DEF MarkInv, HeadsUnmarked
  <1>11. MarksMatchHidden'
    <2> SUFFICES ASSUME Undisturbed, NEW n \in Names
                 PROVE  /\ n \in hidden' <=> \E i \in DOMAIN frames' :
                             \E p \in DOMAIN frames'[i].pend : frames'[i].pend[p] = Mark(n)
                        /\ \A i, j \in DOMAIN frames' :
                             \A p \in DOMAIN frames'[i].pend, q \in DOMAIN frames'[j].pend :
                               frames'[i].pend[p] = Mark(n) /\ frames'[j].pend[q] = Mark(n)
                                 => i = j /\ p = q
      BY <1>9 DEF MarksMatchHidden, MarkAt
    <2>1. \A i \in DOMAIN frames' : \A p \in DOMAIN frames'[i].pend :
            frames'[i].pend[p] = Mark(n) =>
              i \in DOMAIN frames /\ frames'[i] = frames[i]
      BY <1>5, <1>6, MarkNames
    <2> QED
      BY <1>2, <1>7, <2>1 DEF MarkInv, MarksMatchHidden, MarkAt
  <1>12. HeldSymIsCurrent' /\ SymAssertions'
    BY <1>2, <1>6, <1>9 DEF MarkInv, HeldSymIsCurrent, SymAssertions
  <1> QED
    BY <1>8, <1>10, <1>11, <1>12 DEF MarkInv

(* A Scan that has read its argument to the end has no mark left. *)
LEMMA PopKeepsMarks ==
  ASSUME TypeInv, MarkInv, ArgExpanded
  PROVE  MarkInv'
  <1>0. /\ TypeOK /\ DOMAIN frames = 1 .. Depth /\ Depth \in Nat \ {0}
        /\ frames \in Seq(Frame) /\ Len(frames) = Depth /\ Depth > 1
        /\ Top = frames[Depth] /\ Top.pend \in Seq(Item)
    BY TopFrame DEF TypeInv, TypeOK, Depth, ArgExpanded, Top
  <1>1. \A p \in DOMAIN Top.pend : Top.pend[p].k # "mark"
    <2>1. CASE AtEnd
      BY <2>1 DEF AtEnd
    <2>2. CASE ~AtEnd
      <3>1. Top.pend[1].k = "eof"
        BY <1>0, <2>2, TopFrame DEF ArgExpanded, Eof
      <3>2. DOMAIN Top.pend = 1 .. Len(Top.pend) /\ Len(Top.pend) \in Nat
        BY <1>0, LenProperties
      <3>3. \A p \in DOMAIN Top.pend : 1 < p => Top.pend[p].k # "mark"
        BY <1>0, <3>1, <3>2 DEF MarkInv, MarksFirst, Barrier
      <3> QED
        BY <3>1, <3>2, <3>3
    <2> QED
      BY <2>1, <2>2
  <1> DEFINE below == SubSeq(frames, 1, Depth - 1)
  <1>2. /\ below \in Seq(Frame) /\ Len(below) = Depth - 1
        /\ \A i \in 1 .. Depth - 1 : below[i] = frames[i]
    BY <1>0, SubSeqProperties
  <1> DEFINE fr == [below[Depth - 1] EXCEPT !.call.exp = Append(@, Top.out)]
  <1>3. frames' = [below EXCEPT ![Depth - 1] = fr] /\ UNCHANGED <<defs, hidden, err, events>>
    BY DEF ArgExpanded
  <1>4. /\ below[Depth - 1] = frames[Depth - 1] /\ below[Depth - 1] \in Frame
        /\ below[Depth - 1].mode = "expand" /\ GoodCall(below[Depth - 1])
        /\ Len(below[Depth - 1].call.exp) < below[Depth - 1].call.sym.arity
        /\ Top.out \in Seq(Token)
    <2>1. below[Depth - 1] = frames[Depth - 1] /\ below[Depth - 1] \in Frame
      BY <1>0, <1>2, ElementOfSeq
    <2>2. frames[Depth - 1].mode = "expand" /\ GoodCall(frames[Depth - 1])
          /\ Len(frames[Depth - 1].call.exp) < frames[Depth - 1].call.sym.arity
      BY <1>0 DEF TypeInv, Shape
    <2>3. Top.out \in Seq(Token)
      BY <1>0, TopFrame DEF Frame
    <2> QED
      BY <2>1, <2>2, <2>3
  <1> HIDE DEF below
  <1>5. /\ fr \in Frame /\ fr.mode = below[Depth - 1].mode
        /\ fr.pend = below[Depth - 1].pend
        /\ fr.call.n = below[Depth - 1].call.n /\ fr.call.sym = below[Depth - 1].call.sym
        /\ fr.call.stale = below[Depth - 1].call.stale
    BY <1>4, OneMoreExp
  <1> HIDE DEF fr
  <1>6. /\ Len(frames') = Depth - 1 /\ DOMAIN frames' = 1 .. Depth - 1
        /\ \A i \in 1 .. Depth - 1 :
             frames'[i] = IF i = Depth - 1 THEN fr ELSE frames[i]
    BY <1>0, <1>2, <1>3, <1>5, ExceptSeq, LenProperties
  <1>7. \A i \in DOMAIN frames' :
          /\ i \in DOMAIN frames /\ 1 .. i \subseteq DOMAIN frames'
          /\ frames'[i].pend = frames[i].pend /\ frames'[i].mode = frames[i].mode
          /\ frames'[i].call.n = frames[i].call.n
          /\ frames'[i].call.sym = frames[i].call.sym
          /\ frames'[i].call.stale = frames[i].call.stale
             \/ frames'[i] = frames[i]
    BY <1>0, <1>4, <1>5, <1>6
  <1>8. \A i \in DOMAIN frames : i # Depth => i \in DOMAIN frames'
    BY <1>0, <1>6
  <1>9. Undisturbed' <=> Undisturbed
    BY <1>3 DEF Undisturbed
  <1>10. MarksFirst'
    BY <1>7 DEF MarkInv, MarksFirst
  <1>11. HeadsUnmarked'
    BY <1>7, <1>9 DEF MarkInv, HeadsUnmarked
  <1>12. HeldSymIsCurrent' /\ SymAssertions'
    BY <1>3, <1>7, <1>9 DEF MarkInv, HeldSymIsCurrent, SymAssertions
  <1>13. MarksMatchHidden'
    <2> SUFFICES ASSUME Undisturbed, NEW n \in Names
                 PROVE  /\ n \in hidden' <=> \E i \in DOMAIN frames' :
                             \E p \in DOMAIN frames'[i].pend : frames'[i].pend[p] = Mark(n)
                        /\ \A i, j \in DOMAIN frames' :
                             \A p \in DOMAIN frames'[i].pend, q \in DOMAIN frames'[j].pend :
                               frames'[i].pend[p] = Mark(n) /\ frames'[j].pend[q] = Mark(n)
                                 => i = j /\ p = q
      BY <1>9 DEF MarksMatchHidden, MarkAt
    <2>1. \A i \in DOMAIN frames : \A p \in DOMAIN frames[i].pend :
            frames[i].pend[p] = Mark(n) => i # Depth
      BY <1>0, <1>1, MarkNames
    <2> QED
      BY <1>3, <1>7, <1>8, <2>1 DEF MarkInv, MarksMatchHidden, MarkAt
  <1> QED
    BY <1>10, <1>11, <1>12, <1>13 DEF MarkInv

(* A replacement goes in, with the mark of a macro that had none: where    *)
(* what was in the queue stands afterwards.                                *)
Behind(i, k, repl) == IF i = Depth THEN k - Len(repl) ELSE 0

Installed(n, k, repl) ==
  LET q == frames'[Depth].pend IN
  /\ Len(repl) \in Nat \ {0} /\ Len(repl) \in DOMAIN q
  /\ q[Len(repl)] = Mark(n)
  /\ \A p \in 1 .. Len(repl) - 1 : q[p].k \notin Barrier \cup {"mark"}
  /\ \A i \in DOMAIN frames' : \A p \in DOMAIN frames'[i].pend :
       p \in Nat /\
       \/ i = Depth /\ p \in 1 .. Len(repl)
       \/ /\ p + Behind(i, k, repl) \in DOMAIN frames[i].pend
          /\ frames'[i].pend[p] = frames[i].pend[p + Behind(i, k, repl)]
  /\ \A i \in DOMAIN frames : \A q1 \in DOMAIN frames[i].pend :
       frames[i].pend[q1].k = "mark" =>
         /\ q1 - Behind(i, k, repl) \in DOMAIN frames'[i].pend
         /\ frames'[i].pend[q1 - Behind(i, k, repl)] = frames[i].pend[q1]

(* replaceSimple (Scan.java:700) puts in the queues the one mark its list  *)
(* ends with, and moves all others.                                        *)
LEMMA ReplacementInFront ==
  ASSUME TypeInv, NEW n \in Names, NEW k \in {0, 1}, NEW repl \in Seq(Item),
         NEW rest \in Seq(Item), MovesOn(rest, k), MarkLast(repl, n, Token),
         NEW fr \in Frame, SetTop(fr), fr.pend = repl \o rest
  PROVE  Installed(n, k, repl)
  <1>a. /\ Len(rest) = Len(Top.pend) - k
        /\ \A p \in 1 .. Len(rest) : rest[p] = Top.pend[p + k]
        /\ k = 1 => Top.pend[1].k # "mark"
    BY DEF MovesOn
  <1>0. TypeOK
    BY DEF TypeInv
  <1>1. /\ DOMAIN frames' = 1 .. Depth /\ frames'[Depth] = fr
        /\ \A i \in 1 .. Depth : i # Depth => frames'[i] = frames[i]
    BY <1>0, SetTopFrames
  <1>2. /\ DOMAIN frames = 1 .. Depth /\ Depth \in Nat \ {0} /\ Top = frames[Depth]
        /\ Top.pend \in Seq(Item)
    BY <1>0, TopFrame DEF Top
  <1> DEFINE L == Len(repl)
  <1>3. L \in Nat \ {0} /\ Len(rest) \in Nat /\ DOMAIN repl = 1 .. L
    BY LenProperties DEF MarkLast
  <1>4. /\ DOMAIN fr.pend = 1 .. L + Len(rest)
        /\ \A p \in 1 .. L + Len(rest) :
             fr.pend[p] = IF p <= L THEN repl[p] ELSE rest[p - L]
    <2>1. /\ repl \o rest \in Seq(Item) /\ Len(repl \o rest) = L + Len(rest)
          /\ \A p \in 1 .. L + Len(rest) :
               (repl \o rest)[p] = IF p <= L THEN repl[p] ELSE rest[p - L]
      BY ConcatProperties
    <2>2. DOMAIN (repl \o rest) = 1 .. L + Len(rest)
      BY <2>1, LenProperties
    <2> QED
      BY <2>1, <2>2
  <1>5. L \in DOMAIN fr.pend /\ fr.pend[L] = Mark(n)
    BY <1>3, <1>4 DEF MarkLast
  <1>6. ASSUME NEW p \in 1 .. L - 1
        PROVE  fr.pend[p].k \notin Barrier \cup {"mark"}
    <2>1. repl[p] \in Token
      BY <1>6 DEF MarkLast
    <2>2. fr.pend[p] = repl[p]
      BY <1>3, <1>4
    <2> QED
      BY <2>1, <2>2 DEF Token, Punct, Barrier
  <1>7. Len(Top.pend) \in Nat /\ DOMAIN Top.pend = 1 .. Len(Top.pend)
    BY <1>2, LenProperties
  <1> HIDE DEF L
  <1>8. ASSUME NEW i \in DOMAIN frames', NEW p \in DOMAIN frames'[i].pend,
               ~(i = Depth /\ p \in 1 .. L)
        PROVE  /\ p + Behind(i, k, repl) \in DOMAIN frames[i].pend
               /\ frames'[i].pend[p] = frames[i].pend[p + Behind(i, k, repl)]
    <2>1. CASE i = Depth
      <3>1. p \in 1 .. L + Len(rest) /\ p > L
        BY <1>1, <1>3, <1>4, <1>8, <2>1
      <3>2. p - L \in 1 .. Len(rest)
        BY <1>3, <3>1
      <3>3. fr.pend[p] = rest[p - L]
        BY <1>3, <1>4, <3>1
      <3>4. rest[p - L] = Top.pend[(p - L) + k]
        BY <1>a, <3>2
      <3>5. (p - L) + k = p + (k - L) /\ p + (k - L) \in 1 .. Len(Top.pend)
        BY <1>3, <1>7, <1>a, <3>1, <3>2
      <3>6. Behind(i, k, repl) = k - L
        BY <2>1 DEF Behind, L
      <3> QED
        BY <1>1, <1>2, <1>7, <2>1, <3>3, <3>4, <3>5, <3>6
    <2>2. CASE i # Depth
      BY <1>0, <1>1, <1>2, <2>2, Pends DEF Behind
    <2> QED
      BY <2>1, <2>2
  <1>9. ASSUME NEW i \in DOMAIN frames', NEW p \in DOMAIN frames'[i].pend
        PROVE  p \in Nat
    <2>1. CASE i = Depth
      BY <1>1, <1>3, <1>4, <2>1
    <2>2. CASE i # Depth
      BY <1>0, <1>1, <1>2, <2>2, Pends
    <2> QED
      BY <2>1, <2>2
  <1>10. ASSUME NEW i \in DOMAIN frames, NEW q \in DOMAIN frames[i].pend,
                frames[i].pend[q].k = "mark"
         PROVE  /\ q - Behind(i, k, repl) \in DOMAIN frames'[i].pend
                /\ frames'[i].pend[q - Behind(i, k, repl)] = frames[i].pend[q]
    <2>1. CASE i = Depth
      <3>1. q \in 1 .. Len(Top.pend) /\ (k = 1 => q # 1)
        BY <1>2, <1>7, <1>10, <1>a, <2>1
      <3>2. q - k \in 1 .. Len(rest) /\ (q - k) + k = q
        BY <1>7, <1>a, <3>1
      <3>3. rest[q - k] = Top.pend[q]
        <4>1. rest[q - k] = Top.pend[(q - k) + k]
          BY <1>a, <3>2
        <4> QED
          BY <3>2, <4>1
      <3>4. /\ q - (k - L) \in 1 .. L + Len(rest) /\ (q - (k - L)) - L = q - k
            /\ ~(q - (k - L) <= L)
        <4>1. q \in Int /\ k \in Int /\ L \in Int /\ Len(rest) \in Int
          BY <1>3, <1>7, <3>1
        <4>2. 1 <= q - k /\ q - k <= Len(rest)
          BY <3>2
        <4> QED
          BY <1>3, <4>1, <4>2
      <3>5. fr.pend[q - (k - L)] = rest[q - k]
        <4>1. fr.pend[q - (k - L)] = rest[(q - (k - L)) - L]
          BY <1>4, <3>4
        <4> QED
          BY <3>4, <4>1
      <3>6. Behind(i, k, repl) = k - L
        BY <2>1 DEF Behind, L
      <3> QED
        BY <1>1, <1>2, <1>4, <2>1, <3>3, <3>4, <3>5, <3>6
    <2>2. CASE i # Depth
      <3>1. q \in Nat
        BY <1>0, Pends
      <3> QED
        BY <1>1, <1>2, <2>2, <3>1 DEF Behind
    <2> QED
      BY <2>1, <2>2
  <1> QED
    BY <1>1, <1>3, <1>5, <1>6, <1>8, <1>9, <1>10 DEF L, Installed

(* replaceSimple keeps the marks and the hidden flags in agreement, and    *)
(* raises nothing, when the macro was not hidden.                          *)
LEMMA ReplaceKeepsMarks ==
  ASSUME TypeInv, MarkInv, NEW n \in Names, NEW stale, NEW k \in {0, 1},
         NEW repl \in Seq(Item), NEW rest \in Seq(Item),
         MovesOn(rest, k), MarkLast(repl, n, Token),
         Undisturbed => Unmarked(n) /\ stale = FALSE,
         ReplaceSimple(n, stale, repl, rest)
  PROVE  MarkInv'
  <1>0. TypeOK
    BY DEF TypeInv
  <1>1. Undisturbed => n \notin hidden
    BY DEF MarkInv, MarksMatchHidden, MarkAt, Unmarked
  <1>2. CASE ~stale /\ n \in hidden
    BY <1>1, <1>2, RaiseKeepsMarks DEF ReplaceSimple
  <1>3. CASE ~(~stale /\ n \in hidden)
    <2> DEFINE fr == [Top EXCEPT !.pend = repl \o rest, !.mode = "get", !.call = NoCall]
    <2>1. /\ SetTop(fr) /\ UNCHANGED <<defs, err, events>>
          /\ Undisturbed => hidden' = hidden \cup {n}
      BY <1>3 DEF ReplaceSimple
    <2>2. fr \in Frame /\ fr.mode = "get" /\ fr.pend = repl \o rest
      <3>1. Top \in Frame /\ repl \o rest \in Seq(Item)
        BY <1>0, TopFrame, ConcatProperties
      <3> QED
        BY <3>1 DEF Frame, Modes
    <2> HIDE DEF fr
    <2>a. Installed(n, k, repl)
      BY <2>1, <2>2, ReplacementInFront
    <2>b. DOMAIN fr.pend = 1 .. Len(fr.pend)
      BY <2>2, LenProperties DEF Frame
    <2> DEFINE L == Len(repl)
    <2> DEFINE Back(i) == Behind(i, k, repl)
    <2>3. /\ L \in Nat \ {0} /\ L \in DOMAIN fr.pend
          /\ fr.pend[L] = Mark(n)
          /\ \A p \in 1 .. L - 1 : fr.pend[p].k \notin Barrier \cup {"mark"}
          /\ \A i \in DOMAIN frames' : \A p \in DOMAIN frames'[i].pend :
               p \in Nat /\
               \/ i = Depth /\ p \in 1 .. L
               \/ /\ p + Back(i) \in DOMAIN frames[i].pend
                  /\ frames'[i].pend[p] = frames[i].pend[p + Back(i)]
          /\ \A i \in DOMAIN frames : \A q \in DOMAIN frames[i].pend :
               frames[i].pend[q].k = "mark" =>
                 /\ q - Back(i) \in DOMAIN frames'[i].pend
                 /\ frames'[i].pend[q - Back(i)] = frames[i].pend[q]
      <3>1. frames'[Depth] = fr
        BY <1>0, <2>1, <2>2, SetTopFrames
      <3> QED
        BY <2>a, <3>1 DEF Installed
    <2>4. \A i \in DOMAIN frames' : Back(i) \in Int
      BY <2>3 DEF Behind
    <2> HIDE DEF L, Back
    <2>5. /\ DOMAIN frames' = 1 .. Depth /\ frames'[Depth] = fr
          /\ \A i \in 1 .. Depth : i # Depth => frames'[i] = frames[i]
          /\ DOMAIN frames = 1 .. Depth /\ Depth \in DOMAIN frames
      BY <1>0, <2>1, <2>2, SetTopFrames, TopFrame
    <2>6. MarksFirst'
      <3> SUFFICES ASSUME NEW i \in DOMAIN frames',
                          NEW p \in DOMAIN frames'[i].pend, NEW q \in DOMAIN frames'[i].pend,
                          p < q, frames'[i].pend[p].k \in Barrier
                   PROVE  frames'[i].pend[q].k # "mark"
        BY DEF MarksFirst
      <3>1. ~(i = Depth /\ p \in 1 .. L)
        <4> SUFFICES ASSUME i = Depth, p \in 1 .. L PROVE FALSE
          OBVIOUS
        <4>1. p = L \/ p \in 1 .. L - 1
          BY <2>3
        <4> QED
          BY <2>3, <2>5, <4>1, MarkNames DEF Barrier
      <3>2. ~(i = Depth /\ q \in 1 .. L)
        <4> SUFFICES ASSUME i = Depth, q \in 1 .. L PROVE FALSE
          OBVIOUS
        <4>1. p \in Nat /\ 1 <= p
          BY <2>b, <2>3, <2>5
        <4> QED
          BY <2>3, <3>1, <4>1
      <3>3. /\ p + Back(i) \in DOMAIN frames[i].pend /\ q + Back(i) \in DOMAIN frames[i].pend
            /\ frames'[i].pend[p] = frames[i].pend[p + Back(i)]
            /\ frames'[i].pend[q] = frames[i].pend[q + Back(i)]
            /\ p + Back(i) < q + Back(i)
        BY <2>3, <2>4, <3>1, <3>2
      <3> QED
        BY <2>5, <3>3 DEF MarkInv, MarksFirst
    <2>7. Undisturbed' <=> Undisturbed
      BY <2>1 DEF Undisturbed
    <2>8. ASSUME NEW m \in Names, NEW i \in DOMAIN frames', NEW p \in DOMAIN frames'[i].pend,
                 frames'[i].pend[p] = Mark(m)
          PROVE  \/ m = n /\ i = Depth /\ p = L
                 \/ /\ p + Back(i) \in DOMAIN frames[i].pend
                    /\ frames[i].pend[p + Back(i)] = Mark(m)
      <3>1. CASE i = Depth /\ p \in 1 .. L
        <4>1. p = L \/ p \in 1 .. L - 1
          BY <2>3, <3>1
        <4> QED
          BY <2>3, <2>5, <2>8, <3>1, <4>1, MarkNames
      <3>2. CASE ~(i = Depth /\ p \in 1 .. L)
        BY <2>3, <2>8, <3>2
      <3> QED
        BY <3>1, <3>2
    <2>9. ASSUME Undisturbed, NEW m \in Names
          PROVE  m \in hidden' <=> \E i \in DOMAIN frames' :
                    \E p \in DOMAIN frames'[i].pend : frames'[i].pend[p] = Mark(m)
      <3>1. m \in hidden <=> \E i \in DOMAIN frames :
                    \E p \in DOMAIN frames[i].pend : frames[i].pend[p] = Mark(m)
        BY <2>9 DEF MarkInv, MarksMatchHidden, MarkAt
      <3>2. CASE m = n
        BY <2>1, <2>3, <2>5, <2>9, <3>2 DEF Unmarked
      <3>3. CASE m # n
        <4>1. ASSUME NEW i \in DOMAIN frames', NEW p \in DOMAIN frames'[i].pend,
                     frames'[i].pend[p] = Mark(m)
              PROVE  m \in hidden
          BY <2>5, <2>8, <3>1, <3>3, <4>1
        <4>2. ASSUME NEW i \in DOMAIN frames, NEW q \in DOMAIN frames[i].pend,
                     frames[i].pend[q] = Mark(m)
              PROVE  \E j \in DOMAIN frames' :
                       \E p \in DOMAIN frames'[j].pend : frames'[j].pend[p] = Mark(m)
          <5>1. frames[i].pend[q].k = "mark"
            BY <4>2, MarkNames
          <5>2. q - Back(i) \in DOMAIN frames'[i].pend
                /\ frames'[i].pend[q - Back(i)] = Mark(m)
            BY <2>3, <4>2, <5>1
          <5> QED
            BY <2>5, <5>2
        <4> QED
          BY <2>1, <2>9, <3>1, <3>3, <4>1, <4>2
      <3> QED
        BY <3>2, <3>3
    <2>10. ASSUME Undisturbed, NEW m \in Names,
                  NEW i \in DOMAIN frames', NEW j \in DOMAIN frames',
                  NEW p \in DOMAIN frames'[i].pend, NEW q \in DOMAIN frames'[j].pend,
                  frames'[i].pend[p] = Mark(m), frames'[j].pend[q] = Mark(m)
           PROVE  i = j /\ p = q
      <3>1. CASE m = n
        BY <2>5, <2>8, <2>10, <3>1 DEF Unmarked
      <3>2. CASE m # n
        <4>1. /\ p + Back(i) \in DOMAIN frames[i].pend
              /\ frames[i].pend[p + Back(i)] = Mark(m)
              /\ q + Back(j) \in DOMAIN frames[j].pend
              /\ frames[j].pend[q + Back(j)] = Mark(m)
          BY <2>8, <2>10, <3>2
        <4>2. i = j /\ p + Back(i) = q + Back(j)
          BY <2>5, <2>10, <4>1 DEF MarkInv, MarksMatchHidden, MarkAt
        <4> QED
          BY <2>3, <2>4, <4>2
      <3> QED
        BY <3>1, <3>2
    <2>11. MarksMatchHidden'
      BY <2>7, <2>9, <2>10 DEF MarksMatchHidden, MarkAt
    <2>12. \A i \in DOMAIN frames' : frames'[i].mode # "get" =>
             /\ i \in DOMAIN frames /\ frames'[i] = frames[i]
             /\ \A j \in 1 .. i : frames'[j] = frames[j]
      <3>1. Depth \in Nat
        BY <1>0, TopFrame
      <3> QED
        BY <2>2, <2>5, <3>1
    <2>13. HeadsUnmarked' /\ HeldSymIsCurrent'
      BY <2>1, <2>7, <2>12 DEF MarkInv, HeadsUnmarked, HeldSymIsCurrent
    <2>14. SymAssertions'
      BY <2>1, <2>7 DEF MarkInv, SymAssertions
    <2> QED
      BY <2>6, <2>11, <2>13, <2>14 DEF MarkInv
  <1> QED
    BY <1>2, <1>3

(* The steps of the expander, by what they do to the queues.               *)
LEMMA FrameOfSetTop ==
  ASSUME TypeOK, TypeOK', NEW fr, SetTop(fr)
  PROVE  fr \in Frame
  <1>1. Depth \in 1 .. Len(frames) /\ frames \in Seq(Frame) /\ Len(frames) \in Nat
    BY TopFrame, LenProperties DEF Depth, TypeOK
  <1>2. frames' = [frames EXCEPT ![Depth] = fr] /\ frames' \in Seq(Frame)
    BY DEF SetTop, TypeOK
  <1>3. Depth \in DOMAIN frames' /\ frames'[Depth] = fr
    BY <1>1, <1>2, LenProperties
  <1> QED
    BY <1>2, <1>3, LenProperties, ElementOfSeq

(* Taking an item other than a mark moves the queue on by one.             *)
LEMMA RestMovesOn ==
  ASSUME TypeInv, ~AtEnd, Cur.k # "mark"
  PROVE  MovesOn(Rest, 1)
  BY TopFrame DEF TypeInv, MovesOn

(* Leaving the queue alone moves it on by none.                            *)
LEMMA TopMovesOn ==
  ASSUME TypeInv
  PROVE  MovesOn(Top.pend, 0)
  <1>1. Top.pend \in Seq(Item)
    BY TopFrame DEF TypeInv
  <1>2. Len(Top.pend) \in Nat
    BY <1>1, LenProperties
  <1> QED
    BY <1>2 DEF MovesOn

(* A step that moves the Scan on top, hides nothing and defines nothing    *)
(* keeps the marks, if it stays in its call or ends it.                    *)
LEMMA SameCallKeepsMarks ==
  ASSUME TypeInv, TypeInv', MarkInv, NEW fr, SetTop(fr),
         NEW k \in {0, 1}, MovesOn(fr.pend, k),
         \/ fr.mode = "get"
         \/ /\ Top.mode # "get"
            /\ fr.call.n = Top.call.n /\ fr.call.sym = Top.call.sym
            /\ fr.call.stale = Top.call.stale,
         events' \in {events} \cup {events \cup ev : ev \in SUBSET {"crossed", "stream", "unterminated"}},
         UNCHANGED <<defs, hidden>>, err' = err
  PROVE  MarkInv'
  <1>1. fr \in Frame
    BY FrameOfSetTop DEF TypeInv
  <1>2. Undisturbed' => Undisturbed
    BY DEF Undisturbed
  <1>3. ASSUME fr.mode # "get", Undisturbed
        PROVE  Installable(fr.call)
    <2>1. Installable(Top.call)
      BY <1>3, TopInstallable DEF TypeInv
    <2> QED
      BY <1>3, <2>1 DEF Installable
  <1> QED
    BY <1>1, <1>2, <1>3, KeepsMarks

(* Stream markers, and names that get() does not expand, keep the marks.   *)
LEMMA StreamAndGetMarks ==
  ASSUME TypeInv, TypeInv', MarkInv,
         StreamBegin \/ StreamEnd \/ EmitPlain \/ EmitHidden \/ EmitHead \/ MeetHead
  PROVE  MarkInv'
  <1>0. Top \in Frame /\ (~AtEnd => Cur \in Item)
    BY TopFrame DEF TypeInv
  <1>1. CASE StreamBegin \/ StreamEnd
    <2>1. ~AtEnd /\ Cur.k # "mark"
      BY <1>1 DEF StreamBegin, StreamEnd, At
    <2>2. CASE \E e \in {"nesting", "incstack"} : Raise(e)
      BY <2>2, RaiseKeepsMarks
    <2>3. CASE \E i \in {Top.inc + 1, Top.inc - 1} : MoveTop([Top EXCEPT !.pend = Rest, !.inc = i])
      <3> PICK i \in {Top.inc + 1, Top.inc - 1} : MoveTop([Top EXCEPT !.pend = Rest, !.inc = i])
        BY <2>3
      <3> DEFINE fr == [Top EXCEPT !.pend = Rest, !.inc = i]
      <3>1. Top.mode = "get"
        BY <1>1 DEF StreamBegin, StreamEnd, Running
      <3>2. fr.mode = "get" /\ fr.pend = Rest
        BY <1>0, <3>1 DEF Frame
      <3>3. SetTop(fr) /\ UNCHANGED <<defs, hidden, err, events>>
        BY DEF MoveTop
      <3> HIDE DEF fr
      <3>4. MovesOn(fr.pend, 1)
        BY <2>1, <3>2, RestMovesOn
      <3> QED
        BY <3>2, <3>3, <3>4, SameCallKeepsMarks
    <2> QED
      BY <1>1, <2>2, <2>3 DEF StreamBegin, StreamEnd
  <1>2. ASSUME NEW t, NEW rest, NEW k \in {0, 1}, MovesOn(rest, k), Emit(t, rest)
        PROVE  MarkInv'
    <2> DEFINE fr == [Top EXCEPT !.pend = rest, !.mode = "get", !.call = NoCall,
                                 !.out = Append(@, t)]
    <2>1. fr.mode = "get" /\ fr.pend = rest
      BY <1>0 DEF Frame
    <2>2. SetTop(fr) /\ UNCHANGED <<defs, hidden, err, events>>
      BY <1>2 DEF Emit, MoveTop
    <2> HIDE DEF fr
    <2>3. MovesOn(fr.pend, k)
      BY <1>2, <2>1
    <2> QED
      BY <2>1, <2>2, <2>3, SameCallKeepsMarks
  <1>3. CASE EmitPlain \/ EmitHidden
    <2>1. ~AtEnd /\ Cur.k # "mark"
      BY <1>3 DEF EmitPlain, EmitHidden, At, Punct
    <2> QED
      BY <1>2, <1>3, <2>1, RestMovesOn DEF EmitPlain, EmitHidden
  <1>4. CASE EmitHead
    BY <1>2, <1>4, TopMovesOn DEF EmitHead
  <1>5. CASE MeetHead
    <2> DEFINE fr == [Top EXCEPT !.pend = Rest, !.mode = "head", !.call = NewCall]
    <2>1. ~AtEnd /\ Cur.k # "mark" /\ Cur.n \in Names /\ Cur.n \notin hidden
      BY <1>0, <1>5, ItemKinds DEF MeetHead, At
    <2>2. fr.pend = Rest /\ fr.call = NewCall
      BY <1>0 DEF Frame
    <2>3. SetTop(fr) /\ UNCHANGED <<defs, hidden, err, events>>
      BY <1>5 DEF MeetHead, MoveTop
    <2> HIDE DEF fr
    <2>4. MovesOn(fr.pend, 1)
      BY <2>1, <2>2, RestMovesOn
    <2>5. fr \in Frame
      BY <2>3, FrameOfSetTop DEF TypeInv
    <2>6. Undisturbed => Installable(fr.call)
      <3>1. /\ NewCall.n = Cur.n /\ NewCall.sym = defs[Cur.n] /\ NewCall.stale = FALSE
        BY DEF NewCall
      <3> QED
        BY <2>1, <2>2, <3>1, UnhiddenInstallable DEF TypeInv
    <2>7. Undisturbed' => Undisturbed
      BY <2>3 DEF Undisturbed
    <2> QED
      BY <2>3, <2>4, <2>5, <2>6, <2>7, KeepsMarks
  <1> QED
    BY <1>1, <1>3, <1>4, <1>5

(* The opening, the collection and the end of a call keep the marks: none  *)
(* is ever taken into an argument.                                         *)
LEMMA CallMarks ==
  ASSUME TypeInv, TypeInv', MarkInv,
         \/ OpenCall \/ CloseNullary \/ ArgToken \/ ArgStreamMarker \/ ArgComma
         \/ ArgParen \/ CloseArgs \/ RunOutOfArgs
  PROVE  MarkInv'
  <1>0. Top \in Frame /\ Top.mode # "get" /\ Top.call \in Call
    BY TopFrame, TopCall
    DEF TypeInv, OpenCall, CloseNullary, ArgToken, ArgStreamMarker, ArgComma,
        ArgParen, CloseArgs, RunOutOfArgs, Running
  <1>1. CASE \E e \in {"nullary", "arity"} : Raise(e)
    BY <1>1, RaiseKeepsMarks
  <1>2. ASSUME NEW fr, SetTop(fr), NEW k \in {0, 1}, MovesOn(fr.pend, k),
               fr.call.n = Top.call.n, fr.call.sym = Top.call.sym,
               fr.call.stale = Top.call.stale, NEW ev \in SUBSET {"crossed", "stream", "unterminated"},
               events' = events \cup ev, UNCHANGED <<defs, hidden>>, err' = err
        PROVE  MarkInv'
    BY <1>0, <1>2, SameCallKeepsMarks
  <1>3. ASSUME ~AtEnd, Cur.k # "mark", NEW t, NEW nest, NEW ev \in SUBSET {"stream"},
               AddToArg(t, nest, ev)
        PROVE  MarkInv'
    <2> DEFINE fr == [Top EXCEPT !.pend = Rest, !.call.nest = nest,
                                 !.call.args[NArgs] = Append(@, t)]
    <2>1. /\ fr.pend = Rest /\ fr.call.n = Top.call.n /\ fr.call.sym = Top.call.sym
          /\ fr.call.stale = Top.call.stale
      BY <1>0 DEF Frame, Call
    <2>2. SetTop(fr) /\ events' = events \cup ev /\ UNCHANGED <<defs, hidden, err>>
      BY <1>3 DEF AddToArg
    <2> HIDE DEF fr
    <2>3. MovesOn(fr.pend, 1)
      BY <1>3, <2>1, RestMovesOn
    <2> QED
      BY <1>2, <2>1, <2>2, <2>3
  <1>4. CASE OpenCall
    <2> DEFINE fr == IF Top.call.sym.arity = 0
                     THEN [Top EXCEPT !.pend = Rest, !.mode = "nullary"]
                     ELSE [Top EXCEPT !.pend = Rest, !.mode = "args",
                                      !.call.args = <<(<<>>)>>]
    <2>1. ~AtEnd /\ Cur.k # "mark"
      BY <1>4 DEF OpenCall, At
    <2>2. /\ fr.pend = Rest /\ fr.call.n = Top.call.n /\ fr.call.sym = Top.call.sym
          /\ fr.call.stale = Top.call.stale
      <3> DEFINE a == <<(<<>>)>>
      <3> HIDE DEF a
      <3>1. CASE Top.call.sym.arity = 0
        BY <1>0, <3>1 DEF Frame
      <3>2. CASE Top.call.sym.arity # 0
        <4>1. fr = [Top EXCEPT !.pend = Rest, !.mode = "args", !.call.args = a]
          BY <3>2 DEF a
        <4> HIDE DEF fr
        <4> QED
          BY <1>0, <4>1 DEF Frame, Call
      <3> QED
        BY <3>1, <3>2
    <2>3. SetTop(fr) /\ events' = events \cup {} /\ UNCHANGED <<defs, hidden, err>>
      BY <1>4 DEF OpenCall, MoveTop
    <2> HIDE DEF fr
    <2>4. MovesOn(fr.pend, 1)
      BY <2>1, <2>2, RestMovesOn
    <2> QED
      BY <1>2, <2>2, <2>3, <2>4
  <1>5. CASE CloseNullary
    <2> DEFINE fr == [Top EXCEPT !.pend = Rest, !.mode = "expand"]
    <2>1. ~AtEnd /\ Cur.k # "mark"
      BY <1>5 DEF CloseNullary, At
    <2>2. fr.pend = Rest /\ fr.call = Top.call
      BY <1>0 DEF Frame
    <2>3. CASE MoveTop(fr)
      <3>1. SetTop(fr) /\ events' = events \cup {} /\ UNCHANGED <<defs, hidden, err>>
        BY <2>3 DEF MoveTop
      <3> HIDE DEF fr
      <3>2. MovesOn(fr.pend, 1)
        BY <2>1, <2>2, RestMovesOn
      <3> QED
        BY <1>2, <2>2, <3>1, <3>2
    <2> QED
      BY <1>1, <1>5, <2>3 DEF CloseNullary
  <1>6. CASE ArgToken \/ ArgStreamMarker
    <2>1. ~AtEnd /\ Cur.k # "mark"
      BY <1>6 DEF ArgToken, ArgStreamMarker, At
    <2> QED
      BY <1>3, <1>6, <2>1 DEF ArgToken, ArgStreamMarker
  <1>7. CASE ArgComma
    <2>1. ~AtEnd /\ Cur.k # "mark"
      BY <1>7 DEF ArgComma, At
    <2> DEFINE fr == [Top EXCEPT !.pend = Rest, !.call.args = Append(@, <<>>)]
    <2>2. CASE MoveTop(fr)
      <3>1. /\ fr.pend = Rest /\ fr.call.n = Top.call.n /\ fr.call.sym = Top.call.sym
            /\ fr.call.stale = Top.call.stale
        BY <1>0 DEF Frame, Call
      <3>2. SetTop(fr) /\ events' = events \cup {} /\ UNCHANGED <<defs, hidden, err>>
        BY <2>2 DEF MoveTop
      <3> HIDE DEF fr
      <3>3. MovesOn(fr.pend, 1)
        BY <2>1, <3>1, RestMovesOn
      <3> QED
        BY <1>2, <3>1, <3>2, <3>3
    <2> HIDE DEF fr
    <2>3. \/ AddToArg(Cur, Top.call.nest, {}) \/ Raise("arity") \/ MoveTop(fr)
      BY <1>7 DEF ArgComma, fr
    <2> QED
      BY <1>1, <1>3, <2>1, <2>2, <2>3
  <1>8. CASE ArgParen
    <2>1. ~AtEnd /\ Cur.k # "mark"
      BY <1>8 DEF ArgParen, At
    <2> QED
      BY <1>3, <1>8, <2>1 DEF ArgParen
  <1>9. ASSUME NEW rest
        PROVE  LET fr == CollectedArgs(rest)
               IN  /\ fr.pend = rest /\ fr.call.n = Top.call.n
                   /\ fr.call.sym = Top.call.sym /\ fr.call.stale = Top.call.stale
    BY <1>0 DEF CollectedArgs, Frame, Call
  <1>10. CASE CloseArgs
    <2>1. ~AtEnd /\ Cur.k # "mark"
      BY <1>10 DEF CloseArgs, At
    <2>2. CASE MoveTop(CollectedArgs(Rest))
      <3>1. SetTop(CollectedArgs(Rest)) /\ events' = events \cup {}
            /\ UNCHANGED <<defs, hidden, err>>
        BY <2>2 DEF MoveTop
      <3>2. MovesOn(CollectedArgs(Rest).pend, 1)
        BY <1>9, <2>1, RestMovesOn
      <3> QED
        BY <1>2, <1>9, <3>1, <3>2
    <2> QED
      BY <1>1, <1>10, <2>2 DEF CloseArgs
  <1>11. CASE RunOutOfArgs
    <2>1. SetTop(CollectedArgs(<<>>)) /\ events' = events \cup {"unterminated"}
          /\ UNCHANGED <<defs, hidden, err>> /\ Top.pend = <<>>
      BY <1>11 DEF RunOutOfArgs, AtEnd
    <2>2. MovesOn(CollectedArgs(<<>>).pend, 0)
      BY <1>9, <2>1, TopMovesOn
    <2> QED
      BY <1>2, <1>9, <2>1, <2>2
  <1> QED
    BY <1>4, <1>5, <1>6, <1>7, <1>8, <1>10, <1>11

(* Substitution (Scan.java:405) keeps the marks until its result is        *)
(* installed.                                                              *)
LEMMA SubstMarks ==
  ASSUME TypeInv, TypeInv', MarkInv, SkipArg \/ StartSubst \/ Subst
  PROVE  MarkInv'
  <1>0. Top \in Frame /\ Top.mode # "get" /\ Top.call \in Call
    BY TopFrame, TopCall DEF TypeInv, SkipArg, Expanding, StartSubst, Subst, Running
  <1>1. ASSUME NEW fr, MoveTop(fr), fr.pend = Top.pend,
               fr.call.n = Top.call.n, fr.call.sym = Top.call.sym,
               fr.call.stale = Top.call.stale
        PROVE  MarkInv'
    <2>1. MovesOn(fr.pend, 0)
      BY <1>1, TopMovesOn
    <2>2. SetTop(fr) /\ UNCHANGED <<defs, hidden, err, events>>
      BY <1>1 DEF MoveTop
    <2> QED
      BY <1>0, <1>1, <2>1, <2>2, SameCallKeepsMarks
  <1>2. CASE SkipArg
    <2> DEFINE e == Append(Top.call.exp, <<>>)
    <2> DEFINE fr == [Top EXCEPT !.call.exp = e]
    <2>1. MoveTop(fr)
      BY <1>2 DEF SkipArg
    <2> HIDE DEF e
    <2>2. /\ fr.pend = Top.pend /\ fr.call.n = Top.call.n
          /\ fr.call.sym = Top.call.sym /\ fr.call.stale = Top.call.stale
      BY <1>0 DEF Frame, Call
    <2> HIDE DEF fr
    <2> QED
      BY <1>1, <2>1, <2>2
  <1>3. CASE StartSubst
    <2> DEFINE fr == [Top EXCEPT !.mode = "subst"]
    <2>1. MoveTop(fr)
      BY <1>3 DEF StartSubst
    <2>2. fr.pend = Top.pend /\ fr.call = Top.call
      BY <1>0 DEF Frame
    <2> HIDE DEF fr
    <2> QED
      BY <1>1, <2>1, <2>2
  <1>4. CASE Subst
    <2> DEFINE piece == Piece(Top.call.sym.body[Top.call.pos + 1])
    <2> DEFINE fr == [Top EXCEPT !.call.pos = @ + 1, !.call.res = @ \o piece]
    <2>1. MoveTop(fr)
      BY <1>4 DEF Subst
    <2> HIDE DEF piece
    <2>2. /\ fr.pend = Top.pend /\ fr.call.n = Top.call.n
          /\ fr.call.sym = Top.call.sym /\ fr.call.stale = Top.call.stale
      BY <1>0 DEF Frame, Call
    <2> HIDE DEF fr
    <2> QED
      BY <1>1, <2>1, <2>2
  <1> QED
    BY <1>2, <1>3, <1>4

(* The two places that call replaceSimple (Scan.java:310, 437) keep the    *)
(* marks.                                                                  *)
LEMMA ReplaceMarks ==
  ASSUME TypeInv, TypeInv', MarkInv, ExpandObject \/ Install
  PROVE  MarkInv'
  <1>0. TypeOK /\ Top.pend \in Seq(Item) /\ (~AtEnd => Cur \in Item)
    BY TopFrame DEF TypeInv
  <1>1. CASE ExpandObject
    <2>1. ~AtEnd /\ Cur.n \in Names /\ Cur.k # "mark" /\ Cur.n \notin hidden
      BY <1>0, <1>1, ItemKinds DEF ExpandObject, At
    <2>2. GoodSym(defs[Cur.n], Cur.n) /\ defs[Cur.n].arity = -1
      BY <1>1, <2>1 DEF ExpandObject, Sees, TypeInv, GoodTable
    <2>3. MarkLast(defs[Cur.n].body, Cur.n, Token) /\ defs[Cur.n].body \in Seq(Item)
      BY <2>1, <2>2, ObjectBody, MarkLastTypes
    <2>4. MovesOn(Rest, 1) /\ Rest \in Seq(Item)
      BY <2>1, RestMovesOn, RestTypes
    <2>5. ReplaceSimple(Cur.n, FALSE, defs[Cur.n].body, Rest)
      BY <1>1 DEF ExpandObject
    <2>6. Undisturbed => Unmarked(Cur.n)
      BY <2>1 DEF MarkInv, MarksMatchHidden, MarkAt, Unmarked
    <2> QED
      BY <2>1, <2>3, <2>4, <2>5, <2>6, ReplaceKeepsMarks
  <1>2. CASE Install
    <2>0. Top.mode = "subst" /\ Top.call.pos = Len(Top.call.sym.body)
      BY <1>2 DEF Install, Running
    <2>1. GoodCall(Top) /\ Top.call \in Call /\ Top.call.n \in Names
      BY <2>0, TopCall DEF Call
    <2>2. MarkLast(Top.call.res, Top.call.n, Token)
      <3>1. Top.call.pos \in Nat
        BY <2>1 DEF Call
      <3> QED
        BY <2>0, <2>1, <3>1 DEF GoodCall
    <2>3. Top.call.res \in Seq(Item)
      BY <2>1, <2>2, MarkLastTypes DEF Call
    <2>4. MovesOn(Top.pend, 0)
      BY TopMovesOn
    <2>5. ReplaceSimple(Top.call.n, Top.call.stale, Top.call.res, Top.pend)
      BY <1>2 DEF Install
    <2>6. Undisturbed => Unmarked(Top.call.n) /\ Top.call.stale = FALSE
      <3>1. Top.call.stale \in BOOLEAN
        BY <2>1 DEF Call
      <3> QED
        BY <1>0, <2>0, <3>1, TopInstallable DEF Installable
    <2> DEFINE st == Top.call.stale
    <2> DEFINE res == Top.call.res
    <2> DEFINE m == Top.call.n
    <2>7. /\ ReplaceSimple(m, st, res, Top.pend) /\ MarkLast(res, m, Token)
          /\ res \in Seq(Item) /\ m \in Names /\ 0 \in {0, 1}
          /\ Undisturbed => Unmarked(m) /\ st = FALSE
      BY <2>1, <2>2, <2>3, <2>5, <2>6
    <2> HIDE DEF st, res, m
    <2> QED
      BY <1>0, <2>4, <2>7, ReplaceKeepsMarks
  <1> QED
    BY <1>1, <1>2

(* Nothing stands behind a directive, or the end of the program, that is a *)
(* mark.                                                                   *)
LEMMA BarrierAhead ==
  ASSUME TypeInv, MarkInv, AtEnd \/ Cur.k \in Barrier
  PROVE  \A p \in DOMAIN Top.pend : Top.pend[p].k # "mark"
  <1>0. Top.pend \in Seq(Item) /\ Depth \in DOMAIN frames /\ Top = frames[Depth]
        /\ (~AtEnd => Cur = Top.pend[1])
    BY TopFrame DEF TypeInv, Top
  <1>1. CASE AtEnd
    BY <1>1 DEF AtEnd
  <1>2. CASE ~AtEnd
    <2>1. DOMAIN Top.pend = 1 .. Len(Top.pend) /\ Len(Top.pend) \in Nat
      BY <1>0, LenProperties
    <2>2. Top.pend[1].k \in Barrier
      BY <1>0, <1>2
    <2>3. \A p \in DOMAIN Top.pend : 1 < p => Top.pend[p].k # "mark"
      BY <1>0, <2>1, <2>2 DEF MarkInv, MarksFirst
    <2>4. "mark" \notin Barrier
      BY DEF Barrier
    <2> QED
      BY <2>1, <2>2, <2>3, <2>4
  <1> QED
    BY <1>1, <1>2

(* A queue without marks has none after its first item is taken.           *)
LEMMA NoMarkInRest ==
  ASSUME TypeInv, ~AtEnd, \A p \in DOMAIN Top.pend : Top.pend[p].k # "mark"
  PROVE  \A p \in DOMAIN Rest : Rest[p].k # "mark"
  <1>1. /\ Top.pend \in Seq(Item) /\ Rest \in Seq(Item)
        /\ Len(Rest) = Len(Top.pend) - 1
        /\ \A p \in 1 .. Len(Rest) : Rest[p] = Top.pend[p + 1]
    BY TopFrame DEF TypeInv
  <1>2. /\ DOMAIN Top.pend = 1 .. Len(Top.pend) /\ Len(Top.pend) \in Nat
        /\ DOMAIN Rest = 1 .. Len(Rest) /\ Len(Rest) \in Nat
    BY <1>1, LenProperties
  <1>3. \A p \in 1 .. Len(Rest) : p + 1 \in 1 .. Len(Top.pend)
    BY <1>1, <1>2
  <1> QED
    BY <1>1, <1>2, <1>3

(* What a file contributes holds no mark. *)
LEMMA NoMarkInFile ==
  ASSUME NEW h \in Headers, NEW rest \in Seq(Item),
         \A p \in DOMAIN rest : rest[p].k # "mark"
  PROVE  LET q == (<<SB>> \o HeaderText[h] \o <<SE>>) \o rest
         IN  \A p \in DOMAIN q : q[p].k # "mark"
  <1> DEFINE NoMark == Item \ MarkItem
  <1>1. \A it \in NoMark : it.k # "mark"
    BY MarkOfItem DEF Item, Token, Punct, StreamMarker, Directive
  <1>2. \A it \in Token \cup Directive : it \in Item /\ it.k # "mark"
    BY DEF Item, Token, Punct, Directive
  <1>3. \A it \in MarkItem : it.k = "mark"
    BY DEF MarkItem
  <1>4. HeaderText[h] \in Seq(NoMark)
    <2>1. HeaderText[h] \in Seq(Token \cup Directive)
      BY HeaderAssumption
    <2>2. Token \cup Directive \subseteq NoMark
      BY <1>2, <1>3
    <2> QED
      BY <2>1, <2>2, SeqMonotonic
  <1>5. <<SB>> \in Seq(NoMark) /\ <<SE>> \in Seq(NoMark)
    <2>1. SB \in NoMark /\ SE \in NoMark
      BY <1>3 DEF SB, SE, Item, StreamMarker
    <2> QED
      BY <2>1
  <1>6. rest \in Seq(NoMark)
    <2>1. \A p \in 1 .. Len(rest) : rest[p] \in NoMark
      BY <1>3, ElementOfSeq, LenProperties
    <2>2. rest \in [1 .. Len(rest) -> NoMark] /\ Len(rest) \in Nat
      BY <2>1, LenProperties
    <2> QED
      BY <2>2
  <1> HIDE DEF NoMark
  <1>7. (<<SB>> \o HeaderText[h] \o <<SE>>) \o rest \in Seq(NoMark)
    <2>1. <<SB>> \o HeaderText[h] \in Seq(NoMark)
      BY <1>4, <1>5, ConcatProperties
    <2>2. <<SB>> \o HeaderText[h] \o <<SE>> \in Seq(NoMark)
      BY <1>5, <2>1, ConcatProperties
    <2> QED
      BY <1>6, <2>2, ConcatProperties
  <1> QED
    BY <1>1, <1>7, ElementOfSeq, LenProperties

(* The program is read, or a directive obeyed. *)
LEMMA DirectiveMarks ==
  ASSUME TypeInv, TypeInv', MarkInv, Define \/ Undef
  PROVE  MarkInv' /\ (Undisturbed => hidden = {} /\ hidden' = {})
  <1>0. /\ Top \in Frame /\ ~AtEnd /\ Cur \in Item /\ Cur.k \in {"define", "undef"}
        /\ TypeOK
    BY TopFrame DEF TypeInv, Define, Undef, At
  <1>1. Depth = 1
    BY OnlyTheProgramHasDirectives DEF Define, Undef
  <1>2. /\ \A p \in DOMAIN Top.pend : Top.pend[p].k # "mark"
        /\ \A p \in DOMAIN Rest : Rest[p].k # "mark"
    BY <1>0, BarrierAhead, NoMarkInRest DEF Barrier
  <1>3. PICK s : /\ defs' = [defs EXCEPT ![Cur.n] = s] /\ hidden' = hidden \ {Cur.n}
                 /\ PopAndOutdate(Cur.n) /\ err' = err
    BY DEF Define, Undef
  <1>4. Cur.n \in Names /\ defs \in [Names -> Symbol \cup {NoDef}]
    BY <1>0, ItemKinds DEF TypeOK
  <1>5. CASE Redefines(Cur.n)
    <2> DEFINE fr == [Top EXCEPT !.pend = Rest, !.call.stale = TRUE]
    <2>1. SetTop(fr) /\ events' = events \cup {"redefined"}
      BY <1>3, <1>5 DEF PopAndOutdate
    <2>2. fr.pend = Rest
      BY <1>0 DEF Frame
    <2> HIDE DEF fr
    <2>3. fr \in Frame
      BY <1>0, <2>1, FrameOfSetTop DEF TypeInv
    <2>4. ~Undisturbed'
      BY <2>1 DEF Undisturbed
    <2> QED
      BY <1>1, <1>2, <1>3, <2>1, <2>2, <2>3, <2>4, NoMarksLeft
  <1>6. CASE ~Redefines(Cur.n)
    <2> DEFINE fr == [Top EXCEPT !.pend = Rest]
    <2>1. SetTop(fr) /\ events' = events
      BY <1>3, <1>6 DEF PopAndOutdate
    <2>2. fr.pend = Rest /\ fr.mode = Top.mode /\ fr.call = Top.call
      BY <1>0 DEF Frame
    <2> HIDE DEF fr
    <2>3. fr \in Frame
      BY <1>0, <2>1, FrameOfSetTop DEF TypeInv
    <2>4. Undisturbed' <=> Undisturbed
      BY <2>1 DEF Undisturbed
    <2>5. ASSUME fr.mode # "get", Undisturbed'
          PROVE  ~fr.call.stale /\ defs'[fr.call.n] = fr.call.sym
      <3>1. Top.mode = "args" /\ Top.call \in Call
        BY <2>2, <2>5, TopCall DEF Define, Undef, Running
      <3>2. Top.call.n # Cur.n /\ Top.call.n \in Names
        BY <1>6, <3>1 DEF Redefines, Call
      <3>3. Installable(Top.call)
        BY <1>0, <2>4, <2>5, <3>1, TopInstallable
      <3> QED
        BY <1>3, <1>4, <2>2, <3>2, <3>3 DEF Installable
    <2> QED
      BY <1>1, <1>2, <1>3, <2>1, <2>2, <2>3, <2>4, <2>5, NoMarksLeft
  <1> QED
    BY <1>5, <1>6

(* Reading the program and reading a file put no mark in a queue; a file   *)
(* is read in front of everything, and a directive only where nothing      *)
(* waits.                                                                  *)
LEMMA SourceMarks ==
  ASSUME TypeInv, TypeInv', MarkInv, ReadSource \/ ReadEnd \/ Include \/ PragmaOnce
  PROVE  MarkInv'
  <1>0. Top \in Frame /\ TypeOK /\ (~AtEnd => Cur \in Item /\ Rest \in Seq(Item))
    BY TopFrame DEF TypeInv
  <1>1. ASSUME Depth = 1, AtEnd \/ Cur.k \in Barrier, NEW q,
               SetTop([Top EXCEPT !.pend = q]),
               \A p \in DOMAIN q : q[p].k # "mark",
               UNCHANGED <<defs, hidden, err, events>>
        PROVE  MarkInv'
    <2> DEFINE fr == [Top EXCEPT !.pend = q]
    <2>1. SetTop(fr) /\ fr.pend = q /\ fr.mode = Top.mode /\ fr.call = Top.call
      BY <1>0, <1>1 DEF Frame
    <2> HIDE DEF fr
    <2>2. fr \in Frame
      BY <1>0, <2>1, FrameOfSetTop DEF TypeInv
    <2>3. Undisturbed' <=> Undisturbed
      BY <1>1 DEF Undisturbed
    <2>4. ASSUME fr.mode # "get", Undisturbed'
          PROVE  ~fr.call.stale /\ defs'[fr.call.n] = fr.call.sym
      BY <1>0, <1>1, <2>1, <2>3, <2>4, TopInstallable DEF Installable
    <2>5. \A p \in DOMAIN Top.pend : Top.pend[p].k # "mark"
      BY <1>1, BarrierAhead
    <2>6. \A p \in DOMAIN fr.pend : fr.pend[p].k # "mark"
      BY <1>1, <2>1
    <2> QED
      BY <1>1, <2>1, <2>2, <2>3, <2>4, <2>5, <2>6, NoMarksLeft
  <1>2. CASE ReadSource
    <2>1. PICK it \in SourceItems : SetTop([Top EXCEPT !.pend = <<it>>])
      BY <1>2 DEF ReadSource
    <2>2. it.k # "mark"
      BY HeaderAssumption DEF Token, Punct, Directive
    <2>3. \A p \in DOMAIN <<it>> : <<it>>[p].k # "mark"
      BY <2>2
    <2>4. Depth = 1 /\ AtEnd /\ UNCHANGED <<defs, hidden, err, events>>
      BY <1>2 DEF ReadSource, NeedsSource
    <2> QED
      BY <1>1, <2>1, <2>3, <2>4
  <1>3. CASE ReadEnd
    <2>1. \A p \in DOMAIN <<SE, Eof>> : <<SE, Eof>>[p].k # "mark"
      BY DEF SE, Eof
    <2> QED
      BY <1>1, <1>3, <2>1 DEF ReadEnd, NeedsSource
  <1>4. CASE Include
    <2>1. ~AtEnd /\ Cur.k = "include" /\ Depth = 1 /\ Cur.h \in Headers
      BY <1>0, <1>4, OnlyTheProgramHasDirectives, ItemKinds DEF Include, At
    <2>2. \A p \in DOMAIN Rest : Rest[p].k # "mark"
      BY <2>1, BarrierAhead, NoMarkInRest DEF Barrier
    <2> DEFINE q == IF Cur.h \in once THEN Rest
                    ELSE (<<SB>> \o HeaderText[Cur.h] \o <<SE>>) \o Rest
    <2>3. \A p \in DOMAIN q : q[p].k # "mark"
      BY <1>0, <2>1, <2>2, NoMarkInFile
    <2>4. SetTop([Top EXCEPT !.pend = q]) /\ UNCHANGED <<defs, hidden, err, events>>
      BY <1>4 DEF Include, MoveTop
    <2> HIDE DEF q
    <2>5. Cur.k \in Barrier
      BY <2>1 DEF Barrier
    <2> QED
      BY <1>1, <2>1, <2>3, <2>4, <2>5
  <1>5. CASE PragmaOnce
    <2>1. ~AtEnd /\ Cur.k = "once" /\ Depth = 1
      BY <1>5, OnlyTheProgramHasDirectives DEF PragmaOnce, At
    <2>2. \A p \in DOMAIN Rest : Rest[p].k # "mark"
      BY <2>1, BarrierAhead, NoMarkInRest DEF Barrier
    <2>3. SetTop([Top EXCEPT !.pend = Rest]) /\ UNCHANGED <<defs, hidden, err, events>>
      BY <1>5 DEF PragmaOnce
    <2>4. Cur.k \in Barrier
      BY <2>1 DEF Barrier
    <2> QED
      BY <1>1, <2>1, <2>2, <2>3, <2>4
  <1> QED
    BY <1>2, <1>3, <1>4, <1>5

(* No macro is defined and none is hidden before the first token is read.  *)
LEMMA InitMarks == Init => MarkInv
  <1> SUFFICES ASSUME Init PROVE MarkInv
    OBVIOUS
  <1> PICK P \in Prologues : frames = <<NewScan(<<SB>> \o P)>> /\ text = P
    BY DEF Init
  <1>1. P \in Seq(Token \cup Directive)
    BY HeaderAssumption
  <1> DEFINE q == <<SB>> \o P
  <1>2. frames = <<NewScan(q)>> /\ NewScan(q).pend = q /\ NewScan(q).mode = "get"
    BY DEF NewScan
  <1>3. \A p \in DOMAIN q : q[p].k # "mark"
    <2> DEFINE S == {SB} \cup Token \cup Directive
    <2>1. \A it \in S : it.k # "mark"
      BY DEF SB, Token, Punct, Directive
    <2>2. P \in Seq(S)
      BY <1>1, SeqMonotonic
    <2> HIDE DEF S
    <2>3. SB \in S
      BY DEF S
    <2>4. <<SB>> \in Seq(S)
      BY <2>3
    <2>5. q \in Seq(S)
      BY <2>2, <2>4, ConcatProperties
    <2> HIDE DEF q
    <2> QED
      BY <2>1, <2>5, ElementOfSeq, LenProperties
  <1> HIDE DEF q
  <1>4. DOMAIN frames = {1} /\ frames[1].pend = q /\ frames[1].mode = "get"
    BY <1>2
  <1>5. MarksFirst
    BY <1>3, <1>4 DEF MarksFirst
  <1>6. HeadsUnmarked /\ HeldSymIsCurrent
    BY <1>4 DEF HeadsUnmarked, HeldSymIsCurrent
  <1>7. MarksMatchHidden
    BY <1>3, <1>4, MarkNames DEF MarksMatchHidden, MarkAt, Init
  <1>8. SymAssertions
    BY DEF SymAssertions, Init
  <1> QED
    BY <1>5, <1>6, <1>7, <1>8 DEF MarkInv

(* Every step of the expander keeps the marks, one case per group of       *)
(* actions.                                                                *)
LEMMA StepMarks == TypeInv /\ TypeInv' /\ MarkInv /\ [Next]_vars => MarkInv'
  <1> SUFFICES ASSUME TypeInv, TypeInv', MarkInv, [Next]_vars PROVE MarkInv'
    OBVIOUS
  <1>1. CASE Step
    BY <1>1, SourceMarks, DirectiveMarks, StreamAndGetMarks, TakesMark, CallMarks,
       SubstMarks, ReplaceMarks, PushKeepsMarks, PopKeepsMarks DEF Step
  <1>2. CASE UNCHANGED vars
    BY <1>2 DEF vars, MarkInv, MarksFirst, HeadsUnmarked, MarksMatchHidden, MarkAt,
                SymAssertions, HeldSymIsCurrent, Undisturbed
  <1> QED
    BY <1>1, <1>2 DEF Next, Terminating

-----------------------------------------------------------------------------
(* The theorems.                                                           *)

(* The inductive invariant: the types and the shape of the calls, the      *)
(* place of the marks, and what they mean.                                 *)
THEOREM Inductive == Spec => []IInv
  <1>1. Init => TypeInv /\ MarkInv
    BY InitTypes, InitMarks
  <1>2. (TypeInv /\ MarkInv) /\ [Next]_vars => (TypeInv /\ MarkInv)'
    BY StepTypes, StepMarks
  <1>3. TypeInv /\ MarkInv => IInv
    BY DEF IInv, MarkInv
  <1> QED
    BY <1>1, <1>2, <1>3, PTL DEF Spec

(* A macro is hidden exactly while its one unhide mark waits in a queue    *)
(* (Scan.java:700), whatever is defined, included and called.              *)
THEOREM MarksMatchHiddenAlways == Spec => []MarksMatchHidden
  <1>1. IInv => MarksMatchHidden
    BY DEF IInv
  <1> QED
    BY <1>1, Inductive, PTL

(* The assertions of Sym.hide and Sym.unhide (Sym.java:89, 96) never fire, *)
(* unless a directive redefines a macro whose call is being read.          *)
THEOREM SymAssertionsHold == Spec => []SymAssertions
  <1>1. IInv => SymAssertions
    BY DEF IInv
  <1> QED
    BY <1>1, Inductive, PTL

(* The Sym a call took from the table is in the table until it is used.    *)
THEOREM HeldSymStaysCurrent == Spec => []HeldSymIsCurrent
  <1>1. IInv => HeldSymIsCurrent
    BY DEF IInv
  <1> QED
    BY <1>1, Inductive, PTL

(* Directives are only obeyed when no macro is being expanded              *)
(* (Scan.java:267, 481).                                                   *)
THEOREM DirectivesObeyedInTheOpen == Spec => DirectivesSeeNothingHidden
  <1>1. IInv /\ IInv' /\ [Next]_vars =>
          [Undisturbed /\ defs' # defs => hidden = {} /\ hidden' = {}]_vars
    <2> SUFFICES ASSUME IInv, IInv', [Next]_vars, Undisturbed, defs' # defs
                 PROVE  hidden = {} /\ hidden' = {}
      OBVIOUS
    <2>1. Define \/ Undef
      BY DEF Next, Step, Terminating, vars, ReadSource, ReadEnd, StreamBegin, StreamEnd,
             Include, PragmaOnce, Unhide, EmitPlain, EmitHidden, ExpandObject, MeetHead,
             EmitHead, OpenCall, CloseNullary, ArgToken, ArgStreamMarker, ArgComma,
             ArgParen, CloseArgs, RunOutOfArgs, SkipArg, ExpandArg, ArgExpanded,
             StartSubst, Subst, Install, Emit, MoveTop, AddToArg, ReplaceSimple, Raise
    <2> QED
      BY <2>1, DirectiveMarks DEF IInv, MarkInv
  <1> QED
    BY <1>1, Inductive, PTL DEF Spec, DirectivesSeeNothingHidden

(* A step that neither defines, hides nor unhides changes nothing that the *)
(* abstract discipline sees.                                               *)
LEMMA QuietStep ==
  ASSUME TypeInv, Step, ~(Define \/ Undef \/ Unhide \/ ExpandObject \/ Install)
  PROVE  UNCHANGED <<defs, hidden>> /\ (Undisturbed' <=> Undisturbed)
  <1>1. CASE ReadSource \/ ReadEnd \/ StreamBegin \/ StreamEnd \/ Include \/ PragmaOnce
    BY <1>1 DEF ReadSource, ReadEnd, StreamBegin, StreamEnd, Include, PragmaOnce,
                MoveTop, Raise, Undisturbed
  <1>2. CASE EmitPlain \/ EmitHidden \/ MeetHead \/ EmitHead \/ OpenCall \/ CloseNullary
    BY <1>2 DEF EmitPlain, EmitHidden, MeetHead, EmitHead, OpenCall, CloseNullary,
                Emit, MoveTop, Raise, Undisturbed
  <1>3. CASE ArgToken \/ ArgStreamMarker \/ ArgComma \/ ArgParen \/ CloseArgs \/ RunOutOfArgs
    BY <1>3 DEF ArgToken, ArgStreamMarker, ArgComma, ArgParen, CloseArgs, RunOutOfArgs,
                AddToArg, MoveTop, Raise, Undisturbed
  <1>4. CASE SkipArg \/ ExpandArg \/ ArgExpanded \/ StartSubst \/ Subst
    BY <1>4 DEF SkipArg, ExpandArg, ArgExpanded, StartSubst, Subst, MoveTop, Undisturbed
  <1> QED
    BY <1>1, <1>2, <1>3, <1>4 DEF Step

(* A replacement is an Enter of MacroActivation, or the exception of       *)
(* Sym.hide.                                                               *)
LEMMA EntersMacro ==
  ASSUME IInv, Undisturbed, ExpandObject \/ Install
  PROVE  (\E n \in Names : Activation!Enter(n)) \/ UNCHANGED <<defs, hidden, events>>
  <1>0. TypeInv /\ TypeOK /\ MarkInv /\ (~AtEnd => Cur \in Item)
    BY TopFrame DEF IInv, MarkInv, TypeInv
  <1>1. ASSUME NEW n \in Names, defs[n] # NoDef, NEW repl, NEW rest,
               ReplaceSimple(n, FALSE, repl, rest)
        PROVE  Activation!Enter(n) \/ UNCHANGED <<defs, hidden, events>>
    BY <1>1 DEF ReplaceSimple, Raise, Activation!Enter, Undisturbed
  <1>2. CASE ExpandObject
    <2>1. Cur.n \in Names /\ defs[Cur.n] # NoDef
      BY <1>0, <1>2, ItemKinds DEF ExpandObject, At, Sees
    <2> QED
      BY <1>1, <1>2, <2>1 DEF ExpandObject
  <1>3. CASE Install
    <2>1. Top.mode = "subst"
      BY <1>3 DEF Install, Running
    <2>2. GoodCall(Top) /\ Top.call \in Call /\ Installable(Top.call)
      BY <1>0, <2>1, TopCall, TopInstallable
    <2>3. Top.call.n \in Names /\ Top.call.stale = FALSE /\ Top.call.sym \in Symbol
      BY <2>2 DEF Call, Installable
    <2>4. defs[Top.call.n] # NoDef
      BY <2>2, <2>3, NoneAssumption DEF Installable
    <2> QED
      BY <1>1, <1>3, <2>3, <2>4 DEF Install
  <1> QED
    BY <1>2, <1>3

(* The expander implements the discipline of MacroActivation: a macro is   *)
(* entered when it is not active, left when it is, and redefined only      *)
(* while none is (Sym.java:84, Scan.java:700).                             *)
THEOREM ActivationImplemented == Spec => ImplementsActivation
  <1>1. Init => Activation!Init
    BY DEF Init, Activation!Init, Undisturbed
  <1>2. IInv /\ IInv' /\ [Next]_vars => [Activation!Next]_(Activation!vars)
    <2> SUFFICES ASSUME IInv, IInv', [Next]_vars
                 PROVE  Activation!Next \/ UNCHANGED <<defs, hidden, ~Undisturbed>>
      BY DEF Activation!vars
    <2>0. /\ TypeInv /\ TypeInv' /\ MarkInv
          /\ defs \in [Names -> Symbol \cup {NoDef}] /\ defs' \in Activation!Tables
          /\ hidden' \in SUBSET Names
      BY DEF IInv, MarkInv, TypeInv, TypeOK, Activation!Tables
    <2>1. CASE UNCHANGED vars
      BY <2>1 DEF vars, Undisturbed
    <2>2. CASE Step /\ ~Undisturbed
      <3>1. ~Undisturbed'
        <4>1. CASE Define \/ Undef
          BY <2>2, <4>1 DEF Define, Undef, PopAndOutdate, Undisturbed
        <4>2. CASE Unhide \/ ExpandObject \/ Install
          BY <2>2, <4>2 DEF Unhide, ExpandObject, Install, ReplaceSimple, Raise, Undisturbed
        <4> QED
          BY <2>0, <2>2, <4>1, <4>2, QuietStep
      <3> QED
        BY <2>0, <2>2, <3>1 DEF Activation!Next, Activation!Anything
    <2>3. CASE Undisturbed /\ (Define \/ Undef)
      <3>1. hidden = {} /\ hidden' = {}
        BY <2>0, <2>3, DirectiveMarks
      <3>2. Cur.n \in Names
        BY <2>0, <2>3, TopFrame, ItemKinds DEF Define, Undef, At, TypeInv
      <3>3. \A o \in Names \ {Cur.n} : defs'[o] = defs[o]
        BY <2>0, <2>3, <3>2 DEF Define, Undef
      <3>4. Activation!Redefine(Cur.n)
        BY <2>0, <2>3, <3>1, <3>3 DEF Activation!Redefine, Undisturbed
      <3> QED
        BY <3>2, <3>4 DEF Activation!Next
    <2>4. CASE Undisturbed /\ Unhide
      <3>1. CASE Cur.n \notin hidden
        BY <2>4, <3>1 DEF Unhide, Raise, Undisturbed
      <3>2. CASE Cur.n \in hidden
        <4>1. Cur.n \in Names
          BY <2>0, <3>2 DEF TypeInv, TypeOK
        <4>2. Activation!Leave(Cur.n)
          BY <2>4, <3>2 DEF Unhide, Activation!Leave, Undisturbed
        <4> QED
          BY <4>1, <4>2 DEF Activation!Next
      <3> QED
        BY <3>1, <3>2
    <2>5. CASE Undisturbed /\ (ExpandObject \/ Install)
      BY <2>5, EntersMacro DEF Activation!Next, Undisturbed
    <2>6. CASE Step /\ ~(Define \/ Undef \/ Unhide \/ ExpandObject \/ Install)
      BY <2>0, <2>6, QuietStep
    <2> QED
      BY <2>1, <2>2, <2>3, <2>4, <2>5, <2>6 DEF Next, Terminating
  <1> QED
    BY <1>1, <1>2, Inductive, PTL DEF Spec, ImplementsActivation, Activation!Spec

-----------------------------------------------------------------------------
(* The stack of open files.                                                *)

(* How many items of a kind stand in a queue.                              *)
CountOf(q, c) == Cardinality({p \in DOMAIN q : q[p].k = c})

(* It is a number, and none of what does not occur.                        *)
LEMMA CountType ==
  ASSUME NEW S, NEW q \in Seq(S), NEW c
  PROVE  /\ IsFiniteSet({p \in DOMAIN q : q[p].k = c})
         /\ CountOf(q, c) \in Nat
         /\ (\A p \in DOMAIN q : q[p].k # c) => CountOf(q, c) = 0
  <1> DEFINE D == {p \in DOMAIN q : q[p].k = c}
  <1>1. DOMAIN q = 1 .. Len(q) /\ Len(q) \in Nat
    BY LenProperties
  <1>2. IsFiniteSet(1 .. Len(q))
    BY <1>1, FS_Interval
  <1>3. D \in SUBSET (1 .. Len(q))
    BY <1>1
  <1>4. IsFiniteSet(D)
    BY <1>2, <1>3, FS_Subset
  <1>5. Cardinality(D) \in Nat
    BY <1>4, FS_CardinalityType
  <1>6. (\A p \in DOMAIN q : q[p].k # c) => D = {}
    OBVIOUS
  <1> QED
    BY <1>4, <1>5, <1>6, FS_EmptySet DEF CountOf

(* One queue in front of another.                                          *)
LEMMA CountConcat ==
  ASSUME NEW S, NEW q \in Seq(S), NEW r \in Seq(S), NEW c
  PROVE  CountOf(q \o r, c) = CountOf(q, c) + CountOf(r, c)
  <1> DEFINE n == Len(q)
             A == {p \in DOMAIN q : q[p].k = c}
             B == {p \in DOMAIN r : r[p].k = c}
             M == {p \in n + 1 .. n + Len(r) : r[p - n].k = c}
             C == {p \in DOMAIN (q \o r) : (q \o r)[p].k = c}
  <1>1. /\ n \in Nat /\ Len(r) \in Nat /\ DOMAIN q = 1 .. n /\ DOMAIN r = 1 .. Len(r)
        /\ q \o r \in Seq(S) /\ Len(q \o r) = n + Len(r)
        /\ \A p \in 1 .. n + Len(r) : (q \o r)[p] = IF p <= n THEN q[p] ELSE r[p - n]
    BY LenProperties, ConcatProperties
  <1>2. DOMAIN (q \o r) = 1 .. n + Len(r)
    BY <1>1, LenProperties
  <1>3. C = A \cup M
    <2>1. \A p : p \in C <=> p \in A \cup M
      BY <1>1, <1>2
    <2> QED
      BY <2>1, Zenon
  <1>4. A \cap M = {}
    BY <1>1
  <1>5. IsFiniteSet(A) /\ IsFiniteSet(B) /\ Cardinality(A) \in Nat /\ Cardinality(B) \in Nat
    BY CountType, FS_CardinalityType
  <1>6. IsFiniteSet(M) /\ Cardinality(M) = Cardinality(B)
    <2> DEFINE f == [p \in B |-> p + n]
    <2>1. f \in Bijection(B, M)
      <3>1. f \in [B -> M]
        BY <1>1
      <3>2. \A a, b \in B : f[a] = f[b] => a = b
        BY <1>1
      <3>3. \A m \in M : m - n \in B /\ f[m - n] = m
        BY <1>1
      <3> HIDE DEF f, B, M
      <3> QED
        BY <3>1, <3>2, <3>3 DEF Bijection, Injection, Surjection, IsInjective
    <2>2. ExistsBijection(B, M)
      BY <2>1 DEF ExistsBijection
    <2> QED
      BY <1>5, <2>2, FS_Bijection
  <1> HIDE DEF A, B, C, M
  <1>7. Cardinality(A \cup M) = Cardinality(A) + Cardinality(M) - Cardinality(A \cap M)
    BY <1>5, <1>6, FS_Union
  <1>8. Cardinality(A \cap M) = 0
    BY <1>4, FS_EmptySet
  <1>9. Cardinality(C) = Cardinality(A) + Cardinality(B)
    BY <1>3, <1>5, <1>6, <1>7, <1>8
  <1>10. CountOf(q \o r, c) = Cardinality(C) /\ CountOf(q, c) = Cardinality(A)
         /\ CountOf(r, c) = Cardinality(B)
    BY Zenon DEF CountOf, A, B, C
  <1> QED
    BY <1>9, <1>10

(* One item.                                                               *)
LEMMA CountOne ==
  ASSUME NEW it, NEW c
  PROVE  CountOf(<<it>>, c) = IF it.k = c THEN 1 ELSE 0
  <1> DEFINE D == {p \in DOMAIN <<it>> : <<it>>[p].k = c}
  <1>1. D = IF it.k = c THEN {1} ELSE {}
    OBVIOUS
  <1> HIDE DEF D
  <1>2. Cardinality({1}) = 1 /\ Cardinality({}) = 0
    BY FS_Singleton, FS_EmptySet
  <1> QED
    BY <1>1, <1>2 DEF CountOf, D

(* The first item of a queue, and the rest.                                *)
LEMMA CountHead ==
  ASSUME NEW S, NEW q \in Seq(S), q # <<>>, NEW c
  PROVE  CountOf(q, c) = (IF Head(q).k = c THEN 1 ELSE 0) + CountOf(Tail(q), c)
  <1>1. Head(q) \in S /\ Tail(q) \in Seq(S) /\ <<Head(q)>> \in Seq(S)
    BY HeadTailProperties
  <1>2. q = <<Head(q)>> \o Tail(q)
    BY <1>1, HeadTailProperties, ConcatProperties
  <1>3. CountOf(<<Head(q)>> \o Tail(q), c) = CountOf(<<Head(q)>>, c) + CountOf(Tail(q), c)
    BY <1>1, CountConcat
  <1> QED
    BY <1>2, <1>3, CountOne

(* What the invariant says of the Scan that reads the program, and of the  *)
(* call that a Scan is in.                                                 *)
Files(fr, e) ==
  /\ \A p \in DOMAIN fr.pend : fr.pend[p].k \in {"sb", "include"} =>
       ~e /\ (fr.pend[p].k = "sb" => p = 1 /\ fr.mode \in {"get", "args"})
  /\ fr.inc <= IncLimit + 2
  /\ fr.inc + CountOf(fr.pend, "sb") = CountOf(fr.pend, "se") + (IF e THEN 0 ELSE 1)

ArgsFree(fr) ==
  fr.mode # "get" => \A a \in DOMAIN fr.call.args : NoMarkers(fr.call.args[a])

(* The invariant, Scan by Scan.                                            *)
LEMMA StreamParts ==
  StreamInv <=>
    ("stream" \notin events =>
       /\ err # "incstack" /\ Files(frames[1], ended)
       /\ \A i \in DOMAIN frames : ArgsFree(frames[i]) /\ (i > 1 => NoMarkers(frames[i].pend)))
  BY DEF StreamInv, MarkersInPlace, StreamsBalanced, Waiting, CountOf, Files, ArgsFree

(* A step of the Scan on top keeps it if the new Scan is as it should be.  *)
LEMMA StreamsTop ==
  ASSUME TypeInv, TypeInv', StreamInv, NEW fr, SetTop(fr),
         "stream" \notin events' =>
           /\ "stream" \notin events
           /\ err' # "incstack" /\ ArgsFree(fr)
           /\ Depth = 1 => Files(fr, ended')
           /\ Depth > 1 => NoMarkers(fr.pend) /\ ended' = ended
  PROVE  StreamInv'
  <1> SUFFICES ASSUME "stream" \notin events'
               PROVE  /\ err' # "incstack" /\ Files(frames'[1], ended')
                      /\ \A i \in DOMAIN frames' :
                           ArgsFree(frames'[i]) /\ (i > 1 => NoMarkers(frames'[i].pend))
    BY DEF StreamInv, MarkersInPlace, StreamsBalanced, Waiting, CountOf, Files, ArgsFree
  <1>0. TypeOK /\ TypeOK'
    BY DEF TypeInv
  <1>1. fr \in Frame
    BY <1>0, FrameOfSetTop
  <1>2. /\ Depth \in Nat \ {0} /\ DOMAIN frames' = 1 .. Depth /\ DOMAIN frames = 1 .. Depth
        /\ frames'[Depth] = fr
        /\ \A i \in 1 .. Depth : i # Depth => frames'[i] = frames[i]
    BY <1>0, <1>1, SetTopFrames, TopFrame
  <1>3. /\ Files(frames[1], ended)
        /\ \A i \in DOMAIN frames : ArgsFree(frames[i]) /\ (i > 1 => NoMarkers(frames[i].pend))
    BY StreamParts
  <1>4. Files(frames'[1], ended')
    <2>1. CASE Depth = 1
      BY <1>2, <2>1
    <2>2. CASE Depth > 1
      BY <1>2, <1>3, <2>2
    <2> QED
      BY <1>2, <2>1, <2>2
  <1>5. ASSUME NEW i \in DOMAIN frames'
        PROVE  ArgsFree(frames'[i]) /\ (i > 1 => NoMarkers(frames'[i].pend))
    <2>1. CASE i = Depth
      BY <1>2, <2>1
    <2>2. CASE i # Depth
      BY <1>2, <1>3, <2>2
    <2> QED
      BY <2>1, <2>2
  <1> QED
    BY <1>4, <1>5

(* What it says of the Scan on top.                                        *)
LEMMA StreamsOfTop ==
  ASSUME TypeInv, StreamInv, "stream" \notin events
  PROVE  /\ err # "incstack" /\ ArgsFree(Top)
         /\ Depth = 1 => Files(Top, ended)
         /\ Depth > 1 => NoMarkers(Top.pend)
  <1>1. Depth \in DOMAIN frames /\ Depth \in Nat
    BY TopFrame DEF TypeInv
  <1> QED
    BY <1>1, StreamParts DEF Top

(* What a replacement is made of begins and ends no file.                  *)
LEMMA PlainItems ==
  ASSUME NEW repl \in Seq(Token \cup MarkItem)
  PROVE  /\ repl \in Seq(Item)
         /\ \A p \in DOMAIN repl : repl[p].k \notin {"sb", "se", "eof", "include"}
  <1>1. \A it \in Token \cup MarkItem : it.k \notin {"sb", "se", "eof", "include"}
    BY DEF Token, Punct, MarkItem
  <1>2. Token \cup MarkItem \subseteq Item
    BY DEF Item
  <1>3. repl \in Seq(Item)
    BY <1>2, SeqMonotonic
  <1>4. \A p \in DOMAIN repl : repl[p] \in Token \cup MarkItem
    BY ElementOfSeq, LenProperties
  <1> QED
    BY <1>1, <1>3, <1>4

(* The rest of the queue of the Scan on top, or all of it where no file    *)
(* can have begun just now, begins no file.                                *)
LeftBehind(rest, fr) ==
  \/ rest = fr.pend /\ (rest = <<>> \/ fr.mode \notin {"get", "args"})
  \/ fr.pend # <<>> /\ rest = Tail(fr.pend) /\ Head(fr.pend).k \notin {"sb", "se", "eof"}

(* Its stream ends are those of the whole queue.                           *)
LEMMA BehindFree ==
  ASSUME NEW fr, fr.pend \in Seq(Item), NEW e, Files(fr, e), NEW rest, LeftBehind(rest, fr)
  PROVE  /\ rest \in Seq(Item)
         /\ \A p \in DOMAIN rest : rest[p].k # "sb" /\ (rest[p].k = "include" => ~e)
         /\ CountOf(rest, "sb") = 0 /\ CountOf(fr.pend, "sb") = 0
         /\ CountOf(rest, "se") = CountOf(fr.pend, "se")
  <1>1. CASE rest = fr.pend /\ (rest = <<>> \/ fr.mode \notin {"get", "args"})
    <2>1. \A p \in DOMAIN rest : rest[p].k # "sb" /\ (rest[p].k = "include" => ~e)
      BY <1>1 DEF Files
    <2> QED
      BY <1>1, <2>1, CountType
  <1>2. CASE fr.pend # <<>> /\ rest = Tail(fr.pend) /\ Head(fr.pend).k \notin {"sb", "se", "eof"}
    <2>1. /\ rest \in Seq(Item) /\ Len(rest) = Len(fr.pend) - 1
          /\ Head(fr.pend) = fr.pend[1]
          /\ \A p \in 1 .. Len(rest) : rest[p] = fr.pend[p + 1]
      BY <1>2, HeadTailProperties
    <2>2. DOMAIN rest = 1 .. Len(rest) /\ Len(rest) \in Nat
          /\ DOMAIN fr.pend = 1 .. Len(fr.pend) /\ Len(fr.pend) \in Nat
      BY <2>1, LenProperties
    <2>3. \A p \in DOMAIN rest : p + 1 \in DOMAIN fr.pend /\ p + 1 # 1 /\ rest[p] = fr.pend[p + 1]
      BY <2>1, <2>2
    <2>4. \A p \in DOMAIN rest : rest[p].k # "sb" /\ (rest[p].k = "include" => ~e)
      BY <2>3 DEF Files
    <2>5. /\ CountOf(fr.pend, "sb") = 0 + CountOf(rest, "sb")
          /\ CountOf(fr.pend, "se") = 0 + CountOf(rest, "se")
      BY <1>2, CountHead
    <2>6. CountOf(rest, "sb") = 0 /\ CountOf(rest, "se") \in Nat
      BY <2>1, <2>4, CountType
    <2> QED
      BY <2>1, <2>4, <2>5, <2>6
  <1> QED
    BY <1>1, <1>2 DEF LeftBehind

(* Tokens and marks in front of such a rest open and close no file.        *)
LEMMA QuietFiles ==
  ASSUME NEW fs, fs.pend \in Seq(Item), NEW e, Files(fs, e),
         NEW rest, LeftBehind(rest, fs), NEW repl \in Seq(Token \cup MarkItem),
         NEW fr, fr.pend = repl \o rest, fr.inc = fs.inc
  PROVE  Files(fr, e)
  <1>1. /\ rest \in Seq(Item)
        /\ \A p \in DOMAIN rest : rest[p].k # "sb" /\ (rest[p].k = "include" => ~e)
        /\ CountOf(rest, "sb") = 0 /\ CountOf(fs.pend, "sb") = 0
        /\ CountOf(rest, "se") = CountOf(fs.pend, "se")
    BY BehindFree
  <1>2. /\ repl \in Seq(Item)
        /\ \A p \in DOMAIN repl : repl[p].k \notin {"sb", "se", "eof", "include"}
    BY PlainItems
  <1>3. CountOf(repl, "sb") = 0 /\ CountOf(repl, "se") = 0
    BY <1>2, CountType
  <1>4. CountOf(fr.pend, "sb") = CountOf(repl, "sb") + CountOf(rest, "sb")
        /\ CountOf(fr.pend, "se") = CountOf(repl, "se") + CountOf(rest, "se")
    BY <1>1, <1>2, CountConcat
  <1>5. CountOf(rest, "se") \in Nat
    BY <1>1, CountType
  <1>6. CountOf(fr.pend, "sb") = CountOf(fs.pend, "sb") /\ CountOf(fr.pend, "se") = CountOf(fs.pend, "se")
    BY <1>1, <1>3, <1>4, <1>5
  <1>7. \A p \in DOMAIN fr.pend : fr.pend[p].k # "sb" /\ (fr.pend[p].k = "include" => ~e)
    <2>1. \A p \in 1 .. Len(repl) + Len(rest) :
            (repl \o rest)[p] = IF p <= Len(repl) THEN repl[p] ELSE rest[p - Len(repl)]
      BY <1>1, <1>2, ConcatProperties
    <2>2. /\ Len(repl) \in Nat /\ Len(rest) \in Nat
          /\ DOMAIN repl = 1 .. Len(repl) /\ DOMAIN rest = 1 .. Len(rest)
          /\ DOMAIN (repl \o rest) = 1 .. Len(repl) + Len(rest)
      BY <1>1, <1>2, LenProperties, ConcatProperties
    <2>3. ASSUME NEW p \in DOMAIN (repl \o rest)
          PROVE  (repl \o rest)[p].k # "sb" /\ ((repl \o rest)[p].k = "include" => ~e)
      <3>1. CASE p <= Len(repl)
        BY <1>2, <2>1, <2>2, <3>1
      <3>2. CASE ~(p <= Len(repl))
        <4>1. p - Len(repl) \in DOMAIN rest
          BY <2>2, <3>2
        <4> QED
          BY <1>1, <2>1, <2>2, <3>2, <4>1
      <3> QED
        BY <3>1, <3>2
    <2> QED
      BY <2>3
  <1> QED
    BY <1>6, <1>7 DEF Files

(* The same of a Scan of an argument.                                      *)
LEMMA QuietArgument ==
  ASSUME NEW q \in Seq(Item), NoMarkers(q), NEW rest, rest = q \/ (q # <<>> /\ rest = Tail(q)),
         NEW repl \in Seq(Token \cup MarkItem)
  PROVE  NoMarkers(repl \o rest)
  <1>1. rest \in Seq(Item) /\ \A p \in DOMAIN rest : rest[p].k \notin {"sb", "se", "eof"}
    <2>1. CASE rest = q
      BY <2>1 DEF NoMarkers
    <2>2. CASE q # <<>> /\ rest = Tail(q)
      <3>1. /\ rest \in Seq(Item) /\ Len(rest) = Len(q) - 1 /\ Len(rest) \in Nat
            /\ \A p \in 1 .. Len(rest) : rest[p] = q[p + 1]
            /\ DOMAIN rest = 1 .. Len(rest) /\ DOMAIN q = 1 .. Len(q)
        BY <2>2, HeadTailProperties, LenProperties
      <3>2. \A p \in DOMAIN rest : p + 1 \in DOMAIN q
        BY <3>1
      <3> QED
        BY <3>1, <3>2 DEF NoMarkers
    <2> QED
      BY <2>1, <2>2
  <1>2. /\ repl \in Seq(Item)
        /\ \A p \in DOMAIN repl : repl[p].k \notin {"sb", "se", "eof", "include"}
    BY PlainItems
  <1>3. \A p \in 1 .. Len(repl) + Len(rest) :
          (repl \o rest)[p] = IF p <= Len(repl) THEN repl[p] ELSE rest[p - Len(repl)]
    BY <1>1, <1>2, ConcatProperties
  <1>4. /\ Len(repl) \in Nat /\ Len(rest) \in Nat
        /\ DOMAIN repl = 1 .. Len(repl) /\ DOMAIN rest = 1 .. Len(rest)
        /\ DOMAIN (repl \o rest) = 1 .. Len(repl) + Len(rest)
    BY <1>1, <1>2, LenProperties, ConcatProperties
  <1>5. ASSUME NEW p \in DOMAIN (repl \o rest)
        PROVE  (repl \o rest)[p].k \notin {"sb", "se", "eof"}
    <2>1. CASE p <= Len(repl)
      BY <1>2, <1>3, <1>4, <2>1
    <2>2. CASE ~(p <= Len(repl))
      <3>1. p - Len(repl) \in DOMAIN rest
        BY <1>4, <2>2
      <3> QED
        BY <1>1, <1>3, <1>4, <2>2, <3>1
    <2> QED
      BY <2>1, <2>2
  <1> QED
    BY <1>5 DEF NoMarkers

(* A step of the Scan on top that only takes an item that is no marker,    *)
(* and puts tokens and marks in its place.                                 *)
LEMMA QuietTop ==
  ASSUME TypeInv, TypeInv', StreamInv, NEW fr, SetTop(fr),
         "stream" \notin events' => "stream" \notin events, ended' = ended,
         err' # "incstack" \/ err' = err,
         "stream" \notin events /\ ArgsFree(Top) => ArgsFree(fr),
         NEW rest, LeftBehind(rest, Top), NEW repl \in Seq(Token \cup MarkItem),
         fr.pend = repl \o rest, fr.inc = Top.inc
  PROVE  StreamInv'
  <1> SUFFICES ASSUME "stream" \notin events', "stream" \notin events
               PROVE  /\ err' # "incstack" /\ ArgsFree(fr)
                      /\ Depth = 1 => Files(fr, ended)
                      /\ Depth > 1 => NoMarkers(fr.pend)
    BY StreamsTop
  <1>1. /\ err # "incstack" /\ ArgsFree(Top)
        /\ Depth = 1 => Files(Top, ended)
        /\ Depth > 1 => NoMarkers(Top.pend)
    BY StreamsOfTop
  <1>2. Top.pend \in Seq(Item)
    BY TopFrame DEF TypeInv
  <1>3. Depth = 1 => Files(fr, ended)
    BY <1>1, <1>2, QuietFiles
  <1>4. Depth > 1 => NoMarkers(fr.pend)
    BY <1>1, <1>2, QuietArgument DEF LeftBehind
  <1> QED
    BY <1>1, <1>3, <1>4

(* Nor does taking such an item alone.                                     *)
LEMMA QuietTake ==
  ASSUME TypeInv, TypeInv', StreamInv, NEW fr, SetTop(fr),
         "stream" \notin events' => "stream" \notin events, ended' = ended,
         err' # "incstack" \/ err' = err,
         "stream" \notin events /\ ArgsFree(Top) => ArgsFree(fr),
         LeftBehind(fr.pend, Top), fr.inc = Top.inc
  PROVE  StreamInv'
  <1>1. <<>> \in Seq(Token \cup MarkItem)
    OBVIOUS
  <1>2. fr.pend \in Seq(Item)
    <2>1. Top.pend \in Seq(Item)
      BY TopFrame DEF TypeInv
    <2> QED
      BY <2>1, HeadTailProperties DEF LeftBehind
  <1>3. fr.pend = <<>> \o fr.pend
    BY <1>2, ConcatEmptySeq
  <1> QED
    BY <1>1, <1>3, QuietTop

(* An exception is another one.                                            *)
LEMMA RaiseStreams ==
  ASSUME StreamInv, NEW e, Raise(e), e # "incstack"
  PROVE  StreamInv'
  BY DEF Raise, StreamInv, MarkersInPlace, StreamsBalanced, Waiting

(* What the Scan on top reads next, when it is no stream marker.           *)
LEMMA RestBehind ==
  ASSUME TypeInv, ~AtEnd, Cur.k \notin {"sb", "se", "eof"}
  PROVE  LeftBehind(Rest, Top)
  BY DEF LeftBehind, AtEnd, Cur, Rest

(* The branches of get() that meet a name.                                 *)
LEMMA GetStreams ==
  ASSUME TypeInv, TypeInv', StreamInv, EmitPlain \/ EmitHidden \/ EmitHead \/ MeetHead \/ Unhide
  PROVE  StreamInv'
  <1>0. Top \in Frame
    BY TopFrame DEF TypeInv
  <1>1. CASE EmitPlain \/ EmitHidden
    <2>1. ~AtEnd /\ Cur.k \notin {"sb", "se", "eof"}
      BY <1>1 DEF EmitPlain, EmitHidden, At, Punct
    <2>2. LeftBehind(Rest, Top)
      BY <2>1, RestBehind
    <2>3. PICK t : Emit(t, Rest)
      BY <1>1 DEF EmitPlain, EmitHidden
    <2> DEFINE fr == [Top EXCEPT !.pend = Rest, !.mode = "get", !.call = NoCall, !.out = Append(@, t)]
    <2>4. SetTop(fr) /\ UNCHANGED <<events, ended, err>>
      BY <2>3 DEF Emit, MoveTop
    <2>5. fr.pend = Rest /\ fr.mode = "get" /\ fr.inc = Top.inc
      BY <1>0 DEF Frame
    <2> HIDE DEF fr
    <2> QED
      BY <2>2, <2>4, <2>5, QuietTake DEF ArgsFree
  <1>2. CASE EmitHead
    <2>1. Top.mode = "head" /\ Emit(Id(Top.call.n), Top.pend)
      BY <1>2 DEF EmitHead, Running
    <2>2. LeftBehind(Top.pend, Top)
      BY <2>1 DEF LeftBehind
    <2> DEFINE fr == [Top EXCEPT !.pend = Top.pend, !.mode = "get", !.call = NoCall,
                                 !.out = Append(@, Id(Top.call.n))]
    <2>4. SetTop(fr) /\ UNCHANGED <<events, ended, err>>
      BY <2>1 DEF Emit, MoveTop
    <2>5. fr.pend = Top.pend /\ fr.mode = "get" /\ fr.inc = Top.inc
      BY <1>0 DEF Frame
    <2> HIDE DEF fr
    <2> QED
      BY <2>2, <2>4, <2>5, QuietTake DEF ArgsFree
  <1>3. CASE MeetHead
    <2>1. ~AtEnd /\ Cur.k \notin {"sb", "se", "eof"}
      BY <1>3 DEF MeetHead, At
    <2>2. LeftBehind(Rest, Top)
      BY <2>1, RestBehind
    <2> DEFINE fr == [Top EXCEPT !.pend = Rest, !.mode = "head", !.call = NewCall]
    <2>4. SetTop(fr) /\ UNCHANGED <<events, ended, err>>
      BY <1>3 DEF MeetHead, MoveTop
    <2>5. fr.pend = Rest /\ fr.call = NewCall /\ fr.inc = Top.inc /\ NewCall.args = <<>>
      BY <1>0 DEF Frame, NewCall
    <2> HIDE DEF fr
    <2>6. ArgsFree(fr)
      BY <2>5 DEF ArgsFree
    <2> QED
      BY <2>2, <2>4, <2>5, <2>6, QuietTake
  <1>4. CASE Unhide /\ Cur.n \in hidden
    <2>1. ~AtEnd /\ Cur.k \notin {"sb", "se", "eof"}
      BY <1>4 DEF Unhide, At
    <2>2. LeftBehind(Rest, Top)
      BY <2>1, RestBehind
    <2> DEFINE fr == [Top EXCEPT !.pend = Rest]
    <2>4. SetTop(fr) /\ UNCHANGED <<ended, err>> /\ events' \in {events, events \cup {"crossed"}}
      BY <1>4 DEF Unhide
    <2>5. fr.pend = Rest /\ fr.mode = Top.mode /\ fr.call = Top.call /\ fr.inc = Top.inc
      BY <1>0 DEF Frame
    <2> HIDE DEF fr
    <2>6. ArgsFree(Top) => ArgsFree(fr)
      BY <2>5 DEF ArgsFree
    <2>7. "stream" \notin events' => "stream" \notin events
      BY <2>4
    <2> QED
      BY <2>2, <2>4, <2>5, <2>6, <2>7, QuietTake
  <1>5. CASE Unhide /\ Cur.n \notin hidden
    BY <1>5, RaiseStreams DEF Unhide
  <1> QED
    BY <1>1, <1>2, <1>3, <1>4, <1>5

(* goThroughStreamMarkers (Scan.java:136): each marker is counted once.    *)
LEMMA MarkerStreams ==
  ASSUME TypeInv, TypeInv', StreamInv, StreamBegin \/ StreamEnd
  PROVE  StreamInv'
  <1>0. Top \in Frame /\ Top.pend \in Seq(Item) /\ Top.pend # <<>> /\ Depth \in Nat \ {0}
        /\ Cur = Head(Top.pend) /\ Cur = Top.pend[1] /\ Top.inc \in Nat
    BY TopFrame, HeadTailProperties DEF TypeInv, StreamBegin, StreamEnd, At, AtEnd, Cur, Frame
  <1>1. 1 \in DOMAIN Top.pend
    BY <1>0, LenProperties, EmptySeq
  <1>2. CASE "stream" \in events
    <2>1. events' = events
      BY DEF StreamBegin, StreamEnd, MoveTop, Raise
    <2> QED
      BY <1>2, <2>1 DEF StreamInv, MarkersInPlace, StreamsBalanced
  <1>3. CASE "stream" \notin events
    <2>0. /\ err # "incstack" /\ ArgsFree(Top)
          /\ Depth = 1 => Files(Top, ended)
          /\ Depth > 1 => NoMarkers(Top.pend)
      BY <1>3, StreamsOfTop
    <2>1. Depth = 1
      BY <1>0, <1>1, <2>0 DEF NoMarkers, StreamBegin, StreamEnd, At
    <2>2. Files(Top, ended)
      BY <2>0, <2>1
    <2>3. /\ Rest \in Seq(Item) /\ Len(Rest) = Len(Top.pend) - 1 /\ Len(Rest) \in Nat
          /\ DOMAIN Rest = 1 .. Len(Rest) /\ DOMAIN Top.pend = 1 .. Len(Top.pend)
          /\ \A p \in 1 .. Len(Rest) : Rest[p] = Top.pend[p + 1]
      BY <1>0, HeadTailProperties, LenProperties DEF Rest
    <2>4. \A p \in DOMAIN Rest : Rest[p].k # "sb" /\ (Rest[p].k = "include" => ~ended)
      <3>1. \A p \in DOMAIN Rest : p + 1 \in DOMAIN Top.pend /\ p + 1 # 1
        BY <2>3
      <3> QED
        BY <2>2, <2>3, <3>1 DEF Files
    <2>5. CountOf(Rest, "sb") = 0 /\ CountOf(Rest, "se") \in Nat
      BY <2>3, <2>4, CountType
    <2>6. /\ CountOf(Top.pend, "sb") = (IF Cur.k = "sb" THEN 1 ELSE 0) + CountOf(Rest, "sb")
          /\ CountOf(Top.pend, "se") = (IF Cur.k = "se" THEN 1 ELSE 0) + CountOf(Rest, "se")
      BY <1>0, CountHead DEF Rest
    <2>7. Top.inc <= IncLimit + 2
          /\ Top.inc + CountOf(Top.pend, "sb") = CountOf(Top.pend, "se") + (IF ended THEN 0 ELSE 1)
      BY <2>2 DEF Files
    <2>8. CASE StreamBegin
      <3>1. CASE Top.inc > IncLimit + 1
        BY <2>8, <3>1, RaiseStreams DEF StreamBegin
      <3>2. CASE ~(Top.inc > IncLimit + 1)
        <4> DEFINE fr == [Top EXCEPT !.pend = Rest, !.inc = @ + 1]
        <4>1. SetTop(fr) /\ UNCHANGED <<events, ended, err>>
          BY <2>8, <3>2 DEF StreamBegin, MoveTop
        <4>2. fr.pend = Rest /\ fr.mode = Top.mode /\ fr.call = Top.call /\ fr.inc = Top.inc + 1
          BY <1>0 DEF Frame
        <4>3. Cur.k = "sb"
          BY <2>8 DEF StreamBegin, At
        <4> HIDE DEF fr
        <4>4. fr.inc <= IncLimit + 2
          BY <1>0, <3>2, <4>2, NoneAssumption
        <4>5. fr.inc + CountOf(fr.pend, "sb") = CountOf(fr.pend, "se") + (IF ended THEN 0 ELSE 1)
          BY <1>0, <2>5, <2>6, <2>7, <4>2, <4>3
        <4>6. Files(fr, ended)
          BY <2>4, <4>2, <4>4, <4>5 DEF Files
        <4>7. ArgsFree(fr)
          BY <2>0, <4>2 DEF ArgsFree
        <4> QED
          BY <1>3, <2>0, <2>1, <4>1, <4>6, <4>7, StreamsTop
      <3> QED
        BY <3>1, <3>2
    <2>9. CASE StreamEnd
      <3>1. Cur.k = "se"
        BY <2>9 DEF StreamEnd, At
      <3>2. Top.inc > 0
        BY <1>0, <2>5, <2>6, <2>7, <3>1
      <3> DEFINE fr == [Top EXCEPT !.pend = Rest, !.inc = @ - 1]
      <3>3. SetTop(fr) /\ UNCHANGED <<events, ended, err>>
        BY <2>9, <3>2 DEF StreamEnd, MoveTop
      <3>4. fr.pend = Rest /\ fr.mode = Top.mode /\ fr.call = Top.call /\ fr.inc = Top.inc - 1
        BY <1>0 DEF Frame
      <3> HIDE DEF fr
      <3>5. fr.inc <= IncLimit + 2
        BY <1>0, <2>7, <3>4, NoneAssumption
      <3>6. fr.inc + CountOf(fr.pend, "sb") = CountOf(fr.pend, "se") + (IF ended THEN 0 ELSE 1)
        BY <1>0, <2>5, <2>6, <2>7, <3>1, <3>4
      <3>7. Files(fr, ended)
        BY <2>4, <3>4, <3>5, <3>6 DEF Files
      <3>8. ArgsFree(fr)
        BY <2>0, <3>4 DEF ArgsFree
      <3> QED
        BY <1>3, <2>0, <2>1, <3>3, <3>7, <3>8, StreamsTop
    <2> QED
      BY <2>8, <2>9
  <1> QED
    BY <1>2, <1>3

(* The text of an included file between its own markers.                   *)
LEMMA FileText ==
  ASSUME NEW h \in Headers
  PROVE  LET q == <<SB>> \o HeaderText[h] \o <<SE>>
         IN  /\ q \in Seq(Item)
             /\ CountOf(q, "sb") = 1 /\ CountOf(q, "se") = 1
             /\ \A p \in DOMAIN q : q[p].k = "sb" => p = 1
  <1> DEFINE t == HeaderText[h]
             b == <<SB>> \o t
             q == b \o <<SE>>
  <1>1. t \in Seq(Item) /\ \A p \in DOMAIN t : t[p].k \notin {"sb", "se", "eof"}
    <2>1. t \in Seq(Token \cup Directive)
      BY HeaderAssumption
    <2>2. \A it \in Token \cup Directive : it.k \notin {"sb", "se", "eof"}
      BY DEF Token, Punct, Directive
    <2>3. \A p \in DOMAIN t : t[p] \in Token \cup Directive
      BY <2>1, ElementOfSeq, LenProperties
    <2>4. t \in Seq(Item)
      BY <2>1, SeqMonotonic DEF Item
    <2> QED
      BY <2>2, <2>3, <2>4
  <1>2. <<SB>> \in Seq(Item) /\ <<SE>> \in Seq(Item) /\ SB.k = "sb" /\ SE.k = "se"
    BY DEF Item, StreamMarker, SB, SE
  <1> HIDE DEF t
  <1>3. b \in Seq(Item) /\ q \in Seq(Item)
    BY <1>1, <1>2, ConcatProperties
  <1>4. CountOf(t, "sb") = 0 /\ CountOf(t, "se") = 0
    BY <1>1, CountType
  <1>5. CountOf(b, "sb") = CountOf(<<SB>>, "sb") + CountOf(t, "sb")
        /\ CountOf(b, "se") = CountOf(<<SB>>, "se") + CountOf(t, "se")
    BY <1>1, <1>2, CountConcat, ZenonT(40)
  <1>6. CountOf(q, "sb") = CountOf(b, "sb") + CountOf(<<SE>>, "sb")
        /\ CountOf(q, "se") = CountOf(b, "se") + CountOf(<<SE>>, "se")
    BY <1>2, <1>3, CountConcat, ZenonT(40)
  <1>7. CountOf(<<SB>>, "sb") = 1 /\ CountOf(<<SB>>, "se") = 0
        /\ CountOf(<<SE>>, "sb") = 0 /\ CountOf(<<SE>>, "se") = 1
    BY <1>2, CountOne
  <1>8. CountOf(q, "sb") = 1 /\ CountOf(q, "se") = 1
    BY <1>4, <1>5, <1>6, <1>7
  <1>9. ASSUME NEW p \in DOMAIN q, p # 1
        PROVE  q[p].k # "sb"
    <2>1. /\ Len(<<SB>>) = 1 /\ Len(t) \in Nat /\ Len(b) = 1 + Len(t) /\ Len(<<SE>>) = 1
          /\ Len(q) = Len(b) + 1 /\ DOMAIN q = 1 .. Len(b) + 1 /\ DOMAIN t = 1 .. Len(t)
      BY <1>1, <1>2, <1>3, ConcatProperties, LenProperties
    <2>2. p \in 2 .. Len(t) + 2
      BY <1>9, <2>1
    <2>3. CASE p = Len(t) + 2
      <3>1. q[p] = <<SE>>[p - Len(b)] /\ p - Len(b) = 1
        BY <1>2, <1>3, <2>1, <2>3, ConcatProperties
      <3> QED
        BY <1>2, <3>1
    <2>4. CASE p # Len(t) + 2
      <3>1. q[p] = b[p]
        BY <1>2, <1>3, <2>1, <2>2, <2>4, ConcatProperties
      <3>2. b[p] = t[p - 1]
        BY <1>1, <1>2, <2>1, <2>2, <2>4, ConcatProperties
      <3>3. p - 1 \in DOMAIN t
        BY <2>1, <2>2, <2>4
      <3> QED
        BY <1>1, <3>1, <3>2, <3>3
    <2> QED
      BY <2>3, <2>4
  <1> QED
    BY <1>3, <1>8, <1>9 DEF t

(* An #include puts a file in its place, which the Scan then reads first   *)
(* (PP_include.java:165).                                                  *)
LEMMA IncludeStreams ==
  ASSUME TypeInv, TypeInv', StreamInv, Include, Cur.h \notin once, "stream" \notin events
  PROVE  StreamInv'
  <1>0. /\ Top \in Frame /\ Top.pend \in Seq(Item) /\ Top.pend # <<>> /\ Cur = Head(Top.pend)
        /\ Cur = Top.pend[1] /\ Cur \in Item /\ Cur.k = "include" /\ Top.mode \in {"get", "args"}
        /\ Top.inc \in Nat
    BY TopFrame, HeadTailProperties DEF TypeInv, Include, Running, At, AtEnd, Cur, Frame
  <1>1. Cur.h \in Headers
    BY <1>0, ItemKinds
  <1> DEFINE q == <<SB>> \o HeaderText[Cur.h] \o <<SE>>
             fr == [Top EXCEPT !.pend = q \o Rest]
  <1>2. /\ q \in Seq(Item) /\ CountOf(q, "sb") = 1 /\ CountOf(q, "se") = 1
        /\ \A p \in DOMAIN q : q[p].k = "sb" => p = 1
    BY <1>1, FileText
  <1>3. SetTop(fr) /\ UNCHANGED <<events, ended, err>>
    BY DEF Include, MoveTop
  <1>4. fr.pend = q \o Rest /\ fr.mode = Top.mode /\ fr.call = Top.call /\ fr.inc = Top.inc
    BY <1>0 DEF Frame
  <1> HIDE DEF q, fr
  <1>5. Depth = 1
    BY OnlyTheProgramHasDirectives DEF Include
  <1>6. err # "incstack" /\ ArgsFree(Top) /\ Files(Top, ended)
    BY <1>5, StreamsOfTop
  <1>7. ~ended
    <2>1. 1 \in DOMAIN Top.pend
      BY <1>0, LenProperties, EmptySeq
    <2> QED
      BY <1>0, <1>6, <2>1 DEF Files
  <1>8. LeftBehind(Rest, Top)
    BY <1>0, RestBehind DEF AtEnd
  <1>9. /\ Rest \in Seq(Item)
        /\ \A p \in DOMAIN Rest : Rest[p].k # "sb"
        /\ CountOf(Rest, "sb") = 0 /\ CountOf(Top.pend, "sb") = 0
        /\ CountOf(Rest, "se") = CountOf(Top.pend, "se") /\ CountOf(Rest, "se") \in Nat
    BY <1>0, <1>6, <1>8, BehindFree, CountType
  <1>10. CountOf(fr.pend, "sb") = 1 /\ CountOf(fr.pend, "se") = 1 + CountOf(Top.pend, "se")
    BY <1>2, <1>4, <1>9, CountConcat
  <1>11. ASSUME NEW p \in DOMAIN fr.pend, fr.pend[p].k = "sb"
         PROVE  p = 1
    <2>1. /\ Len(q) \in Nat /\ Len(Rest) \in Nat /\ DOMAIN q = 1 .. Len(q)
          /\ DOMAIN Rest = 1 .. Len(Rest) /\ DOMAIN fr.pend = 1 .. Len(q) + Len(Rest)
          /\ fr.pend[p] = IF p <= Len(q) THEN q[p] ELSE Rest[p - Len(q)]
      BY <1>2, <1>4, <1>9, ConcatProperties, LenProperties
    <2>2. CASE p <= Len(q)
      BY <1>2, <1>11, <2>1, <2>2
    <2>3. CASE ~(p <= Len(q))
      <3>1. p - Len(q) \in DOMAIN Rest
        BY <2>1, <2>3
      <3> QED
        BY <1>9, <1>11, <2>1, <2>3, <3>1
    <2> QED
      BY <2>2, <2>3
  <1>12. Files(fr, ended)
    <2>1. Top.inc <= IncLimit + 2
          /\ Top.inc + CountOf(Top.pend, "sb") = CountOf(Top.pend, "se") + 1
      BY <1>6, <1>7 DEF Files
    <2>2. fr.inc + CountOf(fr.pend, "sb") = CountOf(fr.pend, "se") + 1
      BY <1>0, <1>4, <1>9, <1>10, <2>1
    <2> QED
      BY <1>0, <1>4, <1>7, <1>11, <2>1, <2>2 DEF Files
  <1>13. ArgsFree(fr)
    BY <1>4, <1>6 DEF ArgsFree
  <1> QED
    BY <1>3, <1>5, <1>6, <1>12, <1>13, StreamsTop

(* The other directives (Scan.java:93) only take their line.               *)
LEMMA DirectiveStreams ==
  ASSUME TypeInv, TypeInv', StreamInv, Define \/ Undef \/ Include \/ PragmaOnce
  PROVE  StreamInv'
  <1>0. Top \in Frame /\ ~AtEnd /\ Cur.k \notin {"sb", "se", "eof"}
    BY TopFrame DEF TypeInv, Define, Undef, Include, PragmaOnce, At
  <1>1. LeftBehind(Rest, Top)
    BY <1>0, RestBehind
  <1>2. ASSUME NEW fr, SetTop(fr), fr.pend = Rest, fr.mode = Top.mode, fr.inc = Top.inc,
               fr.mode # "get" => fr.call.args = Top.call.args,
               "stream" \notin events' => "stream" \notin events, UNCHANGED <<ended, err>>
        PROVE  StreamInv'
    <2>1. ArgsFree(Top) => ArgsFree(fr)
      BY <1>2 DEF ArgsFree
    <2> QED
      BY <1>1, <1>2, <2>1, QuietTake
  <1>3. [Top EXCEPT !.pend = Rest].pend = Rest /\ [Top EXCEPT !.pend = Rest].mode = Top.mode
        /\ [Top EXCEPT !.pend = Rest].inc = Top.inc /\ [Top EXCEPT !.pend = Rest].call = Top.call
    BY <1>0 DEF Frame
  <1>4. ASSUME NEW n, PopAndOutdate(n), UNCHANGED <<ended, err>>
        PROVE  StreamInv'
    <2>1. CASE Redefines(n)
      <3> DEFINE fr == [Top EXCEPT !.pend = Rest, !.call.stale = TRUE]
      <3>1. SetTop(fr) /\ events' = events \cup {"redefined"}
        BY <1>4, <2>1 DEF PopAndOutdate
      <3>2. Top.call \in Call
        BY <2>1, TopCall DEF Redefines
      <3>3. /\ fr.pend = Rest /\ fr.mode = Top.mode /\ fr.inc = Top.inc
            /\ fr.call = [Top.call EXCEPT !.stale = TRUE]
        BY <1>0 DEF Frame
      <3>4. fr.call.args = Top.call.args
        BY <3>2, <3>3, SMTT(20) DEF Call
      <3> HIDE DEF fr
      <3> QED
        BY <1>2, <1>4, <3>1, <3>3, <3>4
    <2>2. CASE ~Redefines(n)
      <3>1. SetTop([Top EXCEPT !.pend = Rest]) /\ events' = events
        BY <1>4, <2>2 DEF PopAndOutdate
      <3> QED
        BY <1>2, <1>3, <1>4, <3>1
    <2> QED
      BY <2>1, <2>2
  <1>5. CASE Define \/ Undef
    BY <1>4, <1>5 DEF Define, Undef
  <1>6. CASE PragmaOnce
    <2>1. SetTop([Top EXCEPT !.pend = Rest]) /\ UNCHANGED <<events, ended, err>>
      BY <1>6 DEF PragmaOnce
    <2> QED
      BY <1>2, <1>3, <2>1
  <1>7. CASE Include /\ Cur.h \in once
    <2>1. SetTop([Top EXCEPT !.pend = Rest]) /\ UNCHANGED <<events, ended, err>>
      BY <1>7 DEF Include, MoveTop
    <2> QED
      BY <1>2, <1>3, <2>1
  <1>8. CASE Include /\ Cur.h \notin once /\ "stream" \in events
    <2>1. events' = events
      BY <1>8 DEF Include, MoveTop
    <2> QED
      BY <1>8, <2>1 DEF StreamInv, MarkersInPlace, StreamsBalanced
  <1>9. CASE Include /\ Cur.h \notin once /\ "stream" \notin events
    BY <1>9, IncludeStreams
  <1> QED
    BY <1>5, <1>6, <1>7, <1>8, <1>9

(* The program is read on where its queue is empty, and its end closes the *)
(* file that it is.                                                        *)
LEMMA SourceStreams ==
  ASSUME TypeInv, TypeInv', StreamInv, ReadSource \/ ReadEnd
  PROVE  StreamInv'
  <1>0. Depth = 1 /\ Top \in Frame /\ Top.pend = <<>> /\ ~ended /\ Top.inc \in Nat
    BY TopFrame DEF ReadSource, ReadEnd, NeedsSource, AtEnd, TypeInv, Frame
  <1>1. CASE "stream" \in events
    <2>1. events' = events
      BY DEF ReadSource, ReadEnd
    <2> QED
      BY <1>1, <2>1 DEF StreamInv, MarkersInPlace, StreamsBalanced
  <1>2. CASE "stream" \notin events
    <2>1. err # "incstack" /\ ArgsFree(Top) /\ Files(Top, ended)
      BY <1>0, <1>2, StreamsOfTop
    <2>2. CountOf(Top.pend, "sb") = 0 /\ CountOf(Top.pend, "se") = 0
      <3>1. Top.pend \in Seq(Item) /\ \A c : \A p \in DOMAIN Top.pend : Top.pend[p].k # c
        BY <1>0
      <3> QED
        BY <3>1, CountType
    <2>3. Top.inc <= IncLimit + 2 /\ Top.inc = 1
      BY <1>0, <2>1, <2>2 DEF Files
    <2>4. CASE ReadSource
      <3> PICK it \in SourceItems : SetTop([Top EXCEPT !.pend = <<it>>])
        BY <2>4 DEF ReadSource
      <3> DEFINE fr == [Top EXCEPT !.pend = <<it>>]
      <3>1. UNCHANGED <<events, ended, err>> /\ SetTop(fr)
        BY <2>4 DEF ReadSource
      <3>2. fr.pend = <<it>> /\ fr.mode = Top.mode /\ fr.call = Top.call /\ fr.inc = Top.inc
        BY <1>0 DEF Frame
      <3> HIDE DEF fr
      <3>3. it.k \notin {"sb", "se"}
        BY HeaderAssumption DEF Token, Punct, Directive
      <3>4. CountOf(fr.pend, "sb") = 0 /\ CountOf(fr.pend, "se") = 0
        BY <3>2, <3>3, CountOne
      <3>5. \A p \in DOMAIN fr.pend : fr.pend[p] = it
        BY <3>2
      <3>6. Files(fr, ended)
        BY <1>0, <2>3, <3>2, <3>3, <3>4, <3>5 DEF Files
      <3>7. ArgsFree(fr)
        BY <2>1, <3>2 DEF ArgsFree
      <3> QED
        BY <1>0, <1>2, <2>1, <3>1, <3>6, <3>7, StreamsTop
    <2>5. CASE ReadEnd
      <3> DEFINE fr == [Top EXCEPT !.pend = <<SE, Eof>>]
      <3>1. UNCHANGED <<events, err>> /\ ended' = TRUE /\ SetTop(fr)
        BY <2>5 DEF ReadEnd
      <3>2. fr.pend = <<SE, Eof>> /\ fr.mode = Top.mode /\ fr.call = Top.call /\ fr.inc = Top.inc
        BY <1>0 DEF Frame
      <3> HIDE DEF fr
      <3>3. \A p \in DOMAIN fr.pend : fr.pend[p].k \notin {"sb", "include"}
        BY <3>2 DEF SE, Eof
      <3>4. CountOf(fr.pend, "sb") = 0 /\ CountOf(fr.pend, "se") = 1
        <4>1. <<SE, Eof>> \in Seq({SE, Eof}) /\ Head(<<SE, Eof>>) = SE /\ Tail(<<SE, Eof>>) = <<Eof>>
          OBVIOUS
        <4>2. \A c : CountOf(<<SE, Eof>>, c) = (IF SE.k = c THEN 1 ELSE 0) + CountOf(<<Eof>>, c)
          BY <4>1, CountHead
        <4>3. \A c : CountOf(<<Eof>>, c) = IF Eof.k = c THEN 1 ELSE 0
          BY CountOne
        <4> QED
          BY <3>2, <4>2, <4>3 DEF SE, Eof
      <3>5. fr.inc + CountOf(fr.pend, "sb") = CountOf(fr.pend, "se") + 0 /\ fr.inc <= IncLimit + 2
        BY <2>3, <3>2, <3>4
      <3>b. ended'
        BY <3>1
      <3>c. (IF ended' THEN 0 ELSE 1) = 0
        BY <3>b
      <3>d. fr.inc + CountOf(fr.pend, "sb") = CountOf(fr.pend, "se") + (IF ended' THEN 0 ELSE 1)
        BY <3>5, <3>c
      <3>6. Files(fr, ended')
        BY <3>3, <3>5, <3>d DEF Files
      <3>7. ArgsFree(fr)
        BY <2>1, <3>2 DEF ArgsFree
      <3>8. SetTop(fr) /\ err' # "incstack" /\ ~(Depth > 1)
        BY <1>0, <2>1, <3>1
      <3> QED
        BY <1>2, <3>6, <3>7, <3>8, StreamsTop
    <2> QED
      BY <2>4, <2>5
  <1> QED
    BY <1>1, <1>2

(* The collected arguments hold tokens of the calls, and no marker of a    *)
(* file unless it has been noted (Scan.java:491).                          *)
LEMMA TokensAreFree ==
  ASSUME NEW a \in Seq(ArgItem), NoMarkers(a), NEW t, t.k \notin {"sb", "se", "eof"}
  PROVE  NoMarkers(Append(a, t))
  BY AppendProperties DEF NoMarkers

(* Collecting the arguments (Scan.java:454) takes no marker unnoticed.     *)
LEMMA CallStreams ==
  ASSUME TypeInv, TypeInv', StreamInv,
         \/ OpenCall \/ CloseNullary \/ ArgToken \/ ArgStreamMarker \/ ArgComma
         \/ ArgParen \/ CloseArgs \/ RunOutOfArgs
  PROVE  StreamInv'
  <1>0. Top \in Frame /\ Top.mode \in {"head", "nullary", "args"} /\ Top.call \in Call
        /\ GoodCall(Top) /\ Top.call.args \in Seq(Seq(ArgItem))
    BY TopFrame, TopCall
    DEF TypeInv, OpenCall, CloseNullary, ArgToken, ArgStreamMarker, ArgComma,
        ArgParen, CloseArgs, RunOutOfArgs, Running, Call
  <1>1. CASE \E e \in {"nullary", "arity"} : Raise(e)
    BY <1>1, RaiseStreams
  <1>2. ASSUME NEW fr, SetTop(fr), LeftBehind(fr.pend, Top), fr.inc = Top.inc,
               ArgsFree(Top) => \A a \in DOMAIN fr.call.args : NoMarkers(fr.call.args[a]),
               events' \in {events, events \cup {"unterminated"}}, UNCHANGED <<ended, err>>
        PROVE  StreamInv'
    <2>1. "stream" \notin events' => "stream" \notin events
      BY <1>2
    <2>2. ArgsFree(Top) => ArgsFree(fr)
      BY <1>2 DEF ArgsFree
    <2> QED
      BY <1>2, <2>1, <2>2, QuietTake
  <1>3. ArgsFree(Top) => \A a \in DOMAIN Top.call.args : NoMarkers(Top.call.args[a])
    BY <1>0 DEF ArgsFree
  <1>4. ASSUME ~AtEnd, Top.mode = "args", NEW t, t.k \notin {"sb", "se", "eof"}, t \in ArgItem,
               Cur.k \notin {"sb", "se", "eof"}, NEW nest, AddToArg(t, nest, {})
        PROVE  StreamInv'
    <2> DEFINE new == [Top.call.args EXCEPT ![NArgs] = Append(@, t)]
               fr == [Top EXCEPT !.pend = Rest, !.call.nest = nest, !.call.args = new]
    <2>1. SetTop(fr) /\ events' = events /\ UNCHANGED <<ended, err>>
      <3>1. fr = [Top EXCEPT !.pend = Rest, !.call.nest = nest,
                             !.call.args[NArgs] = Append(@, t)]
        BY <1>0 DEF Frame, Call
      <3> HIDE DEF fr
      <3> QED
        BY <1>4, <3>1 DEF AddToArg
    <2>2. NArgs \in 1 .. Len(Top.call.args) /\ DOMAIN Top.call.args = 1 .. Len(Top.call.args)
      <3>1. Len(Top.call.args) \in 1 .. Top.call.sym.arity
        BY <1>0, <1>4 DEF GoodCall
      <3>2. Len(Top.call.args) \in Nat /\ DOMAIN Top.call.args = 1 .. Len(Top.call.args)
        BY <1>0, LenProperties
      <3> QED
        BY <3>1, <3>2 DEF NArgs
    <2> HIDE DEF new
    <2>3. fr.pend = Rest /\ fr.inc = Top.inc /\ fr.call.args = new
      BY <1>0 DEF Frame, Call
    <2> HIDE DEF fr
    <2>4. /\ DOMAIN new = DOMAIN Top.call.args
          /\ \A a \in DOMAIN new :
               new[a] = IF a = NArgs THEN Append(Top.call.args[a], t) ELSE Top.call.args[a]
      BY <2>2 DEF new
    <2>5. \A a \in DOMAIN Top.call.args : Top.call.args[a] \in Seq(ArgItem)
      BY <1>0, ElementOfSeq, LenProperties
    <2>6. ArgsFree(Top) => \A a \in DOMAIN new : NoMarkers(new[a])
      BY <1>3, <1>4, <2>4, <2>5, TokensAreFree
    <2>7. LeftBehind(Rest, Top)
      BY <1>4, RestBehind
    <2> QED
      BY <1>2, <2>1, <2>3, <2>6, <2>7
  <1>5. CASE OpenCall
    <2> DEFINE fr == IF Top.call.sym.arity = 0
                     THEN [Top EXCEPT !.pend = Rest, !.mode = "nullary"]
                     ELSE [Top EXCEPT !.pend = Rest, !.mode = "args",
                                      !.call.args = <<(<<>>)>>]
    <2>1. ~AtEnd /\ Cur.k \notin {"sb", "se", "eof"}
      BY <1>5 DEF OpenCall, At
    <2>2. /\ fr.pend = Rest /\ fr.inc = Top.inc
          /\ fr.call.args = Top.call.args \/ fr.call.args = <<(<<>>)>>
      <3> DEFINE a == <<(<<>>)>>
      <3> HIDE DEF a
      <3>1. CASE Top.call.sym.arity = 0
        BY <1>0, <3>1 DEF Frame
      <3>2. CASE Top.call.sym.arity # 0
        <4>1. fr = [Top EXCEPT !.pend = Rest, !.mode = "args", !.call.args = a]
          BY <3>2 DEF a
        <4> HIDE DEF fr
        <4>2. fr.pend = Rest /\ fr.inc = Top.inc /\ fr.call.args = a
          BY <1>0, <4>1 DEF Frame, Call
        <4> QED
          BY <4>2 DEF a
      <3> QED
        BY <3>1, <3>2
    <2>3. SetTop(fr) /\ UNCHANGED <<events, ended, err>>
      BY <1>5 DEF OpenCall, MoveTop
    <2> HIDE DEF fr
    <2>4. \A a \in DOMAIN <<(<<>>)>> : NoMarkers(<<(<<>>)>>[a])
      BY DEF NoMarkers
    <2>5. ArgsFree(Top) => \A a \in DOMAIN fr.call.args : NoMarkers(fr.call.args[a])
      BY <1>3, <2>2, <2>4
    <2>6. LeftBehind(Rest, Top)
      BY <2>1, RestBehind
    <2> QED
      BY <1>2, <2>2, <2>3, <2>5, <2>6
  <1>6. CASE CloseNullary
    <2> DEFINE fr == [Top EXCEPT !.pend = Rest, !.mode = "expand"]
    <2>1. fr.pend = Rest /\ fr.call = Top.call /\ fr.inc = Top.inc
      BY <1>0 DEF Frame
    <2>2. CASE At({"rp"}) /\ MoveTop(fr)
      <3>1. SetTop(fr) /\ UNCHANGED <<events, ended, err>>
        BY <2>2 DEF MoveTop
      <3> HIDE DEF fr
      <3>2. LeftBehind(Rest, Top)
        BY <2>2, RestBehind DEF At
      <3> QED
        BY <1>2, <1>3, <2>1, <3>1, <3>2
    <2> QED
      BY <1>1, <1>6, <2>2 DEF CloseNullary
  <1>7. CASE ArgStreamMarker
    <2>1. "stream" \in events'
      BY <1>7 DEF ArgStreamMarker, AddToArg
    <2> QED
      BY <2>1 DEF StreamInv, MarkersInPlace, StreamsBalanced
  <1>8. CASE ArgToken
    <2>1. ~AtEnd /\ Top.mode = "args" /\ Cur.k \in {"id", "num", "str"} /\ Cur \in Item
      BY <1>8, TopFrame DEF ArgToken, At, Running, TypeInv
    <2>2. Cur \in Token /\ (Cur.k = "id" => Cur.n \in Names)
      BY <2>1, ItemKinds DEF Punct
    <2> DEFINE t == IF Cur.k = "id" /\ Cur.n \in hidden THEN Painted(Cur.n) ELSE Cur
    <2>3. t.k \in {"id", "num", "str"} /\ t \in ArgItem
      BY <2>1, <2>2 DEF ArgItem, Token, Painted
    <2>4. AddToArg(t, Top.call.nest, {})
      BY <1>8 DEF ArgToken
    <2> HIDE DEF t
    <2> QED
      BY <1>4, <2>1, <2>3, <2>4
  <1>9. CASE ArgComma
    <2>1. ~AtEnd /\ Cur.k = "comma" /\ Top.mode = "args" /\ Cur \in Item
      BY <1>9, TopFrame DEF ArgComma, At, Running, TypeInv
    <2>2. Cur \in ArgItem
      BY <2>1, ItemKinds DEF Punct, ArgItem
    <2> DEFINE new == Append(Top.call.args, <<>>)
               fr == [Top EXCEPT !.pend = Rest, !.call.args = new]
    <2>3. CASE MoveTop(fr)
      <3>1. \A a \in DOMAIN new : new[a] = <<>> \/ (a \in DOMAIN Top.call.args /\ new[a] = Top.call.args[a])
        <4>1. /\ Len(Top.call.args) \in Nat /\ DOMAIN Top.call.args = 1 .. Len(Top.call.args)
              /\ DOMAIN new = 1 .. Len(Top.call.args) + 1
              /\ \A a \in 1 .. Len(Top.call.args) : new[a] = Top.call.args[a]
              /\ new[Len(Top.call.args) + 1] = <<>>
          BY <1>0, LenProperties, AppendProperties
        <4> HIDE DEF new
        <4> QED
          BY <4>1
      <3>2. NoMarkers(<<>>)
        BY DEF NoMarkers
      <3> HIDE DEF new
      <3>3. fr.pend = Rest /\ fr.inc = Top.inc /\ fr.call.args = new
        BY <1>0 DEF Frame, Call
      <3>4. SetTop(fr) /\ UNCHANGED <<events, ended, err>>
        BY <2>3 DEF MoveTop
      <3> HIDE DEF fr
      <3>5. ArgsFree(Top) => \A a \in DOMAIN new : NoMarkers(new[a])
        BY <1>3, <3>1, <3>2
      <3>6. LeftBehind(Rest, Top)
        BY <2>1, RestBehind
      <3> QED
        BY <1>2, <3>3, <3>4, <3>5, <3>6
    <2> HIDE DEF fr
    <2>4. \/ AddToArg(Cur, Top.call.nest, {}) \/ Raise("arity") \/ MoveTop(fr)
      BY <1>9 DEF ArgComma, fr
    <2> QED
      BY <1>1, <1>4, <2>1, <2>2, <2>3, <2>4
  <1>10. CASE ArgParen
    <2>1. ~AtEnd /\ Cur.k \in {"lp", "rp"} /\ Top.mode = "args" /\ Cur \in Item
      BY <1>10, TopFrame DEF ArgParen, At, Running, TypeInv
    <2>2. Cur \in ArgItem
      BY <2>1, ItemKinds DEF Punct, ArgItem
    <2>3. PICK nest : AddToArg(Cur, nest, {})
      BY <1>10 DEF ArgParen
    <2> QED
      BY <1>4, <2>1, <2>2, <2>3
  <1>11. ASSUME NEW rest
         PROVE  LET fr == CollectedArgs(rest)
                IN  fr.pend = rest /\ fr.inc = Top.inc /\ fr.call.args = AllArgs
    <2> DEFINE new == AllArgs
               inf == VarargInfo
               fr == [Top EXCEPT !.pend = rest, !.mode = "expand", !.call.args = new,
                                 !.call.nest = 0, !.call.info = inf]
    <2>1. CollectedArgs(rest) = fr
      BY DEF CollectedArgs
    <2> HIDE DEF new, inf
    <2>2. fr.pend = rest /\ fr.inc = Top.inc /\ fr.call.args = new
      BY <1>0 DEF Frame, Call
    <2> HIDE DEF fr
    <2> QED
      BY <2>1, <2>2 DEF new
  <1>12. ArgsFree(Top) => \A a \in DOMAIN AllArgs : NoMarkers(AllArgs[a])
    <2>1. DOMAIN Top.call.args = 1 .. NArgs /\ NArgs \in Nat
      BY <1>0, LenProperties DEF NArgs
    <2>2. NoMarkers(<<>>)
      BY DEF NoMarkers
    <2>3. ASSUME NEW a \in DOMAIN AllArgs
          PROVE  \/ AllArgs[a] = <<>>
                 \/ a \in DOMAIN Top.call.args /\ AllArgs[a] = Top.call.args[a]
      <3>1. a \in 1 .. Top.call.sym.arity
        BY <2>3 DEF AllArgs
      <3>2. AllArgs[a] = IF a <= NArgs THEN Top.call.args[a] ELSE <<>>
        BY <3>1 DEF AllArgs
      <3> QED
        BY <2>1, <3>1, <3>2
    <2> QED
      BY <1>3, <2>2, <2>3
  <1>13. CASE CloseArgs
    <2>1. LeftBehind(Rest, Top)
      BY <1>13, RestBehind DEF CloseArgs, At
    <2>2. CASE MoveTop(CollectedArgs(Rest))
      <3>1. SetTop(CollectedArgs(Rest)) /\ UNCHANGED <<events, ended, err>>
        BY <2>2 DEF MoveTop
      <3> QED
        BY <1>2, <1>11, <1>12, <2>1, <3>1
    <2> QED
      BY <1>1, <1>13, <2>2 DEF CloseArgs
  <1>14. CASE RunOutOfArgs
    <2>1. SetTop(CollectedArgs(<<>>)) /\ events' = events \cup {"unterminated"}
          /\ UNCHANGED <<ended, err>> /\ Top.pend = <<>>
      BY <1>14 DEF RunOutOfArgs, AtEnd
    <2>2. LeftBehind(<<>>, Top)
      BY <2>1 DEF LeftBehind
    <2> QED
      BY <1>2, <1>11, <1>12, <2>1, <2>2
  <1> QED
    BY <1>5, <1>6, <1>7, <1>8, <1>9, <1>10, <1>13, <1>14

(* A replacement list that is ready is tokens and a mark.                  *)
LEMMA MarkLastPlain ==
  ASSUME NEW S, NEW q \in Seq(S), NEW n \in Names, MarkLast(q, n, Token)
  PROVE  q \in Seq(Token \cup MarkItem)
  <1>1. Len(q) \in Nat /\ q \in [1 .. Len(q) -> S]
    BY LenProperties
  <1>2. ASSUME NEW p \in 1 .. Len(q)
        PROVE  q[p] \in Token \cup MarkItem
    <2>1. CASE p = Len(q)
      <3>1. q[p] = Mark(n)
        BY <2>1 DEF MarkLast
      <3>2. Mark(n) \in MarkItem
        BY DEF Mark, MarkItem
      <3> QED
        BY <3>1, <3>2
    <2>2. CASE p # Len(q)
      <3>1. Len(q) \in Int /\ p \in Int /\ 1 <= p /\ p <= Len(q)
        BY <1>1
      <3>2. p \in 1 .. Len(q) - 1
        BY <2>2, <3>1
      <3> QED
        BY <3>2 DEF MarkLast
    <2> QED
      BY <2>1, <2>2
  <1>3. q \in [1 .. Len(q) -> Token \cup MarkItem]
    BY <1>1, <1>2
  <1> QED
    BY <1>1, <1>3

(* A replacement takes the place of the call, and opens no file.           *)
LEMMA ReplaceStreams ==
  ASSUME TypeInv, TypeInv', StreamInv, ExpandObject \/ Install
  PROVE  StreamInv'
  <1>0. Top \in Frame /\ TypeOK /\ (~AtEnd => Cur \in Item)
    BY TopFrame DEF TypeInv
  <1>1. ASSUME NEW n, NEW stale, NEW repl \in Seq(Token \cup MarkItem), NEW rest,
               LeftBehind(rest, Top), ReplaceSimple(n, stale, repl, rest)
        PROVE  StreamInv'
    <2>1. CASE Raise("hide")
      BY <2>1, RaiseStreams
    <2>2. CASE ~Raise("hide")
      <3> DEFINE q == repl \o rest
                 fr == [Top EXCEPT !.pend = q, !.mode = "get", !.call = NoCall]
      <3>1. SetTop(fr) /\ UNCHANGED <<events, ended, err>>
        BY <1>1, <2>2 DEF ReplaceSimple
      <3> HIDE DEF q
      <3>2. fr.pend = q /\ fr.inc = Top.inc /\ fr.mode = "get"
        BY <1>0 DEF Frame
      <3> HIDE DEF fr
      <3> QED
        BY <1>1, <3>1, <3>2, QuietTop DEF ArgsFree, q
    <2> QED
      BY <2>1, <2>2
  <1>2. CASE ExpandObject
    <2>1. ~AtEnd /\ Cur.n \in Names /\ Cur.k \notin {"sb", "se", "eof"}
      BY <1>0, <1>2, ItemKinds DEF ExpandObject, At
    <2>2. GoodSym(defs[Cur.n], Cur.n) /\ defs[Cur.n].arity = -1
      BY <1>2, <2>1 DEF ExpandObject, Sees, TypeInv, GoodTable
    <2>3. defs[Cur.n].body \in Seq(Token \cup MarkItem)
      BY <2>1, <2>2, ObjectBody, MarkLastPlain
    <2>4. LeftBehind(Rest, Top)
      BY <2>1, RestBehind
    <2> QED
      BY <1>1, <1>2, <2>3, <2>4 DEF ExpandObject
  <1>3. CASE Install
    <2>1. Top.mode = "subst"
      BY <1>3 DEF Install, Running
    <2>2. Top.call.res \in Seq(Token \cup MarkItem)
      BY <2>1, TopCall DEF Call
    <2>3. LeftBehind(Top.pend, Top)
      BY <2>1 DEF LeftBehind
    <2>4. ReplaceSimple(Top.call.n, Top.call.stale, Top.call.res, Top.pend)
      BY <1>3 DEF Install
    <2> QED
      BY <1>1, <2>2, <2>3, <2>4
  <1> QED
    BY <1>2, <1>3

(* Substitution (Scan.java:405) reads no item of the queue.                *)
LEMMA SubstStreams ==
  ASSUME TypeInv, TypeInv', StreamInv, SkipArg \/ StartSubst \/ Subst
  PROVE  StreamInv'
  <1>0. Top \in Frame /\ Top.mode \in {"expand", "subst"} /\ Top.call \in Call
    BY TopFrame, TopCall DEF TypeInv, SkipArg, Expanding, StartSubst, Subst, Running
  <1>1. ASSUME NEW fr, MoveTop(fr), fr.pend = Top.pend, fr.inc = Top.inc,
               fr.call.args = Top.call.args
        PROVE  StreamInv'
    <2>1. LeftBehind(Top.pend, Top)
      BY <1>0 DEF LeftBehind
    <2>2. SetTop(fr) /\ UNCHANGED <<events, ended, err>>
      BY <1>1 DEF MoveTop
    <2>3. ArgsFree(Top) => ArgsFree(fr)
      BY <1>0, <1>1 DEF ArgsFree
    <2> QED
      BY <1>1, <2>1, <2>2, <2>3, QuietTake
  <1>2. CASE SkipArg
    <2> DEFINE e == Append(Top.call.exp, <<>>)
    <2> DEFINE fr == [Top EXCEPT !.call.exp = e]
    <2>1. MoveTop(fr)
      BY <1>2 DEF SkipArg
    <2> HIDE DEF e
    <2>2. fr.pend = Top.pend /\ fr.inc = Top.inc /\ fr.call.args = Top.call.args
      BY <1>0 DEF Frame, Call
    <2> HIDE DEF fr
    <2> QED
      BY <1>1, <2>1, <2>2
  <1>3. CASE StartSubst
    <2> DEFINE fr == [Top EXCEPT !.mode = "subst"]
    <2>1. MoveTop(fr)
      BY <1>3 DEF StartSubst
    <2>2. fr.pend = Top.pend /\ fr.call = Top.call /\ fr.inc = Top.inc
      BY <1>0 DEF Frame
    <2> HIDE DEF fr
    <2> QED
      BY <1>1, <2>1, <2>2
  <1>4. CASE Subst
    <2> DEFINE piece == Piece(Top.call.sym.body[Top.call.pos + 1])
    <2> DEFINE fr == [Top EXCEPT !.call.pos = @ + 1, !.call.res = @ \o piece]
    <2>1. MoveTop(fr)
      BY <1>4 DEF Subst
    <2> HIDE DEF piece
    <2>2. fr.pend = Top.pend /\ fr.inc = Top.inc /\ fr.call.args = Top.call.args
      BY <1>0 DEF Frame, Call
    <2> HIDE DEF fr
    <2> QED
      BY <1>1, <2>1, <2>2
  <1> QED
    BY <1>2, <1>3, <1>4

(* An argument is expanded in a Scan of its own: it has no marker to read, *)
(* and leaves the files of the program alone.                              *)
LEMMA PushStreams ==
  ASSUME TypeInv, TypeInv', StreamInv, ExpandArg
  PROVE  StreamInv'
  <1>0. /\ TypeOK /\ DOMAIN frames = 1 .. Depth /\ Depth \in Nat \ {0} /\ Depth \in DOMAIN frames
        /\ frames \in Seq(Frame) /\ Len(frames) = Depth /\ Top = frames[Depth]
    BY TopFrame DEF TypeInv, TypeOK, Depth, Top
  <1>1. Top.mode = "expand" /\ NextArg <= Top.call.sym.arity
    BY DEF ExpandArg, Expanding, Running
  <1>2. GoodCall(Top) /\ Top.call \in Call
    BY <1>1, TopCall
  <1>3. NextArg \in DOMAIN Top.call.args
    <2>1. Len(Top.call.exp) \in Nat /\ Len(Top.call.args) = Top.call.sym.arity
          /\ DOMAIN Top.call.args = 1 .. Len(Top.call.args) /\ Len(Top.call.args) \in Nat
      BY <1>1, <1>2, LenProperties DEF Call, GoodCall
    <2> QED
      BY <1>1, <2>1 DEF NextArg
  <1> DEFINE a == Top.call.args[NextArg]
             fr == NewScan(a)
  <1>4. fr.pend = a /\ fr.mode = "get"
    BY DEF NewScan
  <1>5. frames' = Append(frames, fr) /\ UNCHANGED <<events, ended, err>>
    BY DEF ExpandArg
  <1>a. fr \in Frame
    <2>1. frames' \in Seq(Frame)
      BY DEF TypeInv, TypeOK
    <2> HIDE DEF fr
    <2>2. frames'[Len(frames) + 1] = fr /\ Len(frames') = Len(frames) + 1
      BY <1>0, <1>5
    <2> QED
      BY <1>0, <2>1, <2>2, ElementOfSeq
  <1> HIDE DEF fr
  <1>6. /\ DOMAIN frames' = 1 .. Depth + 1
        /\ \A i \in 1 .. Depth : frames'[i] = frames[i]
        /\ frames'[Depth + 1] = fr
    BY <1>0, <1>5, <1>a, AppendProperties, LenProperties
  <1> SUFFICES ASSUME "stream" \notin events'
               PROVE  /\ err' # "incstack" /\ Files(frames'[1], ended')
                      /\ \A i \in DOMAIN frames' :
                           ArgsFree(frames'[i]) /\ (i > 1 => NoMarkers(frames'[i].pend))
    BY DEF StreamInv, MarkersInPlace, StreamsBalanced, Waiting, CountOf, Files, ArgsFree
  <1>7. /\ err # "incstack" /\ Files(frames[1], ended)
        /\ \A i \in DOMAIN frames : ArgsFree(frames[i]) /\ (i > 1 => NoMarkers(frames[i].pend))
    BY <1>5, StreamParts
  <1>8. NoMarkers(a)
    BY <1>0, <1>1, <1>3, <1>7 DEF ArgsFree
  <1>9. ArgsFree(fr)
    BY <1>4 DEF ArgsFree
  <1>10. Files(frames'[1], ended')
    BY <1>0, <1>5, <1>6, <1>7
  <1>11. ASSUME NEW i \in DOMAIN frames'
         PROVE  ArgsFree(frames'[i]) /\ (i > 1 => NoMarkers(frames'[i].pend))
    <2>1. CASE i = Depth + 1
      BY <1>4, <1>6, <1>8, <1>9, <2>1
    <2>2. CASE i # Depth + 1
      BY <1>0, <1>6, <1>7, <2>2
    <2> QED
      BY <2>1, <2>2
  <1> QED
    BY <1>5, <1>7, <1>10, <1>11

(* Its tokens go to the call that asked for it.                            *)
LEMMA PopStreams ==
  ASSUME TypeInv, TypeInv', StreamInv, ArgExpanded
  PROVE  StreamInv'
  <1>0. /\ TypeOK /\ DOMAIN frames = 1 .. Depth /\ Depth \in Nat \ {0}
        /\ frames \in Seq(Frame) /\ Len(frames) = Depth /\ Depth > 1
    BY TopFrame DEF TypeInv, TypeOK, Depth, ArgExpanded
  <1> DEFINE below == SubSeq(frames, 1, Depth - 1)
  <1>1. /\ below \in Seq(Frame) /\ Len(below) = Depth - 1
        /\ \A i \in 1 .. Depth - 1 : below[i] = frames[i]
    BY <1>0, SubSeqProperties
  <1> HIDE DEF below
  <1>2. below[Depth - 1] \in Frame /\ frames[Depth - 1].mode = "expand" /\ below[Depth - 1] = frames[Depth - 1]
        /\ frames[Depth - 1].call \in Call
    BY <1>0, <1>1, ElementOfSeq DEF TypeInv, Shape, GoodCall
  <1> DEFINE e == Append(below[Depth - 1].call.exp, Top.out)
             fr == [below[Depth - 1] EXCEPT !.call.exp = e]
  <1>3. frames' = [below EXCEPT ![Depth - 1] = fr] /\ UNCHANGED <<events, ended, err>>
    BY DEF ArgExpanded, below
  <1> HIDE DEF e
  <1>4. /\ fr.pend = frames[Depth - 1].pend /\ fr.inc = frames[Depth - 1].inc
        /\ fr.mode = frames[Depth - 1].mode /\ fr.call.args = frames[Depth - 1].call.args
    BY <1>2 DEF Frame, Call
  <1> HIDE DEF fr
  <1>5. /\ DOMAIN frames' = 1 .. Depth - 1
        /\ \A i \in 1 .. Depth - 1 : frames'[i] = IF i = Depth - 1 THEN fr ELSE frames[i]
    BY <1>0, <1>1, <1>3
  <1> SUFFICES ASSUME "stream" \notin events'
               PROVE  /\ err' # "incstack" /\ Files(frames'[1], ended')
                      /\ \A i \in DOMAIN frames' :
                           ArgsFree(frames'[i]) /\ (i > 1 => NoMarkers(frames'[i].pend))
    BY DEF StreamInv, MarkersInPlace, StreamsBalanced, Waiting, CountOf, Files, ArgsFree
  <1>6. /\ err # "incstack" /\ Files(frames[1], ended)
        /\ \A i \in DOMAIN frames : ArgsFree(frames[i]) /\ (i > 1 => NoMarkers(frames[i].pend))
    BY <1>3, StreamParts
  <1>7. Depth - 1 \in DOMAIN frames /\ 1 \in 1 .. Depth - 1
    BY <1>0
  <1>8. ArgsFree(fr) /\ (Depth - 1 > 1 => NoMarkers(fr.pend))
    BY <1>4, <1>6, <1>7 DEF ArgsFree
  <1>9. Depth - 1 = 1 => Files(fr, ended)
    BY <1>4, <1>6 DEF Files
  <1>10. Files(frames'[1], ended')
    BY <1>3, <1>5, <1>6, <1>7, <1>9
  <1>11. ASSUME NEW i \in DOMAIN frames'
         PROVE  ArgsFree(frames'[i]) /\ (i > 1 => NoMarkers(frames'[i].pend))
    <2>1. CASE i = Depth - 1
      BY <1>5, <1>8, <2>1
    <2>2. CASE i # Depth - 1
      BY <1>0, <1>5, <1>6, <2>2
    <2> QED
      BY <2>1, <2>2
  <1> QED
    BY <1>3, <1>6, <1>10, <1>11

(* The program's file is open before its first token is read.              *)
LEMMA InitStreams == Init => StreamInv
  <1> SUFFICES ASSUME Init PROVE StreamInv
    OBVIOUS
  <1> PICK P \in Prologues : frames = <<NewScan(<<SB>> \o P)>> /\ text = P
    BY DEF Init
  <1>1. P \in Seq(Item) /\ \A p \in DOMAIN P : P[p].k \notin {"sb", "se", "eof"}
    <2>1. P \in Seq(Token \cup Directive)
      BY HeaderAssumption
    <2>2. \A it \in Token \cup Directive : it.k \notin {"sb", "se", "eof"}
      BY DEF Token, Punct, Directive
    <2>3. \A p \in DOMAIN P : P[p] \in Token \cup Directive
      BY <2>1, ElementOfSeq, LenProperties
    <2>4. P \in Seq(Item)
      BY <2>1, SeqMonotonic DEF Item
    <2> QED
      BY <2>2, <2>3, <2>4
  <1>2. <<SB>> \in Seq(Item) /\ SB.k = "sb"
    BY DEF Item, StreamMarker, SB
  <1> DEFINE q == <<SB>> \o P
             fr == NewScan(q)
  <1>3. CountOf(P, "sb") = 0 /\ CountOf(P, "se") = 0
    BY <1>1, CountType
  <1>4. CountOf(<<SB>>, "sb") = 1 /\ CountOf(<<SB>>, "se") = 0
    BY <1>2, CountOne
  <1>a. /\ CountOf(q, "sb") = CountOf(<<SB>>, "sb") + CountOf(P, "sb")
        /\ CountOf(q, "se") = CountOf(<<SB>>, "se") + CountOf(P, "se")
    BY <1>1, <1>2, CountConcat
  <1>5. CountOf(q, "sb") = 1 /\ CountOf(q, "se") = 0
    BY <1>3, <1>4, <1>a
  <1>6. ASSUME NEW p \in DOMAIN q, p # 1
        PROVE  q[p].k # "sb"
    <2>1. /\ Len(<<SB>>) = 1 /\ Len(P) \in Nat /\ DOMAIN P = 1 .. Len(P)
          /\ Len(q) = 1 + Len(P) /\ DOMAIN q = 1 .. 1 + Len(P)
      BY <1>1, <1>2, ConcatProperties, LenProperties
    <2>2. q[p] = P[p - 1] /\ p - 1 \in DOMAIN P
      BY <1>1, <1>2, <1>6, <2>1, ConcatProperties
    <2> QED
      BY <1>1, <2>2
  <1> HIDE DEF q
  <1>7. fr.pend = q /\ fr.mode = "get" /\ fr.inc = 0
    BY DEF NewScan
  <1>8. frames[1] = fr /\ DOMAIN frames = {1} /\ ~ended /\ err = "none"
    BY DEF Init, q
  <1> HIDE DEF fr
  <1>9. Files(fr, FALSE)
    BY <1>5, <1>6, <1>7, NoneAssumption DEF Files
  <1>10. Files(frames[1], ended)
    BY <1>8, <1>9 DEF Files
  <1>11. \A i \in DOMAIN frames : ArgsFree(frames[i]) /\ (i > 1 => NoMarkers(frames[i].pend))
    BY <1>7, <1>8 DEF ArgsFree
  <1> QED
    BY <1>8, <1>10, <1>11, StreamParts

(* Every step keeps the files in order, one case per group of actions.     *)
LEMMA StepStreams == TypeInv /\ TypeInv' /\ StreamInv /\ [Next]_vars => StreamInv'
  <1> SUFFICES ASSUME TypeInv, TypeInv', StreamInv, [Next]_vars PROVE StreamInv'
    OBVIOUS
  <1>1. CASE Step
    BY <1>1, SourceStreams, MarkerStreams, DirectiveStreams, GetStreams, CallStreams,
       SubstStreams, ReplaceStreams, PushStreams, PopStreams DEF Step
  <1>2. CASE UNCHANGED vars
    BY <1>2 DEF vars, StreamInv, MarkersInPlace, StreamsBalanced, Waiting
  <1> QED
    BY <1>1, <1>2 DEF Next, Terminating

(* What the stack of files rests on: the markers are in the program's own  *)
(* queue and a file that has just been included begins at once.            *)
THEOREM MarkersStayInPlace == Spec => []StreamInv
  <1>1. Init => TypeInv /\ StreamInv
    BY InitTypes, InitStreams
  <1>2. (TypeInv /\ StreamInv) /\ [Next]_vars => (TypeInv /\ StreamInv)'
    BY StepTypes, StepStreams
  <1> QED
    BY <1>1, <1>2, PTL DEF Spec

(* The stack of open files matches the stream markers still to be read     *)
(* (Scan.java:136), however files include one another and wherever the     *)
(* calls are that their text stands between.                               *)
THEOREM StreamsAlwaysBalanced == Spec => []StreamsBalanced
  <1>1. StreamInv => StreamsBalanced
    BY DEF StreamInv
  <1> QED
    BY <1>1, MarkersStayInPlace, PTL

(* Never more files are open at once than the limit and the check's slack  *)
(* allow (Scan.java:138), whatever includes what.                          *)
THEOREM IncludeDepthAlwaysLimited == Spec => []IncludeDepthLimited
  <1>1. TypeInv /\ StreamInv => IncludeDepthLimited
    <2> SUFFICES ASSUME TypeInv, StreamInv, "stream" \notin events
                 PROVE  Waiting("se") <= IncLimit + 2
      BY DEF IncludeDepthLimited
    <2>0. TypeOK /\ 1 \in DOMAIN frames /\ frames[1] \in Frame /\ frames[1].pend \in Seq(Item)
      BY TopFrame, Pends DEF TypeInv
    <2>1. Files(frames[1], ended)
      BY StreamParts
    <2> DEFINE q == frames[1].pend
    <2>2. CountOf(q, "sb") \in Nat /\ CountOf(q, "se") \in Nat /\ frames[1].inc \in Nat
      BY <2>0, CountType DEF Frame
    <2>3. Waiting("se") = CountOf(q, "se")
      BY DEF Waiting, CountOf
    <2>4. IncLimit \in Nat
      BY NoneAssumption
    <2>5. CASE \A p \in DOMAIN q : q[p].k # "sb"
      <3>1. CountOf(q, "sb") = 0
        BY <2>0, <2>5, CountType
      <3> QED
        BY <2>1, <2>2, <2>3, <2>4, <3>1 DEF Files
    <2>6. CASE \E p \in DOMAIN q : q[p].k = "sb"
      <3>1. ~ended /\ {p \in DOMAIN q : q[p].k = "sb"} = {1}
        BY <2>1, <2>6 DEF Files
      <3>2. CountOf(q, "sb") = 1
        BY <3>1, FS_Singleton DEF CountOf
      <3>3. frames[1].inc <= IncLimit + 2
            /\ frames[1].inc + CountOf(q, "sb") = CountOf(q, "se") + 1
        BY <2>1, <3>1 DEF Files
      <3> HIDE DEF q
      <3> QED
        BY <2>2, <2>3, <2>4, <3>2, <3>3
    <2> QED
      BY <2>5, <2>6
  <1> QED
    BY <1>1, TypeInvHolds, MarkersStayInPlace, PTL

=============================================================================
