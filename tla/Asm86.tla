-------------------------------- MODULE Asm86 --------------------------------
(***************************************************************************)
(* The assembler (Asm86.java): a program is appended line by line, and     *)
(* set_rva, once the addresses are known, replaces the displacements of    *)
(* jumps, calls of procedures and loads of data symbols.                   *)
(***************************************************************************)
EXTENDS Integers, Sequences, PeNames

CONSTANTS Labels,
          PlainSizes,   \* bytes of the instructions that need no address
          LoadRegs,     \* registers load() is used with: "low", or "high" (r8 to r15)
          LeaRegs,      \* the same, of lea reg,[reg]
          Addresses,    \* of the sections, procedures and symbols
          MaxLines      \* bound: lines of a program


VARIABLES
  lines,           \* AsmLine, with rel for the displacement in its bytes
  labels,          \* the labels made
  labelsOffset,
  phase,           \* "code", then the loops of set_rva and toBytes
  at,              \* the line the loop is at
  count,           \* what the loop adds up: offset, bytesnow, off
  virtualAddress,  \* the arguments of set_rva; the tables as functions
  imports,
  datas,
  places           \* where toBytes puts each line; a label, what follows it

asmVars == <<lines, labels, labelsOffset, phase, at, count, virtualAddress,
             imports, datas, places>>

NoName == "an instruction"

ASSUME Asm86Assumption ==
  /\ PlainSizes \subseteq Nat /\ Addresses \subseteq Nat
  /\ NoName \notin Symbols

AsmLine == [kind : {"code", "label_only", "jmp_label"},
            head : {"48 8d", "ff 15", "other"},   \* the first two bytes
            size : Nat, repr : Symbols \cup Procedures \cup {NoName},
            label : Labels \cup {NoName}, offset : Nat, rel : Int]

CodeLine(head, size, repr) ==
  [kind |-> "code", head |-> head, size |-> size, repr |-> repr,
   label |-> NoName, offset |-> 0, rel |-> 0]
LabelLine(l) ==
  [kind |-> "label_only", head |-> "other", size |-> 0, repr |-> NoName,
   label |-> l, offset |-> 0, rel |-> 0]
JumpLine(l) ==
  [kind |-> "jmp_label", head |-> "other", size |-> 5, repr |-> NoName,
   label |-> l, offset |-> 0, rel |-> 0]

AsmInit ==
  /\ lines = <<>> /\ labels = {} /\ labelsOffset = <<>> /\ places = <<>>
  /\ phase = "code" /\ at = 1 /\ count = 0
  /\ virtualAddress = 0 /\ imports = <<>> /\ datas = <<>>

-----------------------------------------------------------------------------
(* line *)
AddLine(l) ==
  /\ phase = "code" /\ Len(lines) < MaxLines
  /\ lines' = Append(lines, l)
  /\ UNCHANGED <<labelsOffset, phase, at, count, virtualAddress, imports, datas, places>>

(* reg_reg, mem_reg, reg_i32, gen_op0, gen_op1, and reg_mem but for lea *)
Plain ==
  /\ \E size \in PlainSizes : AddLine(CodeLine("other", size, NoName))
  /\ UNCHANGED labels

(* reg_mem for lea *)
Lea ==
  /\ \E dst, src \in LeaRegs :
       AddLine(CodeLine(IF dst = "low" /\ src = "low" THEN "48 8d" ELSE "other", 3, NoName))
  /\ UNCHANGED labels

(* make_label, which refuses a label it has *)
MakeLabel ==
  \E l \in Labels \ labels :
    AddLine(LabelLine(l)) /\ labels' = labels \cup {l}

(* jmp, call_label *)
Jump == \E l \in Labels : AddLine(JumpLine(l)) /\ UNCHANGED labels

(* call *)
Call == \E proc \in Procedures : AddLine(CodeLine("ff 15", 6, proc)) /\ UNCHANGED labels

(* load *)
Load ==
  /\ \E reg \in LoadRegs, sym \in Symbols :
       AddLine(CodeLine(IF reg = "low" THEN "48 8d" ELSE "other", 7, sym))
  /\ UNCHANGED labels

Api == Plain \/ Lea \/ MakeLabel \/ Jump \/ Call \/ Load

-----------------------------------------------------------------------------
(* set_rva *)
SetRva(addr, procs, syms) ==
  /\ phase = "code" /\ phase' = "offsets"
  /\ virtualAddress' = addr /\ imports' = procs /\ datas' = syms
  /\ at' = 1 /\ count' = addr
  /\ UNCHANGED <<lines, labels, labelsOffset, places>>

Line == lines[at]
LoopAt(p) == phase = p /\ at <= Len(lines)
LoopEnds(p) == phase = p /\ at > Len(lines)

(* A label has no bytes. *)
Bytes(l) == IF l.kind = "label_only" THEN 0 ELSE l.size

(* 1) apply offsets *)
ApplyOffset ==
  /\ LoopAt("offsets")
  /\ lines' = [lines EXCEPT ![at].offset = count]
  /\ at' = at + 1 /\ count' = count + Bytes(Line)
  /\ UNCHANGED <<labels, labelsOffset, phase, virtualAddress, imports, datas, places>>

LabelLineOf(l) == CHOOSE i \in DOMAIN lines : lines[i].kind = "label_only" /\ lines[i].label = l

(* 2) resolve labels *)
ResolveLabels ==
  /\ LoopEnds("offsets") /\ phase' = "resolve" /\ at' = 1 /\ count' = 0
  /\ labelsOffset' = [l \in labels |-> lines[LabelLineOf(l)].offset]
  /\ UNCHANGED <<lines, labels, virtualAddress, imports, datas, places>>

(* 3) resolve jumps: the line at hand is done, with so many bytes now.     *)
Advance(size, rel) ==
  /\ lines' = [lines EXCEPT ![at].size = size, ![at].rel = rel]
  /\ at' = at + 1 /\ count' = count + Bytes(Line)
  /\ UNCHANGED <<labels, labelsOffset, phase, virtualAddress, imports, datas, places>>

(* Mutated: the displacement of a jump is taken from where it begins. *)
ResolveJumpFromItsStart ==
  /\ LoopAt("resolve") /\ Line.kind = "jmp_label" /\ Line.label \in DOMAIN labelsOffset
  /\ Advance(5, labelsOffset[Line.label] - Line.offset)

ResolveJump ==
  /\ LoopAt("resolve") /\ Line.kind = "jmp_label" /\ Line.label \in DOMAIN labelsOffset
  /\ Advance(5, labelsOffset[Line.label] - Line.offset - 5)

(* Where the instruction ends; bytesnow includes it. *)
Rip == virtualAddress + count + Bytes(Line)

Calls(l) == l.kind = "code" /\ l.head = "ff 15"
Loads(l) == l.kind = "code" /\ l.head = "48 8d"

ResolveCall ==
  /\ LoopAt("resolve") /\ Calls(Line) /\ Line.repr \in DOMAIN imports
  /\ Advance(6, imports[Line.repr] - Rip)

(* The displacement has four bytes behind the three of the instruction.    *)
ResolveLoad ==
  /\ LoopAt("resolve") /\ Loads(Line) /\ Line.repr \in DOMAIN datas
  /\ Advance(7, datas[Line.repr] - Rip)

ResolveOther ==
  /\ LoopAt("resolve") /\ Line.kind # "jmp_label" /\ ~Calls(Line) /\ ~Loads(Line)
  /\ Advance(Line.size, Line.rel)

(* An exception: labelsOffset.get has nothing to unbox, or the tables do   *)
(* not have the name.                                                      *)
Fails ==
  /\ LoopAt("resolve")
  /\ \/ Line.kind = "jmp_label" /\ Line.label \notin DOMAIN labelsOffset
     \/ Calls(Line) /\ Line.repr \notin DOMAIN imports
     \/ Loads(Line) /\ Line.repr \notin DOMAIN datas
  /\ phase' = "failed"
  /\ UNCHANGED <<lines, labels, labelsOffset, at, count, virtualAddress, imports, datas, places>>

(* toBytes begins *)
ToBytes ==
  /\ LoopEnds("resolve") /\ phase' = "bytes" /\ at' = 1 /\ count' = 0
  /\ UNCHANGED <<lines, labels, labelsOffset, virtualAddress, imports, datas, places>>

PutLine ==
  /\ LoopAt("bytes")
  /\ places' = Append(places, count)
  /\ at' = at + 1 /\ count' = count + Bytes(Line)
  /\ UNCHANGED <<lines, labels, labelsOffset, phase, virtualAddress, imports, datas>>

Resolving ==
  \/ ApplyOffset \/ ResolveLabels
  \/ ResolveJump \/ ResolveCall \/ ResolveLoad \/ ResolveOther \/ Fails

Tables(names, values) == UNION {[known -> values] : known \in SUBSET names}

(* For any addresses of the sections and tables. *)
AsmNext ==
  \/ Api
  \/ \E addr \in Addresses, procs \in Tables(Procedures, Addresses),
        syms \in Tables(Symbols, Addresses) :
       SetRva(addr, procs, syms)
  \/ Resolving
  \/ ToBytes
  \/ PutLine
AsmSpec == AsmInit /\ [][AsmNext]_asmVars

Assembled == LoopEnds("bytes")

-----------------------------------------------------------------------------
AsmTypeOK ==
  /\ lines \in Seq(AsmLine) /\ labels \subseteq Labels
  /\ labelsOffset \in Tables(Labels, Nat)
  /\ phase \in {"code", "offsets", "resolve", "bytes", "failed"}
  /\ at \in Nat /\ count \in Nat /\ virtualAddress \in Nat
  /\ imports \in Tables(Procedures, Nat) /\ datas \in Tables(Symbols, Nat)
  /\ places \in Seq(Nat)

(* A jump goes to its label: added to the place behind the jump in the     *)
(* bytes that are written, the displacement gives the place of what        *)
(* follows the label, although the offsets were taken before any line got  *)
(* new bytes (Asm86.set_rva, parts 1 to 3).                                *)
JumpsLand ==
  Assembled => \A i \in DOMAIN lines :
    lines[i].kind = "jmp_label" =>
      \E j \in DOMAIN lines :
        /\ lines[j].kind = "label_only" /\ lines[j].label = lines[i].label
        /\ places[i] + lines[i].size + lines[i].rel = places[j]

(* The displacements of calls and loads, the same, give the address the    *)
(* tables have for the name: bytesnow runs along with the bytes written.   *)
CallsReach ==
  Assembled => \A i \in DOMAIN lines :
    Calls(lines[i]) =>
      virtualAddress + places[i] + lines[i].size + lines[i].rel = imports[lines[i].repr]
LoadsReach ==
  Assembled => \A i \in DOMAIN lines :
    Loads(lines[i]) =>
      virtualAddress + places[i] + lines[i].size + lines[i].rel = datas[lines[i].repr]
=============================================================================
