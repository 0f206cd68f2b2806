------------------------------- MODULE PeImage -------------------------------
(***************************************************************************)
(* An executable from its parts (PeMainWriter.java, and the calls of its   *)
(* users before it): data symbols, imports and code are collected, the     *)
(* sections get their addresses, the code is resolved against them, and    *)
(* the file is written.  What is written is then read as a loader does.    *)
(***************************************************************************)
EXTENDS DataSymbols, ImportSymbols, Asm86, Sections

VARIABLES stage, idata   \* how far write() is; the pieces of the import section

vars == <<dataVars, importVars, asmVars, secVars, stage, idata>>

Init ==
  /\ DataInit /\ ImportInit /\ AsmInit /\ SecInit
  /\ stage = "data" /\ idata = <<>>

-----------------------------------------------------------------------------
(* Before write: the three builders do not know of each other, so that     *)
(* each is filled after the other; prepare comes when the DLLs are in.     *)
CollectData ==
  /\ stage = "data" /\ \E sym \in Symbols : AddData(sym)
  /\ UNCHANGED <<importVars, asmVars, secVars, stage, idata>>

CollectImports ==
  /\ stage \in {"data", "imports"} /\ stage' = "imports"
  /\ \/ \E dll \in Dlls : AddDll(dll)
     \/ \E d \in DOMAIN import_dlls, proc \in Procedures : AddProcedure(d, proc)
  /\ UNCHANGED <<dataVars, asmVars, secVars, idata>>

PrepareImports ==
  /\ stage \in {"data", "imports"} /\ stage' = "code" /\ Prepare
  /\ UNCHANGED <<dataVars, asmVars, secVars, idata>>

CollectCode ==
  /\ stage = "code" /\ Api
  /\ UNCHANGED <<dataVars, importVars, secVars, stage, idata>>

-----------------------------------------------------------------------------
(* bytesCount *)
bytesCount == Sum([i \in DOMAIN lines |-> Bytes(lines[i])])

(* write: the sizes of the sections, in the order of their headers *)
Announce ==
  /\ stage \in {"code", "headers"} /\ stage' = "headers"
  /\ AddSection(CASE Len(sizes) + 1 = TEXT -> bytesCount
                  [] Len(sizes) + 1 = DATA -> data_bytes
                  [] Len(sizes) + 1 = IDATA -> total_size)
  /\ UNCHANGED <<dataVars, importVars, asmVars, idata>>

BuildHeaders ==
  /\ stage = "headers" /\ BuildHeader
  /\ UNCHANGED <<dataVars, importVars, asmVars, stage, idata>>

Rva(section) == headers[section].VirtualAddress

(* Mutated: the code is resolved before the imports have their address. *)
SetRvasImportsLate ==
  /\ stage = "headers" /\ Built /\ stage' = "resolving"
  /\ SetRva(Rva(TEXT), ImportAddresses(0), DataAddresses(Rva(DATA)))
  /\ UNCHANGED <<dataVars, importVars, secVars, idata>>

(* datas.set_rva, imports.set_rva, code.set_rva *)
SetRvas ==
  /\ stage = "headers" /\ Built /\ stage' = "resolving"
  /\ SetRva(Rva(TEXT), ImportAddresses(Rva(IDATA)), DataAddresses(Rva(DATA)))
  /\ UNCHANGED <<dataVars, importVars, secVars, idata>>

ResolveCode ==
  /\ stage = "resolving" /\ Resolving
  /\ UNCHANGED <<dataVars, importVars, secVars, stage, idata>>

WriteFileHeaders ==
  /\ stage = "resolving" /\ ToBytes /\ WriteHeaders /\ stage' = "writing"
  /\ UNCHANGED <<dataVars, importVars, idata>>

PutCode ==
  /\ stage = "writing" /\ PutLine
  /\ UNCHANGED <<dataVars, importVars, secVars, stage, idata>>

WriteText ==
  /\ stage = "writing" /\ Assembled /\ Len(written) + 1 = TEXT /\ WriteSection(count)
  /\ UNCHANGED <<dataVars, importVars, asmVars, stage, idata>>

WriteData ==
  /\ stage = "writing" /\ Len(written) + 1 = DATA /\ WriteSection(data_bytes)
  /\ UNCHANGED <<dataVars, importVars, asmVars, stage, idata>>

PieceSizes(pieces) == [k \in DOMAIN pieces |-> pieces[k].size]

WriteImports ==
  /\ stage = "writing" /\ Len(written) + 1 = IDATA
  /\ idata' = ImportPieces(Rva(IDATA))
  /\ WriteSection(Sum(PieceSizes(idata')))
  /\ stage' = "written"
  /\ UNCHANGED <<dataVars, importVars, asmVars>>

Next ==
  \/ CollectData \/ CollectImports \/ PrepareImports \/ CollectCode
  \/ Announce \/ BuildHeaders \/ SetRvas \/ ResolveCode
  \/ WriteFileHeaders \/ PutCode \/ WriteText \/ WriteData \/ WriteImports
Spec == Init /\ [][Next]_vars

-----------------------------------------------------------------------------
(* The program that is loaded *)
Target(i) == virtualAddress + places[i] + lines[i].size + lines[i].rel

(* Where the pieces of the import section are *)
PieceRva(k) == Rva(IDATA) + Sum(PieceSizes(Before(idata, k)))
PiecesAt(rva, what) ==
  {k \in DOMAIN idata : idata[k].what = what /\ PieceRva(k) = rva}

(* A loader that reads the thunks from an address on finds these names.    *)
ReadsThunks(rva, procs) ==
  /\ \A p \in DOMAIN procs :
       \E k \in PiecesAt(rva + (p - 1) * SIZEOF_QWORD, "thunk") :
         \E n \in PiecesAt(idata[k].to, "procedure") : idata[n].name = procs[p]
  /\ \E k \in PiecesAt(rva + Len(procs) * SIZEOF_QWORD, "thunk") : idata[k].to = 0

(* The descriptors, from the address the DataDirectory has for them. *)
ImportDescriptor(d) ==
  LET rva == Rva(IDATA) + iat_size + (d - 1) * IMAGE_SIZEOF_IMPORT_DESCRIPTOR
  IN  idata[CHOOSE k \in PiecesAt(rva, "descriptor") : TRUE].desc

(* A loader that follows the descriptors finds exactly the DLLs and their  *)
(* procedures, in the table it reads and in the one it fills: prepare()    *)
(* computes all addresses before anything is written, build() writes the   *)
(* tables one behind another (ImportSymbols.prepare, build).               *)
LoaderFindsImports ==
  stage = "written" =>
    /\ \A d \in DOMAIN import_dlls :
         /\ \E k \in PiecesAt(ImportDescriptor(d).Name, "dll") :
              idata[k].name = import_dlls[d].name
         /\ ReadsThunks(ImportDescriptor(d).FirstThunk, import_dlls[d].imports)
         /\ ReadsThunks(ImportDescriptor(d).OriginalFirstThunk, import_dlls[d].imports)
    /\ ImportDescriptor(Len(import_dlls) + 1) = NoDescriptor

(* A call goes through the thunk that the loader fills with the address of *)
(* the procedure that was named, in the first DLL of those that were given *)
(* that has it (Asm86.call, set_rva, ImportSymbols.symbol).                *)
CallsLand ==
  stage = "written" => \A i \in DOMAIN lines :
    Calls(lines[i]) =>
      \E d \in DOMAIN import_dlls : \E p \in DOMAIN import_dlls[d].imports :
        /\ import_dlls[d].imports[p] = lines[i].repr
        /\ \A e \in 1..(d - 1) : lines[i].repr \notin ToSet(import_dlls[e].imports)
        /\ Target(i) = ImportDescriptor(d).FirstThunk + (p - 1) * SIZEOF_QWORD

(* A load gives the address where the string was written (Asm86.load,      *)
(* set_rva, DataSymbols.add).                                              *)
LoadsLand ==
  stage = "written" => \A i \in DOMAIN lines :
    lines[i].repr \in DOMAIN symbols =>
      \E k \in DOMAIN strings :
        /\ strings[k] = lines[i].repr
        /\ Target(i) = Rva(DATA) + Sum([m \in 1..(k - 1) |-> Length[strings[m]] + 1])
=============================================================================
