---------------------------- MODULE ImportSymbols ----------------------------
(***************************************************************************)
(* The import section (ImportSymbols.java, ImportDll.java): the DLLs and   *)
(* their procedures, the thunks and descriptors prepare() computes for     *)
(* them, and the pieces build() writes.                                    *)
(***************************************************************************)
EXTENDS Integers, SequencesExt, PeNames

CONSTANTS MaxDlls, MaxProcedures   \* bounds: DLLs, and procedures of each

VARIABLES
  import_dlls,  \* sequence of [name, imports]
  thunks,       \* ImageThunkData64.Function of each; 0 is a sentinel
  descs         \* ImageImportDescriptor of each DLL, and a sentinel

importVars == <<import_dlls, thunks, descs>>

ImportInit == import_dlls = <<>> /\ thunks = <<>> /\ descs = <<>>

-----------------------------------------------------------------------------
(* add_dll *)
AddDll(dll) ==
  /\ Len(import_dlls) < MaxDlls
  /\ \A d \in DOMAIN import_dlls : import_dlls[d].name # dll
  /\ import_dlls' = Append(import_dlls, [name |-> dll, imports |-> <<>>])
  /\ UNCHANGED <<thunks, descs>>

(* ImportDll.add_procedure *)
AddProcedure(d, proc) ==
  /\ Len(import_dlls[d].imports) < MaxProcedures
  /\ proc \notin ToSet(import_dlls[d].imports)
  /\ import_dlls' = [import_dlls EXCEPT ![d].imports = Append(@, proc)]
  /\ UNCHANGED <<thunks, descs>>

-----------------------------------------------------------------------------
(* Sizeofs *)
SIZEOF_QWORD == 8
IMAGE_SIZEOF_IMPORT_DESCRIPTOR == 20

Sum(s) ==
  LET upTo[n \in 0..Len(s)] == IF n = 0 THEN 0 ELSE upTo[n - 1] + s[n]
  IN  upTo[Len(s)]

(* The names in the directory: that of a DLL ends in two zeros, that of a  *)
(* procedure has a hint before and a zero behind it.                       *)
NameBytes(dll) == Length[dll.name] + 2
ProcedureBytes(proc) == 2 + Length[proc] + 1
DllBytes(dll) ==
  NameBytes(dll) + Sum([p \in DOMAIN dll.imports |-> ProcedureBytes(dll.imports[p])])

Before(s, n) == SubSeq(s, 1, n - 1)
DirectoryBytes(dlls) == Sum([d \in DOMAIN dlls |-> DllBytes(dlls[d])])

(* Every DLL has a sentinel behind its thunks. *)
NumThunks(dlls) == Sum([d \in DOMAIN dlls |-> Len(dlls[d].imports) + 1])

(* Where in the section prepare() expects the tables and the directory.    *)
OriginalThunkDist ==
  NumThunks(import_dlls) * SIZEOF_QWORD
    + (Len(import_dlls) + 1) * IMAGE_SIZEOF_IMPORT_DESCRIPTOR
StartDirectory == OriginalThunkDist + NumThunks(import_dlls) * SIZEOF_QWORD

(* entry_addr when the loop comes to a DLL *)
DllEntry(d) == StartDirectory + DirectoryBytes(Before(import_dlls, d))

(* Mutated: the two zeros of the name are forgotten. *)
ProcedureEntryNoZeros(d, p) ==
  LET upTo == [import_dlls[d] EXCEPT !.imports = Before(@, p)]
  IN  DllEntry(d) + DllBytes(upTo) - 2

(* entry_addr when it comes to a procedure *)
ProcedureEntry(d, p) ==
  LET upTo == [import_dlls[d] EXCEPT !.imports = Before(@, p)]
  IN  DllEntry(d) + DllBytes(upTo)

(* The thunks of a DLL; thunk_addr when the loop comes to it. *)
DllThunks(d) ==
  Append([p \in DOMAIN import_dlls[d].imports |-> ProcedureEntry(d, p)], 0)
ThunkAddr(d) == NumThunks(Before(import_dlls, d)) * SIZEOF_QWORD

Descriptor(d) ==
  [Name |-> DllEntry(d), FirstThunk |-> ThunkAddr(d),
   OriginalFirstThunk |-> ThunkAddr(d) + OriginalThunkDist]
NoDescriptor == [Name |-> 0, FirstThunk |-> 0, OriginalFirstThunk |-> 0]

(* prepare *)
Prepare ==
  /\ thunks' = thunks \o FlattenSeq([d \in DOMAIN import_dlls |-> DllThunks(d)])
  /\ descs' = Append(descs \o [d \in DOMAIN import_dlls |-> Descriptor(d)], NoDescriptor)
  /\ UNCHANGED import_dlls

iat_size == Len(thunks) * SIZEOF_QWORD
image_import_descs_size == Len(descs) * IMAGE_SIZEOF_IMPORT_DESCRIPTOR

(* Mutated: one of the two tables of thunks is forgotten. *)
total_sizeOnce == iat_size + image_import_descs_size + DirectoryBytes(import_dlls)

total_size == iat_size + iat_size + image_import_descs_size + DirectoryBytes(import_dlls)

-----------------------------------------------------------------------------
(* What build() writes, piece by piece, at the address of the section.     *)
ThunkPieces(rva) ==
  [k \in DOMAIN thunks |->
     [what |-> "thunk", size |-> SIZEOF_QWORD,
      to |-> IF thunks[k] = 0 THEN 0 ELSE thunks[k] + rva]]

DescriptorPieces(rva) ==
  [k \in DOMAIN descs |->
     [what |-> "descriptor", size |-> IMAGE_SIZEOF_IMPORT_DESCRIPTOR,
      desc |-> IF descs[k].OriginalFirstThunk = 0 THEN descs[k]
               ELSE [f \in DOMAIN descs[k] |-> descs[k][f] + rva]]]

DirectoryPieces ==
  FlattenSeq([d \in DOMAIN import_dlls |->
    LET dll == import_dlls[d]
    IN  <<[what |-> "dll", size |-> NameBytes(dll), name |-> dll.name]>>
          \o [p \in DOMAIN dll.imports |->
                [what |-> "procedure", size |-> ProcedureBytes(dll.imports[p]),
                 name |-> dll.imports[p]]]])

ImportPieces(rva) ==
  ThunkPieces(rva) \o DescriptorPieces(rva) \o ThunkPieces(rva) \o DirectoryPieces

-----------------------------------------------------------------------------
Imported == {import_dlls[d].name : d \in DOMAIN import_dlls}
ImportedProcedures == UNION {ToSet(import_dlls[d].imports) : d \in DOMAIN import_dlls}

(* Mutated: a sentinel takes no thunk. *)
FindImportNoSentinel(proc) ==
  LET d == CHOOSE d \in DOMAIN import_dlls :
             /\ proc \in ToSet(import_dlls[d].imports)
             /\ \A e \in 1..(d - 1) : proc \notin ToSet(import_dlls[e].imports)
      p == CHOOSE p \in DOMAIN import_dlls[d].imports : import_dlls[d].imports[p] = proc
  IN  (Sum([e \in 1..(d - 1) |-> Len(import_dlls[e].imports)]) + p - 1) * SIZEOF_QWORD

(* find_import_brute_force: the first DLL that has the procedure counts.   *)
FindImport(proc) ==
  LET d == CHOOSE d \in DOMAIN import_dlls :
             /\ proc \in ToSet(import_dlls[d].imports)
             /\ \A e \in 1..(d - 1) : proc \notin ToSet(import_dlls[e].imports)
      p == CHOOSE p \in DOMAIN import_dlls[d].imports : import_dlls[d].imports[p] = proc
  IN  (NumThunks(Before(import_dlls, d)) + p - 1) * SIZEOF_QWORD

(* symbol, for the procedures there are *)
ImportAddresses(rva) == [proc \in ImportedProcedures |-> FindImport(proc) + rva]
=============================================================================
