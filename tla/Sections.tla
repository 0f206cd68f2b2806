------------------------------- MODULE Sections -------------------------------
(***************************************************************************)
(* The sections of an executable (SectionHeadersBuilder, Sizeofs, Aligner, *)
(* PeMainWriter.write_section): their sizes are announced, a header is     *)
(* built for each, and headers and bytes are written one behind another.   *)
(***************************************************************************)
EXTENDS Integers, Sequences

VARIABLES
  sizes,    \* SectionSize of every section announced; virtual = raw in all
  headers,  \* the ImageSectionHeaders built so far
  virtual,  \* the next VirtualAddress
  raw,      \* the next PointerToRawData
  strm,     \* how many bytes of the file are written
  written   \* where the bytes of a section went, and how many they are

secVars == <<sizes, headers, virtual, raw, strm, written>>

(* Alignment *)
SECTION_ALIGNMENT == 4096
FILE_ALIGNMENT == 512

(* .text, .data and .idata: SectionsIndexesLight, from 1 *)
TEXT == 1
DATA == 2
IDATA == 3
NumSections == 3

Header == [VirtualSize : Nat, SizeOfRawData : Nat,
           VirtualAddress : Nat, PointerToRawData : Nat]
Extent == [at : Nat, bytes : Nat]

-----------------------------------------------------------------------------
(* Aligner.align *)
AlignTo(value, alignment) ==
  IF value % alignment # 0 THEN value + alignment - (value % alignment) ELSE value

(* The headers of the file (DOS header, stub and NT headers) and of the    *)
(* sections; sizeofAllHeaders rounds it up, the writer does not.           *)
HeaderBytes == 64 + 64 + 264 + NumSections * 40
SizeofAllHeaders == AlignTo(HeaderBytes, FILE_ALIGNMENT)

SecInit ==
  /\ sizes = <<>> /\ headers = <<>> /\ written = <<>> /\ strm = 0
  /\ raw = SizeofAllHeaders /\ virtual = AlignTo(SizeofAllHeaders, SECTION_ALIGNMENT)

(* add *)
AddSection(size) ==
  /\ Len(sizes) < NumSections
  /\ sizes' = Append(sizes, size)
  /\ UNCHANGED <<headers, virtual, raw, strm, written>>

Announced == Len(sizes) = NumSections
Pending == sizes[Len(headers) + 1]

(* Mutated: the section behind begins where the bytes end. *)
BuildHeaderUnaligned ==
  /\ Announced /\ Len(headers) < NumSections
  /\ headers' = Append(headers,
       [VirtualSize |-> Pending, SizeOfRawData |-> AlignTo(Pending, FILE_ALIGNMENT),
        VirtualAddress |-> virtual, PointerToRawData |-> raw])
  /\ virtual' = virtual + AlignTo(Pending, FILE_ALIGNMENT)
  /\ raw' = raw + AlignTo(Pending, FILE_ALIGNMENT)
  /\ UNCHANGED <<sizes, strm, written>>

(* build, one section of its loop *)
BuildHeader ==
  /\ Announced /\ Len(headers) < NumSections
  /\ headers' = Append(headers,
       [VirtualSize |-> Pending, SizeOfRawData |-> AlignTo(Pending, FILE_ALIGNMENT),
        VirtualAddress |-> virtual, PointerToRawData |-> raw])
  /\ virtual' = virtual + AlignTo(Pending, SECTION_ALIGNMENT)
  /\ raw' = raw + AlignTo(Pending, FILE_ALIGNMENT)
  /\ UNCHANGED <<sizes, strm, written>>

Built == Len(headers) = NumSections

(* PE64.write and the headers of the sections. *)
WriteHeaders ==
  /\ Built /\ strm = 0
  /\ strm' = HeaderBytes
  /\ UNCHANGED <<sizes, headers, virtual, raw, written>>

(* Mutated: the padding behind the last section is not written. *)
WriteSectionUnpadded(bytes) ==
  /\ Built /\ strm > 0 /\ Len(written) < NumSections
  /\ written' = Append(written, [at |-> strm, bytes |-> bytes])
  /\ strm' = strm + bytes
  /\ UNCHANGED <<sizes, headers, virtual, raw>>

(* write_section *)
WriteSection(bytes) ==
  /\ Built /\ strm > 0 /\ Len(written) < NumSections
  /\ written' = Append(written, [at |-> strm, bytes |-> bytes])
  /\ strm' = strm + AlignTo(bytes, FILE_ALIGNMENT)
  /\ UNCHANGED <<sizes, headers, virtual, raw>>

(* For sections of any size, of which as many bytes are written as were    *)
(* announced.                                                              *)
SecNext ==
  \/ \E size \in Nat : AddSection(size)
  \/ BuildHeader
  \/ WriteHeaders
  \/ WriteSection(sizes[Len(written) + 1])
SecSpec == SecInit /\ [][SecNext]_secVars

-----------------------------------------------------------------------------
SecTypeOK ==
  /\ sizes \in Seq(Nat) /\ headers \in Seq(Header)
  /\ virtual \in Nat /\ raw \in Nat /\ strm \in Nat
  /\ written \in Seq(Extent)

(* The loader maps each section on pages of its own: no section reaches    *)
(* into the address range of another, none lies over the headers, all      *)
(* begin on a page, and their bytes do not overlap in the file either      *)
(* (SectionHeadersBuilder.build).                                          *)
SectionsApart ==
  \A i \in DOMAIN headers :
    /\ headers[i].VirtualAddress % SECTION_ALIGNMENT = 0
    /\ headers[i].PointerToRawData % FILE_ALIGNMENT = 0
    /\ headers[i].VirtualAddress >= HeaderBytes /\ headers[i].PointerToRawData >= HeaderBytes
    /\ headers[i].VirtualSize <= headers[i].SizeOfRawData
    /\ \A j \in 1..(i - 1) :
         /\ headers[j].VirtualAddress + headers[j].VirtualSize <= headers[i].VirtualAddress
         /\ headers[j].PointerToRawData + headers[j].SizeOfRawData <= headers[i].PointerToRawData

(* What is written of a section is where its header says, although the     *)
(* header is computed from sizes and the file is written in sequence, and  *)
(* there is as much of it as the header says (PeMainWriter.write).         *)
WrittenWhereSaid ==
  \A i \in DOMAIN written :
    /\ written[i].at = headers[i].PointerToRawData
    /\ written[i].bytes = headers[i].VirtualSize
=============================================================================
