---------------------------- MODULE PeImageProofs ----------------------------
(***************************************************************************)
(* The sections of an executable do not overlap and are written where      *)
(* their headers say, whatever their sizes; the code leads where it        *)
(* should, for every program and all addresses; and what the whole is made *)
(* from ends up where the loader and the code look for it: for any DLLs,   *)
(* procedures, strings and lines.                                          *)
(***************************************************************************)
EXTENDS PeImage, SequenceLemmas

-----------------------------------------------------------------------------
(* What the builder knows of the headers there are. *)
NextBehindAll ==
  /\ virtual % SECTION_ALIGNMENT = 0 /\ raw % FILE_ALIGNMENT = 0
  /\ virtual >= 512 /\ raw >= 512
  /\ \A i \in 1..Len(headers) :
       /\ headers[i].VirtualAddress + headers[i].VirtualSize <= virtual
       /\ headers[i].PointerToRawData + headers[i].SizeOfRawData <= raw

Lengths ==
  /\ Len(headers) <= Len(sizes) /\ Len(sizes) <= 3
  /\ Len(written) <= Len(headers)
  /\ Len(headers) > 0 => Len(sizes) = 3
  /\ strm > 0 => Len(headers) = 3
  /\ strm = 0 => Len(written) = 0

(* The pointers run along with the sizes: where the next one is.           *)
Behind(h) == h.PointerToRawData + h.SizeOfRawData
InSequence ==
  /\ \A i \in 1..Len(headers) :
       /\ headers[i].VirtualSize = sizes[i]
       /\ headers[i].SizeOfRawData = AlignTo(sizes[i], FILE_ALIGNMENT)
       /\ headers[i].PointerToRawData = IF i = 1 THEN 512 ELSE Behind(headers[i - 1])
  /\ raw = IF Len(headers) = 0 THEN 512 ELSE Behind(headers[Len(headers)])

(* The file is as long as the sections that are written say.               *)
FileInSequence ==
  strm > 0 => strm = IF Len(written) = 0 THEN 512 ELSE Behind(headers[Len(written)])

SecInv ==
  /\ SecTypeOK /\ NextBehindAll /\ Lengths /\ InSequence /\ FileInSequence
  /\ SectionsApart /\ WrittenWhereSaid

(* AlignTo gives a multiple, and the next one. *)
LEMMA AlignToPage ==
  ASSUME NEW v \in Nat
  PROVE  /\ AlignTo(v, SECTION_ALIGNMENT) \in Nat /\ v <= AlignTo(v, SECTION_ALIGNMENT)
         /\ AlignTo(v, SECTION_ALIGNMENT) % SECTION_ALIGNMENT = 0
BY DEF AlignTo, SECTION_ALIGNMENT

LEMMA AlignToBlock ==
  ASSUME NEW v \in Nat
  PROVE  /\ AlignTo(v, FILE_ALIGNMENT) \in Nat /\ v <= AlignTo(v, FILE_ALIGNMENT)
         /\ AlignTo(v, FILE_ALIGNMENT) % FILE_ALIGNMENT = 0
BY DEF AlignTo, FILE_ALIGNMENT

(* A page, or a block, behind an aligned address is aligned. *)
LEMMA AlignedSum ==
  ASSUME NEW a \in Nat, NEW b \in Nat
  PROVE  /\ a % SECTION_ALIGNMENT = 0 /\ b % SECTION_ALIGNMENT = 0 => (a + b) % SECTION_ALIGNMENT = 0
         /\ a % FILE_ALIGNMENT = 0 /\ b % FILE_ALIGNMENT = 0 => (a + b) % FILE_ALIGNMENT = 0
BY DEF SECTION_ALIGNMENT, FILE_ALIGNMENT

(* The headers of three sections fill a block: nothing is to be padded.    *)
LEMMA HeadersFillABlock ==
  /\ HeaderBytes = 512 /\ SizeofAllHeaders = 512
  /\ AlignTo(SizeofAllHeaders, SECTION_ALIGNMENT) = 4096
BY DEF HeaderBytes, SizeofAllHeaders, NumSections, AlignTo, FILE_ALIGNMENT, SECTION_ALIGNMENT

LEMMA SecInvInit == SecInit => SecInv
<1> SUFFICES ASSUME SecInit PROVE SecInv
  OBVIOUS
<1>1. /\ Len(sizes) = 0 /\ Len(headers) = 0 /\ Len(written) = 0 /\ strm = 0
      /\ raw = 512 /\ virtual = 4096
  BY HeadersFillABlock DEF SecInit
<1>2. SecTypeOK BY <1>1 DEF SecInit, SecTypeOK
<1>3. NextBehindAll BY <1>1 DEF NextBehindAll, SECTION_ALIGNMENT, FILE_ALIGNMENT
<1>4. Lengths /\ InSequence /\ FileInSequence BY <1>1 DEF Lengths, InSequence, FileInSequence
<1>5. SectionsApart /\ WrittenWhereSaid BY DEF SecInit, SectionsApart, WrittenWhereSaid
<1> QED BY <1>2, <1>3, <1>4, <1>5 DEF SecInv

LEMMA StillBehind ==
  ASSUME NEW x \in Nat, NEW n \in Nat, NEW v \in Nat, NEW w \in Nat, x + n <= v, v <= w
  PROVE  x + n <= w
OBVIOUS

LEMMA SecInvAdd ==
  ASSUME SecInv, NEW size \in Nat, AddSection(size)
  PROVE  SecInv'
<1>0. SecTypeOK /\ Lengths BY DEF SecInv
<1>1. /\ Len(sizes) < 3 /\ sizes' = Append(sizes, size) /\ headers' = headers
      /\ virtual' = virtual /\ raw' = raw /\ strm' = strm /\ written' = written
  BY DEF AddSection, NumSections
<1>2. SecTypeOK' BY <1>0, <1>1 DEF SecTypeOK
<1>3. Len(headers) = 0
  <2>1. Len(headers) \in Nat BY <1>0 DEF SecTypeOK
  <2>2. Len(sizes) # 3
    <3>1. Len(sizes) \in Nat BY <1>0 DEF SecTypeOK
    <3>2. Len(sizes) < 3 BY <1>1
    <3> QED BY <3>1, <3>2
  <2>3. ~(Len(headers) > 0) BY <1>0, <2>2, Zenon DEF Lengths
  <2> QED BY <2>1, <2>3
<1>4. Len(sizes') = Len(sizes) + 1 /\ Len(sizes) \in Nat
  <2>1. sizes \in Seq(Nat) BY <1>0 DEF SecTypeOK
  <2> QED BY <1>1, <2>1
<1>5. Lengths' BY <1>0, <1>1, <1>3, <1>4 DEF SecTypeOK, Lengths
<1>6. InSequence' /\ FileInSequence' /\ NextBehindAll'
  BY <1>1, <1>3 DEF SecInv, InSequence, FileInSequence, NextBehindAll
<1>7. SectionsApart' /\ WrittenWhereSaid' BY <1>1 DEF SecInv, SectionsApart, WrittenWhereSaid
<1> QED BY <1>2, <1>5, <1>6, <1>7 DEF SecInv

LEMMA SecInvBuild ==
  ASSUME SecInv, BuildHeader
  PROVE  SecInv'
<1> DEFINE n == Len(headers) + 1
           s == sizes[n]
           h == headers'[n]
<1>0. /\ headers \in Seq(Header) /\ sizes \in Seq(Nat) /\ virtual \in Nat /\ raw \in Nat
      /\ strm \in Nat /\ written \in Seq(Extent)
  BY DEF SecInv, SecTypeOK
<1>00. Len(headers) \in Nat /\ virtual \in Nat /\ raw \in Nat /\ strm \in Nat
  BY <1>0
<1>1. /\ Len(headers) < 3 /\ Len(sizes) = 3 /\ strm = 0 /\ Len(written) = 0
  <2>1. Len(headers) < 3 /\ Len(sizes) = 3 BY DEF BuildHeader, Announced, NumSections
  <2>2. ~(strm > 0) BY <2>1, <1>00 DEF SecInv, Lengths
  <2> QED BY <2>1, <2>2, <1>00 DEF SecInv, Lengths
<1>2. n \in 1..3 /\ n \in 1..Len(sizes) /\ s \in Nat /\ Pending = s
  <2>1. n \in 1..3 /\ n \in 1..Len(sizes) BY <1>00, <1>1
  <2>2. s \in Nat BY <2>1, <1>0
  <2> QED BY <2>1, <2>2 DEF Pending
<1>3. /\ AlignTo(s, FILE_ALIGNMENT) \in Nat /\ AlignTo(s, SECTION_ALIGNMENT) \in Nat
      /\ s <= AlignTo(s, FILE_ALIGNMENT) /\ s <= AlignTo(s, SECTION_ALIGNMENT)
      /\ AlignTo(s, FILE_ALIGNMENT) % FILE_ALIGNMENT = 0
      /\ AlignTo(s, SECTION_ALIGNMENT) % SECTION_ALIGNMENT = 0
  BY <1>2, AlignToPage, AlignToBlock
<1>4. /\ headers' = Append(headers,
            [VirtualSize |-> s, SizeOfRawData |-> AlignTo(s, FILE_ALIGNMENT),
             VirtualAddress |-> virtual, PointerToRawData |-> raw])
      /\ virtual' = virtual + AlignTo(s, SECTION_ALIGNMENT)
      /\ raw' = raw + AlignTo(s, FILE_ALIGNMENT)
      /\ sizes' = sizes /\ strm' = strm /\ written' = written
  BY <1>2 DEF BuildHeader
<1>5. /\ Len(headers') = n /\ \A i \in 1..Len(headers) : headers'[i] = headers[i]
      /\ h = [VirtualSize |-> s, SizeOfRawData |-> AlignTo(s, FILE_ALIGNMENT),
              VirtualAddress |-> virtual, PointerToRawData |-> raw]
  BY <1>0, <1>4
<1>6. /\ h.VirtualSize = s /\ h.SizeOfRawData = AlignTo(s, FILE_ALIGNMENT)
      /\ h.VirtualAddress = virtual /\ h.PointerToRawData = raw
  BY <1>5
<1>7. h \in Header BY <1>0, <1>2, <1>3, <1>5 DEF Header
<1>8. headers' \in Seq(Header) BY <1>0, <1>4, <1>5, <1>7
<1>9. virtual' \in Nat /\ raw' \in Nat /\ virtual <= virtual' /\ raw <= raw'
  BY <1>00, <1>3, <1>4
<1>10. SecTypeOK'
  <2>1. sizes' = sizes /\ strm' = strm /\ written' = written BY <1>4
  <2>2. sizes' \in Seq(Nat) /\ strm' \in Nat /\ written' \in Seq(Extent)
    BY <2>1, <1>0
  <2> QED BY <2>2, <1>8, <1>9 DEF SecTypeOK
<1>11. Lengths'
  <2>1. /\ Len(headers') = n /\ Len(sizes') = 3 /\ Len(written') = 0 /\ ~(strm' > 0)
        /\ n <= 3 /\ 0 <= n
    BY <1>00, <1>1, <1>4, <1>5
  <2> HIDE DEF n
  <2> QED BY <2>1 DEF Lengths
<1>12. \A i \in 1..Len(headers') : i \in 1..Len(headers) \/ i = n
  BY <1>00, <1>5
<1>13. \A i \in 1..Len(headers) : headers[i] \in Header BY <1>0
<1>14. NextBehindAll'
  <2>0. NextBehindAll BY DEF SecInv
  <2>1. virtual' % SECTION_ALIGNMENT = 0 /\ raw' % FILE_ALIGNMENT = 0
    BY <2>0, <1>00, <1>3, <1>4, AlignedSum DEF NextBehindAll
  <2>2. virtual' >= 512 /\ raw' >= 512
    BY <2>0, <1>00, <1>9 DEF NextBehindAll
  <2>3. ASSUME NEW i \in 1..Len(headers')
        PROVE  /\ headers'[i].VirtualAddress + headers'[i].VirtualSize <= virtual'
               /\ headers'[i].PointerToRawData + headers'[i].SizeOfRawData <= raw'
    <3>1. CASE i \in 1..Len(headers)
      <4>1. headers'[i] = headers[i] /\ headers[i] \in Header BY <3>1, <1>5, <1>13
      <4>2. /\ headers[i].VirtualAddress + headers[i].VirtualSize <= virtual
            /\ headers[i].PointerToRawData + headers[i].SizeOfRawData <= raw
        BY <2>0, <3>1 DEF NextBehindAll
      <4>3. /\ headers[i].VirtualAddress \in Nat /\ headers[i].VirtualSize \in Nat
            /\ headers[i].PointerToRawData \in Nat /\ headers[i].SizeOfRawData \in Nat
        BY <4>1 DEF Header
      <4>4. /\ headers[i].VirtualAddress + headers[i].VirtualSize <= virtual'
            /\ headers[i].PointerToRawData + headers[i].SizeOfRawData <= raw'
        BY <4>2, <4>3, <1>00, <1>9, StillBehind
      <4> QED BY <4>1, <4>4
    <3>2. CASE i = n
      BY <3>2, <1>00, <1>2, <1>3, <1>4, <1>6
    <3> QED BY <3>1, <3>2, <1>12
  <2> QED BY <2>1, <2>2, <2>3 DEF NextBehindAll
<1>15. InSequence'
  <2>0. InSequence BY DEF SecInv
  <2>1. ASSUME NEW i \in 1..Len(headers')
        PROVE  /\ headers'[i].VirtualSize = sizes'[i]
               /\ headers'[i].SizeOfRawData = AlignTo(sizes'[i], FILE_ALIGNMENT)
               /\ headers'[i].PointerToRawData = IF i = 1 THEN 512 ELSE Behind(headers'[i - 1])
    <3>1. CASE i \in 1..Len(headers)
      <4>1. headers'[i] = headers[i] /\ (i # 1 => headers'[i - 1] = headers[i - 1])
        BY <3>1, <1>00, <1>5
      <4> QED BY <4>1, <3>1, <2>0, <1>4 DEF InSequence
    <3>2. CASE i = n
      <4>1. i # 1 => headers'[i - 1] = headers[Len(headers)] /\ Len(headers) # 0
        BY <3>2, <1>00, <1>5
      <4>2. i = 1 => Len(headers) = 0 BY <3>2, <1>00
      <4> QED BY <4>1, <4>2, <3>2, <2>0, <1>4, <1>6 DEF InSequence
    <3> QED BY <3>1, <3>2, <1>12
  <2>2. raw' = Behind(headers'[Len(headers')]) /\ Len(headers') # 0
    BY <1>00, <1>4, <1>5, <1>6 DEF Behind
  <2> QED BY <2>1, <2>2 DEF InSequence
<1>16. FileInSequence' BY <1>1, <1>4 DEF FileInSequence
<1>17. SectionsApart'
  <2>0. NextBehindAll /\ SectionsApart BY DEF SecInv
  <2> SUFFICES ASSUME NEW i \in 1..Len(headers')
      PROVE /\ headers'[i].VirtualAddress % SECTION_ALIGNMENT = 0
            /\ headers'[i].PointerToRawData % FILE_ALIGNMENT = 0
            /\ headers'[i].VirtualAddress >= HeaderBytes /\ headers'[i].PointerToRawData >= HeaderBytes
            /\ headers'[i].VirtualSize <= headers'[i].SizeOfRawData
            /\ \A j \in 1..(i - 1) :
               /\ headers'[j].VirtualAddress + headers'[j].VirtualSize <= headers'[i].VirtualAddress
               /\ headers'[j].PointerToRawData + headers'[j].SizeOfRawData <= headers'[i].PointerToRawData
    BY <1>8 DEF SectionsApart
  <2>1. CASE i \in 1..Len(headers)
    <3>1. headers'[i] = headers[i] /\ \A j \in 1..(i - 1) : headers'[j] = headers[j]
      BY <2>1, <1>00, <1>5
    <3>2. i \in DOMAIN headers BY <2>1, <1>0
    <3> QED BY <3>1, <3>2, <2>0 DEF SectionsApart
  <2>2. CASE i = n
    <3>1. \A j \in 1..(i - 1) : j \in 1..Len(headers) /\ headers'[j] = headers[j]
      BY <2>2, <1>00, <1>5
    <3>2. headers'[i].VirtualSize <= headers'[i].SizeOfRawData BY <2>2, <1>3, <1>6
    <3>3. \A j \in 1..(i - 1) :
            /\ headers'[j].VirtualAddress + headers'[j].VirtualSize <= headers'[i].VirtualAddress
            /\ headers'[j].PointerToRawData + headers'[j].SizeOfRawData <= headers'[i].PointerToRawData
      BY <3>1, <2>0, <2>2, <1>6 DEF NextBehindAll
    <3> QED BY <3>2, <3>3, <2>0, <2>2, <1>6, HeadersFillABlock DEF NextBehindAll
  <2> QED BY <2>1, <2>2, <1>12
<1>18. WrittenWhereSaid'
  <2>1. DOMAIN written' = {} BY <1>0, <1>1, <1>4
  <2> QED BY <2>1 DEF WrittenWhereSaid
<1> QED BY <1>10, <1>11, <1>14, <1>15, <1>16, <1>17, <1>18 DEF SecInv

LEMMA SecInvHeaders ==
  ASSUME SecInv, WriteHeaders
  PROVE  SecInv'
<1>0. SecTypeOK /\ Lengths BY DEF SecInv
<1>1. /\ Len(headers) = 3 /\ strm' = 512 /\ sizes' = sizes /\ headers' = headers
      /\ virtual' = virtual /\ raw' = raw /\ written' = written /\ strm = 0
  BY HeadersFillABlock DEF WriteHeaders, Built, NumSections
<1>2. Len(written) = 0 BY <1>0, <1>1 DEF Lengths
<1>3. SecTypeOK'
  <2>1. strm' \in Nat BY <1>1
  <2> QED BY <1>0, <1>1, <2>1 DEF SecTypeOK
<1>4. Lengths'
  <2>1. Len(headers) > 0 /\ strm' > 0 /\ strm' # 0 BY <1>1
  <2>2. Len(sizes) = 3 BY <2>1, <1>0 DEF Lengths
  <2>3. Len(headers') = 3 /\ Len(sizes') = 3 /\ Len(written') = 0
    BY <2>2, <1>1, <1>2
  <2> QED BY <2>1, <2>3 DEF Lengths
<1>5. FileInSequence' BY <1>1, <1>2 DEF FileInSequence
<1>6. InSequence' /\ NextBehindAll' /\ SectionsApart' /\ WrittenWhereSaid'
  <2>1. headers' = headers /\ sizes' = sizes /\ virtual' = virtual /\ raw' = raw /\ written' = written
    BY <1>1
  <2>2. InSequence' BY <2>1 DEF SecInv, InSequence
  <2>3. NextBehindAll' BY <2>1 DEF SecInv, NextBehindAll
  <2>4. SectionsApart' BY <2>1 DEF SecInv, SectionsApart
  <2>5. WrittenWhereSaid' BY <2>1 DEF SecInv, WrittenWhereSaid
  <2> QED BY <2>2, <2>3, <2>4, <2>5
<1> QED BY <1>3, <1>4, <1>5, <1>6 DEF SecInv

LEMMA SecInvWrite ==
  ASSUME SecInv, WriteSection(sizes[Len(written) + 1])
  PROVE  SecInv'
<1> DEFINE k == Len(written) + 1
           w == [at |-> strm, bytes |-> sizes[k]]
<1>0. /\ headers \in Seq(Header) /\ sizes \in Seq(Nat) /\ virtual \in Nat /\ raw \in Nat
      /\ strm \in Nat /\ written \in Seq(Extent)
  BY DEF SecInv, SecTypeOK
<1>00. Len(written) \in Nat /\ strm \in Nat /\ Len(headers) \in Nat BY <1>0
<1>1. Len(headers) = 3 /\ Len(sizes) = 3 /\ Len(written) < 3 /\ strm > 0
  <2>1. Len(headers) = 3 /\ Len(written) < 3 /\ strm > 0 BY DEF WriteSection, Built, NumSections
  <2>2. Len(headers) > 0 BY <2>1
  <2>3. Lengths BY DEF SecInv
  <2>4. Len(sizes) = 3 BY <2>2, <2>3 DEF Lengths
  <2> QED BY <2>1, <2>4
<1>2. k \in 1..3 /\ sizes[k] \in Nat /\ headers[k] \in Header
  <2>1. k \in 1..3 BY <1>00, <1>1
  <2>2. k \in 1..Len(sizes) /\ k \in 1..Len(headers) BY <2>1, <1>1
  <2> HIDE DEF k
  <2>3. sizes[k] \in Nat BY <2>2, <1>0
  <2>4. headers[k] \in Header BY <2>2, <1>0
  <2> QED BY <2>1, <2>3, <2>4
<1>3. strm = headers[k].PointerToRawData
  <2>1. strm = IF k = 1 THEN 512 ELSE Behind(headers[k - 1])
    BY <1>00, <1>1 DEF SecInv, FileInSequence
  <2>2. headers[k].PointerToRawData = IF k = 1 THEN 512 ELSE Behind(headers[k - 1])
    BY <1>1, <1>2 DEF SecInv, InSequence
  <2> QED BY <2>1, <2>2
<1>4. headers[k].VirtualSize = sizes[k]
      /\ headers[k].SizeOfRawData = AlignTo(sizes[k], FILE_ALIGNMENT)
  BY <1>1, <1>2 DEF SecInv, InSequence
<1>5. /\ written' = Append(written, w) /\ strm' = strm + AlignTo(sizes[k], FILE_ALIGNMENT)
      /\ headers' = headers /\ sizes' = sizes /\ virtual' = virtual /\ raw' = raw
  BY DEF WriteSection
<1>6. AlignTo(sizes[k], FILE_ALIGNMENT) \in Nat BY <1>2, AlignToBlock
<1>7. strm' \in Nat /\ strm' > 0 BY <1>00, <1>1, <1>5, <1>6
<1>8. w \in Extent BY <1>00, <1>2 DEF Extent
<1>9. /\ written' \in Seq(Extent) /\ Len(written') = k
      /\ written'[k] = w /\ \A i \in 1..Len(written) : written'[i] = written[i]
  <2>1. written' = Append(written, w) /\ w \in Extent /\ written \in Seq(Extent)
    BY <1>0, <1>5, <1>8
  <2> HIDE DEF w
  <2>2. /\ written' \in Seq(Extent) /\ Len(written') = Len(written) + 1
        /\ written'[Len(written) + 1] = w
        /\ \A i \in 1..Len(written) : written'[i] = written[i]
    BY <2>1
  <2> QED BY <2>2
<1>10. SecTypeOK'
  <2>1. headers' = headers /\ sizes' = sizes /\ virtual' = virtual /\ raw' = raw BY <1>5
  <2>2. headers' \in Seq(Header) /\ sizes' \in Seq(Nat) /\ virtual' \in Nat /\ raw' \in Nat
    BY <2>1, <1>0
  <2>3. written' \in Seq(Extent) BY <1>9
  <2> QED BY <2>2, <2>3, <1>7 DEF SecTypeOK
<1>11. Lengths'
  <2>1. /\ Len(headers') = 3 /\ Len(sizes') = 3 /\ Len(written') = k /\ k <= 3
        /\ strm' # 0
    BY <1>00, <1>1, <1>5, <1>7, <1>9
  <2> HIDE DEF k
  <2> QED BY <2>1 DEF Lengths
<1>12. FileInSequence'
  <2>1. strm' = Behind(headers[k]) BY <1>3, <1>4, <1>5 DEF Behind
  <2>2. headers' = headers /\ Len(written') = k BY <1>5, <1>9
  <2>3. k # 0 BY <1>00
  <2> HIDE DEF k, w
  <2> QED BY <2>1, <2>2, <2>3 DEF FileInSequence
<1>13. InSequence' /\ NextBehindAll' /\ SectionsApart'
  BY <1>5 DEF SecInv, InSequence, NextBehindAll, SectionsApart
<1>14. WrittenWhereSaid'
  <2> SUFFICES ASSUME NEW i \in 1..Len(written')
               PROVE  /\ written'[i].at = headers'[i].PointerToRawData
                      /\ written'[i].bytes = headers'[i].VirtualSize
    BY <1>9 DEF WrittenWhereSaid
  <2>1. CASE i = k BY <2>1, <1>3, <1>4, <1>5, <1>9
  <2>2. CASE i # k
    <3>1. i \in 1..Len(written) BY <2>2, <1>0, <1>9
    <3>2. written'[i] = written[i] BY <3>1, <1>9
    <3> QED BY <3>1, <3>2, <1>0, <1>5 DEF SecInv, WrittenWhereSaid
  <2> QED BY <2>1, <2>2
<1> QED BY <1>10, <1>11, <1>12, <1>13, <1>14 DEF SecInv

(* The sections of every executable lie apart, in memory and in the file,  *)
(* and hold the bytes that were announced for them, where they were        *)
(* announced (SectionHeadersBuilder.build, PeMainWriter.write_section).    *)
THEOREM SecInvAlways == SecSpec => []SecInv
<1>1. SecInv /\ [SecNext]_secVars => SecInv'
  <2> SUFFICES ASSUME SecInv, [SecNext]_secVars PROVE SecInv'
    OBVIOUS
  <2>1. CASE \E size \in Nat : AddSection(size) BY <2>1, SecInvAdd
  <2>2. CASE BuildHeader BY <2>2, SecInvBuild
  <2>3. CASE WriteHeaders BY <2>3, SecInvHeaders
  <2>4. CASE WriteSection(sizes[Len(written) + 1]) BY <2>4, SecInvWrite
  <2>5. CASE UNCHANGED secVars
    <3>1. /\ sizes' = sizes /\ headers' = headers /\ virtual' = virtual /\ raw' = raw
          /\ written' = written /\ strm' = strm
      BY <2>5 DEF secVars
    <3>2. SecTypeOK' /\ NextBehindAll' /\ Lengths' BY <3>1 DEF SecInv, SecTypeOK, NextBehindAll, Lengths
    <3>3. InSequence' BY <3>1 DEF SecInv, InSequence, Behind
    <3>4. FileInSequence' BY <3>1 DEF SecInv, FileInSequence
    <3>5. SectionsApart' BY <3>1 DEF SecInv, SectionsApart
    <3>6. WrittenWhereSaid' BY <3>1 DEF SecInv, WrittenWhereSaid
    <3> QED BY <3>2, <3>3, <3>4, <3>5, <3>6 DEF SecInv
  <2> QED BY <2>1, <2>2, <2>3, <2>4, <2>5 DEF SecNext
<1> QED BY <1>1, SecInvInit, PTL DEF SecSpec

(* No section reaches into another, in memory or in the file, whatever     *)
(* their sizes (SectionHeadersBuilder.build).                              *)
THEOREM SectionsApartAlways == SecSpec => []SectionsApart
<1>1. SecInv => SectionsApart BY DEF SecInv
<1> QED BY <1>1, SecInvAlways, PTL

(* The bytes of each section begin where its header says                   *)
(* (PeMainWriter.write, write_section).                                    *)
THEOREM WrittenWhereSaidAlways == SecSpec => []WrittenWhereSaid
<1>1. SecInv => WrittenWhereSaid BY DEF SecInv
<1> QED BY <1>1, SecInvAlways, PTL

-----------------------------------------------------------------------------
(***************************************************************************)
(* What the assembler resolved leads where it should: for every program,   *)
(* whatever the address of the code and those of procedures and symbols.   *)
(***************************************************************************)

Lines == 1..Len(lines)

(* Where a line ends, and where one begins if those before it are placed. *)
After(l) == l.offset + Bytes(l)
Pos(k) == IF k = 1 THEN virtualAddress ELSE After(lines[k - 1])

(* The sizes set_rva assumes are those the lines were made with.           *)
SizeKnown(l) ==
  /\ l.kind = "jmp_label" => l.size = 5
  /\ Calls(l) => l.size = 6
  /\ Loads(l) /\ l.repr \in Symbols => l.size = 7
Sized == \A k \in Lines : SizeKnown(lines[k])

IsLabel(k) == lines[k].kind = "label_only"
Labelled ==
  /\ \A k \in Lines : IsLabel(k) => lines[k].label \in labels
  /\ \A j, k \in Lines : IsLabel(j) /\ IsLabel(k) /\ lines[j].label = lines[k].label => j = k
  /\ \A l \in labels : \E k \in Lines : IsLabel(k) /\ lines[k].label = l

InLoop == 1 <= at /\ at <= Len(lines) + 1

Placed(n) == \A k \in 1..n : lines[k].offset = Pos(k)
Offsets ==
  /\ phase = "offsets" => Placed(at - 1) /\ count = Pos(at)
  /\ phase \in {"resolve", "bytes"} => Placed(Len(lines)) /\ virtualAddress + count = Pos(at)

LabelsKnown ==
  phase \in {"resolve", "bytes"} =>
    /\ DOMAIN labelsOffset = labels
    /\ \A k \in Lines : IsLabel(k) => labelsOffset[lines[k].label] = lines[k].offset

Leads(l) ==
  /\ l.kind = "jmp_label" => l.label \in labels /\ After(l) + l.rel = labelsOffset[l.label]
  /\ Calls(l) => l.repr \in DOMAIN imports /\ After(l) + l.rel = imports[l.repr]
  /\ Loads(l) => l.repr \in DOMAIN datas /\ After(l) + l.rel = datas[l.repr]
Patched ==
  /\ phase = "resolve" => \A k \in 1..(at - 1) : Leads(lines[k])
  /\ phase = "bytes" => \A k \in Lines : Leads(lines[k])

PlacesKept ==
  /\ phase # "bytes" => Len(places) = 0
  /\ phase = "bytes" => /\ Len(places) = at - 1
                        /\ \A k \in 1..(at - 1) : virtualAddress + places[k] = lines[k].offset

AsmInv ==
  /\ AsmTypeOK /\ Sized /\ Labelled /\ InLoop /\ Offsets /\ LabelsKnown
  /\ Patched /\ PlacesKept

-----------------------------------------------------------------------------
(* What is in a table is one of its values. *)
LEMMA TableValues ==
  ASSUME NEW names, NEW values, NEW f \in Tables(names, values)
  PROVE  /\ DOMAIN f \subseteq names
         /\ \A x \in DOMAIN f : f[x] \in values
BY DEF Tables

LEMMA TablesGrow ==
  ASSUME NEW names, NEW f \in Tables(names, Addresses)
  PROVE  f \in Tables(names, Nat)
<1>1. PICK known \in SUBSET names : f \in [known -> Addresses] BY DEF Tables
<1>2. f \in [known -> Nat] BY <1>1, Asm86Assumption
<1> QED BY <1>1, <1>2 DEF Tables

(* The lines have the fields of a line. *)
LEMMA LineFields ==
  ASSUME AsmTypeOK, NEW k \in Lines
  PROVE  /\ lines[k] \in AsmLine
         /\ lines[k].size \in Nat /\ lines[k].offset \in Nat /\ lines[k].rel \in Int
         /\ lines[k].kind \in {"code", "label_only", "jmp_label"}
         /\ Bytes(lines[k]) \in Nat /\ After(lines[k]) \in Nat
<1>1. lines \in Seq(AsmLine) BY DEF AsmTypeOK
<1>2. lines[k] \in AsmLine BY <1>1 DEF Lines
<1>3. /\ lines[k].size \in Nat /\ lines[k].offset \in Nat /\ lines[k].rel \in Int
      /\ lines[k].kind \in {"code", "label_only", "jmp_label"}
  BY <1>2 DEF AsmLine
<1>4. Bytes(lines[k]) \in Nat BY <1>3 DEF Bytes
<1>5. After(lines[k]) \in Nat BY <1>3, <1>4 DEF After
<1> QED BY <1>2, <1>3, <1>4, <1>5

LEMMA PosIsNat ==
  ASSUME AsmTypeOK, NEW k \in 1..(Len(lines) + 1)
  PROVE  Pos(k) \in Nat
<1>0. Len(lines) \in Nat /\ virtualAddress \in Nat BY DEF AsmTypeOK
<1>1. CASE k = 1 BY <1>0, <1>1 DEF Pos
<1>2. CASE k # 1
  <2>1. k - 1 \in Lines BY <1>0, <1>2 DEF Lines
  <2> QED BY <2>1, <1>2, LineFields DEF Pos
<1> QED BY <1>1, <1>2

-----------------------------------------------------------------------------
LEMMA AsmInvInit == AsmInit => AsmInv
<1> SUFFICES ASSUME AsmInit PROVE AsmInv
  OBVIOUS
<1>1. lines = <<>> /\ Len(lines) = 0 /\ phase = "code" /\ at = 1 /\ labels = {} /\ places = <<>>
  BY DEF AsmInit
<1>2. Lines = {} BY <1>1 DEF Lines
<1>3. <<>> \in Tables(Labels, Nat) /\ <<>> \in Tables(Procedures, Nat) /\ <<>> \in Tables(Symbols, Nat)
  <2>1. <<>> \in [{} -> Nat] OBVIOUS
  <2> QED BY <2>1 DEF Tables
<1>4. AsmTypeOK BY <1>3 DEF AsmInit, AsmTypeOK
<1>5. Sized /\ Labelled BY <1>1, <1>2 DEF Sized, Labelled
<1>6. InLoop /\ Offsets /\ LabelsKnown /\ Patched /\ PlacesKept
  BY <1>1 DEF InLoop, Offsets, LabelsKnown, Patched, PlacesKept
<1> QED BY <1>4, <1>5, <1>6 DEF AsmInv

(* A line that is appended: it has a size set_rva knows, and a label of it *)
(* is new.                                                                 *)
LEMMA AsmInvAddLine ==
  ASSUME AsmInv, NEW l \in AsmLine, AddLine(l), SizeKnown(l),
         \/ l.kind # "label_only" /\ labels' = labels
         \/ l.label \in Labels \ labels /\ labels' = labels \cup {l.label}
              /\ l.kind = "label_only"
  PROVE  AsmInv'
<1> DEFINE n == Len(lines) + 1
<1>0. AsmTypeOK /\ Sized /\ Labelled /\ InLoop /\ PlacesKept BY DEF AsmInv
<1>1. lines \in Seq(AsmLine) /\ Len(lines) \in Nat BY <1>0 DEF AsmTypeOK
<1>2. /\ lines' = Append(lines, l) /\ phase = "code" /\ phase' = "code"
      /\ labelsOffset' = labelsOffset /\ at' = at /\ count' = count
      /\ virtualAddress' = virtualAddress /\ imports' = imports /\ datas' = datas
      /\ places' = places
  BY DEF AddLine
<1>3. /\ lines' \in Seq(AsmLine) /\ Len(lines') = n /\ lines'[n] = l
      /\ \A k \in Lines : lines'[k] = lines[k]
  BY <1>1, <1>2 DEF Lines
<1>4. Lines' = Lines \cup {n} /\ n \notin Lines BY <1>1, <1>3 DEF Lines
<1>5. labels' \subseteq Labels BY <1>0 DEF AsmTypeOK
<1>6. AsmTypeOK'
  BY <1>0, <1>2, <1>3, <1>5 DEF AsmTypeOK
<1>7. Sized'
  <2> SUFFICES ASSUME NEW k \in Lines' PROVE SizeKnown(lines[k])'
    BY DEF Sized
  <2>1. CASE k = n BY <2>1, <1>3 DEF SizeKnown, Calls, Loads
  <2>2. CASE k \in Lines
    <3>1. SizeKnown(lines[k]) /\ lines'[k] = lines[k] BY <2>2, <1>0, <1>3 DEF Sized
    <3> QED BY <3>1 DEF SizeKnown, Calls, Loads
  <2> QED BY <2>1, <2>2, <1>4
<1>8. Labelled'
  <2>1. \A k \in Lines : lines'[k].kind = lines[k].kind /\ lines'[k].label = lines[k].label
    BY <1>3
  <2>2. lines'[n].kind = l.kind /\ lines'[n].label = l.label BY <1>3
  <2> HIDE DEF n
  <2>3. CASE l.kind # "label_only"
    <3>1. labels' = labels BY <2>3
    <3> QED BY <2>1, <2>2, <2>3, <3>1, <1>0, <1>4 DEF Labelled, IsLabel
  <2>4. CASE l.kind = "label_only"
    <3>1. l.label \notin labels /\ labels' = labels \cup {l.label} BY <2>4
    <3>2. \A k \in Lines : lines[k].kind = "label_only" =>
            lines[k].label \in labels /\ lines[k].label # l.label
      BY <3>1, <1>0 DEF Labelled, IsLabel
    <3>3. \A k \in Lines' : lines'[k].kind = "label_only" => lines'[k].label \in labels'
      BY <2>1, <2>2, <3>1, <3>2, <1>4
    <3>4. \A j, k \in Lines' : lines'[j].kind = "label_only" /\ lines'[k].kind = "label_only"
                                 /\ lines'[j].label = lines'[k].label => j = k
      <4> SUFFICES ASSUME NEW j \in Lines', NEW k \in Lines', lines'[j].kind = "label_only",
                          lines'[k].kind = "label_only", lines'[j].label = lines'[k].label
                   PROVE  j = k
        OBVIOUS
      <4>1. CASE j \in Lines /\ k \in Lines BY <4>1, <2>1, <1>0 DEF Labelled, IsLabel
      <4>2. CASE j = n /\ k = n BY <4>2
      <4>3. CASE j \in Lines /\ k = n BY <4>3, <2>1, <2>2, <3>2
      <4>4. CASE j = n /\ k \in Lines BY <4>4, <2>1, <2>2, <3>2
      <4> QED BY <4>1, <4>2, <4>3, <4>4, <1>4
    <3>5. \A m \in labels' : \E k \in Lines' : lines'[k].kind = "label_only" /\ lines'[k].label = m
      <4> SUFFICES ASSUME NEW m \in labels'
                   PROVE  \E k \in Lines' : lines'[k].kind = "label_only" /\ lines'[k].label = m
        OBVIOUS
      <4>1. CASE m \in labels
        <5>1. PICK k \in Lines : lines[k].kind = "label_only" /\ lines[k].label = m
          BY <4>1, <1>0 DEF Labelled, IsLabel
        <5> QED BY <5>1, <2>1, <1>4
      <4>2. CASE m = l.label BY <4>2, <2>2, <2>4, <1>4
      <4> QED BY <4>1, <4>2, <3>1
    <3> QED BY <3>3, <3>4, <3>5 DEF Labelled, IsLabel
  <2> QED BY <2>3, <2>4
<1>9. InLoop'
  <2>1. 1 <= at /\ at <= Len(lines) + 1 /\ at \in Nat BY <1>0 DEF InLoop, AsmTypeOK
  <2>2. Len(lines') = Len(lines) + 1 BY <1>3
  <2> QED BY <2>1, <2>2, <1>1, <1>2 DEF InLoop
<1>10. Offsets' /\ LabelsKnown' /\ Patched' /\ PlacesKept'
  BY <1>0, <1>2 DEF Offsets, LabelsKnown, Patched, PlacesKept
<1> QED BY <1>6, <1>7, <1>8, <1>9, <1>10 DEF AsmInv

LEMMA CodeLineFields ==
  ASSUME NEW size \in Nat, NEW repr, repr \in Symbols \cup Procedures \cup {NoName}
  PROVE  /\ CodeLine("48 8d", size, repr) \in AsmLine
         /\ CodeLine("ff 15", size, repr) \in AsmLine
         /\ CodeLine("other", size, repr) \in AsmLine
BY DEF CodeLine, AsmLine

(* The instructions have the sizes set_rva knows. *)
LEMMA CodeLineSizes ==
  ASSUME NEW size, NEW repr
  PROVE  /\ repr \notin Symbols \/ size = 7 => SizeKnown(CodeLine("48 8d", size, repr))
         /\ size = 6 => SizeKnown(CodeLine("ff 15", size, repr))
         /\ SizeKnown(CodeLine("other", size, repr))
         /\ \A head : CodeLine(head, size, repr).kind # "label_only"
BY DEF CodeLine, SizeKnown, Calls, Loads

LEMMA AsmInvApi ==
  ASSUME AsmInv, Api
  PROVE  AsmInv'
<1>1. CASE Plain
  <2>1. PICK size \in PlainSizes : AddLine(CodeLine("other", size, NoName)) BY <1>1 DEF Plain
  <2>2. size \in Nat /\ labels' = labels BY <1>1, Asm86Assumption DEF Plain
  <2>3. NoName \in Symbols \cup Procedures \cup {NoName} OBVIOUS
  <2>4. CodeLine("other", size, NoName) \in AsmLine BY <2>2, <2>3, CodeLineFields
  <2> QED BY <2>1, <2>2, <2>4, CodeLineSizes, AsmInvAddLine
<1>2. CASE Lea
  <2>1. PICK dst \in LeaRegs, src \in LeaRegs :
          AddLine(CodeLine(IF dst = "low" /\ src = "low" THEN "48 8d" ELSE "other", 3, NoName))
    BY <1>2 DEF Lea
  <2>2. labels' = labels BY <1>2 DEF Lea
  <2>3. NoName \in Symbols \cup Procedures \cup {NoName} /\ 3 \in Nat OBVIOUS
  <2>4. CodeLine("48 8d", 3, NoName) \in AsmLine /\ CodeLine("other", 3, NoName) \in AsmLine
    BY <2>3, CodeLineFields
  <2>5. NoName \notin Symbols BY Asm86Assumption
  <2>6. CASE dst = "low" /\ src = "low"
    <3>1. AddLine(CodeLine("48 8d", 3, NoName)) BY <2>1, <2>6
    <3> QED BY <3>1, <2>2, <2>4, <2>5, CodeLineSizes, AsmInvAddLine
  <2>7. CASE ~(dst = "low" /\ src = "low")
    <3>1. AddLine(CodeLine("other", 3, NoName)) BY <2>1, <2>7
    <3> QED BY <3>1, <2>2, <2>4, CodeLineSizes, AsmInvAddLine
  <2> QED BY <2>6, <2>7
<1>3. CASE MakeLabel
  <2>1. PICK l \in Labels \ labels : AddLine(LabelLine(l)) /\ labels' = labels \cup {l}
    BY <1>3 DEF MakeLabel
  <2>2. LabelLine(l) \in AsmLine BY <2>1 DEF LabelLine, AsmLine
  <2>3. SizeKnown(LabelLine(l)) BY DEF SizeKnown, Calls, Loads, LabelLine
  <2>4. LabelLine(l).kind = "label_only" /\ LabelLine(l).label = l BY DEF LabelLine
  <2> QED BY <2>1, <2>2, <2>3, <2>4, AsmInvAddLine
<1>4. CASE Jump
  <2>1. PICK l \in Labels : AddLine(JumpLine(l)) /\ labels' = labels BY <1>4 DEF Jump
  <2>2. JumpLine(l) \in AsmLine BY DEF JumpLine, AsmLine
  <2>3. SizeKnown(JumpLine(l)) BY DEF SizeKnown, Calls, Loads, JumpLine
  <2>4. JumpLine(l).kind # "label_only" BY DEF JumpLine
  <2> QED BY <2>1, <2>2, <2>3, <2>4, AsmInvAddLine
<1>5. CASE Call
  <2>1. PICK proc \in Procedures : AddLine(CodeLine("ff 15", 6, proc)) /\ labels' = labels
    BY <1>5 DEF Call
  <2>2. proc \in Symbols \cup Procedures \cup {NoName} /\ 6 \in Nat OBVIOUS
  <2>3. CodeLine("ff 15", 6, proc) \in AsmLine BY <2>2, CodeLineFields
  <2> QED BY <2>1, <2>3, CodeLineSizes, AsmInvAddLine
<1>6. CASE Load
  <2>1. PICK reg \in LoadRegs, sym \in Symbols :
          AddLine(CodeLine(IF reg = "low" THEN "48 8d" ELSE "other", 7, sym))
    BY <1>6 DEF Load
  <2>2. labels' = labels BY <1>6 DEF Load
  <2>3. sym \in Symbols \cup Procedures \cup {NoName} /\ 7 \in Nat OBVIOUS
  <2>4. CodeLine("48 8d", 7, sym) \in AsmLine /\ CodeLine("other", 7, sym) \in AsmLine
    BY <2>3, CodeLineFields
  <2>5. CASE reg = "low"
    <3>1. AddLine(CodeLine("48 8d", 7, sym)) BY <2>1, <2>5
    <3> QED BY <3>1, <2>2, <2>4, CodeLineSizes, AsmInvAddLine
  <2>6. CASE reg # "low"
    <3>1. AddLine(CodeLine("other", 7, sym)) BY <2>1, <2>6
    <3> QED BY <3>1, <2>2, <2>4, CodeLineSizes, AsmInvAddLine
  <2> QED BY <2>5, <2>6
<1> QED BY <1>1, <1>2, <1>3, <1>4, <1>5, <1>6 DEF Api

-----------------------------------------------------------------------------
(* Where the line at hand begins is where the one behind it does, less its *)
(* bytes.                                                                  *)
LEMMA PosNext ==
  ASSUME AsmTypeOK, NEW k \in Lines, lines[k].offset = Pos(k)
  PROVE  Pos(k + 1) = Pos(k) + Bytes(lines[k])
<1>1. k \in Nat /\ k >= 1 BY DEF AsmTypeOK, Lines
<1>2. Pos(k + 1) = After(lines[k]) BY <1>1 DEF Pos
<1> QED BY <1>2 DEF After

(* set_rva begins *)
LEMMA AsmInvSetRva ==
  ASSUME AsmInv, NEW addr \in Nat, NEW procs \in Tables(Procedures, Nat),
         NEW syms \in Tables(Symbols, Nat), SetRva(addr, procs, syms)
  PROVE  AsmInv'
<1>0. AsmTypeOK /\ Sized /\ Labelled /\ PlacesKept BY DEF AsmInv
<1>1. /\ phase = "code" /\ phase' = "offsets" /\ virtualAddress' = addr /\ at' = 1 /\ count' = addr
      /\ imports' = procs /\ datas' = syms
      /\ lines' = lines /\ labels' = labels /\ labelsOffset' = labelsOffset /\ places' = places
  BY DEF SetRva
<1>3. AsmTypeOK' BY <1>0, <1>1 DEF AsmTypeOK
<1>4. Sized' /\ Labelled'
  <2>1. Lines' = Lines BY <1>1 DEF Lines
  <2>2. Sized' BY <1>0, <1>1, <2>1 DEF Sized, SizeKnown, Calls, Loads
  <2>3. Labelled' BY <1>0, <1>1, <2>1 DEF Labelled, IsLabel
  <2> QED BY <2>2, <2>3
<1>5. InLoop'
  <2>1. Len(lines') \in Nat BY <1>3 DEF AsmTypeOK
  <2> QED BY <1>1, <2>1 DEF InLoop
<1>6. Offsets'
  <2>1. Pos(at)' = addr BY <1>1 DEF Pos
  <2>2. Placed(at - 1)' BY <1>1 DEF Placed
  <2> QED BY <1>1, <2>1, <2>2 DEF Offsets
<1>7. LabelsKnown' /\ Patched' BY <1>1 DEF LabelsKnown, Patched
<1>8. PlacesKept' BY <1>0, <1>1 DEF PlacesKept
<1> QED BY <1>3, <1>4, <1>5, <1>6, <1>7, <1>8 DEF AsmInv

(* A line gets its offset; no line before it depends on that.              *)
LEMMA AsmInvApplyOffset ==
  ASSUME AsmInv, ApplyOffset
  PROVE  AsmInv'
<1>0. AsmTypeOK /\ Sized /\ Labelled /\ InLoop /\ Offsets /\ PlacesKept BY DEF AsmInv
<1>1. /\ phase = "offsets" /\ phase' = "offsets" /\ at' = at + 1
      /\ count' = count + Bytes(lines[at]) /\ labels' = labels /\ labelsOffset' = labelsOffset
      /\ virtualAddress' = virtualAddress /\ imports' = imports /\ datas' = datas
      /\ places' = places
  BY DEF ApplyOffset, LoopAt, Line
<1>2. lines' = [lines EXCEPT ![at].offset = count] /\ at <= Len(lines)
  BY DEF ApplyOffset, LoopAt
<1>3. /\ lines \in Seq(AsmLine) /\ Len(lines) \in Nat /\ at \in Nat /\ count \in Nat
  BY <1>0 DEF AsmTypeOK
<1>4. at \in Lines BY <1>0, <1>2, <1>3 DEF InLoop, Lines
<1>5. lines[at] \in AsmLine /\ Bytes(lines[at]) \in Nat BY <1>0, <1>4, LineFields
<1>6. [lines[at] EXCEPT !.offset = count] \in AsmLine BY <1>3, <1>5 DEF AsmLine
<1>7. /\ lines' \in Seq(AsmLine) /\ Len(lines') = Len(lines)
      /\ \A k \in Lines : k # at => lines'[k] = lines[k]
      /\ lines'[at] = [lines[at] EXCEPT !.offset = count]
  <2> DEFINE new == [lines[at] EXCEPT !.offset = count]
  <2>1. lines' = [lines EXCEPT ![at] = new] BY <1>2
  <2>2. new \in AsmLine BY <1>6
  <2> HIDE DEF new
  <2>3. at \in 1..Len(lines) BY <1>4 DEF Lines
  <2>4. lines' \in Seq(AsmLine) /\ Len(lines') = Len(lines) BY <1>3, <2>1, <2>2, <2>3
  <2>5. \A k \in Lines : lines'[k] = IF k = at THEN new ELSE lines[k]
    BY <1>3, <2>1 DEF Lines
  <2> QED BY <2>4, <2>5, <1>4 DEF new
<1>8. /\ lines'[at].offset = count
      /\ lines'[at].kind = lines[at].kind /\ lines'[at].head = lines[at].head
      /\ lines'[at].size = lines[at].size /\ lines'[at].repr = lines[at].repr
      /\ lines'[at].label = lines[at].label
  BY <1>5, <1>7 DEF AsmLine
<1>9. \A k \in Lines :
        /\ lines'[k].kind = lines[k].kind /\ lines'[k].head = lines[k].head
        /\ lines'[k].size = lines[k].size /\ lines'[k].repr = lines[k].repr
        /\ lines'[k].label = lines[k].label
  BY <1>7, <1>8
<1>10. Lines' = Lines BY <1>7 DEF Lines
<1>11. AsmTypeOK'
  <2>1. at' \in Nat /\ count' \in Nat BY <1>1, <1>3, <1>5
  <2> QED BY <1>0, <1>1, <1>7, <2>1 DEF AsmTypeOK
<1>12. Sized' BY <1>0, <1>9, <1>10 DEF Sized, SizeKnown, Calls, Loads
<1>13. Labelled' BY <1>0, <1>1, <1>9, <1>10 DEF Labelled, IsLabel
<1>14. InLoop' BY <1>0, <1>1, <1>2, <1>3, <1>7 DEF InLoop
<1>15. Offsets'
  <2>0. Placed(at - 1) /\ count = Pos(at) BY <1>0, <1>1 DEF Offsets
  <2>1. \A k \in 1..at : k \in Lines /\ (k # at => k \in 1..(at - 1)) BY <1>3, <1>4 DEF Lines
  <2>2. \A k \in 1..at : Pos(k)' = Pos(k)
    <3> SUFFICES ASSUME NEW k \in 1..at PROVE Pos(k)' = Pos(k)
      OBVIOUS
    <3>1. CASE k = 1 BY <3>1, <1>1 DEF Pos
    <3>2. CASE k # 1
      <4>1. k - 1 \in Lines /\ k - 1 # at BY <3>2, <1>3, <1>4 DEF Lines
      <4>2. lines'[k - 1] = lines[k - 1] BY <4>1, <1>7
      <4> QED BY <3>2, <4>2 DEF Pos, After, Bytes
    <3> QED BY <3>1, <3>2
  <2>3. \A k \in 1..at : lines'[k].offset = Pos(k)'
    <3> SUFFICES ASSUME NEW k \in 1..at PROVE lines'[k].offset = Pos(k)'
      OBVIOUS
    <3>1. CASE k = at BY <3>1, <1>8, <2>0, <2>2
    <3>2. CASE k # at
      <4>1. lines'[k] = lines[k] /\ lines[k].offset = Pos(k)
        BY <3>2, <2>0, <2>1, <1>7 DEF Placed
      <4> QED BY <4>1, <2>2
    <3> QED BY <3>1, <3>2
  <2>4. Placed(at - 1)'
    <3>1. at' - 1 = at BY <1>1, <1>3
    <3> QED BY <3>1, <2>3 DEF Placed
  <2>5. Pos(at)' = count'
    <3>1. at' # 1 /\ at' - 1 = at BY <1>1, <1>3, <1>4 DEF Lines
    <3>2. Pos(at)' = After(lines[at])' \/ Pos(at)' = lines'[at].offset + Bytes(lines'[at])
      BY <3>1 DEF Pos, After, Bytes
    <3>3. Pos(at)' = lines'[at].offset + Bytes(lines'[at])
      BY <3>1 DEF Pos, After, Bytes
    <3>4. Bytes(lines'[at]) = Bytes(lines[at]) BY <1>8 DEF Bytes
    <3> QED BY <3>3, <3>4, <1>1, <1>8
  <2> QED BY <2>4, <2>5, <1>1 DEF Offsets
<1>16. LabelsKnown' /\ Patched' BY <1>1 DEF LabelsKnown, Patched
<1>17. PlacesKept' BY <1>0, <1>1 DEF PlacesKept
<1> QED BY <1>11, <1>12, <1>13, <1>14, <1>15, <1>16, <1>17 DEF AsmInv

-----------------------------------------------------------------------------
(* A label is made once: there is one line it can be found at.             *)
LEMMA LabelLineFound ==
  ASSUME AsmTypeOK, Labelled
  PROVE  /\ \A l \in labels : LabelLineOf(l) \in Lines
         /\ \A k \in Lines : IsLabel(k) => LabelLineOf(lines[k].label) = k
<1>0. DOMAIN lines = Lines BY DEF AsmTypeOK, Lines
<1>1. ASSUME NEW l \in labels
      PROVE  /\ LabelLineOf(l) \in Lines /\ IsLabel(LabelLineOf(l))
             /\ lines[LabelLineOf(l)].label = l
  <2>1. \E k \in Lines : IsLabel(k) /\ lines[k].label = l BY DEF Labelled
  <2> QED BY <2>1, <1>0 DEF LabelLineOf, IsLabel
<1>2. ASSUME NEW k \in Lines, IsLabel(k) PROVE LabelLineOf(lines[k].label) = k
  <2>1. lines[k].label \in labels BY <1>2 DEF Labelled
  <2> QED BY <2>1, <1>1, <1>2 DEF Labelled
<1> QED BY <1>1, <1>2

LEMMA AsmInvResolveLabels ==
  ASSUME AsmInv, ResolveLabels
  PROVE  AsmInv'
<1>0. AsmTypeOK /\ Sized /\ Labelled /\ InLoop /\ Offsets /\ PlacesKept BY DEF AsmInv
<1>1. /\ phase = "offsets" /\ phase' = "resolve" /\ at' = 1 /\ count' = 0
      /\ labelsOffset' = [l \in labels |-> lines[LabelLineOf(l)].offset]
      /\ lines' = lines /\ labels' = labels /\ virtualAddress' = virtualAddress
      /\ imports' = imports /\ datas' = datas /\ places' = places
  BY DEF ResolveLabels, LoopEnds
<1>2. at > Len(lines) BY DEF ResolveLabels, LoopEnds
<1>3. at \in Nat /\ Len(lines) \in Nat /\ virtualAddress \in Nat BY <1>0 DEF AsmTypeOK
<1>4. at - 1 = Len(lines) BY <1>0, <1>2, <1>3 DEF InLoop
<1>5. labelsOffset' \in Tables(Labels, Nat)
  <2>1. \A l \in labels : lines[LabelLineOf(l)].offset \in Nat
    BY <1>0, LabelLineFound, LineFields
  <2>2. labelsOffset' \in [labels -> Nat] BY <1>1, <2>1
  <2>3. labels \in SUBSET Labels BY <1>0 DEF AsmTypeOK
  <2> QED BY <2>2, <2>3 DEF Tables
<1>6. AsmTypeOK' BY <1>0, <1>1, <1>5 DEF AsmTypeOK
<1>7. Lines' = Lines BY <1>1 DEF Lines
<1>8. Sized' BY <1>0, <1>1, <1>7 DEF Sized, SizeKnown, Calls, Loads
<1>9. Labelled' BY <1>0, <1>1, <1>7 DEF Labelled, IsLabel
<1>10. InLoop' BY <1>1, <1>3 DEF InLoop
<1>11. Offsets'
  <2>1. Placed(Len(lines)) BY <1>0, <1>1, <1>4 DEF Offsets
  <2>2. Placed(Len(lines))' BY <2>1, <1>1 DEF Placed, Pos, After, Bytes
  <2>3. Pos(at)' = virtualAddress BY <1>1 DEF Pos
  <2>4. virtualAddress' + count' = Pos(at)' BY <1>1, <1>3, <2>3
  <2> QED BY <1>1, <2>2, <2>4 DEF Offsets
<1>12. LabelsKnown'
  <2>1. DOMAIN labelsOffset' = labels' BY <1>1
  <2>2. \A k \in Lines : IsLabel(k) => labelsOffset'[lines[k].label] = lines[k].offset
    BY <1>0, <1>1, LabelLineFound DEF Labelled
  <2> QED BY <2>1, <2>2, <1>1, <1>7 DEF LabelsKnown, IsLabel
<1>13. Patched' BY <1>1 DEF Patched
<1>14. PlacesKept' BY <1>0, <1>1 DEF PlacesKept
<1> QED BY <1>6, <1>8, <1>9, <1>10, <1>11, <1>12, <1>13, <1>14 DEF AsmInv

(* bytesnow runs along with the offsets. *)
LEMMA RipIsAfter ==
  ASSUME AsmInv, LoopAt("resolve")
  PROVE  /\ at \in Lines /\ Line.offset = Pos(at) /\ Rip = After(Line)
<1>0. AsmTypeOK /\ InLoop /\ Offsets BY DEF AsmInv
<1>1. phase = "resolve" /\ at <= Len(lines) BY DEF LoopAt
<1>2. at \in Nat /\ Len(lines) \in Nat /\ virtualAddress \in Nat /\ count \in Nat
  BY <1>0 DEF AsmTypeOK
<1>3. at \in Lines /\ at \in 1..Len(lines) BY <1>0, <1>1, <1>2 DEF InLoop, Lines
<1>4. Placed(Len(lines)) /\ virtualAddress + count = Pos(at) BY <1>0, <1>1 DEF Offsets
<1>5. lines[at].offset = Pos(at) BY <1>3, <1>4 DEF Placed
<1>6. Rip = After(Line) BY <1>4, <1>5 DEF Rip, After, Line
<1> QED BY <1>3, <1>5, <1>6 DEF Line

(* A line that keeps its size and leads to its target leaves all others    *)
(* where they are.                                                         *)
LEMMA AsmInvAdvance ==
  ASSUME AsmInv, LoopAt("resolve"), NEW size, NEW rel \in Int, Advance(size, rel),
         size = Line.size,
         Line.kind = "jmp_label" =>
           Line.label \in labels /\ After(Line) + rel = labelsOffset[Line.label],
         Calls(Line) => Line.repr \in DOMAIN imports /\ After(Line) + rel = imports[Line.repr],
         Loads(Line) => Line.repr \in DOMAIN datas /\ After(Line) + rel = datas[Line.repr]
  PROVE  AsmInv'
<1>0. AsmTypeOK /\ Sized /\ Labelled /\ InLoop /\ Offsets /\ LabelsKnown /\ Patched /\ PlacesKept
  BY DEF AsmInv
<1>1. /\ phase = "resolve" /\ phase' = "resolve" /\ at' = at + 1
      /\ count' = count + Bytes(lines[at]) /\ labels' = labels /\ labelsOffset' = labelsOffset
      /\ virtualAddress' = virtualAddress /\ imports' = imports /\ datas' = datas
      /\ places' = places /\ at <= Len(lines)
  BY DEF Advance, LoopAt, Line
<1>2. /\ lines \in Seq(AsmLine) /\ Len(lines) \in Nat /\ at \in Nat /\ count \in Nat
      /\ virtualAddress \in Nat
  BY <1>0 DEF AsmTypeOK
<1>3. at \in Lines /\ lines[at].offset = Pos(at) BY RipIsAfter DEF Line
<1>4. /\ lines[at] \in AsmLine /\ Bytes(lines[at]) \in Nat /\ lines[at].size \in Nat
      /\ lines[at].offset \in Nat
  BY <1>0, <1>3, LineFields
<1> DEFINE new == [lines[at] EXCEPT !.size = size, !.rel = rel]
<1>5. /\ new \in AsmLine /\ new.rel = rel /\ new.size = lines[at].size
      /\ new.kind = lines[at].kind /\ new.head = lines[at].head
      /\ new.repr = lines[at].repr /\ new.label = lines[at].label
      /\ new.offset = lines[at].offset
  BY <1>4 DEF AsmLine, Line
<1>6. lines' = [lines EXCEPT ![at] = new] BY <1>2, <1>3 DEF Advance, Lines
<1> HIDE DEF new
<1>7. /\ lines' \in Seq(AsmLine) /\ Len(lines') = Len(lines)
      /\ \A k \in Lines : lines'[k] = IF k = at THEN new ELSE lines[k]
  <2>1. at \in 1..Len(lines) BY <1>3 DEF Lines
  <2>2. lines' \in Seq(AsmLine) /\ Len(lines') = Len(lines) BY <1>2, <1>5, <1>6, <2>1
  <2>3. \A k \in Lines : lines'[k] = IF k = at THEN new ELSE lines[k] BY <1>2, <1>6 DEF Lines
  <2> QED BY <2>2, <2>3
<1>8. \A k \in Lines :
        /\ lines'[k].kind = lines[k].kind /\ lines'[k].head = lines[k].head
        /\ lines'[k].size = lines[k].size /\ lines'[k].repr = lines[k].repr
        /\ lines'[k].label = lines[k].label /\ lines'[k].offset = lines[k].offset
  BY <1>5, <1>7
<1>9. \A k \in Lines : Bytes(lines'[k]) = Bytes(lines[k]) /\ After(lines'[k]) = After(lines[k])
  BY <1>8 DEF Bytes, After
<1>10. Lines' = Lines BY <1>7 DEF Lines
<1>11. AsmTypeOK'
  <2>1. at' \in Nat /\ count' \in Nat BY <1>1, <1>2, <1>4
  <2> QED BY <1>0, <1>1, <1>7, <2>1 DEF AsmTypeOK
<1>12. Sized' BY <1>0, <1>8, <1>10, ZenonT(40) DEF Sized, SizeKnown, Calls, Loads
<1>13. Labelled' BY <1>0, <1>1, <1>8, <1>10 DEF Labelled, IsLabel
<1>14. InLoop' BY <1>0, <1>1, <1>2, <1>7 DEF InLoop
<1>15. \A k \in 1..(Len(lines) + 1) : Pos(k)' = Pos(k)
  <2> SUFFICES ASSUME NEW k \in 1..(Len(lines) + 1) PROVE Pos(k)' = Pos(k)
    OBVIOUS
  <2>1. CASE k = 1 BY <2>1, <1>1 DEF Pos
  <2>2. CASE k # 1
    <3>1. k - 1 \in Lines BY <2>2, <1>2 DEF Lines
    <3>2. Pos(k)' = After(lines'[k - 1]) BY <2>2 DEF Pos, After, Bytes
    <3> QED BY <2>2, <3>1, <3>2, <1>9 DEF Pos
  <2> QED BY <2>1, <2>2
<1>16. Offsets'
  <2>1. Placed(Len(lines)) /\ virtualAddress + count = Pos(at) BY <1>0, <1>1 DEF Offsets
  <2>2. \A k \in 1..Len(lines) : lines'[k].offset = Pos(k)'
    <3> SUFFICES ASSUME NEW k \in 1..Len(lines) PROVE lines'[k].offset = Pos(k)'
      OBVIOUS
    <3>1. k \in Lines /\ k \in 1..(Len(lines) + 1) BY <1>2 DEF Lines
    <3>2. lines[k].offset = Pos(k) BY <2>1 DEF Placed
    <3> QED BY <3>1, <3>2, <1>8, <1>15
  <2>3. Placed(Len(lines))' BY <2>2, <1>7 DEF Placed
  <2>4. PICK n \in 1..(Len(lines) + 1) : n = at + 1 BY <1>1, <1>2
  <2>5. Pos(n) = Pos(at) + Bytes(lines[at]) BY <2>4, <1>0, <1>3, PosNext
  <2>6. Pos(at)' = Pos(n)'
    <3>1. at' = n BY <1>1, <2>4
    <3> QED BY <3>1 DEF Pos, After, Bytes
  <2>7. Pos(n)' = Pos(n) BY <1>15
  <2>8. Pos(at) \in Nat BY <1>3, <1>4
  <2>9. virtualAddress' + count' = Pos(at)'
    BY <2>1, <2>5, <2>6, <2>7, <2>8, <1>1, <1>2, <1>4
  <2> QED BY <2>3, <2>9, <1>1 DEF Offsets
<1>17. LabelsKnown' BY <1>0, <1>1, <1>8, <1>10 DEF LabelsKnown, IsLabel
<1>18. Patched'
  <2> SUFFICES ASSUME NEW k \in 1..at PROVE Leads(lines[k])'
    <3>1. at' - 1 = at BY <1>1, <1>2
    <3> QED BY <3>1, <1>1 DEF Patched
  <2>1. k \in Lines BY <1>1, <1>2 DEF Lines
  <2>2. CASE k = at
    <3>1. lines'[at].rel = rel /\ After(lines'[at]) = After(lines[at])
      BY <1>3, <1>5, <1>7, <1>9
    <3> QED BY <2>2, <3>1, <1>1, <1>3, <1>8 DEF Leads, Calls, Loads, After, Bytes, Line
  <2>3. CASE k # at
    <3>1. k \in 1..(at - 1) BY <2>3, <1>2
    <3>2. Leads(lines[k]) BY <3>1, <1>0, <1>1 DEF Patched
    <3>3. lines'[k] = lines[k] BY <2>1, <2>3, <1>7
    <3> QED BY <3>2, <3>3, <1>1 DEF Leads, Calls, Loads, After, Bytes
  <2> QED BY <2>2, <2>3
<1>19. PlacesKept' BY <1>0, <1>1 DEF PlacesKept
<1> QED BY <1>11, <1>12, <1>13, <1>14, <1>16, <1>17, <1>18, <1>19 DEF AsmInv

(* The displacements the code computes: for the sizes it assumes.          *)
LEMMA AsmInvResolve ==
  ASSUME AsmInv, ResolveJump \/ ResolveCall \/ ResolveLoad \/ ResolveOther
  PROVE  AsmInv'
<1>0. AsmTypeOK /\ Sized /\ LabelsKnown BY DEF AsmInv
<1>1. LoopAt("resolve") BY DEF ResolveJump, ResolveCall, ResolveLoad, ResolveOther
<1>2. phase = "resolve" BY <1>1 DEF LoopAt
<1>3. at \in Lines /\ Rip = After(Line) BY <1>1, RipIsAfter
<1>4. /\ Line.size \in Nat /\ Line.offset \in Nat /\ Line.rel \in Int
      /\ After(Line) \in Nat /\ SizeKnown(Line)
      /\ Line.kind \in {"code", "label_only", "jmp_label"}
  BY <1>0, <1>3, LineFields DEF Line, Sized
<1>5. Line.kind # "label_only" => After(Line) = Line.offset + Line.size
  BY DEF After, Bytes
<1>6. CASE ResolveJump
  <2>1. /\ Line.kind = "jmp_label" /\ Line.label \in DOMAIN labelsOffset
        /\ Advance(5, labelsOffset[Line.label] - Line.offset - 5)
    BY <1>6 DEF ResolveJump
  <2>2. Line.size = 5 /\ ~Calls(Line) /\ ~Loads(Line)
    BY <2>1, <1>4 DEF SizeKnown, Calls, Loads
  <2>3. Line.label \in labels BY <2>1, <1>0, <1>2 DEF LabelsKnown
  <2>4. labelsOffset[Line.label] \in Nat BY <2>1, <1>0, TableValues DEF AsmTypeOK
  <2> DEFINE rel == labelsOffset[Line.label] - Line.offset - 5
  <2>5. rel \in Int BY <2>4, <1>4
  <2>6. After(Line) + rel = labelsOffset[Line.label] BY <2>1, <2>2, <2>4, <1>4, <1>5
  <2>7. Advance(5, rel) BY <2>1
  <2> HIDE DEF rel
  <2> QED BY <2>2, <2>3, <2>5, <2>6, <2>7, <1>1, AsmInvAdvance
<1>7. CASE ResolveCall
  <2>1. Calls(Line) /\ Line.repr \in DOMAIN imports /\ Advance(6, imports[Line.repr] - Rip)
    BY <1>7 DEF ResolveCall
  <2>2. Line.size = 6 /\ Line.kind # "jmp_label" /\ ~Loads(Line)
    BY <2>1, <1>4 DEF SizeKnown, Calls, Loads
  <2>3. imports[Line.repr] \in Nat BY <2>1, <1>0, TableValues DEF AsmTypeOK
  <2> DEFINE rel == imports[Line.repr] - Rip
  <2>4. rel \in Int /\ After(Line) + rel = imports[Line.repr] BY <2>3, <1>3, <1>4
  <2>5. Advance(6, rel) BY <2>1
  <2> HIDE DEF rel
  <2> QED BY <2>1, <2>2, <2>4, <2>5, <1>1, AsmInvAdvance
<1>8. CASE ResolveLoad
  <2>1. Loads(Line) /\ Line.repr \in DOMAIN datas /\ Advance(7, datas[Line.repr] - Rip)
    BY <1>8 DEF ResolveLoad
  <2>2. datas[Line.repr] \in Nat /\ Line.repr \in Symbols BY <2>1, <1>0, TableValues DEF AsmTypeOK
  <2>3. Line.size = 7 /\ Line.kind # "jmp_label" /\ ~Calls(Line)
    BY <2>1, <2>2, <1>4 DEF SizeKnown, Calls, Loads
  <2> DEFINE rel == datas[Line.repr] - Rip
  <2>4. rel \in Int /\ After(Line) + rel = datas[Line.repr] BY <2>2, <1>3, <1>4
  <2>5. Advance(7, rel) BY <2>1
  <2> HIDE DEF rel
  <2> QED BY <2>1, <2>3, <2>4, <2>5, <1>1, AsmInvAdvance
<1>9. CASE ResolveOther
  <2>1. /\ Line.kind # "jmp_label" /\ ~Calls(Line) /\ ~Loads(Line)
        /\ Advance(Line.size, Line.rel)
    BY <1>9 DEF ResolveOther
  <2> QED BY <2>1, <1>1, <1>4, AsmInvAdvance
<1> QED BY <1>6, <1>7, <1>8, <1>9

(* An exception leaves everything as it is. *)
LEMMA AsmInvFails ==
  ASSUME AsmInv, Fails
  PROVE  AsmInv'
<1>0. AsmTypeOK /\ Sized /\ Labelled /\ InLoop /\ PlacesKept BY DEF AsmInv
<1>1. /\ phase = "resolve" /\ phase' = "failed" /\ lines' = lines /\ labels' = labels
      /\ labelsOffset' = labelsOffset /\ at' = at /\ count' = count
      /\ virtualAddress' = virtualAddress /\ imports' = imports /\ datas' = datas
      /\ places' = places
  BY DEF Fails, LoopAt
<1>2. Lines' = Lines BY <1>1 DEF Lines
<1>3. AsmTypeOK' BY <1>0, <1>1 DEF AsmTypeOK
<1>4. Sized' BY <1>0, <1>1, <1>2 DEF Sized, SizeKnown, Calls, Loads
<1>5. Labelled' BY <1>0, <1>1, <1>2 DEF Labelled, IsLabel
<1>6. InLoop' BY <1>0, <1>1 DEF InLoop
<1>7. Offsets' /\ LabelsKnown' /\ Patched' /\ PlacesKept'
  BY <1>0, <1>1 DEF Offsets, LabelsKnown, Patched, PlacesKept
<1> QED BY <1>3, <1>4, <1>5, <1>6, <1>7 DEF AsmInv

(* toBytes begins where every line is resolved. *)
LEMMA AsmInvToBytes ==
  ASSUME AsmInv, ToBytes
  PROVE  AsmInv'
<1>0. AsmTypeOK /\ Sized /\ Labelled /\ InLoop /\ Offsets /\ LabelsKnown /\ Patched /\ PlacesKept
  BY DEF AsmInv
<1>1. /\ phase = "resolve" /\ phase' = "bytes" /\ at' = 1 /\ count' = 0
      /\ lines' = lines /\ labels' = labels
      /\ labelsOffset' = labelsOffset /\ virtualAddress' = virtualAddress
      /\ imports' = imports /\ datas' = datas /\ places' = places /\ at > Len(lines)
  BY DEF ToBytes, LoopEnds
<1>2. at \in Nat /\ Len(lines) \in Nat /\ virtualAddress \in Nat BY <1>0 DEF AsmTypeOK
<1>3. at - 1 = Len(lines) BY <1>0, <1>1, <1>2 DEF InLoop
<1>4. Lines' = Lines BY <1>1 DEF Lines
<1>5. AsmTypeOK' BY <1>0, <1>1 DEF AsmTypeOK
<1>6. Sized' BY <1>0, <1>1, <1>4 DEF Sized, SizeKnown, Calls, Loads
<1>7. Labelled' BY <1>0, <1>1, <1>4 DEF Labelled, IsLabel
<1>8. InLoop' BY <1>1, <1>2 DEF InLoop
<1>9. Offsets'
  <2>1. Placed(Len(lines)) BY <1>0, <1>1 DEF Offsets
  <2>2. Placed(Len(lines))' BY <2>1, <1>1 DEF Placed, Pos, After, Bytes
  <2>3. Pos(at)' = virtualAddress BY <1>1 DEF Pos
  <2>4. virtualAddress' + count' = Pos(at)' BY <1>1, <1>2, <2>3
  <2> QED BY <1>1, <2>2, <2>4 DEF Offsets
<1>10. LabelsKnown' BY <1>0, <1>1, <1>4 DEF LabelsKnown, IsLabel
<1>11. Patched'
  <2>1. \A k \in Lines : Leads(lines[k]) BY <1>0, <1>1, <1>3 DEF Patched, Lines
  <2> QED BY <2>1, <1>1, <1>4 DEF Patched, Leads, Calls, Loads, After, Bytes
<1>12. PlacesKept'
  <2>1. Len(places') = 0 BY <1>0, <1>1 DEF PlacesKept
  <2> QED BY <2>1, <1>1 DEF PlacesKept
<1> QED BY <1>5, <1>6, <1>7, <1>8, <1>9, <1>10, <1>11, <1>12 DEF AsmInv

(* A line is written at its offset, counted from the address of the code.  *)
LEMMA AsmInvPutLine ==
  ASSUME AsmInv, PutLine
  PROVE  AsmInv'
<1>0. AsmTypeOK /\ Sized /\ Labelled /\ InLoop /\ Offsets /\ LabelsKnown /\ Patched /\ PlacesKept
  BY DEF AsmInv
<1>1. /\ phase = "bytes" /\ phase' = "bytes" /\ at' = at + 1
      /\ count' = count + Bytes(lines[at]) /\ lines' = lines /\ labels' = labels
      /\ labelsOffset' = labelsOffset /\ virtualAddress' = virtualAddress
      /\ imports' = imports /\ datas' = datas /\ places' = Append(places, count)
      /\ at <= Len(lines)
  BY DEF PutLine, LoopAt, Line
<1>2. /\ at \in Nat /\ Len(lines) \in Nat /\ virtualAddress \in Nat /\ count \in Nat
  BY <1>0 DEF AsmTypeOK
<1>3. at \in Lines BY <1>0, <1>1, <1>2 DEF InLoop, Lines
<1>4. Placed(Len(lines)) /\ virtualAddress + count = Pos(at) BY <1>0, <1>1 DEF Offsets
<1>5. lines[at].offset = Pos(at) BY <1>3, <1>4 DEF Placed, Lines
<1>6. Bytes(lines[at]) \in Nat BY <1>0, <1>3, LineFields
<1>7. Lines' = Lines BY <1>1 DEF Lines
<1>8. places \in Seq(Nat) /\ Len(places) = at - 1
      /\ \A k \in 1..(at - 1) : virtualAddress + places[k] = lines[k].offset
  BY <1>0, <1>1 DEF AsmTypeOK, PlacesKept
<1>9. /\ places' \in Seq(Nat) /\ Len(places') = at
      /\ \A k \in 1..at : places'[k] = IF k = at THEN count ELSE places[k]
  BY <1>1, <1>2, <1>8
<1>10. AsmTypeOK'
  <2>1. at' \in Nat /\ count' \in Nat BY <1>1, <1>2, <1>6
  <2> QED BY <2>1, <1>0, <1>1, <1>9 DEF AsmTypeOK
<1>11. Sized' BY <1>0, <1>1, <1>7 DEF Sized, SizeKnown, Calls, Loads
<1>12. Labelled' BY <1>0, <1>1, <1>7 DEF Labelled, IsLabel
<1>13. InLoop' BY <1>0, <1>1, <1>2 DEF InLoop
<1>14. Offsets'
  <2>1. Placed(Len(lines))' BY <1>1, <1>4 DEF Placed, Pos, After, Bytes
  <2>2. PICK n \in 1..(Len(lines) + 1) : n = at + 1 BY <1>1, <1>2
  <2>3. Pos(n) = Pos(at) + Bytes(lines[at]) BY <2>2, <1>0, <1>3, <1>5, PosNext
  <2>4. Pos(at)' = Pos(n)
    <3>1. at' = n BY <1>1, <2>2
    <3> QED BY <3>1, <1>1 DEF Pos, After, Bytes
  <2>5. virtualAddress' + count' = Pos(at)' BY <2>3, <2>4, <1>1, <1>2, <1>4, <1>6
  <2> QED BY <2>1, <2>5, <1>1 DEF Offsets
<1>15. LabelsKnown' BY <1>0, <1>1, <1>7 DEF LabelsKnown, IsLabel
<1>16. Patched'
  <2>1. \A k \in Lines : Leads(lines[k]) BY <1>0, <1>1 DEF Patched
  <2> QED BY <2>1, <1>1, <1>7 DEF Patched, Leads, Calls, Loads, After, Bytes
<1>17. PlacesKept'
  <2>1. at' - 1 = at BY <1>1, <1>2
  <2>2. \A k \in 1..at : virtualAddress + places'[k] = lines[k].offset
    <3> SUFFICES ASSUME NEW k \in 1..at
                 PROVE  virtualAddress + places'[k] = lines[k].offset
      OBVIOUS
    <3>1. CASE k = at BY <3>1, <1>4, <1>5, <1>9
    <3>2. CASE k # at
      <4>1. k \in 1..(at - 1) BY <3>2, <1>2
      <4>2. places'[k] = places[k] BY <3>2, <1>9
      <4> QED BY <4>1, <4>2, <1>8
    <3> QED BY <3>1, <3>2
  <2> QED BY <2>1, <2>2, <1>1, <1>9 DEF PlacesKept
<1> QED BY <1>10, <1>11, <1>12, <1>13, <1>14, <1>15, <1>16, <1>17 DEF AsmInv

LEMMA AsmInvStutter ==
  ASSUME AsmInv, UNCHANGED asmVars
  PROVE  AsmInv'
BY ZenonT(40) DEF AsmInv, asmVars, AsmTypeOK, Sized, Labelled, InLoop, Offsets, LabelsKnown, Patched,
       PlacesKept, Lines, SizeKnown, Calls, Loads, IsLabel, Placed, Pos, After, Bytes, Leads

-----------------------------------------------------------------------------
(* Types, and what the assembler's loops keep: sizes, labels, offsets and  *)
(* displacements (Asm86).                                                  *)
THEOREM AsmInvAlways == AsmSpec => []AsmInv
<1>1. AsmInv /\ [AsmNext]_asmVars => AsmInv'
  <2> SUFFICES ASSUME AsmInv, [AsmNext]_asmVars PROVE AsmInv'
    OBVIOUS
  <2>1. CASE Api BY <2>1, AsmInvApi
  <2>2. CASE \E addr \in Addresses, procs \in Tables(Procedures, Addresses),
               syms \in Tables(Symbols, Addresses) : SetRva(addr, procs, syms)
    BY <2>2, AsmInvSetRva, TablesGrow, Asm86Assumption
  <2>3. CASE ApplyOffset BY <2>3, AsmInvApplyOffset
  <2>4. CASE ResolveLabels BY <2>4, AsmInvResolveLabels
  <2>5. CASE ResolveJump \/ ResolveCall \/ ResolveLoad \/ ResolveOther BY <2>5, AsmInvResolve
  <2>6. CASE Fails BY <2>6, AsmInvFails
  <2>7. CASE ToBytes BY <2>7, AsmInvToBytes
  <2>8. CASE PutLine BY <2>8, AsmInvPutLine
  <2>9. CASE UNCHANGED asmVars BY <2>9, AsmInvStutter
  <2> QED BY <2>1, <2>2, <2>3, <2>4, <2>5, <2>6, <2>7, <2>8, <2>9 DEF AsmNext, Resolving
<1> QED BY <1>1, AsmInvInit, PTL DEF AsmSpec

(* What the invariant says of a line once all are written.                 *)
LEMMA WrittenLines ==
  ASSUME AsmInv, Assembled, NEW i \in Lines
  PROVE  /\ i \in DOMAIN lines /\ Leads(lines[i]) /\ places[i] \in Nat /\ lines[i].size \in Nat
         /\ lines[i].rel \in Int /\ virtualAddress \in Nat
         /\ virtualAddress + places[i] = lines[i].offset
<1>0. AsmTypeOK /\ InLoop /\ Patched /\ PlacesKept BY DEF AsmInv
<1>1. phase = "bytes" /\ at > Len(lines) BY DEF Assembled, LoopEnds
<1>2. at \in Nat /\ Len(lines) \in Nat /\ virtualAddress \in Nat BY <1>0 DEF AsmTypeOK
<1>3. at - 1 = Len(lines) BY <1>0, <1>1, <1>2 DEF InLoop
<1>4. places \in Seq(Nat) /\ Len(places) = Len(lines) BY <1>0, <1>1, <1>3 DEF AsmTypeOK, PlacesKept
<1>5. i \in 1..Len(lines) /\ i \in DOMAIN lines BY <1>0 DEF AsmTypeOK, Lines
<1>6. places[i] \in Nat BY <1>4, <1>5
<1>7. virtualAddress + places[i] = lines[i].offset BY <1>0, <1>1, <1>3, <1>5 DEF PlacesKept
<1>8. Leads(lines[i]) BY <1>0, <1>1 DEF Patched
<1> QED BY <1>0, <1>2, <1>5, <1>6, <1>7, <1>8, LineFields

(* Where the lines are written, jumps lead to their labels. *)
LEMMA JumpsLandThere == AsmInv => JumpsLand
<1> SUFFICES ASSUME AsmInv, Assembled, NEW i \in DOMAIN lines, lines[i].kind = "jmp_label"
             PROVE  \E j \in DOMAIN lines :
                      /\ lines[j].kind = "label_only" /\ lines[j].label = lines[i].label
                      /\ places[i] + lines[i].size + lines[i].rel = places[j]
  BY DEF JumpsLand
<1>0. AsmTypeOK /\ Labelled /\ LabelsKnown BY DEF AsmInv
<1>1. i \in Lines BY <1>0 DEF AsmTypeOK, Lines
<1>2. /\ lines[i].label \in labels
      /\ After(lines[i]) + lines[i].rel = labelsOffset[lines[i].label]
  BY <1>1, WrittenLines DEF Leads
<1>3. PICK j \in Lines : IsLabel(j) /\ lines[j].label = lines[i].label
  BY <1>0, <1>2 DEF Labelled
<1>4. labelsOffset[lines[i].label] = lines[j].offset
  BY <1>0, <1>3 DEF LabelsKnown, Assembled, LoopEnds
<1>5. After(lines[i]) = lines[i].offset + lines[i].size BY DEF After, Bytes
<1>6. /\ virtualAddress + places[i] = lines[i].offset
      /\ virtualAddress + places[j] = lines[j].offset
      /\ virtualAddress \in Nat /\ places[i] \in Nat /\ places[j] \in Nat
      /\ lines[i].size \in Nat /\ lines[i].rel \in Int
  BY <1>1, <1>3, WrittenLines
<1>7. places[i] + lines[i].size + lines[i].rel = places[j]
  <2>1. (virtualAddress + places[i]) + lines[i].size + lines[i].rel = virtualAddress + places[j]
    BY <1>2, <1>4, <1>5, <1>6
  <2> DEFINE pi == places[i]
             pj == places[j]
             size == lines[i].size
             rel == lines[i].rel
  <2>2. (virtualAddress + pi) + size + rel = virtualAddress + pj BY <2>1
  <2>3. virtualAddress \in Nat /\ pi \in Nat /\ pj \in Nat /\ size \in Nat /\ rel \in Int
    BY <1>6
  <2> HIDE DEF pi, pj, size, rel
  <2>4. pi + size + rel = pj BY <2>2, <2>3
  <2> QED BY <2>4 DEF pi, pj, size, rel
<1>8. j \in DOMAIN lines BY <1>3, WrittenLines
<1> QED BY <1>3, <1>7, <1>8 DEF IsLabel

(* A jump goes to its label (Asm86.set_rva, parts 1 to 3), in every        *)
(* program and for every address of the code.                              *)
THEOREM JumpsLandAlways == AsmSpec => []JumpsLand
BY JumpsLandThere, AsmInvAlways, PTL

(* A call reads the address the table has for its procedure                *)
(* (Asm86.set_rva, 4).                                                     *)
THEOREM CallsReachAlways == AsmSpec => []CallsReach
<1>1. AsmInv => CallsReach
  <2> SUFFICES ASSUME AsmInv, Assembled, NEW i \in DOMAIN lines, Calls(lines[i])
               PROVE  virtualAddress + places[i] + lines[i].size + lines[i].rel
                        = imports[lines[i].repr]
    BY DEF CallsReach
  <2>1. i \in Lines
    <3>1. AsmTypeOK BY DEF AsmInv
    <3> QED BY <3>1 DEF AsmTypeOK, Lines
  <2>2. After(lines[i]) + lines[i].rel = imports[lines[i].repr] BY <2>1, WrittenLines DEF Leads
  <2>3. After(lines[i]) = lines[i].offset + lines[i].size BY DEF After, Bytes, Calls
  <2>4. virtualAddress + places[i] = lines[i].offset BY <2>1, WrittenLines
  <2> QED BY <2>2, <2>3, <2>4
<1> QED BY <1>1, AsmInvAlways, PTL

(* A load gives the address the table has for its symbol                   *)
(* (Asm86.set_rva, 5).                                                     *)
THEOREM LoadsReachAlways == AsmSpec => []LoadsReach
<1>1. AsmInv => LoadsReach
  <2> SUFFICES ASSUME AsmInv, Assembled, NEW i \in DOMAIN lines, Loads(lines[i])
               PROVE  virtualAddress + places[i] + lines[i].size + lines[i].rel
                        = datas[lines[i].repr]
    BY DEF LoadsReach
  <2>1. i \in Lines
    <3>1. AsmTypeOK BY DEF AsmInv
    <3> QED BY <3>1 DEF AsmTypeOK, Lines
  <2>2. After(lines[i]) + lines[i].rel = datas[lines[i].repr] BY <2>1, WrittenLines DEF Leads
  <2>3. After(lines[i]) = lines[i].offset + lines[i].size BY DEF After, Bytes, Loads
  <2>4. virtualAddress + places[i] = lines[i].offset BY <2>1, WrittenLines
  <2> QED BY <2>2, <2>3, <2>4
<1> QED BY <1>1, AsmInvAlways, PTL

-----------------------------------------------------------------------------
(* Sums                                                                    *)

(* G has the sum of every beginning of s. *)
Totals(G, s) ==
  /\ G \in [0..Len(s) -> Nat] /\ G[0] = 0
  /\ \A n \in 1..Len(s) : G[n] = G[n - 1] + s[n]

(* The function Sum chooses is there. *)
LEMMA TotalsDefined ==
  ASSUME NEW s, NEW N \in Nat
  PROVE  \E f : f = [n \in 0..N |-> IF n = 0 THEN 0 ELSE f[n - 1] + s[n]]
<1> DEFINE T == {m \in 0..N :
                   \E f : f = [n \in 0..m |-> IF n = 0 THEN 0 ELSE f[n - 1] + s[n]]}
<1>1. 0 \in T
  <2> DEFINE none == [n \in 0..0 |-> 0]
  <2>1. none = [n \in 0..0 |-> IF n = 0 THEN 0 ELSE none[n - 1] + s[n]] OBVIOUS
  <2> HIDE DEF none
  <2>2. \E f : f = [n \in 0..0 |-> IF n = 0 THEN 0 ELSE f[n - 1] + s[n]] BY <2>1
  <2>3. 0 \in 0..N OBVIOUS
  <2> QED BY <2>2, <2>3
<1>2. ASSUME NEW m \in 0..(N - 1), m \in T
      PROVE  m + 1 \in T
  <2>1. PICK f : f = [n \in 0..m |-> IF n = 0 THEN 0 ELSE f[n - 1] + s[n]]
    BY <1>2
  <2> DEFINE g == [n \in 0..(m + 1) |-> IF n = m + 1 THEN f[m] + s[m + 1] ELSE f[n]]
  <2>2. ASSUME NEW n \in 0..(m + 1)
        PROVE  g[n] = IF n = 0 THEN 0 ELSE g[n - 1] + s[n]
    <3>1. CASE n = m + 1
      <4>1. g[n] = f[m] + s[m + 1] BY <3>1
      <4>2. g[m] = f[m] OBVIOUS
      <4>3. n # 0 /\ n - 1 = m BY <3>1
      <4> HIDE DEF g
      <4> QED BY <3>1, <4>1, <4>2, <4>3
    <3>2. CASE n # m + 1
      <4>1. n \in 0..m /\ g[n] = f[n] BY <3>2
      <4>2. f[n] = IF n = 0 THEN 0 ELSE f[n - 1] + s[n] BY <2>1, <4>1
      <4>3. n # 0 => g[n - 1] = f[n - 1] BY <4>1
      <4> HIDE DEF g
      <4> QED BY <4>1, <4>2, <4>3
    <3> QED BY <3>1, <3>2
  <2>3. DOMAIN g = 0..(m + 1) /\ g = [n \in 0..(m + 1) |-> g[n]] OBVIOUS
  <2>4. g = [n \in 0..(m + 1) |-> IF n = 0 THEN 0 ELSE g[n - 1] + s[n]]
    <3> HIDE DEF g
    <3> QED BY <2>2, <2>3
  <2>5. m + 1 \in 0..N OBVIOUS
  <2> HIDE DEF g
  <2>6. \E f2 : f2 = [n \in 0..(m + 1) |-> IF n = 0 THEN 0 ELSE f2[n - 1] + s[n]] BY <2>4
  <2> QED BY <2>5, <2>6
<1> HIDE DEF T
<1>3. N \in T BY <1>1, <1>2, UpTo
<1> USE DEF T
<1> QED BY <1>3

(* Each sum is the one before and the next number. *)
GoesOn(G, s, N) == \A n \in 1..N : G[n] = G[n - 1] + s[n]

(* Two functions that start alike and go on alike are the same.            *)
LEMMA TotalsAgree ==
  ASSUME NEW N \in Nat, NEW s, NEW G, NEW H, G[0] = H[0],
         GoesOn(G, s, N), GoesOn(H, s, N)
  PROVE  \A n \in 0..N : G[n] = H[n]
<1> DEFINE T == {n \in 0..N : G[n] = H[n]}
<1>1. 0 \in T OBVIOUS
<1>2. \A n \in 0..(N - 1) : n \in T => n + 1 \in T
  <2> SUFFICES ASSUME NEW n \in 0..(N - 1), n \in T PROVE n + 1 \in T
    OBVIOUS
  <2>1. n + 1 \in 1..N /\ n + 1 \in 0..N /\ (n + 1) - 1 = n OBVIOUS
  <2>2. G[n + 1] = G[n] + s[n + 1] /\ H[n + 1] = H[n] + s[n + 1] BY <2>1 DEF GoesOn
  <2>3. G[n + 1] = H[n + 1] BY <2>2
  <2> QED BY <2>1, <2>3
<1> HIDE DEF T
<1>3. \A n \in 0..N : n \in T BY <1>1, <1>2, UpTo
<1> USE DEF T
<1> QED BY <1>3

(* The sums of all beginnings of a sequence of numbers. *)
LEMMA TotalsExist ==
  ASSUME NEW s \in Seq(Nat)
  PROVE  \E G : Totals(G, s) /\ Sum(s) = G[Len(s)]
<1> DEFINE N == Len(s)
           G == CHOOSE f : f = [n \in 0..N |-> IF n = 0 THEN 0 ELSE f[n - 1] + s[n]]
<1>0. N \in Nat /\ \A n \in 1..N : s[n] \in Nat OBVIOUS
<1>1. G = [n \in 0..N |-> IF n = 0 THEN 0 ELSE G[n - 1] + s[n]] BY <1>0, TotalsDefined
<1>2. Sum(s) = G[N] BY DEF Sum
<1> HIDE DEF G
<1> DEFINE T == {n \in 0..N : G[n] \in Nat}
<1>3. 0 \in T BY <1>0, <1>1
<1>4. \A n \in 1..N : G[n] = G[n - 1] + s[n] BY <1>0, <1>1, SMTT(20)
<1>5. \A n \in 0..(N - 1) : n \in T => n + 1 \in T
  <2> SUFFICES ASSUME NEW n \in 0..(N - 1), n \in T PROVE n + 1 \in T
    OBVIOUS
  <2>1. n + 1 \in 1..N /\ n + 1 \in 0..N /\ (n + 1) - 1 = n BY <1>0
  <2>2. G[n + 1] = G[n] + s[n + 1] BY <1>4, <2>1
  <2>3. G[n] \in Nat /\ s[n + 1] \in Nat BY <1>0, <2>1
  <2>4. G[n + 1] \in Nat BY <2>2, <2>3
  <2> QED BY <2>1, <2>4
<1>6. \A n \in 0..N : G[n] \in Nat
  <2> HIDE DEF T
  <2>1. \A n \in 0..N : n \in T BY <1>0, <1>3, <1>5, UpTo
  <2> USE DEF T
  <2> QED BY <2>1
<1>7. DOMAIN G = 0..N /\ G[0] = 0 BY <1>0, <1>1
<1>8. G = [n \in 0..N |-> G[n]]
  <2> DEFINE e(n) == IF n = 0 THEN 0 ELSE G[n - 1] + s[n]
  <2>1. G = [n \in 0..N |-> e(n)] BY <1>1
  <2>2. \A n \in 0..N : G[n] = e(n) BY <2>1
  <2> HIDE DEF e
  <2> QED BY <2>1, <2>2
<1>9. G \in [0..N -> Nat] BY <1>6, <1>8
<1>10. Totals(G, s) BY <1>4, <1>7, <1>9 DEF Totals
<1> QED BY <1>2, <1>10

(* The sum of a beginning, however it is written. *)
LEMMA SumOfBeginning ==
  ASSUME NEW s \in Seq(Nat), NEW G, Totals(G, s), NEW n \in 0..Len(s),
         NEW t, t \in Seq(Nat), Len(t) = n, \A i \in 1..n : t[i] = s[i]
  PROVE  Sum(t) = G[n] /\ Sum(t) \in Nat
<1>1. PICK H : Totals(H, t) /\ Sum(t) = H[Len(t)] BY TotalsExist
<1>2. n \in Nat /\ n \in 0..n OBVIOUS
<1>3. \A i \in 1..n : G[i] = G[i - 1] + s[i]
  <2>1. \A i \in 1..Len(s) : G[i] = G[i - 1] + s[i] BY DEF Totals
  <2>2. \A i \in 1..n : i \in 1..Len(s) OBVIOUS
  <2> QED BY <2>1, <2>2
<1>4. \A i \in 1..n : H[i] = H[i - 1] + s[i] BY <1>1 DEF Totals
<1>5. G[0] = H[0] BY <1>1 DEF Totals
<1>6. GoesOn(G, s, n) /\ GoesOn(H, s, n) BY <1>3, <1>4 DEF GoesOn
<1>7. \A i \in 0..n : G[i] = H[i] BY <1>2, <1>5, <1>6, TotalsAgree
<1>8. H[n] \in Nat BY <1>1, <1>2 DEF Totals
<1> QED BY <1>1, <1>2, <1>7, <1>8

(* The n numbers of s behind a are all c. *)
AllAre(s, a, n, c) == a + n <= Len(s) /\ \A i \in 1..n : s[a + i] = c
GrowsBy(G, a, n, c) == \A i \in 0..n : G[a + i] = G[a] + i * c

(* Of n numbers that are all c, between two places, the sum is c times n.  *)
LEMMA TotalsOfEqual ==
  ASSUME NEW s \in Seq(Nat), NEW G, Totals(G, s), NEW c \in {8, 20},
         NEW a \in Nat, NEW n \in Nat, AllAre(s, a, n, c)
  PROVE  GrowsBy(G, a, n, c)
<1> DEFINE T == {i \in 0..n : G[a + i] = G[a] + i * c}
<1>0. Len(s) \in Nat /\ a \in 0..Len(s) /\ a + n <= Len(s) BY DEF AllAre
<1>1. G[a] \in Nat BY <1>0 DEF Totals
<1>2. 0 \in T BY <1>1
<1>3. \A i \in 0..(n - 1) : i \in T => i + 1 \in T
  <2> SUFFICES ASSUME NEW i \in 0..(n - 1), i \in T PROVE i + 1 \in T
    OBVIOUS
  <2>1. /\ i + 1 \in 1..n /\ i + 1 \in 0..n /\ a + (i + 1) \in 1..Len(s)
        /\ (a + (i + 1)) - 1 = a + i
    BY <1>0
  <2>2. G[a + (i + 1)] = G[a + i] + s[a + (i + 1)] BY <2>1 DEF Totals
  <2>3. s[a + (i + 1)] = c /\ G[a + i] = G[a] + i * c BY <2>1 DEF AllAre
  <2>4. G[a + (i + 1)] = (G[a] + i * c) + c BY <2>2, <2>3
  <2>5. (G[a] + i * c) + c = G[a] + (i + 1) * c
    <3>1. CASE c = 8 BY <1>1, <3>1
    <3>2. CASE c = 20 BY <1>1, <3>2
    <3> QED BY <3>1, <3>2
  <2> QED BY <2>1, <2>4, <2>5
<1> HIDE DEF T
<1>4. \A i \in 0..n : i \in T BY <1>2, <1>3, UpTo
<1> USE DEF T
<1> QED BY <1>4 DEF GrowsBy


(* A sum of naturals is one. *)
LEMMA SumIsNat ==
  ASSUME NEW s \in Seq(Nat)
  PROVE  Sum(s) \in Nat
<1>1. PICK G : Totals(G, s) /\ Sum(s) = G[Len(s)] BY TotalsExist
<1>2. Len(s) \in 0..Len(s) OBVIOUS
<1> QED BY <1>1, <1>2 DEF Totals

-----------------------------------------------------------------------------
(* What is collected                                                       *)

Dll == [name : Dlls, imports : Seq(Procedures)]
Desc == [Name : Nat, FirstThunk : Nat, OriginalFirstThunk : Nat]

ProcedureSizes(dll) == [p \in DOMAIN dll.imports |-> ProcedureBytes(dll.imports[p])]
DllSizes(dlls) == [d \in DOMAIN dlls |-> DllBytes(dlls[d])]
ThunkNumbers(dlls) == [d \in DOMAIN dlls |-> Len(dlls[d].imports) + 1]

(* The names of a DLL and its procedures, and how many thunks they have. *)
LEMMA DllNumbers ==
  ASSUME NEW dll \in Dll
  PROVE  /\ dll.imports \in Seq(Procedures) /\ Len(dll.imports) \in Nat
         /\ DOMAIN dll.imports = 1..Len(dll.imports)
         /\ NameBytes(dll) \in Nat \ {0}
         /\ \A p \in 1..Len(dll.imports) : ProcedureBytes(dll.imports[p]) \in Nat \ {0}
         /\ ProcedureSizes(dll) \in Seq(Nat) /\ Len(ProcedureSizes(dll)) = Len(dll.imports)
         /\ DllBytes(dll) \in Nat
         /\ DllBytes(dll) = NameBytes(dll) + Sum(ProcedureSizes(dll))
<1>1. dll.imports \in Seq(Procedures) /\ dll.name \in Dlls BY DEF Dll
<1>2. /\ Len(dll.imports) \in Nat /\ DOMAIN dll.imports = 1..Len(dll.imports)
      /\ \A p \in 1..Len(dll.imports) : dll.imports[p] \in Procedures
  BY <1>1
<1>3. NameBytes(dll) \in Nat \ {0} BY <1>1, PeNamesAssumption DEF NameBytes
<1>4. \A p \in 1..Len(dll.imports) : ProcedureBytes(dll.imports[p]) \in Nat \ {0}
  <2> TAKE p \in 1..Len(dll.imports)
  <2>1. Length[dll.imports[p]] \in Nat BY <1>2, PeNamesAssumption
  <2> QED BY <2>1 DEF ProcedureBytes
<1>5. ProcedureSizes(dll) \in Seq(Nat) /\ Len(ProcedureSizes(dll)) = Len(dll.imports)
  BY <1>2, <1>4 DEF ProcedureSizes
<1>6. Sum(ProcedureSizes(dll)) \in Nat BY <1>5, SumIsNat
<1>7. DllBytes(dll) = NameBytes(dll) + Sum(ProcedureSizes(dll)) BY DEF DllBytes, ProcedureSizes
<1> QED BY <1>1, <1>2, <1>3, <1>4, <1>5, <1>6, <1>7

(* The same of all DLLs. *)
LEMMA DllsNumbers ==
  ASSUME NEW dlls \in Seq(Dll)
  PROVE  /\ DllSizes(dlls) \in Seq(Nat) /\ ThunkNumbers(dlls) \in Seq(Nat)
         /\ Len(DllSizes(dlls)) = Len(dlls) /\ Len(ThunkNumbers(dlls)) = Len(dlls)
         /\ DirectoryBytes(dlls) = Sum(DllSizes(dlls)) /\ DirectoryBytes(dlls) \in Nat
         /\ NumThunks(dlls) = Sum(ThunkNumbers(dlls)) /\ NumThunks(dlls) \in Nat
<1>1. Len(dlls) \in Nat /\ DOMAIN dlls = 1..Len(dlls) /\ \A d \in 1..Len(dlls) : dlls[d] \in Dll
  OBVIOUS
<1>2. \A d \in 1..Len(dlls) : DllBytes(dlls[d]) \in Nat /\ Len(dlls[d].imports) + 1 \in Nat
  <2> TAKE d \in 1..Len(dlls)
  <2>1. DllBytes(dlls[d]) \in Nat /\ Len(dlls[d].imports) \in Nat BY <1>1, DllNumbers
  <2> QED BY <2>1
<1>3. DllSizes(dlls) \in Seq(Nat) /\ Len(DllSizes(dlls)) = Len(dlls)
  BY <1>1, <1>2 DEF DllSizes
<1>4. ThunkNumbers(dlls) \in Seq(Nat) /\ Len(ThunkNumbers(dlls)) = Len(dlls)
  BY <1>1, <1>2 DEF ThunkNumbers
<1>5. DirectoryBytes(dlls) = Sum(DllSizes(dlls)) /\ NumThunks(dlls) = Sum(ThunkNumbers(dlls))
  BY DEF DirectoryBytes, NumThunks, DllSizes, ThunkNumbers
<1> QED BY <1>3, <1>4, <1>5, SumIsNat

(* What is before a place of a sequence. *)
LEMMA BeforeIs ==
  ASSUME NEW S, NEW s \in Seq(S), NEW n \in 1..(Len(s) + 1)
  PROVE  /\ Before(s, n) \in Seq(S) /\ Len(Before(s, n)) = n - 1
         /\ DOMAIN Before(s, n) = 1..(n - 1)
         /\ \A i \in 1..(n - 1) : i \in 1..Len(s) /\ Before(s, n)[i] = s[i]
BY DEF Before

(* The thunks and the descriptors are numbers: prepare computes them.      *)
LEMMA Prepared ==
  ASSUME import_dlls \in Seq(Dll)
  PROVE  /\ OriginalThunkDist \in Nat \ {0} /\ StartDirectory \in Nat \ {0}
         /\ \A d \in DOMAIN import_dlls :
              /\ DllEntry(d) \in Nat \ {0} /\ ThunkAddr(d) \in Nat
              /\ Descriptor(d) \in Desc /\ Descriptor(d).OriginalFirstThunk # 0
              /\ \A p \in DOMAIN import_dlls[d].imports : ProcedureEntry(d, p) \in Nat \ {0}
              /\ DllThunks(d) \in Seq(Nat)
              /\ Len(DllThunks(d)) = Len(import_dlls[d].imports) + 1
<1>1. NumThunks(import_dlls) \in Nat /\ Len(import_dlls) \in Nat
      /\ DOMAIN import_dlls = 1..Len(import_dlls)
  BY DllsNumbers
<1>2. OriginalThunkDist \in Nat \ {0}
  BY <1>1 DEF OriginalThunkDist, SIZEOF_QWORD, IMAGE_SIZEOF_IMPORT_DESCRIPTOR
<1>3. StartDirectory \in Nat \ {0} BY <1>1, <1>2 DEF StartDirectory, SIZEOF_QWORD
<1> SUFFICES ASSUME NEW d \in DOMAIN import_dlls
             PROVE  /\ DllEntry(d) \in Nat \ {0} /\ ThunkAddr(d) \in Nat
                    /\ Descriptor(d) \in Desc /\ Descriptor(d).OriginalFirstThunk # 0
                    /\ \A p \in DOMAIN import_dlls[d].imports : ProcedureEntry(d, p) \in Nat \ {0}
                    /\ DllThunks(d) \in Seq(Nat)
                    /\ Len(DllThunks(d)) = Len(import_dlls[d].imports) + 1
  BY <1>2, <1>3
<1> DEFINE dll == import_dlls[d]
<1>4. d \in 1..(Len(import_dlls) + 1) /\ dll \in Dll BY <1>1
<1>5. Before(import_dlls, d) \in Seq(Dll) BY <1>4, BeforeIs
<1>6. DirectoryBytes(Before(import_dlls, d)) \in Nat /\ NumThunks(Before(import_dlls, d)) \in Nat
  BY <1>5, DllsNumbers
<1>7. DllEntry(d) \in Nat \ {0} BY <1>3, <1>6 DEF DllEntry
<1>8. ThunkAddr(d) \in Nat BY <1>6 DEF ThunkAddr, SIZEOF_QWORD
<1>9. Descriptor(d) \in Desc /\ Descriptor(d).OriginalFirstThunk # 0
  BY <1>2, <1>7, <1>8 DEF Descriptor, Desc
<1>10. \A p \in DOMAIN dll.imports : ProcedureEntry(d, p) \in Nat \ {0}
  <2> TAKE p \in DOMAIN dll.imports
  <2>1. p \in 1..(Len(dll.imports) + 1) /\ dll.imports \in Seq(Procedures)
    <3>1. /\ dll.imports \in Seq(Procedures) /\ Len(dll.imports) \in Nat
          /\ DOMAIN dll.imports = 1..Len(dll.imports)
      BY <1>4, DllNumbers
    <3> HIDE DEF dll
    <3> QED BY <3>1
  <2>2. Before(dll.imports, p) \in Seq(Procedures) BY <2>1, BeforeIs
  <2> DEFINE upTo == [dll EXCEPT !.imports = Before(@, p)]
  <2>3. upTo \in Dll
    <3>1. dll.name \in Dlls BY <1>4 DEF Dll
    <3>2. upTo = [dll EXCEPT !.imports = Before(dll.imports, p)] OBVIOUS
    <3> HIDE DEF dll, upTo
    <3> QED BY <1>4, <2>2, <3>1, <3>2 DEF Dll
  <2>4. DllBytes(upTo) \in Nat BY <2>3, DllNumbers
  <2>5. ProcedureEntry(d, p) = DllEntry(d) + DllBytes(upTo) BY DEF ProcedureEntry
  <2> QED BY <1>7, <2>4, <2>5
<1>11. DllThunks(d) \in Seq(Nat) /\ Len(DllThunks(d)) = Len(dll.imports) + 1
  <2>1. Len(dll.imports) \in Nat /\ DOMAIN dll.imports = 1..Len(dll.imports) BY <1>4, DllNumbers
  <2> DEFINE t == [p \in DOMAIN dll.imports |-> ProcedureEntry(d, p)]
  <2>2. t \in Seq(Nat) /\ Len(t) = Len(dll.imports) BY <2>1, <1>10
  <2>3. DllThunks(d) = Append(t, 0) BY DEF DllThunks
  <2> HIDE DEF t
  <2> QED BY <2>2, <2>3
<1> QED BY <1>7, <1>8, <1>9, <1>10, <1>11


(* What comes before a DLL: the sums of a beginning. *)
LEMMA BeforeTotals ==
  ASSUME NEW dlls \in Seq(Dll), NEW d \in 1..(Len(dlls) + 1),
         NEW A, Totals(A, ThunkNumbers(dlls)), NEW B, Totals(B, DllSizes(dlls))
  PROVE  /\ NumThunks(Before(dlls, d)) = A[d - 1] /\ A[d - 1] \in Nat
         /\ DirectoryBytes(Before(dlls, d)) = B[d - 1] /\ B[d - 1] \in Nat
<1> DEFINE b == Before(dlls, d)
<1>1. /\ b \in Seq(Dll) /\ Len(b) = d - 1 /\ DOMAIN b = 1..(d - 1)
      /\ \A i \in 1..(d - 1) : i \in 1..Len(dlls) /\ b[i] = dlls[i]
  BY BeforeIs
<1> HIDE DEF b
<1>2. /\ ThunkNumbers(b) \in Seq(Nat) /\ Len(ThunkNumbers(b)) = d - 1
      /\ DllSizes(b) \in Seq(Nat) /\ Len(DllSizes(b)) = d - 1
      /\ DirectoryBytes(b) = Sum(DllSizes(b)) /\ NumThunks(b) = Sum(ThunkNumbers(b))
  BY <1>1, DllsNumbers
<1>3. /\ ThunkNumbers(dlls) \in Seq(Nat) /\ Len(ThunkNumbers(dlls)) = Len(dlls)
      /\ DllSizes(dlls) \in Seq(Nat) /\ Len(DllSizes(dlls)) = Len(dlls)
  BY DllsNumbers
<1>4. d - 1 \in 0..Len(dlls) /\ DOMAIN dlls = 1..Len(dlls) OBVIOUS
<1>5. \A i \in 1..(d - 1) : ThunkNumbers(b)[i] = ThunkNumbers(dlls)[i]
  BY <1>1, <1>4 DEF ThunkNumbers
<1>6. \A i \in 1..(d - 1) : DllSizes(b)[i] = DllSizes(dlls)[i]
  BY <1>1, <1>4 DEF DllSizes
<1> DEFINE m == d - 1
           sa == ThunkNumbers(dlls)
           sb == DllSizes(dlls)
           ta == ThunkNumbers(b)
           tb == DllSizes(b)
<1>7. /\ sa \in Seq(Nat) /\ sb \in Seq(Nat) /\ ta \in Seq(Nat) /\ tb \in Seq(Nat)
      /\ m \in 0..Len(sa) /\ m \in 0..Len(sb) /\ Len(ta) = m /\ Len(tb) = m
      /\ Totals(A, sa) /\ Totals(B, sb)
  BY <1>2, <1>3, <1>4
<1>8. \A i \in 1..m : ta[i] = sa[i] BY <1>5
<1>9. \A i \in 1..m : tb[i] = sb[i] BY <1>6
<1> HIDE DEF m, sa, sb, ta, tb
<1>10. Sum(ta) = A[m] /\ Sum(ta) \in Nat BY <1>7, <1>8, SumOfBeginning
<1>11. Sum(tb) = B[m] /\ Sum(tb) \in Nat BY <1>7, <1>9, SumOfBeginning
<1> QED BY <1>2, <1>10, <1>11 DEF b, m, ta, tb

AllThunks == FlattenSeq([d \in DOMAIN import_dlls |-> DllThunks(d)])

(* The thunks of a DLL follow those of the DLLs before it. *)
LEMMA ThunkPlaces ==
  ASSUME import_dlls \in Seq(Dll)
  PROVE  /\ AllThunks \in Seq(Nat) /\ Len(AllThunks) = NumThunks(import_dlls)
         /\ \A d \in DOMAIN import_dlls :
              /\ NumThunks(Before(import_dlls, d)) \in Nat
              /\ \A k \in 1..(Len(import_dlls[d].imports) + 1) :
                   LET i == NumThunks(Before(import_dlls, d)) + k
                   IN  i \in 1..Len(AllThunks) /\ AllThunks[i] = DllThunks(d)[k]
<1> DEFINE N == Len(import_dlls)
           ss == [d \in DOMAIN import_dlls |-> DllThunks(d)]
<1>0. N \in Nat /\ DOMAIN import_dlls = 1..N OBVIOUS
<1>1. \A d \in 1..N : DllThunks(d) \in Seq(Nat)
        /\ Len(DllThunks(d)) = Len(import_dlls[d].imports) + 1
  BY <1>0, Prepared
<1>2. ss \in Seq(Seq(Nat)) /\ Len(ss) = N /\ \A d \in 1..N : ss[d] = DllThunks(d)
  BY <1>0, <1>1
<1> HIDE DEF ss
<1>3. PICK F \in [0..Len(ss) -> Seq(Nat)] :
        F[0] = <<>> /\ F[Len(ss)] = FlattenSeq(ss) /\ Flattened(F, ss)
  BY <1>2, FlattenSteps
<1>4. \A n \in 1..N :
        /\ Len(F[n]) = Len(F[n - 1]) + Len(ss[n])
        /\ \A k \in 1..Len(ss[n]) :
             /\ Len(F[n - 1]) + k \in 1..Len(F[N])
             /\ F[N][Len(F[n - 1]) + k] = ss[n][k]
  <2> SUFFICES ASSUME NEW n \in 1..N
               PROVE  /\ Len(F[n]) = Len(F[n - 1]) + Len(ss[n])
                      /\ \A k \in 1..Len(ss[n]) :
                           /\ Len(F[n - 1]) + k \in 1..Len(F[N])
                           /\ F[N][Len(F[n - 1]) + k] = ss[n][k]
    OBVIOUS
  <2>1. n \in 1..Len(ss) /\ N = Len(ss) BY <1>2
  <2>2. PlacedAt(F, ss, n) BY <2>1, <1>2, <1>3, FlattenPlaces
  <2> QED BY <2>1, <2>2 DEF PlacedAt
<1> DEFINE numbers == ThunkNumbers(import_dlls)
           L == [n \in 0..N |-> Len(F[n])]
<1>5. numbers \in Seq(Nat) /\ Len(numbers) = N /\ NumThunks(import_dlls) = Sum(numbers)
  BY DllsNumbers
<1>6. \A n \in 1..N : numbers[n] = Len(import_dlls[n].imports) + 1
  BY <1>0 DEF ThunkNumbers
<1> HIDE DEF numbers
<1>7. PICK A : Totals(A, numbers) /\ Sum(numbers) = A[N] BY <1>5, TotalsExist
<1>8. GoesOn(A, numbers, N) /\ A[0] = 0 BY <1>5, <1>7 DEF Totals, GoesOn
<1>9. GoesOn(L, numbers, N)
  <2> SUFFICES ASSUME NEW n \in 1..N PROVE L[n] = L[n - 1] + numbers[n]
    BY DEF GoesOn
  <2>1. L[n] = Len(F[n]) /\ L[n - 1] = Len(F[n - 1]) BY <1>0
  <2>2. Len(F[n]) = Len(F[n - 1]) + Len(ss[n]) BY <1>4
  <2>3. Len(ss[n]) = numbers[n] BY <1>1, <1>2, <1>6
  <2> QED BY <2>1, <2>2, <2>3
<1>10. L[0] = A[0] BY <1>0, <1>3, <1>8
<1> HIDE DEF L
<1>11. \A n \in 0..N : L[n] = A[n] BY <1>0, <1>8, <1>9, <1>10, TotalsAgree
<1>12. \A n \in 0..N : Len(F[n]) = A[n] BY <1>11 DEF L
<1>13. AllThunks = F[N] /\ F[N] \in Seq(Nat) /\ Len(F[N]) = NumThunks(import_dlls)
  BY <1>0, <1>2, <1>3, <1>5, <1>7, <1>12 DEF AllThunks, ss
<1>14. PICK B : Totals(B, DllSizes(import_dlls))
  BY DllsNumbers, TotalsExist
<1>15. ASSUME NEW d \in 1..N
       PROVE  /\ NumThunks(Before(import_dlls, d)) = Len(F[d - 1])
              /\ NumThunks(Before(import_dlls, d)) \in Nat
  <2>1. d \in 1..(N + 1) /\ d - 1 \in 0..N BY <1>0
  <2>2. NumThunks(Before(import_dlls, d)) = A[d - 1] /\ A[d - 1] \in Nat
    BY <2>1, <1>7, <1>14, BeforeTotals DEF numbers
  <2> QED BY <2>1, <2>2, <1>12
<1>16. ASSUME NEW d \in 1..N, NEW k \in 1..(Len(import_dlls[d].imports) + 1)
       PROVE  /\ NumThunks(Before(import_dlls, d)) + k \in 1..Len(AllThunks)
              /\ AllThunks[NumThunks(Before(import_dlls, d)) + k] = DllThunks(d)[k]
  <2>1. k \in 1..Len(ss[d]) /\ ss[d][k] = DllThunks(d)[k] BY <1>1, <1>2
  <2>2. Len(F[d - 1]) + k \in 1..Len(F[N]) /\ F[N][Len(F[d - 1]) + k] = ss[d][k]
    BY <2>1, <1>4
  <2> QED BY <2>1, <2>2, <1>13, <1>15
<1> QED BY <1>0, <1>13, <1>15, <1>16

(* A procedure that is imported has a thunk in the first DLL that has it.  *)
LEMMA FoundImport ==
  ASSUME import_dlls \in Seq(Dll), NEW proc \in ImportedProcedures
  PROVE  /\ proc \in Procedures /\ FindImport(proc) \in Nat
         /\ \E d \in DOMAIN import_dlls : \E p \in DOMAIN import_dlls[d].imports :
              /\ import_dlls[d].imports[p] = proc
              /\ \A e \in 1..(d - 1) : proc \notin ToSet(import_dlls[e].imports)
              /\ FindImport(proc) = ThunkAddr(d) + (p - 1) * SIZEOF_QWORD
<1> DEFINE N == Len(import_dlls)
           Has(d) == proc \in ToSet(import_dlls[d].imports)
           T == {d \in 1..N : Has(d)}
           d == CHOOSE d \in DOMAIN import_dlls : Has(d) /\ \A e \in 1..(d - 1) : ~Has(e)
<1>0. N \in Nat /\ DOMAIN import_dlls = 1..N OBVIOUS
<1>1. T # {} /\ T \subseteq Nat BY <1>0 DEF ImportedProcedures
<1>2. \E x \in DOMAIN import_dlls : Has(x) /\ \A e \in 1..(x - 1) : ~Has(e)
  <2> HIDE DEF T
  <2>1. PICK x \in T : \A y \in T : x <= y BY <1>1, LeastOfNaturals
  <2> USE DEF T
  <2>2. x \in 1..N /\ Has(x) BY <2>1
  <2>3. ASSUME NEW e \in 1..(x - 1) PROVE ~Has(e)
    <3>1. e \in 1..N /\ ~(x <= e) BY <2>2, <1>0
    <3> QED BY <2>1, <3>1
  <2> HIDE DEF Has
  <2> QED BY <2>2, <2>3, <1>0
<1>3. d \in 1..N /\ Has(d) /\ \A e \in 1..(d - 1) : ~Has(e)
  <2> HIDE DEF Has
  <2> QED BY <1>0, <1>2
<1> DEFINE imps == import_dlls[d].imports
           p == CHOOSE p \in DOMAIN imps : imps[p] = proc
<1>4. FindImport(proc) = (NumThunks(Before(import_dlls, d)) + p - 1) * SIZEOF_QWORD
  BY DEF FindImport
<1> HIDE DEF d
<1>5. import_dlls[d] \in Dll BY <1>0, <1>3
<1>6. imps \in Seq(Procedures) /\ Len(imps) \in Nat /\ DOMAIN imps = 1..Len(imps)
  BY <1>5, DllNumbers
<1>7. \E x \in DOMAIN imps : imps[x] = proc BY <1>3 DEF ToSet
<1> HIDE DEF imps
<1>8. p \in DOMAIN imps /\ imps[p] = proc BY <1>7
<1> HIDE DEF p
<1>9. NumThunks(Before(import_dlls, d)) \in Nat BY <1>0, <1>3, ThunkPlaces
<1>10. p \in Nat /\ p >= 1 BY <1>6, <1>8
<1>11. FindImport(proc) = ThunkAddr(d) + (p - 1) * SIZEOF_QWORD /\ FindImport(proc) \in Nat
  BY <1>4, <1>9, <1>10 DEF ThunkAddr, SIZEOF_QWORD
<1>12. proc \in Procedures BY <1>6, <1>8
<1> QED BY <1>0, <1>3, <1>8, <1>11, <1>12 DEF imps


-----------------------------------------------------------------------------
(* Where the pieces of the import section are                              *)

(* t is found again in s, behind a. *)
FoundAt(t, s, a) == a + Len(t) <= Len(s) /\ \A i \in 1..Len(t) : s[a + i] = t[i]

(* Where numbers are found again among others, their totals are as well.   *)
LEMMA TotalsShift ==
  ASSUME NEW s \in Seq(Nat), NEW G, Totals(G, s), NEW t \in Seq(Nat), NEW H, Totals(H, t),
         NEW a \in Nat, FoundAt(t, s, a)
  PROVE  \A i \in 0..Len(t) : G[a + i] = G[a] + H[i] /\ G[a + i] \in Nat /\ H[i] \in Nat
<1> DEFINE n == Len(t)
           T == {i \in 0..n : G[a + i] = G[a] + H[i]}
<1>0. Len(s) \in Nat /\ n \in Nat /\ \A i \in 0..n : a + i \in 0..Len(s) BY DEF FoundAt
<1>00. \A i \in 1..n : t[i] \in Nat OBVIOUS
<1>1. /\ \A i \in 0..Len(s) : G[i] \in Nat
      /\ \A i \in 0..n : H[i] \in Nat
      /\ H[0] = 0
  BY DEF Totals
<1>2. 0 \in T
  <2>1. G[a] \in Nat BY <1>0, <1>1
  <2> QED BY <2>1, <1>0, <1>1
<1>3. \A i \in 0..(n - 1) : i \in T => i + 1 \in T
  <2> SUFFICES ASSUME NEW i \in 0..(n - 1), i \in T PROVE i + 1 \in T
    OBVIOUS
  <2> DEFINE m == i + 1
  <2>1. /\ m \in 1..Len(t) /\ m \in 0..n /\ a + m \in 1..Len(s)
        /\ (a + m) - 1 = a + i /\ m - 1 = i
    BY <1>0
  <2>0. 0 \in 0..n /\ i \in 0..n /\ a + 0 = a BY <1>0
  <2>2. G[a + i] = G[a] + H[i] OBVIOUS
  <2>3. G[a] \in Nat /\ H[i] \in Nat BY <2>0, <1>0, <1>1
  <2> HIDE DEF m
  <2>4. G[a + m] = G[a + i] + s[a + m]
    <3>1. G[a + m] = G[(a + m) - 1] + s[a + m] BY <2>1 DEF Totals
    <3> QED BY <2>1, <3>1
  <2>5. H[m] = H[i] + t[m]
    <3>1. H[m] = H[m - 1] + t[m] BY <2>1 DEF Totals
    <3> QED BY <2>1, <3>1
  <2>6. s[a + m] = t[m] BY <2>1 DEF FoundAt
  <2>7. t[m] \in Nat BY <2>1, <1>00
  <2>8. G[a + m] = (G[a] + H[i]) + t[m] BY <2>2, <2>4, <2>6
  <2>9. G[a + m] = G[a] + (H[i] + t[m])
    <3> DEFINE x == G[a]
               y == H[i]
               z == t[m]
    <3>1. x \in Nat /\ y \in Nat /\ z \in Nat /\ G[a + m] = (x + y) + z BY <2>3, <2>7, <2>8
    <3> HIDE DEF x, y, z
    <3>2. G[a + m] = x + (y + z) BY <3>1
    <3> QED BY <3>2 DEF x, y, z
  <2>10. G[a + m] = G[a] + H[m] BY <2>5, <2>9
  <2> QED BY <2>1, <2>10 DEF m
<1>4. \A i \in 0..n : i \in T
  <2> HIDE DEF T
  <2> QED BY <1>0, <1>2, <1>3, UpTo
<1> QED BY <1>0, <1>1, <1>4

NamePiece == [what : {"dll", "procedure"}, size : Nat, name : Dlls \cup Procedures]

(* What is written of one DLL *)
DllPieces(dll) ==
  <<[what |-> "dll", size |-> NameBytes(dll), name |-> dll.name]>>
    \o [p \in DOMAIN dll.imports |->
          [what |-> "procedure", size |-> ProcedureBytes(dll.imports[p]),
           name |-> dll.imports[p]]]

LEMMA DllPiecesAre ==
  ASSUME NEW dll \in Dll
  PROVE  /\ DllPieces(dll) \in Seq(NamePiece) /\ Len(DllPieces(dll)) = Len(dll.imports) + 1
         /\ DllPieces(dll)[1] = [what |-> "dll", size |-> NameBytes(dll), name |-> dll.name]
         /\ \A p \in 1..Len(dll.imports) :
              DllPieces(dll)[1 + p] = [what |-> "procedure",
                                       size |-> ProcedureBytes(dll.imports[p]),
                                       name |-> dll.imports[p]]
<1> DEFINE first == [what |-> "dll", size |-> NameBytes(dll), name |-> dll.name]
           piece(p) == [what |-> "procedure", size |-> ProcedureBytes(dll.imports[p]),
                        name |-> dll.imports[p]]
           a == <<first>>
           n == Len(dll.imports)
           b == [p \in 1..n |-> piece(p)]
<1>1. /\ n \in Nat /\ DOMAIN dll.imports = 1..n /\ NameBytes(dll) \in Nat
      /\ \A p \in 1..n : ProcedureBytes(dll.imports[p]) \in Nat /\ dll.imports[p] \in Procedures
      /\ dll.name \in Dlls
  BY DllNumbers DEF Dll
<1>2. DllPieces(dll) = a \o b BY <1>1 DEF DllPieces
<1>3. first \in NamePiece BY <1>1 DEF NamePiece
<1>4. \A p \in 1..n : piece(p) \in NamePiece BY <1>1 DEF NamePiece
<1> HIDE DEF first, piece, n
<1>5. b \in Seq(NamePiece) /\ Len(b) = n /\ \A p \in 1..n : b[p] = piece(p) BY <1>1, <1>4
<1>6. a \in Seq(NamePiece) /\ Len(a) = 1 /\ a[1] = first BY <1>3
<1> HIDE DEF a, b
<1>7. /\ a \o b \in Seq(NamePiece) /\ Len(a \o b) = n + 1 /\ (a \o b)[1] = a[1]
      /\ \A p \in 1..n : (a \o b)[1 + p] = b[p]
  <2>1. a \in Seq(NamePiece) /\ b \in Seq(NamePiece) BY <1>5, <1>6
  <2>2. a \o b \in Seq(NamePiece) BY <2>1
  <2>3. Len(a \o b) = Len(a) + Len(b) BY <2>1
  <2>4. \A x \in 1..Len(a) : (a \o b)[x] = a[x] BY <2>1
  <2>5. \A x \in 1..Len(b) : (a \o b)[Len(a) + x] = b[x] BY <2>1
  <2> QED BY <2>2, <2>3, <2>4, <2>5, <1>1, <1>5, <1>6
<1> QED BY <1>2, <1>5, <1>6, <1>7 DEF first, piece, n


(* The sizes of pieces are numbers, and those behind one another are found *)
(* again.                                                                  *)
Sizes(pieces) == \A k \in 1..Len(pieces) : pieces[k].size \in Nat
LEMMA SizesAre ==
  ASSUME NEW S, NEW pieces \in Seq(S), Sizes(pieces)
  PROVE  /\ PieceSizes(pieces) \in Seq(Nat) /\ Len(PieceSizes(pieces)) = Len(pieces)
         /\ \A k \in 1..Len(pieces) : PieceSizes(pieces)[k] = pieces[k].size
<1>1. Len(pieces) \in Nat /\ DOMAIN pieces = 1..Len(pieces) OBVIOUS
<1> QED BY <1>1 DEF Sizes, PieceSizes

LEMMA NamePieceSizes ==
  ASSUME NEW pieces \in Seq(NamePiece)
  PROVE  Sizes(pieces)
<1>1. \A x \in NamePiece : x.size \in Nat BY DEF NamePiece
<1>2. \A k \in 1..Len(pieces) : pieces[k] \in NamePiece OBVIOUS
<1> QED BY <1>1, <1>2 DEF Sizes

(* The names of a DLL, up to one of its procedures. *)
LEMMA DllPieceTotals ==
  ASSUME NEW dll \in Dll, NEW P, Totals(P, ProcedureSizes(dll)),
         NEW H, Totals(H, PieceSizes(DllPieces(dll)))
  PROVE  /\ PieceSizes(DllPieces(dll)) \in Seq(Nat)
         /\ Len(PieceSizes(DllPieces(dll))) = Len(dll.imports) + 1
         /\ \A p \in 0..Len(dll.imports) :
              H[1 + p] = NameBytes(dll) + P[p] /\ H[1 + p] \in Nat /\ P[p] \in Nat
<1> DEFINE n == Len(dll.imports)
           s == PieceSizes(DllPieces(dll))
           t == ProcedureSizes(dll)
<1>1. /\ n \in Nat /\ NameBytes(dll) \in Nat /\ t \in Seq(Nat) /\ Len(t) = n
      /\ DOMAIN dll.imports = 1..n
  BY DllNumbers
<1>2. /\ DllPieces(dll) \in Seq(NamePiece) /\ Len(DllPieces(dll)) = n + 1
      /\ DllPieces(dll)[1].size = NameBytes(dll)
      /\ \A p \in 1..n : DllPieces(dll)[1 + p].size = ProcedureBytes(dll.imports[p])
  <2>1. /\ DllPieces(dll) \in Seq(NamePiece) /\ Len(DllPieces(dll)) = n + 1
        /\ DllPieces(dll)[1] = [what |-> "dll", size |-> NameBytes(dll), name |-> dll.name]
    BY DllPiecesAre
  <2>2. ASSUME NEW p \in 1..n
        PROVE  DllPieces(dll)[1 + p].size = ProcedureBytes(dll.imports[p])
    <3>1. DllPieces(dll)[1 + p] = [what |-> "procedure", size |-> ProcedureBytes(dll.imports[p]),
                                   name |-> dll.imports[p]]
      BY DllPiecesAre
    <3> QED BY <3>1
  <2> QED BY <2>1, <2>2
<1>3. /\ s \in Seq(Nat) /\ Len(s) = n + 1
      /\ \A k \in 1..(n + 1) : s[k] = DllPieces(dll)[k].size
  <2>1. Sizes(DllPieces(dll)) BY <1>2, NamePieceSizes
  <2>2. /\ s \in Seq(Nat) /\ Len(s) = Len(DllPieces(dll))
        /\ \A k \in 1..Len(DllPieces(dll)) : s[k] = DllPieces(dll)[k].size
    BY <1>2, <2>1, SizesAre
  <2> HIDE DEF s
  <2> QED BY <1>2, <2>2
<1>4. \A p \in 1..n : t[p] = ProcedureBytes(dll.imports[p]) BY <1>1 DEF ProcedureSizes
<1>5. s[1] = NameBytes(dll) /\ \A p \in 1..n : s[1 + p] = t[p]
  <2>1. 1 \in 1..(n + 1) /\ \A p \in 1..n : 1 + p \in 1..(n + 1) BY <1>1
  <2> HIDE DEF s, t
  <2> QED BY <2>1, <1>2, <1>3, <1>4
<1>6. Totals(P, t) /\ Totals(H, s) OBVIOUS
<1>7. H[1] = NameBytes(dll)
  <2>1. H[0] = 0 /\ H[1] = H[1 - 1] + s[1]
    <3> HIDE DEF s
    <3>1. 1 \in 1..Len(s) BY <1>1, <1>3
    <3> QED BY <3>1, <1>6 DEF Totals
  <2>2. 1 - 1 = 0 OBVIOUS
  <2> HIDE DEF s
  <2> QED BY <2>1, <2>2, <1>1, <1>5
<1> HIDE DEF s, t, n
<1>8. FoundAt(t, s, 1) BY <1>1, <1>3, <1>5 DEF FoundAt
<1>9. \A p \in 0..Len(t) : H[1 + p] = H[1] + P[p] /\ H[1 + p] \in Nat /\ P[p] \in Nat
  BY <1>1, <1>3, <1>6, <1>8, TotalsShift
<1> QED BY <1>1, <1>3, <1>7, <1>9 DEF n, s

(* All of them are as many bytes as prepare counts. *)
LEMMA DllPieceBytes ==
  ASSUME NEW dll \in Dll
  PROVE  Sum(PieceSizes(DllPieces(dll))) = DllBytes(dll)
<1> DEFINE s == PieceSizes(DllPieces(dll))
           t == ProcedureSizes(dll)
<1>1. t \in Seq(Nat) /\ Len(t) = Len(dll.imports) /\ Len(t) \in Nat
      /\ DllBytes(dll) = NameBytes(dll) + Sum(t) /\ NameBytes(dll) \in Nat
  BY DllNumbers
<1>2. s \in Seq(Nat)
  <2>1. DllPieces(dll) \in Seq(NamePiece) BY DllPiecesAre
  <2> QED BY <2>1, NamePieceSizes, SizesAre
<1> HIDE DEF s, t
<1>3. PICK P : Totals(P, t) /\ Sum(t) = P[Len(t)] BY <1>1, TotalsExist
<1>4. PICK H : Totals(H, s) /\ Sum(s) = H[Len(s)] BY <1>2, TotalsExist
<1>5. /\ Len(s) = Len(dll.imports) + 1
      /\ \A p \in 0..Len(dll.imports) : H[1 + p] = NameBytes(dll) + P[p]
  BY <1>3, <1>4, DllPieceTotals DEF s, t
<1>6. Len(s) = 1 + Len(t) /\ Len(t) \in 0..Len(dll.imports) BY <1>1, <1>5
<1>7. Sum(s) = NameBytes(dll) + Sum(t) BY <1>3, <1>4, <1>5, <1>6
<1> QED BY <1>1, <1>7 DEF s

(* entry_addr at a procedure, behind that of its DLL. *)
LEMMA UpToProcedure ==
  ASSUME NEW dll \in Dll, NEW p \in DOMAIN dll.imports,
         NEW P, Totals(P, ProcedureSizes(dll))
  PROVE  /\ DllBytes([dll EXCEPT !.imports = Before(@, p)]) = NameBytes(dll) + P[p - 1]
         /\ P[p - 1] \in Nat
<1> DEFINE upTo == [dll EXCEPT !.imports = Before(@, p)]
           t == ProcedureSizes(dll)
           u == ProcedureSizes(upTo)
<1>1. /\ dll.imports \in Seq(Procedures) /\ Len(dll.imports) \in Nat
      /\ DOMAIN dll.imports = 1..Len(dll.imports) /\ dll.name \in Dlls
      /\ t \in Seq(Nat) /\ Len(t) = Len(dll.imports)
  BY DllNumbers DEF Dll
<1>2. p \in 1..(Len(dll.imports) + 1) /\ p \in Nat /\ p - 1 \in 0..Len(t) BY <1>1
<1>3. /\ Before(dll.imports, p) \in Seq(Procedures) /\ Len(Before(dll.imports, p)) = p - 1
      /\ \A i \in 1..(p - 1) :
           i \in 1..Len(dll.imports) /\ Before(dll.imports, p)[i] = dll.imports[i]
  BY <1>1, <1>2, BeforeIs
<1>4. /\ upTo \in Dll /\ upTo.name = dll.name /\ upTo.imports = Before(dll.imports, p)
  <2>1. upTo = [dll EXCEPT !.imports = Before(dll.imports, p)] OBVIOUS
  <2> HIDE DEF upTo
  <2> QED BY <1>1, <1>3, <2>1 DEF Dll
<1> HIDE DEF upTo
<1>5. /\ u \in Seq(Nat) /\ Len(u) = p - 1 /\ DllBytes(upTo) = NameBytes(upTo) + Sum(u)
      /\ DOMAIN upTo.imports = 1..(p - 1)
  <2>1. /\ u \in Seq(Nat) /\ Len(u) = Len(upTo.imports) /\ DllBytes(upTo) = NameBytes(upTo) + Sum(u)
        /\ DOMAIN upTo.imports = 1..Len(upTo.imports)
    BY <1>4, DllNumbers
  <2> QED BY <2>1, <1>3, <1>4
<1>6. NameBytes(upTo) = NameBytes(dll) BY <1>4 DEF NameBytes
<1>7. \A i \in 1..(p - 1) : u[i] = t[i]
  <2> TAKE i \in 1..(p - 1)
  <2>1. u[i] = ProcedureBytes(upTo.imports[i]) BY <1>5 DEF ProcedureSizes
  <2>2. t[i] = ProcedureBytes(dll.imports[i]) BY <1>1, <1>3 DEF ProcedureSizes
  <2> QED BY <2>1, <2>2, <1>3, <1>4
<1>8. Totals(P, t) OBVIOUS
<1> HIDE DEF t, u
<1> DEFINE m == p - 1
<1>9. m \in 0..Len(t) /\ Len(u) = m /\ \A i \in 1..m : u[i] = t[i] BY <1>2, <1>5, <1>7
<1> HIDE DEF m
<1>10. Sum(u) = P[m] /\ Sum(u) \in Nat BY <1>1, <1>5, <1>8, <1>9, SumOfBeginning
<1> QED BY <1>5, <1>6, <1>10 DEF m, upTo


(* A piece of the directory with this name is behind so many bytes. *)
DirectoryHas(G, what, name, bytes) ==
  \E x \in 1..Len(DirectoryPieces) :
    /\ DirectoryPieces[x].what = what /\ DirectoryPieces[x].name = name
    /\ G[x - 1] = bytes

LEMMA DirectoryIs ==
  ASSUME import_dlls \in Seq(Dll), NEW ss, ss = [d \in DOMAIN import_dlls |-> DllPieces(import_dlls[d])]
  PROVE  /\ ss \in Seq(Seq(NamePiece)) /\ Len(ss) = Len(import_dlls)
         /\ DirectoryPieces = FlattenSeq(ss)
<1>1. /\ Len(import_dlls) \in Nat /\ DOMAIN import_dlls = 1..Len(import_dlls)
      /\ \A d \in 1..Len(import_dlls) : import_dlls[d] \in Dll
  OBVIOUS
<1>2. \A d \in 1..Len(import_dlls) : DllPieces(import_dlls[d]) \in Seq(NamePiece)
  BY <1>1, DllPiecesAre
<1>3. DirectoryPieces = FlattenSeq(ss) BY DEF DirectoryPieces, DllPieces
<1> QED BY <1>1, <1>2, <1>3

(* The names are where prepare expects them, and all of them are as many   *)
(* bytes as it counts.                                                     *)
LEMMA DirectoryPlaces ==
  ASSUME import_dlls \in Seq(Dll), NEW G, Totals(G, PieceSizes(DirectoryPieces))
  PROVE  /\ DirectoryPieces \in Seq(NamePiece) /\ PieceSizes(DirectoryPieces) \in Seq(Nat)
         /\ Len(PieceSizes(DirectoryPieces)) = Len(DirectoryPieces)
         /\ G[Len(DirectoryPieces)] = DirectoryBytes(import_dlls)
         /\ \A d \in DOMAIN import_dlls :
              /\ DirectoryHas(G, "dll", import_dlls[d].name, DirectoryBytes(Before(import_dlls, d)))
              /\ \A p \in DOMAIN import_dlls[d].imports :
                   DirectoryHas(G, "procedure", import_dlls[d].imports[p],
                     DirectoryBytes(Before(import_dlls, d))
                       + DllBytes([import_dlls[d] EXCEPT !.imports = Before(@, p)]))
<1> DEFINE N == Len(import_dlls)
           ss == [d \in DOMAIN import_dlls |-> DllPieces(import_dlls[d])]
           dir == DirectoryPieces
           s == PieceSizes(dir)
<1>0. N \in Nat /\ DOMAIN import_dlls = 1..N OBVIOUS
<1>1. ss \in Seq(Seq(NamePiece)) /\ Len(ss) = N /\ dir = FlattenSeq(ss) BY DirectoryIs
<1>2. \A d \in 1..N : ss[d] = DllPieces(import_dlls[d]) /\ import_dlls[d] \in Dll BY <1>0
<1> HIDE DEF ss
<1>3. PICK F \in [0..Len(ss) -> Seq(NamePiece)] :
        F[0] = <<>> /\ F[Len(ss)] = FlattenSeq(ss) /\ Flattened(F, ss)
  BY <1>1, FlattenSteps
<1>4. F \in [0..N -> Seq(NamePiece)] /\ F[N] = dir /\ dir \in Seq(NamePiece)
  <2>1. F \in [0..N -> Seq(NamePiece)] /\ F[N] = dir BY <1>1, <1>3
  <2> HIDE DEF N, dir
  <2> QED BY <2>1, <1>0
<1>5. s \in Seq(Nat) /\ Len(s) = Len(dir) /\ \A k \in 1..Len(dir) : s[k] = dir[k].size
  <2> HIDE DEF dir
  <2> QED BY <1>4, NamePieceSizes, SizesAre
<1>6. \A d \in 1..N : PlacedAt(F, ss, d)
  <2> TAKE d \in 1..N
  <2>1. d \in 1..Len(ss) BY <1>1
  <2> QED BY <2>1, <1>1, <1>3, FlattenPlaces
<1>7. Totals(G, s) OBVIOUS
<1> HIDE DEF N, dir, s
<1>8. ASSUME NEW d \in 1..N
      PROVE  /\ Len(F[d - 1]) \in Nat
             /\ Len(F[d]) = Len(F[d - 1]) + Len(PieceSizes(ss[d]))
             /\ FoundAt(PieceSizes(ss[d]), s, Len(F[d - 1]))
             /\ PieceSizes(ss[d]) \in Seq(Nat) /\ Len(PieceSizes(ss[d])) = Len(ss[d])
             /\ \A k \in 1..Len(ss[d]) :
                  Len(F[d - 1]) + k \in 1..Len(dir) /\ dir[Len(F[d - 1]) + k] = ss[d][k]
  <2>1. /\ Len(F[d]) = Len(F[d - 1]) + Len(ss[d])
        /\ Len(F[d]) <= Len(dir)
        /\ \A k \in 1..Len(ss[d]) :
             Len(F[d - 1]) + k \in 1..Len(dir) /\ dir[Len(F[d - 1]) + k] = ss[d][k]
    BY <1>1, <1>4, <1>6 DEF PlacedAt
  <2>2. ss[d] \in Seq(NamePiece) /\ F[d - 1] \in Seq(NamePiece)
    <3>1. d - 1 \in 0..N BY <1>0
    <3>2. F[d - 1] \in Seq(NamePiece) BY <3>1, <1>4
    <3>3. ss[d] \in Seq(NamePiece) BY <1>2, DllPiecesAre
    <3> QED BY <3>2, <3>3
  <2> DEFINE t == PieceSizes(ss[d])
             a == Len(F[d - 1])
  <2>3. t \in Seq(Nat) /\ Len(t) = Len(ss[d]) /\ \A k \in 1..Len(ss[d]) : t[k] = ss[d][k].size
    BY <2>2, NamePieceSizes, SizesAre
  <2>4. a \in Nat BY <2>2
  <2> HIDE DEF t, a
  <2>5. a + Len(t) <= Len(s) BY <2>1, <2>3, <1>5 DEF a
  <2>6. \A k \in 1..Len(t) : s[a + k] = t[k]
    <3> TAKE k \in 1..Len(t)
    <3>1. a + k \in 1..Len(dir) /\ dir[a + k] = ss[d][k] /\ k \in 1..Len(ss[d])
      BY <2>1, <2>3 DEF a
    <3>2. s[a + k] = dir[a + k].size BY <3>1, <1>5
    <3>3. t[k] = ss[d][k].size BY <3>1, <2>3
    <3> QED BY <3>1, <3>2, <3>3
  <2>7. FoundAt(t, s, a) BY <2>5, <2>6 DEF FoundAt
  <2> QED BY <2>1, <2>3, <2>4, <2>7 DEF t, a
<1> DEFINE w == DllSizes(import_dlls)
<1>9. /\ w \in Seq(Nat) /\ Len(w) = N /\ DirectoryBytes(import_dlls) = Sum(w)
      /\ \A d \in 1..N : w[d] = DllBytes(import_dlls[d])
  <2>1. w \in Seq(Nat) /\ Len(w) = N /\ DirectoryBytes(import_dlls) = Sum(w)
    BY DllsNumbers DEF N
  <2> QED BY <2>1, <1>0 DEF DllSizes
<1>10. PICK B : Totals(B, w) /\ Sum(w) = B[Len(w)] BY <1>9, TotalsExist
<1>11. PICK A : Totals(A, ThunkNumbers(import_dlls)) BY DllsNumbers, TotalsExist
<1>12. \A d \in 1..N : DirectoryBytes(Before(import_dlls, d)) = B[d - 1]
  <2> TAKE d \in 1..N
  <2>1. d \in 1..(Len(import_dlls) + 1) BY <1>0 DEF N
  <2> QED BY <2>1, <1>10, <1>11, BeforeTotals DEF w
<1> HIDE DEF w
<1> DEFINE T == {n \in 0..N : G[Len(F[n])] = B[n]}
<1>13. 0 \in T
  <2>1. Len(F[0]) = 0 BY <1>3
  <2>2. B[0] = 0 /\ G[0] = 0 BY <1>7, <1>10 DEF Totals
  <2> QED BY <2>1, <2>2, <1>0
<1>14. \A n \in 0..(N - 1) : n \in T => n + 1 \in T
  <2> SUFFICES ASSUME NEW n \in 0..(N - 1), n \in T PROVE n + 1 \in T
    OBVIOUS
  <2> DEFINE m == n + 1
             t == PieceSizes(ss[m])
             a == Len(F[n])
  <2>1. m \in 1..N /\ m - 1 = n /\ m \in 0..N BY <1>0
  <2>2. G[Len(F[n])] = B[n] OBVIOUS
  <2> HIDE DEF m, T
  <2>3. /\ a \in Nat /\ Len(F[m]) = a + Len(t) /\ FoundAt(t, s, a) /\ t \in Seq(Nat)
    BY <2>1, <1>8
  <2>4. Sum(t) = DllBytes(import_dlls[m])
    <3>1. ss[m] = DllPieces(import_dlls[m]) /\ import_dlls[m] \in Dll BY <2>1, <1>2
    <3> QED BY <3>1, DllPieceBytes
  <2> HIDE DEF t, a
  <2>5. PICK H : Totals(H, t) /\ Sum(t) = H[Len(t)] BY <2>3, TotalsExist
  <2>6. Len(t) \in Nat /\ Len(t) \in 0..Len(t) BY <2>3
  <2>7. G[a + Len(t)] = G[a] + H[Len(t)] BY <2>3, <2>5, <2>6, <1>5, <1>7, TotalsShift
  <2>8. B[m] = B[m - 1] + w[m] BY <2>1, <1>9, <1>10 DEF Totals
  <2>9. G[Len(F[m])] = B[m] BY <2>1, <2>2, <2>3, <2>4, <2>5, <2>7, <2>8, <1>9 DEF a
  <2> QED BY <2>1, <2>9 DEF m, T
<1>15. \A n \in 0..N : G[Len(F[n])] = B[n]
  <2> HIDE DEF T
  <2>1. \A n \in 0..N : n \in T BY <1>0, <1>13, <1>14, UpTo
  <2> QED BY <2>1 DEF T
<1>16. G[Len(dir)] = DirectoryBytes(import_dlls)
  <2>1. N \in 0..N BY <1>0
  <2> QED BY <2>1, <1>4, <1>9, <1>10, <1>15
<1>17. ASSUME NEW d \in 1..N
       PROVE  /\ DirectoryHas(G, "dll", import_dlls[d].name, DirectoryBytes(Before(import_dlls, d)))
              /\ \A p \in DOMAIN import_dlls[d].imports :
                   DirectoryHas(G, "procedure", import_dlls[d].imports[p],
                     DirectoryBytes(Before(import_dlls, d))
                       + DllBytes([import_dlls[d] EXCEPT !.imports = Before(@, p)]))
  <2> DEFINE dll == import_dlls[d]
             a == Len(F[d - 1])
             t == PieceSizes(ss[d])
             n == Len(dll.imports)
  <2>1. dll \in Dll /\ ss[d] = DllPieces(dll) BY <1>2
  <2>2. /\ a \in Nat /\ FoundAt(t, s, a) /\ t \in Seq(Nat) /\ Len(t) = Len(ss[d])
        /\ \A k \in 1..Len(ss[d]) : a + k \in 1..Len(dir) /\ dir[a + k] = ss[d][k]
    BY <1>8
  <2>3. G[a] = B[d - 1] /\ DirectoryBytes(Before(import_dlls, d)) = B[d - 1] /\ B[d - 1] \in Nat
    <3>1. d - 1 \in 0..N /\ d - 1 \in 0..Len(w) BY <1>0, <1>9
    <3> QED BY <3>1, <1>10, <1>12, <1>15 DEF Totals
  <2>4. /\ Len(ss[d]) = n + 1 /\ n \in Nat /\ DOMAIN dll.imports = 1..n
        /\ ss[d][1].what = "dll" /\ ss[d][1].name = dll.name
    <3>1. /\ Len(DllPieces(dll)) = n + 1
          /\ DllPieces(dll)[1] = [what |-> "dll", size |-> NameBytes(dll), name |-> dll.name]
      BY <2>1, DllPiecesAre
    <3>2. n \in Nat /\ DOMAIN dll.imports = 1..n BY <2>1, DllNumbers
    <3> QED BY <2>1, <3>1, <3>2
  <2>5. \A p \in 1..n : ss[d][1 + p].what = "procedure" /\ ss[d][1 + p].name = dll.imports[p]
    <3> TAKE p \in 1..n
    <3>1. DllPieces(dll)[1 + p] = [what |-> "procedure", size |-> ProcedureBytes(dll.imports[p]),
                                   name |-> dll.imports[p]]
      BY <2>1, DllPiecesAre
    <3> QED BY <2>1, <3>1
  <2>6. PICK P : Totals(P, ProcedureSizes(dll)) BY <2>1, DllNumbers, TotalsExist
  <2>7. PICK H : Totals(H, t) BY <2>2, TotalsExist
  <2>8. \A k \in 0..Len(t) : G[a + k] = G[a] + H[k]
    <3> HIDE DEF t, a
    <3> QED BY <2>2, <2>7, <1>5, <1>7, TotalsShift
  <2>9. \A p \in 0..n : H[1 + p] = NameBytes(dll) + P[p]
    BY <2>1, <2>6, <2>7, DllPieceTotals
  <2> HIDE DEF dll, t, n, a
  <2>10. DirectoryHas(G, "dll", dll.name, B[d - 1])
    <3>1. 1 \in 1..Len(ss[d]) BY <2>4
    <3>2. /\ a + 1 \in 1..Len(dir) /\ dir[a + 1].what = "dll" /\ dir[a + 1].name = dll.name
      BY <2>2, <2>4, <3>1
    <3>3. G[(a + 1) - 1] = B[d - 1]
      <4>1. (a + 1) - 1 = a BY <2>2
      <4> QED BY <4>1, <2>3
    <3> QED BY <3>2, <3>3 DEF DirectoryHas, dir
  <2>11. ASSUME NEW p \in 1..n
         PROVE  DirectoryHas(G, "procedure", dll.imports[p],
                  B[d - 1] + DllBytes([dll EXCEPT !.imports = Before(@, p)]))
    <3>1. /\ 1 + p \in 1..Len(ss[d]) /\ p \in 0..Len(t) /\ p - 1 \in 0..n
          /\ (a + (1 + p)) - 1 = a + p /\ 1 + (p - 1) = p
      BY <2>2, <2>4
    <3>2. /\ a + (1 + p) \in 1..Len(dir) /\ dir[a + (1 + p)].what = "procedure"
          /\ dir[a + (1 + p)].name = dll.imports[p]
      BY <2>2, <2>5, <3>1
    <3>3. G[a + p] = G[a] + H[p] BY <2>8, <3>1
    <3>4. H[p] = NameBytes(dll) + P[p - 1]
      <4>1. H[1 + (p - 1)] = NameBytes(dll) + P[p - 1] BY <2>9, <3>1
      <4> QED BY <3>1, <4>1
    <3>5. DllBytes([dll EXCEPT !.imports = Before(@, p)]) = NameBytes(dll) + P[p - 1]
      BY <2>1, <2>4, <2>6, UpToProcedure
    <3>6. G[(a + (1 + p)) - 1] = B[d - 1] + DllBytes([dll EXCEPT !.imports = Before(@, p)])
      BY <2>3, <3>1, <3>3, <3>4, <3>5
    <3> QED BY <3>2, <3>6 DEF DirectoryHas, dir
  <2> QED BY <2>3, <2>4, <2>10, <2>11 DEF dll
<1> QED BY <1>0, <1>4, <1>5, <1>16, <1>17 DEF dir, s


ThunkPiece == [what : {"thunk"}, size : {8}, to : Nat]
DescPiece == [what : {"descriptor"}, size : {20}, desc : Desc]
Piece == ThunkPiece \cup DescPiece \cup NamePiece

LEMMA ThunkPiecesAre ==
  ASSUME thunks \in Seq(Nat), NEW rva \in Nat
  PROVE  /\ ThunkPieces(rva) \in Seq(ThunkPiece) /\ Len(ThunkPieces(rva)) = Len(thunks)
         /\ \A k \in 1..Len(thunks) :
              /\ ThunkPieces(rva)[k].what = "thunk" /\ ThunkPieces(rva)[k].size = 8
              /\ thunks[k] = 0 => ThunkPieces(rva)[k].to = 0
              /\ thunks[k] # 0 => ThunkPieces(rva)[k].to = thunks[k] + rva
<1> DEFINE piece(k) == [what |-> "thunk", size |-> SIZEOF_QWORD,
                        to |-> IF thunks[k] = 0 THEN 0 ELSE thunks[k] + rva]
<1>1. Len(thunks) \in Nat /\ DOMAIN thunks = 1..Len(thunks)
      /\ \A k \in 1..Len(thunks) : thunks[k] \in Nat
  OBVIOUS
<1>2. \A k \in 1..Len(thunks) :
        /\ piece(k) \in ThunkPiece /\ piece(k).what = "thunk" /\ piece(k).size = 8
        /\ thunks[k] = 0 => piece(k).to = 0
        /\ thunks[k] # 0 => piece(k).to = thunks[k] + rva
  BY <1>1 DEF ThunkPiece, SIZEOF_QWORD
<1>3. ThunkPieces(rva) = [k \in 1..Len(thunks) |-> piece(k)] BY <1>1 DEF ThunkPieces
<1> HIDE DEF piece
<1> QED BY <1>1, <1>2, <1>3

LEMMA DescriptorPiecesAre ==
  ASSUME descs \in Seq(Desc), NEW rva \in Nat
  PROVE  /\ DescriptorPieces(rva) \in Seq(DescPiece) /\ Len(DescriptorPieces(rva)) = Len(descs)
         /\ \A k \in 1..Len(descs) :
              /\ DescriptorPieces(rva)[k].what = "descriptor" /\ DescriptorPieces(rva)[k].size = 20
              /\ descs[k].OriginalFirstThunk = 0 => DescriptorPieces(rva)[k].desc = descs[k]
              /\ descs[k].OriginalFirstThunk # 0 =>
                   /\ DescriptorPieces(rva)[k].desc.Name = descs[k].Name + rva
                   /\ DescriptorPieces(rva)[k].desc.FirstThunk = descs[k].FirstThunk + rva
                   /\ DescriptorPieces(rva)[k].desc.OriginalFirstThunk
                        = descs[k].OriginalFirstThunk + rva
<1> DEFINE moved(k) == [f \in DOMAIN descs[k] |-> descs[k][f] + rva]
           desc(k) == IF descs[k].OriginalFirstThunk = 0 THEN descs[k] ELSE moved(k)
           piece(k) == [what |-> "descriptor", size |-> IMAGE_SIZEOF_IMPORT_DESCRIPTOR,
                        desc |-> desc(k)]
<1>1. Len(descs) \in Nat /\ DOMAIN descs = 1..Len(descs)
      /\ \A k \in 1..Len(descs) : descs[k] \in Desc
  OBVIOUS
<1>2. \A k \in 1..Len(descs) :
        /\ moved(k) \in Desc
        /\ moved(k).Name = descs[k].Name + rva
        /\ moved(k).FirstThunk = descs[k].FirstThunk + rva
        /\ moved(k).OriginalFirstThunk = descs[k].OriginalFirstThunk + rva
  BY <1>1 DEF Desc
<1>3. DescriptorPieces(rva) = [k \in 1..Len(descs) |-> piece(k)] BY <1>1 DEF DescriptorPieces
<1> HIDE DEF moved
<1>4. \A k \in 1..Len(descs) :
        /\ piece(k) \in DescPiece /\ piece(k).what = "descriptor" /\ piece(k).size = 20
        /\ piece(k).desc = desc(k)
  BY <1>1, <1>2 DEF DescPiece, IMAGE_SIZEOF_IMPORT_DESCRIPTOR
<1> HIDE DEF piece
<1>5. /\ DescriptorPieces(rva) \in Seq(DescPiece) /\ Len(DescriptorPieces(rva)) = Len(descs)
      /\ \A k \in 1..Len(descs) : DescriptorPieces(rva)[k] = piece(k)
  BY <1>1, <1>3, <1>4
<1> QED BY <1>2, <1>4, <1>5

(* What is written: the thunks, the descriptors, the thunks again and the  *)
(* directory.                                                              *)
Arranged(pieces, rva) ==
  LET T == Len(thunks)
      D == Len(descs)
      M == Len(DirectoryPieces)
  IN  /\ pieces \in Seq(Piece) /\ Len(pieces) = T + D + T + M
      /\ \A i \in 1..T : pieces[i] = ThunkPieces(rva)[i]
      /\ \A j \in 1..D : pieces[T + j] = DescriptorPieces(rva)[j]
      /\ \A i \in 1..T : pieces[T + D + i] = ThunkPieces(rva)[i]
      /\ \A x \in 1..M : pieces[T + D + T + x] = DirectoryPieces[x]

LEMMA ImportPiecesAre ==
  ASSUME thunks \in Seq(Nat), descs \in Seq(Desc), DirectoryPieces \in Seq(NamePiece),
         NEW rva \in Nat
  PROVE  Arranged(ImportPieces(rva), rva)
<1> DEFINE a == ThunkPieces(rva)
           b == DescriptorPieces(rva)
           e == DirectoryPieces
<1>1. a \in Seq(ThunkPiece) /\ Len(a) = Len(thunks) BY ThunkPiecesAre
<1>2. b \in Seq(DescPiece) /\ Len(b) = Len(descs) BY DescriptorPiecesAre
<1>3. e \in Seq(NamePiece) OBVIOUS
<1>4. ImportPieces(rva) = ((a \o b) \o a) \o e BY DEF ImportPieces
<1> HIDE DEF a, b, e
<1>5. a \in Seq(Piece) /\ b \in Seq(Piece) /\ e \in Seq(Piece)
  <2>1. ThunkPiece \subseteq Piece /\ DescPiece \subseteq Piece /\ NamePiece \subseteq Piece
    BY DEF Piece
  <2> QED BY <1>1, <1>2, <1>3, <2>1, SeqOfLarger
<1> HIDE DEF Piece
<1> DEFINE ab == a \o b
           aba == ab \o a
           pieces == aba \o e
<1>6. /\ ab \in Seq(Piece) /\ Len(ab) = Len(a) + Len(b)
      /\ \A i \in 1..Len(a) : ab[i] = a[i]
      /\ \A i \in 1..Len(b) : ab[Len(a) + i] = b[i]
  BY <1>5, ConcatIs
<1> HIDE DEF ab
<1>7. /\ aba \in Seq(Piece) /\ Len(aba) = Len(ab) + Len(a)
      /\ \A i \in 1..Len(ab) : aba[i] = ab[i]
      /\ \A i \in 1..Len(a) : aba[Len(ab) + i] = a[i]
  <2>1. ab \in Seq(Piece) BY <1>6
  <2> QED BY <1>5, <2>1, ConcatIs
<1> HIDE DEF aba
<1>8. /\ pieces \in Seq(Piece) /\ Len(pieces) = Len(aba) + Len(e)
      /\ \A i \in 1..Len(aba) : pieces[i] = aba[i]
      /\ \A i \in 1..Len(e) : pieces[Len(aba) + i] = e[i]
  <2>1. aba \in Seq(Piece) BY <1>7
  <2> QED BY <1>5, <2>1, ConcatIs
<1>9. ImportPieces(rva) = pieces BY <1>4 DEF ab, aba
<1> HIDE DEF pieces
<1>10. Len(a) \in Nat /\ Len(b) \in Nat /\ Len(e) \in Nat BY <1>5
<1>11. \A i \in 1..Len(a) : pieces[i] = a[i]
  <2> TAKE i \in 1..Len(a)
  <2>1. i \in 1..Len(ab) /\ i \in 1..Len(aba) BY <1>6, <1>7, <1>10
  <2> QED BY <2>1, <1>6, <1>7, <1>8
<1>12. \A i \in 1..Len(b) : pieces[Len(a) + i] = b[i]
  <2> TAKE i \in 1..Len(b)
  <2>1. Len(a) + i \in 1..Len(ab) /\ Len(a) + i \in 1..Len(aba) BY <1>6, <1>7, <1>10
  <2> QED BY <2>1, <1>6, <1>7, <1>8
<1>13. \A i \in 1..Len(a) : pieces[Len(a) + Len(b) + i] = a[i]
  <2> TAKE i \in 1..Len(a)
  <2>1. Len(ab) + i \in 1..Len(aba) BY <1>6, <1>7, <1>10
  <2> QED BY <2>1, <1>6, <1>7, <1>8
<1>14. \A i \in 1..Len(e) : pieces[Len(a) + Len(b) + Len(a) + i] = e[i]
  BY <1>6, <1>7, <1>8, <1>10
<1>15. Len(pieces) = Len(a) + Len(b) + Len(a) + Len(e) BY <1>6, <1>7, <1>8, <1>10
<1> QED BY <1>1, <1>2, <1>8, <1>9, <1>11, <1>12, <1>13, <1>14, <1>15 DEF Arranged, a, b, e


LEMMA ArrangedSizes ==
  ASSUME NEW rva, NEW pieces, Arranged(pieces, rva)
  PROVE  /\ pieces \in Seq(Piece) /\ Sizes(pieces)
         /\ PieceSizes(pieces) \in Seq(Nat) /\ Len(PieceSizes(pieces)) = Len(pieces)
         /\ \A k \in 1..Len(pieces) : PieceSizes(pieces)[k] = pieces[k].size
<1>1. pieces \in Seq(Piece) BY DEF Arranged
<1>2. \A x \in Piece : x.size \in Nat BY DEF Piece, ThunkPiece, DescPiece, NamePiece
<1>3. \A k \in 1..Len(pieces) : pieces[k] \in Piece BY <1>1
<1>4. Sizes(pieces) BY <1>2, <1>3 DEF Sizes
<1> QED BY <1>1, <1>4, SizesAre

(* How many bytes are before each of the pieces. *)
Running(G, H) ==
  LET T == Len(thunks)
      D == Len(descs)
      M == Len(DirectoryPieces)
  IN  /\ \A i \in 0..T : G[i] = i * 8
      /\ \A j \in 0..D : G[T + j] = T * 8 + j * 20
      /\ \A i \in 0..T : G[T + D + i] = T * 8 + D * 20 + i * 8
      /\ \A x \in 0..M : G[T + D + T + x] = T * 8 + D * 20 + T * 8 + H[x] /\ H[x] \in Nat

LEMMA ImportTotals ==
  ASSUME thunks \in Seq(Nat), descs \in Seq(Desc), DirectoryPieces \in Seq(NamePiece),
         NEW rva \in Nat, NEW pieces, Arranged(pieces, rva),
         NEW G, Totals(G, PieceSizes(pieces)),
         NEW H, Totals(H, PieceSizes(DirectoryPieces))
  PROVE  Running(G, H)
<1> DEFINE T == Len(thunks)
           D == Len(descs)
           M == Len(DirectoryPieces)
           s == PieceSizes(pieces)
           t == PieceSizes(DirectoryPieces)
<1>0. T \in Nat /\ D \in Nat /\ M \in Nat OBVIOUS
<1>1. /\ pieces \in Seq(Piece) /\ Len(pieces) = T + D + T + M
      /\ \A i \in 1..T : pieces[i] = ThunkPieces(rva)[i]
      /\ \A j \in 1..D : pieces[T + j] = DescriptorPieces(rva)[j]
      /\ \A i \in 1..T : pieces[T + D + i] = ThunkPieces(rva)[i]
      /\ \A x \in 1..M : pieces[T + D + T + x] = DirectoryPieces[x]
  BY DEF Arranged
<1>3. /\ s \in Seq(Nat) /\ Len(s) = Len(pieces)
      /\ \A k \in 1..Len(pieces) : s[k] = pieces[k].size
  BY ArrangedSizes
<1>4. /\ t \in Seq(Nat) /\ Len(t) = M
      /\ \A k \in 1..M : t[k] = DirectoryPieces[k].size
  BY NamePieceSizes, SizesAre
<1>5. Totals(G, s) /\ Totals(H, t) OBVIOUS
<1>6. \A i \in 1..T : ThunkPieces(rva)[i].size = 8 BY ThunkPiecesAre
<1>7. \A j \in 1..D : DescriptorPieces(rva)[j].size = 20 BY DescriptorPiecesAre
<1> HIDE DEF s, t, T, D, M
<1>8. /\ \A i \in 1..T : s[i] = 8
      /\ \A j \in 1..D : s[T + j] = 20
      /\ \A i \in 1..T : s[T + D + i] = 8
      /\ \A x \in 1..M : s[T + D + T + x] = t[x]
  <2>1. \A i \in 1..T : i \in 1..Len(pieces) /\ T + D + i \in 1..Len(pieces) BY <1>0, <1>1
  <2>2. \A j \in 1..D : T + j \in 1..Len(pieces) BY <1>0, <1>1
  <2>3. \A x \in 1..M : T + D + T + x \in 1..Len(pieces) BY <1>0, <1>1
  <2>4. \A i \in 1..T : s[i] = 8
    <3> TAKE i \in 1..T
    <3>1. i \in 1..Len(pieces) BY <2>1, <2>2, <2>3
    <3>2. s[i] = pieces[i].size BY <3>1, <1>3
    <3>3. pieces[i] = ThunkPieces(rva)[i] BY <1>1
    <3> QED BY <3>2, <3>3, <1>6
  <2>5. \A j \in 1..D : s[T + j] = 20
    <3> TAKE j \in 1..D
    <3>1. T + j \in 1..Len(pieces) BY <2>1, <2>2, <2>3
    <3>2. s[T + j] = pieces[T + j].size BY <3>1, <1>3
    <3>3. pieces[T + j] = DescriptorPieces(rva)[j] BY <1>1
    <3> QED BY <3>2, <3>3, <1>7
  <2>6. \A i \in 1..T : s[T + D + i] = 8
    <3> TAKE i \in 1..T
    <3>1. T + D + i \in 1..Len(pieces) BY <2>1, <2>2, <2>3
    <3>2. s[T + D + i] = pieces[T + D + i].size BY <3>1, <1>3
    <3>3. pieces[T + D + i] = ThunkPieces(rva)[i] BY <1>1
    <3> QED BY <3>2, <3>3, <1>6
  <2>7. \A x \in 1..M : s[T + D + T + x] = t[x]
    <3> TAKE x \in 1..M
    <3>1. T + D + T + x \in 1..Len(pieces) BY <2>1, <2>2, <2>3
    <3>2. s[T + D + T + x] = pieces[T + D + T + x].size BY <3>1, <1>3
    <3>3. pieces[T + D + T + x] = DirectoryPieces[x] BY <1>1
    <3> QED BY <3>2, <3>3, <1>4
  <2> QED BY <2>4, <2>5, <2>6, <2>7
<1>9. G[0] = 0 BY <1>5 DEF Totals
<1>10. \A i \in 0..T : G[i] = i * 8
  <2> DEFINE z == 0
             c == 8
  <2>1. z \in Nat /\ c \in {8, 20} /\ AllAre(s, z, T, c)
    BY <1>0, <1>1, <1>3, <1>8 DEF AllAre
  <2>2. G[z] = 0 /\ z = 0 /\ c = 8 BY <1>9
  <2> HIDE DEF z, c
  <2>3. GrowsBy(G, z, T, c) BY <2>1, <1>0, <1>3, <1>5, TotalsOfEqual
  <2>4. \A i \in 0..T : i \in Int /\ z + i = i BY <2>2, <1>0
  <2> QED BY <2>2, <2>3, <2>4 DEF GrowsBy
<1>11. \A j \in 0..D : G[T + j] = T * 8 + j * 20
  <2> DEFINE c == 20
  <2>0. T + D <= Len(s) BY <1>0, <1>1, <1>3
  <2>1. c \in {8, 20} /\ c = 20 /\ AllAre(s, T, D, c) BY <2>0, <1>8 DEF AllAre
  <2> HIDE DEF c
  <2>2. GrowsBy(G, T, D, c) BY <2>1, <1>0, <1>3, <1>5, TotalsOfEqual
  <2>3. T \in 0..T BY <1>0
  <2> QED BY <2>1, <2>2, <2>3, <1>10 DEF GrowsBy
<1>12. \A i \in 0..T : G[T + D + i] = T * 8 + D * 20 + i * 8
  <2> DEFINE c == 8
             a == T + D
  <2>1. a \in Nat /\ c \in {8, 20} /\ c = 8 /\ AllAre(s, a, T, c)
    BY <1>0, <1>1, <1>3, <1>8 DEF AllAre
  <2>2. G[a] = T * 8 + D * 20
    <3>1. D \in 0..D BY <1>0
    <3> QED BY <3>1, <1>11
  <2> HIDE DEF c, a
  <2>3. GrowsBy(G, a, T, c) BY <2>1, <1>0, <1>3, <1>5, TotalsOfEqual
  <2> QED BY <2>1, <2>2, <2>3 DEF a, GrowsBy
<1>13. \A x \in 0..M : G[T + D + T + x] = T * 8 + D * 20 + T * 8 + H[x] /\ H[x] \in Nat
  <2> DEFINE a == T + D + T
  <2>1. a \in Nat /\ FoundAt(t, s, a) BY <1>0, <1>1, <1>3, <1>4, <1>8 DEF FoundAt
  <2>2. G[a] = T * 8 + D * 20 + T * 8
    <3>1. T \in 0..T BY <1>0
    <3> QED BY <3>1, <1>12
  <2> HIDE DEF a
  <2>3. \A x \in 0..Len(t) : G[a + x] = G[a] + H[x] /\ H[x] \in Nat
    BY <2>1, <1>3, <1>4, <1>5, TotalsShift
  <2> QED BY <2>2, <2>3, <1>4 DEF a
<1> QED BY <1>10, <1>11, <1>12, <1>13 DEF Running, T, D, M

(* The address of a piece, and where to find it. *)
LEMMA PieceRvaIs ==
  ASSUME NEW S, idata \in Seq(S), Sizes(idata), NEW G, Totals(G, PieceSizes(idata)),
         NEW k \in 1..Len(idata)
  PROVE  PieceRva(k) = Rva(IDATA) + G[k - 1]
<1> DEFINE b == Before(idata, k)
           s == PieceSizes(idata)
           t == PieceSizes(b)
           n == k - 1
<1>1. k \in 1..(Len(idata) + 1) /\ Len(idata) \in Nat OBVIOUS
<1>2. /\ s \in Seq(Nat) /\ Len(s) = Len(idata)
      /\ \A i \in 1..Len(idata) : s[i] = idata[i].size
  BY SizesAre
<1>3. /\ b \in Seq(S) /\ Len(b) = n /\ \A i \in 1..n : i \in 1..Len(idata) /\ b[i] = idata[i]
  BY <1>1, BeforeIs
<1> HIDE DEF b
<1>4. Sizes(b) BY <1>3 DEF Sizes
<1>5. t \in Seq(Nat) /\ Len(t) = n /\ \A i \in 1..n : t[i] = b[i].size
  BY <1>3, <1>4, SizesAre
<1>6. Totals(G, s) OBVIOUS
<1>7. n \in 0..Len(s) BY <1>1, <1>2
<1> HIDE DEF s, t, n
<1>8. \A i \in 1..n : t[i] = s[i] BY <1>2, <1>3, <1>5
<1>9. Sum(t) = G[n] BY <1>2, <1>5, <1>6, <1>7, <1>8, SumOfBeginning, SMTT(20)
<1> QED BY <1>9 DEF PieceRva, b, t, n


-----------------------------------------------------------------------------
(* What the loader reads                                                   *)

AllDescs == Append([d \in DOMAIN import_dlls |-> Descriptor(d)], NoDescriptor)

(* The import section is written. *)
ImportsWritten ==
  /\ import_dlls \in Seq(Dll) /\ thunks = AllThunks /\ descs = AllDescs
  /\ Rva(IDATA) \in Nat /\ idata = ImportPieces(Rva(IDATA))

ThunkAt(k, rva, value) ==
  /\ k \in PiecesAt(rva, "thunk")
  /\ value = 0 => idata[k].to = 0
  /\ value # 0 => idata[k].to = value + Rva(IDATA)
ThunksPlaced ==
  \A i \in 1..Len(thunks) :
    /\ ThunkAt(i, Rva(IDATA) + (i - 1) * 8, thunks[i])
    /\ ThunkAt(Len(thunks) + Len(descs) + i,
               Rva(IDATA) + OriginalThunkDist + (i - 1) * 8, thunks[i])
DescriptorsPlaced ==
  \A j \in 1..Len(descs) :
    /\ PiecesAt(Rva(IDATA) + Len(thunks) * 8 + (j - 1) * 20, "descriptor") = {Len(thunks) + j}
    /\ idata[Len(thunks) + j] = DescriptorPieces(Rva(IDATA))[j]
NamedAt(rva, what, name) == \E k \in PiecesAt(rva, what) : idata[k].name = name
NamesPlaced ==
  \A d \in DOMAIN import_dlls :
    /\ NamedAt(Rva(IDATA) + DllEntry(d), "dll", import_dlls[d].name)
    /\ \A p \in DOMAIN import_dlls[d].imports :
         NamedAt(Rva(IDATA) + ProcedureEntry(d, p), "procedure", import_dlls[d].imports[p])

(* The numbers prepare has made *)
LEMMA DescsAre ==
  ASSUME import_dlls \in Seq(Dll)
  PROVE  /\ AllDescs \in Seq(Desc) /\ Len(AllDescs) = Len(import_dlls) + 1
         /\ \A d \in 1..Len(import_dlls) : AllDescs[d] = Descriptor(d)
         /\ AllDescs[Len(import_dlls) + 1] = NoDescriptor
<1> DEFINE N == Len(import_dlls)
           a == [d \in DOMAIN import_dlls |-> Descriptor(d)]
<1>1. N \in Nat /\ DOMAIN import_dlls = 1..N OBVIOUS
<1>2. \A d \in 1..N : Descriptor(d) \in Desc BY <1>1, Prepared
<1>3. a \in Seq(Desc) /\ Len(a) = N /\ \A d \in 1..N : a[d] = Descriptor(d) BY <1>1, <1>2
<1>4. NoDescriptor \in Desc BY DEF NoDescriptor, Desc
<1>5. AllDescs = Append(a, NoDescriptor) BY DEF AllDescs
<1> HIDE DEF a, N
<1>6. /\ Append(a, NoDescriptor) \in Seq(Desc) /\ Len(Append(a, NoDescriptor)) = N + 1
      /\ \A d \in 1..N : Append(a, NoDescriptor)[d] = a[d]
      /\ Append(a, NoDescriptor)[N + 1] = NoDescriptor
  BY <1>1, <1>3, <1>4
<1> QED BY <1>3, <1>5, <1>6 DEF N

(* Everything is where it was expected. *)
LEMMA ImportPlaces ==
  ASSUME ImportsWritten
  PROVE  ThunksPlaced /\ DescriptorsPlaced /\ NamesPlaced
<1> DEFINE T == Len(thunks)
           D == Len(descs)
           M == Len(DirectoryPieces)
           R == Rva(IDATA)
<1>1. import_dlls \in Seq(Dll) /\ R \in Nat /\ idata = ImportPieces(R) BY DEF ImportsWritten
<1>2. thunks \in Seq(Nat) /\ T = NumThunks(import_dlls) BY <1>1, ThunkPlaces DEF ImportsWritten
<1>3. descs \in Seq(Desc) /\ D = Len(import_dlls) + 1 BY <1>1, DescsAre DEF ImportsWritten
<1>4. DirectoryPieces \in Seq(NamePiece) /\ PieceSizes(DirectoryPieces) \in Seq(Nat)
  <2> DEFINE ss == [d \in DOMAIN import_dlls |-> DllPieces(import_dlls[d])]
  <2>1. ss \in Seq(Seq(NamePiece)) /\ DirectoryPieces = FlattenSeq(ss) BY <1>1, DirectoryIs
  <2> HIDE DEF ss
  <2>2. PICK F \in [0..Len(ss) -> Seq(NamePiece)] : F[Len(ss)] = FlattenSeq(ss)
    BY <2>1, FlattenSteps
  <2>3. Len(ss) \in 0..Len(ss) BY <2>1
  <2>4. DirectoryPieces \in Seq(NamePiece) BY <2>1, <2>2, <2>3
  <2> QED BY <2>4, NamePieceSizes, SizesAre
<1>5. T \in Nat /\ D \in Nat /\ M \in Nat BY <1>2, <1>3, <1>4
<1>6. Arranged(idata, R)
  <2> HIDE DEF R
  <2>1. Arranged(ImportPieces(R), R) BY <1>1, <1>2, <1>3, <1>4, ImportPiecesAre
  <2> QED BY <2>1, <1>1
<1>7. /\ idata \in Seq(Piece) /\ Sizes(idata) /\ PieceSizes(idata) \in Seq(Nat)
  BY <1>6, ArrangedSizes
<1>8. PICK G : Totals(G, PieceSizes(idata)) BY <1>7, TotalsExist
<1>9. PICK H : Totals(H, PieceSizes(DirectoryPieces)) BY <1>4, TotalsExist
<1>10. Running(G, H)
  <2> HIDE DEF R
  <2> QED BY <1>1, <1>2, <1>3, <1>4, <1>6, <1>8, <1>9, ImportTotals
<1>11. \A k \in 1..Len(idata) : PieceRva(k) = R + G[k - 1] BY <1>7, <1>8, PieceRvaIs
<1>12. DOMAIN idata = 1..Len(idata) BY <1>7
<1>13. /\ Len(idata) = T + D + T + M
       /\ \A i \in 1..T : idata[i] = ThunkPieces(R)[i]
       /\ \A j \in 1..D : idata[T + j] = DescriptorPieces(R)[j]
       /\ \A i \in 1..T : idata[T + D + i] = ThunkPieces(R)[i]
       /\ \A x \in 1..M : idata[T + D + T + x] = DirectoryPieces[x]
  BY <1>6 DEF Arranged
<1>14. /\ \A i \in 0..T : G[i] = i * 8
       /\ \A j \in 0..D : G[T + j] = T * 8 + j * 20
       /\ \A i \in 0..T : G[T + D + i] = T * 8 + D * 20 + i * 8
       /\ \A x \in 0..M : G[T + D + T + x] = T * 8 + D * 20 + T * 8 + H[x] /\ H[x] \in Nat
  BY <1>10 DEF Running
<1>15. OriginalThunkDist = T * 8 + D * 20 /\ StartDirectory = T * 8 + D * 20 + T * 8
  BY <1>2, <1>3 DEF OriginalThunkDist, StartDirectory, SIZEOF_QWORD, IMAGE_SIZEOF_IMPORT_DESCRIPTOR
<1>16. \A i \in 1..T :
         /\ ThunkPieces(R)[i].what = "thunk"
         /\ thunks[i] = 0 => ThunkPieces(R)[i].to = 0
         /\ thunks[i] # 0 => ThunkPieces(R)[i].to = thunks[i] + R
  BY <1>1, <1>2, ThunkPiecesAre
<1>17. \A j \in 1..D : DescriptorPieces(R)[j].what = "descriptor"
  BY <1>1, <1>3, DescriptorPiecesAre
<1> HIDE DEF T, D, M, R
<1>18. ASSUME NEW i \in 1..T
       PROVE  ThunkAt(i, R + (i - 1) * 8, thunks[i])
  <2>1. i \in 1..Len(idata) /\ i - 1 \in 0..T BY <1>5, <1>13
  <2>2. PieceRva(i) = R + (i - 1) * 8 BY <2>1, <1>11, <1>14
  <2>3. idata[i] = ThunkPieces(R)[i] BY <1>13
  <2> QED BY <2>1, <2>2, <2>3, <1>12, <1>16 DEF ThunkAt, PiecesAt, R
<1>19. ASSUME NEW i \in 1..T
       PROVE  ThunkAt(T + D + i, R + OriginalThunkDist + (i - 1) * 8, thunks[i])
  <2> DEFINE k == T + D + i
  <2>1. k \in 1..Len(idata) /\ i - 1 \in 0..T /\ k - 1 = T + D + (i - 1) BY <1>5, <1>13
  <2>2. G[k - 1] = OriginalThunkDist + (i - 1) * 8 BY <2>1, <1>14, <1>15
  <2>3. idata[k] = ThunkPieces(R)[i] BY <1>13
  <2>4. OriginalThunkDist \in Int /\ (i - 1) * 8 \in Int /\ R \in Int BY <1>1, <1>5, <1>15
  <2> HIDE DEF k
  <2>5. PieceRva(k) = R + (OriginalThunkDist + (i - 1) * 8) BY <2>1, <2>2, <1>11
  <2>6. PieceRva(k) = R + OriginalThunkDist + (i - 1) * 8 BY <2>4, <2>5
  <2>7. ThunkAt(k, R + OriginalThunkDist + (i - 1) * 8, thunks[i])
    BY <2>1, <2>3, <2>6, <1>12, <1>16 DEF ThunkAt, PiecesAt, R
  <2> QED BY <2>7 DEF k
<1>20. ThunksPlaced BY <1>18, <1>19 DEF ThunksPlaced, T, D, R
<1>21. ASSUME NEW j \in 1..D
       PROVE  PiecesAt(R + T * 8 + (j - 1) * 20, "descriptor") = {T + j}
  <2>1. ASSUME NEW i \in 1..D
        PROVE  /\ T + i \in 1..Len(idata) /\ idata[T + i].what = "descriptor"
               /\ PieceRva(T + i) = R + T * 8 + (i - 1) * 20
    <3>1. T + i \in 1..Len(idata) /\ i - 1 \in 0..D /\ (T + i) - 1 = T + (i - 1) BY <1>5, <1>13
    <3>2. G[(T + i) - 1] = T * 8 + (i - 1) * 20 BY <3>1, <1>14
    <3>3. PieceRva(T + i) = R + (T * 8 + (i - 1) * 20) BY <3>1, <3>2, <1>11
    <3>4. T * 8 \in Int /\ (i - 1) * 20 \in Int /\ R \in Int BY <1>1, <1>5
    <3>5. PieceRva(T + i) = R + T * 8 + (i - 1) * 20 BY <3>3, <3>4
    <3> QED BY <3>1, <3>5, <1>13, <1>17
  <2>2. ASSUME NEW k \in 1..Len(idata), idata[k].what = "descriptor"
        PROVE  \E i \in 1..D : k = T + i
    <3>1. CASE k \in 1..T BY <3>1, <2>2, <1>13, <1>16
    <3>2. CASE k \in (T + 1)..(T + D)
      <4>1. k - T \in 1..D /\ k = T + (k - T) BY <3>2, <1>5
      <4> QED BY <4>1
    <3>3. CASE k \in (T + D + 1)..(T + D + T)
      <4> DEFINE i == k - (T + D)
      <4>1. i \in 1..T /\ k = T + D + i BY <3>3, <1>5
      <4> HIDE DEF i
      <4>2. idata[k].what = "thunk" BY <4>1, <1>13, <1>16
      <4> QED BY <4>2, <2>2
    <3>4. CASE k \in (T + D + T + 1)..(T + D + T + M)
      <4> DEFINE x == k - (T + D + T)
      <4>1. x \in 1..M /\ k = T + D + T + x BY <3>4, <1>5
      <4> HIDE DEF x
      <4>2. idata[k] = DirectoryPieces[x] BY <4>1, <1>13
      <4>3. DirectoryPieces[x] \in NamePiece BY <4>1, <1>4 DEF M
      <4>4. idata[k].what \in {"dll", "procedure"} BY <4>2, <4>3 DEF NamePiece
      <4> QED BY <4>4, <2>2
    <3> QED BY <3>1, <3>2, <3>3, <3>4, <1>5, <1>13
  <2> DEFINE rva == R + T * 8 + (j - 1) * 20
  <2>3. ASSUME NEW k
        PROVE  k \in PiecesAt(rva, "descriptor") <=> k = T + j
    <3>1. k = T + j => k \in PiecesAt(rva, "descriptor") BY <2>1, <1>12 DEF PiecesAt
    <3>2. ASSUME k \in PiecesAt(rva, "descriptor") PROVE k = T + j
      <4>1. k \in 1..Len(idata) /\ idata[k].what = "descriptor" /\ PieceRva(k) = rva
        BY <3>2, <1>12 DEF PiecesAt
      <4>2. PICK i \in 1..D : k = T + i BY <4>1, <2>2
      <4>3. PieceRva(k) = R + T * 8 + (i - 1) * 20 BY <4>2, <2>1
      <4>4. i = j
        <5> DEFINE c == R + T * 8
        <5>1. c \in Int BY <1>1, <1>5
        <5>2. c + (i - 1) * 20 = c + (j - 1) * 20 BY <4>1, <4>3
        <5> HIDE DEF c
        <5> QED BY <5>1, <5>2, <1>5
      <4> QED BY <4>2, <4>4
    <3> QED BY <3>1, <3>2
  <2> HIDE DEF rva
  <2>4. PiecesAt(rva, "descriptor") = {T + j} BY <2>3
  <2> QED BY <2>4 DEF rva
<1>22. DescriptorsPlaced BY <1>13, <1>21 DEF DescriptorsPlaced, T, D, R
<1>23. ASSUME NEW what, NEW name, NEW n \in Nat, DirectoryHas(H, what, name, n)
       PROVE  NamedAt(R + (StartDirectory + n), what, name)
  <2>1. PICK x \in 1..M : /\ DirectoryPieces[x].what = what /\ DirectoryPieces[x].name = name
                          /\ H[x - 1] = n
    BY <1>23 DEF DirectoryHas, M
  <2> DEFINE k == T + D + T + x
  <2>2. k \in 1..Len(idata) /\ x - 1 \in 0..M /\ k - 1 = T + D + T + (x - 1) BY <1>5, <1>13
  <2>3. G[k - 1] = StartDirectory + n BY <2>1, <2>2, <1>14, <1>15
  <2>4. idata[k] = DirectoryPieces[x] BY <1>13
  <2> HIDE DEF k
  <2>5. PieceRva(k) = R + (StartDirectory + n) BY <2>2, <2>3, <1>11
  <2> QED BY <2>1, <2>2, <2>4, <2>5, <1>12 DEF NamedAt, PiecesAt
<1>24. ASSUME NEW d \in DOMAIN import_dlls
       PROVE  /\ NamedAt(R + DllEntry(d), "dll", import_dlls[d].name)
              /\ \A p \in DOMAIN import_dlls[d].imports :
                   NamedAt(R + ProcedureEntry(d, p), "procedure", import_dlls[d].imports[p])
  <2> DEFINE b == DirectoryBytes(Before(import_dlls, d))
             q(p) == DllBytes([import_dlls[d] EXCEPT !.imports = Before(@, p)])
  <2>1. /\ DirectoryHas(H, "dll", import_dlls[d].name, b)
        /\ \A p \in DOMAIN import_dlls[d].imports :
             DirectoryHas(H, "procedure", import_dlls[d].imports[p], b + q(p))
    BY <1>1, <1>9, DirectoryPlaces
  <2>2. DllEntry(d) = StartDirectory + b /\ \A p : ProcedureEntry(d, p) = DllEntry(d) + q(p)
    BY DEF DllEntry, ProcedureEntry
  <2>3. b \in Nat
    <3>1. d \in 1..(Len(import_dlls) + 1) BY <1>1
    <3>2. Before(import_dlls, d) \in Seq(Dll) BY <1>1, <3>1, BeforeIs
    <3> QED BY <3>2, DllsNumbers
  <2>4. StartDirectory \in Nat BY <1>1, Prepared
  <2>5. ASSUME NEW p \in DOMAIN import_dlls[d].imports PROVE q(p) \in Nat
    <3> DEFINE dll == import_dlls[d]
    <3>1. dll \in Dll BY <1>1
    <3> HIDE DEF dll
    <3>2. PICK P : Totals(P, ProcedureSizes(dll)) BY <3>1, DllNumbers, TotalsExist
    <3>3. p \in DOMAIN dll.imports BY DEF dll
    <3>4. /\ DllBytes([dll EXCEPT !.imports = Before(@, p)]) = NameBytes(dll) + P[p - 1]
          /\ P[p - 1] \in Nat
      BY <3>1, <3>2, <3>3, UpToProcedure
    <3>5. NameBytes(dll) \in Nat BY <3>1, DllNumbers
    <3>6. DllBytes([dll EXCEPT !.imports = Before(@, p)]) \in Nat BY <3>4, <3>5
    <3> QED BY <3>6 DEF dll
  <2> HIDE DEF b, q
  <2>6. NamedAt(R + DllEntry(d), "dll", import_dlls[d].name) BY <2>1, <2>2, <2>3, <1>23
  <2>7. ASSUME NEW p \in DOMAIN import_dlls[d].imports
        PROVE  NamedAt(R + ProcedureEntry(d, p), "procedure", import_dlls[d].imports[p])
    <3>1. b + q(p) \in Nat /\ ProcedureEntry(d, p) = StartDirectory + (b + q(p))
      BY <2>2, <2>3, <2>4, <2>5
    <3>2. DirectoryHas(H, "procedure", import_dlls[d].imports[p], b + q(p)) BY <2>1
    <3> QED BY <3>1, <3>2, <1>23
  <2> QED BY <2>6, <2>7
<1>25. NamesPlaced BY <1>24 DEF NamesPlaced, R
<1> QED BY <1>20, <1>22, <1>25


(* What the descriptors say: where the tables and the name of a DLL are.   *)
LEMMA DescriptorsRead ==
  ASSUME ImportsWritten
  PROVE  /\ \A d \in DOMAIN import_dlls :
              /\ ImportDescriptor(d).Name = Rva(IDATA) + DllEntry(d)
              /\ ImportDescriptor(d).FirstThunk = Rva(IDATA) + ThunkAddr(d)
              /\ ImportDescriptor(d).OriginalFirstThunk
                   = Rva(IDATA) + OriginalThunkDist + ThunkAddr(d)
         /\ ImportDescriptor(Len(import_dlls) + 1) = NoDescriptor
<1> DEFINE R == Rva(IDATA)
           N == Len(import_dlls)
<1>1. /\ import_dlls \in Seq(Dll) /\ R \in Nat /\ N \in Nat /\ DOMAIN import_dlls = 1..N
      /\ descs = AllDescs
  BY DEF ImportsWritten
<1>2. /\ descs \in Seq(Desc) /\ Len(descs) = N + 1
      /\ \A d \in 1..N : descs[d] = Descriptor(d)
      /\ descs[N + 1] = NoDescriptor
  BY <1>1, DescsAre
<1>3. \A j \in 1..(N + 1) : ImportDescriptor(j) = DescriptorPieces(R)[j].desc
  <2> TAKE j \in 1..(N + 1)
  <2> DEFINE rva == Rva(IDATA) + iat_size + (j - 1) * IMAGE_SIZEOF_IMPORT_DESCRIPTOR
             k == Len(thunks) + j
             found == CHOOSE x \in PiecesAt(rva, "descriptor") : TRUE
  <2>1. rva = R + Len(thunks) * 8 + (j - 1) * 20
    BY DEF iat_size, SIZEOF_QWORD, IMAGE_SIZEOF_IMPORT_DESCRIPTOR
  <2>2. /\ PiecesAt(R + Len(thunks) * 8 + (j - 1) * 20, "descriptor") = {k}
        /\ idata[k] = DescriptorPieces(R)[j]
    BY <1>2, ImportPlaces DEF DescriptorsPlaced
  <2>3. ImportDescriptor(j) = idata[found].desc BY DEF ImportDescriptor
  <2> HIDE DEF rva, k
  <2>4. found \in {k} BY <2>1, <2>2
  <2> HIDE DEF found
  <2> QED BY <2>2, <2>3, <2>4
<1>4. ASSUME NEW d \in DOMAIN import_dlls
      PROVE  /\ ImportDescriptor(d).Name = R + DllEntry(d)
             /\ ImportDescriptor(d).FirstThunk = R + ThunkAddr(d)
             /\ ImportDescriptor(d).OriginalFirstThunk = R + OriginalThunkDist + ThunkAddr(d)
  <2>1. d \in 1..Len(descs) /\ d \in 1..(N + 1) /\ descs[d] = Descriptor(d) BY <1>1, <1>2
  <2>2. /\ DllEntry(d) \in Nat /\ ThunkAddr(d) \in Nat /\ OriginalThunkDist \in Nat
        /\ Descriptor(d).OriginalFirstThunk # 0
    BY <1>1, Prepared
  <2> HIDE DEF R
  <2>3. /\ DescriptorPieces(R)[d].desc.Name = Descriptor(d).Name + R
        /\ DescriptorPieces(R)[d].desc.FirstThunk = Descriptor(d).FirstThunk + R
        /\ DescriptorPieces(R)[d].desc.OriginalFirstThunk = Descriptor(d).OriginalFirstThunk + R
    BY <2>1, <2>2, <1>1, <1>2, DescriptorPiecesAre
  <2>4. /\ Descriptor(d).Name = DllEntry(d) /\ Descriptor(d).FirstThunk = ThunkAddr(d)
        /\ Descriptor(d).OriginalFirstThunk = ThunkAddr(d) + OriginalThunkDist
    BY DEF Descriptor
  <2>5. ImportDescriptor(d) = DescriptorPieces(R)[d].desc BY <2>1, <1>3
  <2> QED BY <2>2, <2>3, <2>4, <2>5, <1>1
<1>5. ImportDescriptor(N + 1) = NoDescriptor
  <2>1. N + 1 \in 1..(N + 1) /\ N + 1 \in 1..Len(descs) BY <1>1, <1>2
  <2>2. descs[N + 1].OriginalFirstThunk = 0 BY <1>2 DEF NoDescriptor
  <2> HIDE DEF R
  <2>3. DescriptorPieces(R)[N + 1].desc = descs[N + 1] BY <2>1, <2>2, <1>1, <1>2, DescriptorPiecesAre
  <2> QED BY <2>1, <2>3, <1>2, <1>3
<1> QED BY <1>4, <1>5

(* The thunks of a DLL, in both tables. *)
LEMMA ThunksRead ==
  ASSUME ImportsWritten, NEW d \in DOMAIN import_dlls,
         NEW base, base \in {Rva(IDATA), Rva(IDATA) + OriginalThunkDist}
  PROVE  ReadsThunks(base + ThunkAddr(d), import_dlls[d].imports)
<1> DEFINE R == Rva(IDATA)
           procs == import_dlls[d].imports
           n == Len(procs)
           c == NumThunks(Before(import_dlls, d))
           T == Len(thunks)
           rva == base + ThunkAddr(d)
<1>1. /\ import_dlls \in Seq(Dll) /\ R \in Nat /\ d \in 1..Len(import_dlls)
      /\ import_dlls[d] \in Dll /\ thunks = AllThunks
  BY DEF ImportsWritten
<1>2. n \in Nat /\ DOMAIN procs = 1..n BY <1>1, DllNumbers
<1>3. /\ c \in Nat /\ thunks \in Seq(Nat)
      /\ \A k \in 1..(n + 1) : c + k \in 1..T /\ thunks[c + k] = DllThunks(d)[k]
  BY <1>1, ThunkPlaces
<1>4. /\ \A p \in 1..n : ProcedureEntry(d, p) \in Nat \ {0} /\ DllThunks(d)[p] = ProcedureEntry(d, p)
      /\ DllThunks(d)[n + 1] = 0
  <2> DEFINE t == [p \in DOMAIN procs |-> ProcedureEntry(d, p)]
  <2>1. \A p \in 1..n : ProcedureEntry(d, p) \in Nat \ {0} BY <1>1, <1>2, Prepared
  <2>2. t \in Seq(Nat) /\ Len(t) = n /\ \A p \in 1..n : t[p] = ProcedureEntry(d, p)
    BY <2>1, <1>2
  <2>3. DllThunks(d) = Append(t, 0) BY DEF DllThunks
  <2> HIDE DEF t, n
  <2> QED BY <2>1, <2>2, <2>3, <1>2
<1>5. OriginalThunkDist \in Nat /\ ThunkAddr(d) = c * 8 BY <1>1, Prepared DEF ThunkAddr, SIZEOF_QWORD
<1>6. base \in Nat BY <1>1, <1>5
<1> HIDE DEF c, n, T, procs, R
(* A thunk in the table that begins at base *)
<1>7. ASSUME NEW i \in 1..T
      PROVE  \E k : ThunkAt(k, base + (i - 1) * 8, thunks[i])
  <2>1. ThunksPlaced BY ImportPlaces
  <2>2. CASE base = Rva(IDATA) BY <2>1, <2>2 DEF ThunksPlaced, T
  <2>3. CASE base = Rva(IDATA) + OriginalThunkDist BY <2>1, <2>3 DEF ThunksPlaced, T
  <2> QED BY <2>2, <2>3
<1>8. ASSUME NEW p \in 1..(n + 1)
      PROVE  \E k : ThunkAt(k, rva + (p - 1) * SIZEOF_QWORD, DllThunks(d)[p])
  <2>1. c + p \in 1..T /\ thunks[c + p] = DllThunks(d)[p] BY <1>3
  <2>2. base + ((c + p) - 1) * 8 = rva + (p - 1) * SIZEOF_QWORD
    BY <1>2, <1>3, <1>5, <1>6 DEF SIZEOF_QWORD
  <2> HIDE DEF rva
  <2>3. \E k : ThunkAt(k, base + ((c + p) - 1) * 8, thunks[c + p]) BY <2>1, <1>7
  <2> QED BY <2>1, <2>2, <2>3
<1> HIDE DEF rva
<1>9. ASSUME NEW p \in 1..n
      PROVE  \E k \in PiecesAt(rva + (p - 1) * SIZEOF_QWORD, "thunk") :
               \E x \in PiecesAt(idata[k].to, "procedure") : idata[x].name = procs[p]
  <2>1. p \in 1..(n + 1) BY <1>2
  <2>2. PICK k : ThunkAt(k, rva + (p - 1) * SIZEOF_QWORD, DllThunks(d)[p]) BY <2>1, <1>8
  <2>3. DllThunks(d)[p] = ProcedureEntry(d, p) /\ ProcedureEntry(d, p) \in Nat \ {0} BY <1>4
  <2>4. /\ k \in PiecesAt(rva + (p - 1) * SIZEOF_QWORD, "thunk")
        /\ idata[k].to = ProcedureEntry(d, p) + Rva(IDATA)
    BY <2>2, <2>3 DEF ThunkAt
  <2>5. NamedAt(Rva(IDATA) + ProcedureEntry(d, p), "procedure", procs[p])
    BY <1>2, ImportPlaces DEF NamesPlaced, procs
  <2>6. Rva(IDATA) + ProcedureEntry(d, p) = ProcedureEntry(d, p) + Rva(IDATA)
    BY <2>3, <1>1 DEF R
  <2> QED BY <2>4, <2>5, <2>6 DEF NamedAt
<1>10. \E k \in PiecesAt(rva + n * SIZEOF_QWORD, "thunk") : idata[k].to = 0
  <2>1. n + 1 \in 1..(n + 1) /\ (n + 1) - 1 = n BY <1>2
  <2>2. PICK k : ThunkAt(k, rva + ((n + 1) - 1) * SIZEOF_QWORD, DllThunks(d)[n + 1])
    BY <2>1, <1>8
  <2> QED BY <2>1, <2>2, <1>4 DEF ThunkAt
<1> QED BY <1>2, <1>9, <1>10 DEF ReadsThunks, procs, n, rva

(* The loader finds what was imported. *)
LEMMA ImportsFound == ImportsWritten => LoaderFindsImports
<1> SUFFICES ASSUME ImportsWritten, stage = "written"
             PROVE  /\ \A d \in DOMAIN import_dlls :
                         /\ \E k \in PiecesAt(ImportDescriptor(d).Name, "dll") :
                              idata[k].name = import_dlls[d].name
                         /\ ReadsThunks(ImportDescriptor(d).FirstThunk, import_dlls[d].imports)
                         /\ ReadsThunks(ImportDescriptor(d).OriginalFirstThunk, import_dlls[d].imports)
                    /\ ImportDescriptor(Len(import_dlls) + 1) = NoDescriptor
  BY DEF LoaderFindsImports
<1>1. ASSUME NEW d \in DOMAIN import_dlls
      PROVE  /\ \E k \in PiecesAt(ImportDescriptor(d).Name, "dll") :
                  idata[k].name = import_dlls[d].name
             /\ ReadsThunks(ImportDescriptor(d).FirstThunk, import_dlls[d].imports)
             /\ ReadsThunks(ImportDescriptor(d).OriginalFirstThunk, import_dlls[d].imports)
  <2>1. /\ ImportDescriptor(d).Name = Rva(IDATA) + DllEntry(d)
        /\ ImportDescriptor(d).FirstThunk = Rva(IDATA) + ThunkAddr(d)
        /\ ImportDescriptor(d).OriginalFirstThunk = Rva(IDATA) + OriginalThunkDist + ThunkAddr(d)
    BY DescriptorsRead
  <2>2. NamedAt(Rva(IDATA) + DllEntry(d), "dll", import_dlls[d].name)
    BY ImportPlaces DEF NamesPlaced
  <2>3. ReadsThunks(Rva(IDATA) + ThunkAddr(d), import_dlls[d].imports) BY ThunksRead
  <2> DEFINE base == Rva(IDATA) + OriginalThunkDist
  <2>4. ReadsThunks(base + ThunkAddr(d), import_dlls[d].imports) BY ThunksRead
  <2> QED BY <2>1, <2>2, <2>3, <2>4 DEF NamedAt
<1>2. ImportDescriptor(Len(import_dlls) + 1) = NoDescriptor BY DescriptorsRead
<1> QED BY <1>1, <1>2


-----------------------------------------------------------------------------
(* What resolving leaves as it was                                         *)

LinesKept ==
  /\ Len(lines') = Len(lines) /\ DOMAIN lines' = DOMAIN lines
  /\ \A k \in Lines :
       /\ lines'[k].kind = lines[k].kind /\ lines'[k].head = lines[k].head
       /\ lines'[k].size = lines[k].size /\ lines'[k].repr = lines[k].repr

LEMMA LineReplaced ==
  ASSUME AsmTypeOK, at \in Lines, NEW new \in AsmLine, lines' = [lines EXCEPT ![at] = new],
         new.kind = lines[at].kind, new.head = lines[at].head,
         new.size = lines[at].size, new.repr = lines[at].repr
  PROVE  LinesKept
<1>1. lines \in Seq(AsmLine) /\ Len(lines) \in Nat /\ DOMAIN lines = 1..Len(lines)
  BY DEF AsmTypeOK
<1>2. at \in 1..Len(lines) BY DEF Lines
<1>3. Len(lines') = Len(lines) /\ DOMAIN lines' = DOMAIN lines BY <1>1, <1>2
<1>4. \A k \in Lines : lines'[k] = IF k = at THEN new ELSE lines[k] BY <1>1 DEF Lines
<1> QED BY <1>3, <1>4 DEF LinesKept

LEMMA AdvanceKeeps ==
  ASSUME AsmTypeOK, at \in Lines, NEW size, NEW rel \in Int, Advance(size, rel),
         size = Line.size
  PROVE  LinesKept
<1> DEFINE new == [lines[at] EXCEPT !.size = size, !.rel = rel]
<1>1. lines[at] \in AsmLine /\ lines[at].size \in Nat BY LineFields
<1>2. /\ new \in AsmLine /\ new.size = lines[at].size
      /\ new.kind = lines[at].kind /\ new.head = lines[at].head
      /\ new.repr = lines[at].repr
  BY <1>1 DEF AsmLine, Line
<1>3. lines \in Seq(AsmLine) BY DEF AsmTypeOK
<1>4. lines' = [lines EXCEPT ![at] = new] BY <1>3 DEF Advance, Lines
<1> HIDE DEF new
<1> QED BY <1>2, <1>4, LineReplaced

(* No instruction changes its bytes: set_rva assumes the sizes they have.  *)
LEMMA ResolvingKeeps ==
  ASSUME AsmInv, Resolving
  PROVE  LinesKept
<1>0. AsmTypeOK /\ Sized /\ InLoop BY DEF AsmInv
<1>1. ASSUME NEW p, LoopAt(p)
      PROVE  /\ at \in Lines /\ SizeKnown(Line)
             /\ Line.size \in Nat /\ Line.rel \in Int /\ Line.offset \in Nat
  <2>1. at \in Nat /\ Len(lines) \in Nat BY <1>0 DEF AsmTypeOK
  <2>2. at \in Lines BY <2>1, <1>0, <1>1 DEF LoopAt, InLoop, Lines
  <2> QED BY <2>2, <1>0, LineFields DEF Line, Sized
<1>2. lines' = lines => LinesKept BY DEF LinesKept
<1>3. CASE ApplyOffset
  <2>1. LoopAt("offsets") /\ lines' = [lines EXCEPT ![at].offset = count]
    BY <1>3 DEF ApplyOffset
  <2>2. at \in Lines BY <2>1, <1>1
  <2>3. lines[at] \in AsmLine /\ count \in Nat BY <2>2, <1>0, LineFields DEF AsmTypeOK
  <2> DEFINE new == [lines[at] EXCEPT !.offset = count]
  <2>4. /\ new \in AsmLine /\ new.size = lines[at].size
        /\ new.kind = lines[at].kind /\ new.head = lines[at].head
        /\ new.repr = lines[at].repr
    BY <2>3 DEF AsmLine
  <2>5. lines \in Seq(AsmLine) BY <1>0 DEF AsmTypeOK
  <2>6. lines' = [lines EXCEPT ![at] = new] BY <2>1, <2>2, <2>5 DEF Lines
  <2> HIDE DEF new
  <2> QED BY <2>2, <2>4, <2>6, <1>0, LineReplaced
<1>4. CASE ResolveLabels \/ Fails BY <1>2, <1>4 DEF ResolveLabels, Fails
<1>5. CASE ResolveJump
  <2>1. /\ LoopAt("resolve") /\ Line.kind = "jmp_label" /\ Line.label \in DOMAIN labelsOffset
        /\ Advance(5, labelsOffset[Line.label] - Line.offset - 5)
    BY <1>5 DEF ResolveJump
  <2>2. at \in Lines /\ Line.size = 5 /\ Line.offset \in Nat BY <2>1, <1>1 DEF SizeKnown
  <2>3. labelsOffset[Line.label] \in Nat BY <2>1, <1>0, TableValues DEF AsmTypeOK
  <2> DEFINE rel == labelsOffset[Line.label] - Line.offset - 5
  <2>4. rel \in Int /\ Advance(5, rel) BY <2>1, <2>2, <2>3
  <2> HIDE DEF rel
  <2> QED BY <2>2, <2>4, <1>0, AdvanceKeeps
<1>6. CASE ResolveCall
  <2>1. /\ LoopAt("resolve") /\ Calls(Line) /\ Line.repr \in DOMAIN imports
        /\ Advance(6, imports[Line.repr] - Rip)
    BY <1>6 DEF ResolveCall
  <2>2. at \in Lines /\ Line.size = 6 BY <2>1, <1>1 DEF SizeKnown
  <2>3. imports[Line.repr] \in Nat BY <2>1, <1>0, TableValues DEF AsmTypeOK
  <2>4. Rip \in Int
    <3>1. Bytes(lines[at]) \in Nat /\ virtualAddress \in Nat /\ count \in Nat
      BY <2>2, <1>0, LineFields DEF AsmTypeOK
    <3> QED BY <3>1 DEF Rip, Line
  <2> DEFINE rel == imports[Line.repr] - Rip
  <2>5. rel \in Int /\ Advance(6, rel) BY <2>1, <2>3, <2>4
  <2> HIDE DEF rel
  <2> QED BY <2>2, <2>5, <1>0, AdvanceKeeps
<1>7. CASE ResolveLoad
  <2>1. /\ LoopAt("resolve") /\ Loads(Line) /\ Line.repr \in DOMAIN datas
        /\ Advance(7, datas[Line.repr] - Rip)
    BY <1>7 DEF ResolveLoad
  <2>2. datas[Line.repr] \in Nat /\ Line.repr \in Symbols BY <2>1, <1>0, TableValues DEF AsmTypeOK
  <2>3. at \in Lines /\ Line.size = 7 BY <2>1, <2>2, <1>1 DEF SizeKnown
  <2>4. Rip \in Int
    <3>1. Bytes(lines[at]) \in Nat /\ virtualAddress \in Nat /\ count \in Nat
      BY <2>3, <1>0, LineFields DEF AsmTypeOK
    <3> QED BY <3>1 DEF Rip, Line
  <2> DEFINE rel == datas[Line.repr] - Rip
  <2>5. rel \in Int /\ Advance(7, rel) BY <2>1, <2>2, <2>4
  <2> HIDE DEF rel
  <2> QED BY <2>3, <2>5, <1>0, AdvanceKeeps
<1>8. CASE ResolveOther
  <2>1. LoopAt("resolve") /\ Advance(Line.size, Line.rel) BY <1>8 DEF ResolveOther
  <2>2. at \in Lines /\ Line.rel \in Int BY <2>1, <1>1
  <2> QED BY <2>1, <2>2, <1>0, AdvanceKeeps
<1> QED BY <1>3, <1>4, <1>5, <1>6, <1>7, <1>8 DEF Resolving

(* The bytes of the program, of lines that are kept *)
LineBytes == [i \in DOMAIN lines |-> Bytes(lines[i])]

LEMMA LineBytesAre ==
  ASSUME AsmTypeOK
  PROVE  /\ LineBytes \in Seq(Nat) /\ Len(LineBytes) = Len(lines)
         /\ \A k \in Lines : LineBytes[k] = Bytes(lines[k])
         /\ bytesCount = Sum(LineBytes) /\ bytesCount \in Nat
<1>1. Len(lines) \in Nat /\ DOMAIN lines = 1..Len(lines) BY DEF AsmTypeOK
<1>2. \A k \in Lines : Bytes(lines[k]) \in Nat BY LineFields
<1>3. LineBytes \in Seq(Nat) /\ Len(LineBytes) = Len(lines)
  BY <1>1, <1>2 DEF LineBytes, Lines
<1>4. \A k \in Lines : LineBytes[k] = Bytes(lines[k]) BY <1>1 DEF LineBytes, Lines
<1>5. bytesCount = Sum(LineBytes) BY DEF bytesCount, LineBytes
<1>6. Sum(LineBytes) \in Nat BY <1>3, SumIsNat
<1> QED BY <1>3, <1>4, <1>5, <1>6

LEMMA BytesCountKept ==
  ASSUME AsmTypeOK, LinesKept
  PROVE  bytesCount' = bytesCount
<1>1. DOMAIN lines = Lines BY DEF AsmTypeOK, Lines
<1>2. \A k \in DOMAIN lines : Bytes(lines'[k]) = Bytes(lines[k])
  BY <1>1 DEF LinesKept, Bytes
<1>3. [i \in DOMAIN lines' |-> Bytes(lines'[i])] = [i \in DOMAIN lines |-> Bytes(lines[i])]
  BY <1>2 DEF LinesKept
<1>4. bytesCount' = Sum([i \in DOMAIN lines' |-> Bytes(lines'[i])]) BY DEF bytesCount, Bytes
<1>5. bytesCount = Sum([i \in DOMAIN lines |-> Bytes(lines[i])]) BY DEF bytesCount
<1> QED BY <1>3, <1>4, <1>5

(* toBytes writes as many as bytesCount has counted. *)
LEMMA AssembledBytes ==
  ASSUME AsmInv, Assembled
  PROVE  count = bytesCount
<1> DEFINE N == Len(lines)
           s == LineBytes
<1>0. AsmTypeOK /\ InLoop /\ Offsets BY DEF AsmInv
<1>1. phase = "bytes" /\ at > N BY DEF Assembled, LoopEnds
<1>2. N \in Nat /\ at \in Nat /\ virtualAddress \in Nat /\ count \in Nat BY <1>0 DEF AsmTypeOK
<1>3. at = N + 1 BY <1>0, <1>1, <1>2 DEF InLoop
<1>4. Placed(N) /\ virtualAddress + count = Pos(at) BY <1>0, <1>1 DEF Offsets
<1>5. s \in Seq(Nat) /\ Len(s) = N /\ bytesCount = Sum(s) BY <1>0, LineBytesAre
<1> HIDE DEF s
<1>6. PICK G : Totals(G, s) /\ Sum(s) = G[Len(s)] BY <1>5, TotalsExist
<1>7. \A n \in 0..N : G[n] \in Nat BY <1>5, <1>6 DEF Totals
<1> DEFINE T == {n \in 0..N : Pos(n + 1) = virtualAddress + G[n]}
<1>8. 0 \in T
  <2>1. Pos(1) = virtualAddress BY DEF Pos
  <2>2. G[0] = 0 BY <1>6 DEF Totals
  <2>3. 0 + 1 = 1 /\ virtualAddress + 0 = virtualAddress /\ 0 \in 0..N BY <1>2
  <2> QED BY <2>1, <2>2, <2>3
<1>9. \A n \in 0..(N - 1) : n \in T => n + 1 \in T
  <2> SUFFICES ASSUME NEW n \in 0..(N - 1), n \in T PROVE n + 1 \in T
    OBVIOUS
  <2> DEFINE m == n + 1
  <2>1. m \in Lines /\ m \in 1..N /\ m \in 0..N /\ m - 1 = n BY <1>2 DEF Lines
  <2>2. Pos(m) = virtualAddress + G[n] OBVIOUS
  <2> HIDE DEF m
  <2>3. lines[m].offset = Pos(m) BY <2>1, <1>4 DEF Placed
  <2>4. Pos(m + 1) = Pos(m) + Bytes(lines[m]) BY <2>1, <2>3, <1>0, PosNext
  <2>5. G[m] = G[n] + Bytes(lines[m])
    <3>1. G[m] = G[m - 1] + s[m] BY <2>1, <1>5, <1>6 DEF Totals
    <3>2. s[m] = Bytes(lines[m]) BY <2>1, <1>0, LineBytesAre DEF s
    <3> QED BY <2>1, <3>1, <3>2
  <2>6. G[n] \in Nat /\ Bytes(lines[m]) \in Nat BY <2>1, <1>0, <1>7, LineFields
  <2>7. Pos(m + 1) = virtualAddress + G[m] BY <2>2, <2>4, <2>5, <2>6, <1>2
  <2> QED BY <2>1, <2>7 DEF m
<1>10. N \in T
  <2> HIDE DEF T
  <2>1. N \in 0..N BY <1>2
  <2> QED BY <2>1, <1>2, <1>8, <1>9, UpTo
<1>11. virtualAddress + count = virtualAddress + G[N] BY <1>3, <1>4, <1>10
<1>12. G[N] \in Nat
  <2>1. N \in 0..N BY <1>2
  <2> QED BY <2>1, <1>7
<1>13. count = G[N] BY <1>2, <1>11, <1>12
<1> QED BY <1>5, <1>6, <1>13


(* build writes as many bytes as total_size has counted. *)
LEMMA ImportBytes ==
  ASSUME import_dlls \in Seq(Dll), thunks = AllThunks, descs = AllDescs, NEW rva \in Nat
  PROVE  Sum(PieceSizes(ImportPieces(rva))) = total_size /\ total_size \in Nat
<1> DEFINE T == Len(thunks)
           D == Len(descs)
           M == Len(DirectoryPieces)
           pieces == ImportPieces(rva)
           s == PieceSizes(pieces)
<1>1. thunks \in Seq(Nat) BY ThunkPlaces
<1>2. descs \in Seq(Desc) BY DescsAre
<1>3. DirectoryPieces \in Seq(NamePiece) /\ PieceSizes(DirectoryPieces) \in Seq(Nat)
  <2> DEFINE ss == [d \in DOMAIN import_dlls |-> DllPieces(import_dlls[d])]
  <2>1. ss \in Seq(Seq(NamePiece)) /\ DirectoryPieces = FlattenSeq(ss) BY DirectoryIs
  <2> HIDE DEF ss
  <2>2. PICK F \in [0..Len(ss) -> Seq(NamePiece)] : F[Len(ss)] = FlattenSeq(ss)
    BY <2>1, FlattenSteps
  <2>3. Len(ss) \in 0..Len(ss) BY <2>1
  <2>4. DirectoryPieces \in Seq(NamePiece) BY <2>1, <2>2, <2>3
  <2> QED BY <2>4, NamePieceSizes, SizesAre
<1>4. T \in Nat /\ D \in Nat /\ M \in Nat BY <1>1, <1>2, <1>3
<1>5. Arranged(pieces, rva) BY <1>1, <1>2, <1>3, ImportPiecesAre
<1> HIDE DEF pieces
<1>6. s \in Seq(Nat) /\ Len(s) = T + D + T + M
  <2>1. s \in Seq(Nat) /\ Len(s) = Len(pieces) BY <1>5, ArrangedSizes
  <2>2. Len(pieces) = T + D + T + M BY <1>5 DEF Arranged
  <2> QED BY <2>1, <2>2
<1>7. PICK G : Totals(G, s) /\ Sum(s) = G[Len(s)]
  <2> HIDE DEF s
  <2> QED BY <1>6, TotalsExist
<1>8. PICK H : Totals(H, PieceSizes(DirectoryPieces)) BY <1>3, TotalsExist
<1>9. Running(G, H) BY <1>1, <1>2, <1>3, <1>5, <1>7, <1>8, ImportTotals
<1>10. H[M] = DirectoryBytes(import_dlls) BY <1>8, DirectoryPlaces
<1>11. G[T + D + T + M] = T * 8 + D * 20 + T * 8 + H[M] /\ H[M] \in Nat
  <2>1. M \in 0..M BY <1>4
  <2> QED BY <2>1, <1>9 DEF Running
<1>12. total_size = T * 8 + T * 8 + D * 20 + DirectoryBytes(import_dlls)
  BY DEF total_size, iat_size, image_import_descs_size, SIZEOF_QWORD,
         IMAGE_SIZEOF_IMPORT_DESCRIPTOR
<1> HIDE DEF T, D, M, s
<1>13. Sum(s) = T * 8 + D * 20 + T * 8 + H[M] BY <1>6, <1>7, <1>11
<1>14. Sum(s) = total_size /\ total_size \in Nat BY <1>4, <1>10, <1>11, <1>12, <1>13
<1> QED BY <1>14 DEF s, pieces

-----------------------------------------------------------------------------
(* The invariant of the writer                                             *)

DataKnown ==
  /\ data_bytes \in Nat /\ current_offset \in Nat /\ symbols \in Tables(Symbols, Nat)
  /\ strings \in Seq(Symbols)

Collecting == stage \in {"data", "imports"}
PreparedOnce ==
  /\ import_dlls \in Seq(Dll)
  /\ Collecting => thunks = <<>> /\ descs = <<>>
  /\ ~Collecting => thunks = AllThunks /\ descs = AllDescs

(* What is announced of a section is still so when it is written.          *)
SizesKept ==
  /\ stage \in {"data", "imports", "code"} => Len(sizes) = 0
  /\ Len(sizes) >= TEXT => sizes[TEXT] = bytesCount
  /\ Len(sizes) >= DATA => sizes[DATA] = data_bytes
  /\ Len(sizes) >= IDATA => sizes[IDATA] = total_size

Addressed == stage \in {"resolving", "writing", "written"}
AddressesKept ==
  Addressed =>
    /\ Built
    /\ virtualAddress = Rva(TEXT)
    /\ imports = ImportAddresses(Rva(IDATA))
    /\ datas = DataAddresses(Rva(DATA))

WrittenInOrder ==
  /\ Len(written) > 0 => Assembled
  /\ stage = "written" => Assembled /\ idata = ImportPieces(Rva(IDATA))

Stages == {"data", "imports", "code", "headers", "resolving", "writing", "written"}
PeInv ==
  /\ AsmInv /\ SecInv /\ stage \in Stages
  /\ DataKnown /\ PreparedOnce /\ SizesKept /\ AddressesKept /\ WrittenInOrder

-----------------------------------------------------------------------------
LEMMA PeInvInit == Init => PeInv
<1> SUFFICES ASSUME Init PROVE PeInv
  OBVIOUS
<1>1. DataInit /\ ImportInit /\ AsmInit /\ SecInit /\ stage = "data" BY DEF Init
<1>2. AsmInv /\ SecInv BY <1>1, AsmInvInit, SecInvInit
<1>3. DataKnown
  <2>1. <<>> \in Tables(Symbols, Nat)
    <3>1. <<>> \in [{} -> Nat] OBVIOUS
    <3> QED BY <3>1 DEF Tables
  <2> QED BY <2>1, <1>1 DEF DataInit, DataKnown
<1>4. PreparedOnce BY <1>1 DEF ImportInit, PreparedOnce, Collecting
<1>5. Len(sizes) = 0 /\ Len(written) = 0 BY <1>1 DEF SecInit
<1>6. SizesKept BY <1>5 DEF SizesKept, TEXT, DATA, IDATA
<1>7. AddressesKept /\ WrittenInOrder BY <1>1, <1>5 DEF AddressesKept, Addressed, WrittenInOrder
<1> QED BY <1>1, <1>2, <1>3, <1>4, <1>6, <1>7 DEF PeInv, Stages

(* An operator that reads nothing that changes stays as it is. *)
LEMMA ImportsStay ==
  ASSUME UNCHANGED importVars
  PROVE  /\ AllThunks' = AllThunks /\ AllDescs' = AllDescs /\ total_size' = total_size
         /\ \A rva : ImportPieces(rva)' = ImportPieces(rva)
         /\ \A rva : ImportAddresses(rva)' = ImportAddresses(rva)
BY DEF importVars, AllThunks, AllDescs, DllThunks, ProcedureEntry, DllEntry, StartDirectory,
       OriginalThunkDist, Descriptor, ThunkAddr, total_size, iat_size, image_import_descs_size,
       ImportPieces, ThunkPieces, DescriptorPieces, DirectoryPieces, ImportAddresses,
       ImportedProcedures, FindImport

LEMMA DllsStay ==
  ASSUME UNCHANGED import_dlls
  PROVE  AllThunks' = AllThunks /\ AllDescs' = AllDescs
BY DEF AllThunks, AllDescs, DllThunks, ProcedureEntry, DllEntry, StartDirectory,
       OriginalThunkDist, Descriptor, ThunkAddr


LEMMA SecInvStutter ==
  ASSUME SecInv, UNCHANGED secVars
  PROVE  SecInv'
BY DEF secVars, SecInv, SecTypeOK, NextBehindAll, Lengths, InSequence, Behind, FileInSequence,
       SectionsApart, WrittenWhereSaid

(* What depends on the assembler or the sections only, when they rest.     *)
LEMMA AsmRests ==
  ASSUME UNCHANGED asmVars
  PROVE  bytesCount' = bytesCount /\ Assembled' = Assembled
BY DEF asmVars, bytesCount, Bytes, Assembled, LoopEnds

LEMMA SecRests ==
  ASSUME UNCHANGED secVars
  PROVE  /\ \A section : Rva(section)' = Rva(section)
         /\ Built' = Built /\ sizes' = sizes /\ written' = written
BY DEF secVars, Rva, Built

(* Strings, DLLs and procedures are collected. *)
LEMMA PeInvCollectData ==
  ASSUME PeInv, CollectData
  PROVE  PeInv'
<1>0. /\ AsmInv /\ SecInv /\ DataKnown /\ PreparedOnce /\ SizesKept /\ WrittenInOrder
  BY DEF PeInv
<1>1. PICK sym \in Symbols : AddData(sym) BY DEF CollectData
<1>2. /\ stage = "data" /\ stage' = "data" /\ UNCHANGED importVars /\ UNCHANGED asmVars
      /\ UNCHANGED secVars
  BY DEF CollectData
<1>3. AsmInv' /\ SecInv' BY <1>0, <1>2, AsmInvStutter, SecInvStutter
<1>4. DataKnown'
  <2>1. /\ strings' = Append(strings, sym) /\ data_bytes' = data_bytes + Length[sym] + 1
        /\ symbols' = [s \in DOMAIN symbols \cup {sym} |->
                         IF s = sym THEN current_offset ELSE symbols[s]]
        /\ current_offset' = current_offset + data_bytes'
    BY <1>1 DEF AddData
  <2>2. Length[sym] \in Nat BY PeNamesAssumption
  <2>3. data_bytes' \in Nat /\ current_offset' \in Nat BY <1>0, <2>1, <2>2 DEF DataKnown
  <2>4. strings' \in Seq(Symbols) BY <1>0, <2>1 DEF DataKnown
  <2>5. symbols' \in Tables(Symbols, Nat)
    <3>1. DOMAIN symbols \subseteq Symbols /\ \A s \in DOMAIN symbols : symbols[s] \in Nat
      BY <1>0, TableValues DEF DataKnown
    <3> DEFINE known == DOMAIN symbols \cup {sym}
    <3>2. known \in SUBSET Symbols BY <3>1
    <3>3. symbols' \in [known -> Nat] BY <1>0, <2>1, <3>1 DEF DataKnown
    <3> HIDE DEF known
    <3> QED BY <3>2, <3>3 DEF Tables
  <2> QED BY <2>3, <2>4, <2>5 DEF DataKnown
<1>5. PreparedOnce'
  <2>1. thunks' = thunks /\ descs' = descs /\ import_dlls' = import_dlls BY <1>2 DEF importVars
  <2> QED BY <1>0, <1>2, <2>1, ImportsStay DEF PreparedOnce, Collecting
<1>6. SizesKept'
  <2>1. Len(sizes') = 0 BY <1>0, <1>2, SecRests DEF SizesKept
  <2> QED BY <2>1 DEF SizesKept, TEXT, DATA, IDATA
<1>7. AddressesKept' BY <1>2 DEF AddressesKept, Addressed
<1>8. WrittenInOrder'
  <2>1. Assembled' = Assembled /\ written' = written BY <1>2, AsmRests, SecRests
  <2> QED BY <1>0, <1>2, <2>1 DEF WrittenInOrder
<1> QED BY <1>2, <1>3, <1>4, <1>5, <1>6, <1>7, <1>8 DEF PeInv, Stages

LEMMA PeInvCollectImports ==
  ASSUME PeInv, CollectImports
  PROVE  PeInv'
<1>0. /\ AsmInv /\ SecInv /\ DataKnown /\ PreparedOnce /\ SizesKept /\ WrittenInOrder
  BY DEF PeInv
<1>1. /\ stage \in {"data", "imports"} /\ stage' = "imports"
      /\ UNCHANGED dataVars /\ UNCHANGED asmVars /\ UNCHANGED secVars
  BY DEF CollectImports
<1>2. AsmInv' /\ SecInv' BY <1>0, <1>1, AsmInvStutter, SecInvStutter
<1>3. DataKnown' BY <1>0, <1>1 DEF DataKnown, dataVars
<1>4. import_dlls \in Seq(Dll) /\ thunks = <<>> /\ descs = <<>>
  BY <1>0, <1>1 DEF PreparedOnce, Collecting
<1>5. import_dlls' \in Seq(Dll) /\ thunks' = thunks /\ descs' = descs
  <2>1. ASSUME NEW dll \in Dlls, AddDll(dll)
        PROVE  import_dlls' \in Seq(Dll) /\ thunks' = thunks /\ descs' = descs
    <3> DEFINE new == [name |-> dll, imports |-> <<>>]
    <3>1. new \in Dll BY DEF Dll
    <3>2. import_dlls' = Append(import_dlls, new) /\ thunks' = thunks /\ descs' = descs
      BY <2>1 DEF AddDll
    <3> HIDE DEF new
    <3> QED BY <3>1, <3>2, <1>4
  <2>2. ASSUME NEW d \in DOMAIN import_dlls, NEW proc \in Procedures, AddProcedure(d, proc)
        PROVE  import_dlls' \in Seq(Dll) /\ thunks' = thunks /\ descs' = descs
    <3> DEFINE old == import_dlls[d]
               new == [old EXCEPT !.imports = Append(@, proc)]
    <3>1. old \in Dll BY <1>4
    <3>2. new \in Dll
      <4> HIDE DEF old
      <4>1. old.imports \in Seq(Procedures) /\ old.name \in Dlls BY <3>1 DEF Dll
      <4>2. Append(old.imports, proc) \in Seq(Procedures) BY <4>1
      <4>3. new = [old EXCEPT !.imports = Append(old.imports, proc)] OBVIOUS
      <4> HIDE DEF new
      <4> QED BY <3>1, <4>1, <4>2, <4>3 DEF Dll
    <3>3. import_dlls' = [import_dlls EXCEPT ![d] = new] /\ thunks' = thunks /\ descs' = descs
      BY <2>2 DEF AddProcedure
    <3> HIDE DEF new
    <3> QED BY <3>2, <3>3, <1>4
  <2> QED BY <2>1, <2>2 DEF CollectImports
<1>6. PreparedOnce' BY <1>1, <1>4, <1>5 DEF PreparedOnce, Collecting
<1>7. SizesKept'
  <2>1. Len(sizes') = 0 BY <1>0, <1>1, SecRests DEF SizesKept
  <2> QED BY <2>1 DEF SizesKept, TEXT, DATA, IDATA
<1>8. AddressesKept' BY <1>1 DEF AddressesKept, Addressed
<1>9. WrittenInOrder'
  <2>1. Assembled' = Assembled /\ written' = written BY <1>1, AsmRests, SecRests
  <2> QED BY <1>0, <1>1, <2>1 DEF WrittenInOrder
<1> QED BY <1>1, <1>2, <1>3, <1>6, <1>7, <1>8, <1>9 DEF PeInv, Stages

(* prepare *)
LEMMA PeInvPrepare ==
  ASSUME PeInv, PrepareImports
  PROVE  PeInv'
<1>0. /\ AsmInv /\ SecInv /\ DataKnown /\ PreparedOnce /\ SizesKept /\ WrittenInOrder
  BY DEF PeInv
<1>1. /\ stage \in {"data", "imports"} /\ stage' = "code" /\ Prepare
      /\ UNCHANGED dataVars /\ UNCHANGED asmVars /\ UNCHANGED secVars
  BY DEF PrepareImports
<1>2. AsmInv' /\ SecInv' BY <1>0, <1>1, AsmInvStutter, SecInvStutter
<1>3. DataKnown' BY <1>0, <1>1 DEF DataKnown, dataVars
<1>4. import_dlls \in Seq(Dll) /\ thunks = <<>> /\ descs = <<>>
  BY <1>0, <1>1 DEF PreparedOnce, Collecting
<1>5. /\ import_dlls' = import_dlls
      /\ thunks' = thunks \o AllThunks
      /\ descs' = Append(descs \o [d \in DOMAIN import_dlls |-> Descriptor(d)], NoDescriptor)
  BY <1>1 DEF Prepare, AllThunks
<1>6. thunks' = AllThunks
  <2>1. AllThunks \in Seq(Nat) BY <1>4, ThunkPlaces
  <2> DEFINE t == AllThunks
  <2> HIDE DEF t
  <2>2. t \in Seq(Nat) BY <2>1 DEF t
  <2>3. <<>> \o t = t BY <2>2
  <2> QED BY <2>3, <1>4, <1>5 DEF t
<1>7. descs' = AllDescs
  <2> DEFINE t == [d \in DOMAIN import_dlls |-> Descriptor(d)]
  <2>1. t \in Seq(Desc)
    <3>1. Len(import_dlls) \in Nat /\ DOMAIN import_dlls = 1..Len(import_dlls) BY <1>4
    <3>2. \A d \in 1..Len(import_dlls) : Descriptor(d) \in Desc BY <1>4, <3>1, Prepared
    <3> QED BY <3>1, <3>2
  <2>2. descs' = Append(<<>> \o t, NoDescriptor) /\ AllDescs = Append(t, NoDescriptor)
    BY <1>4, <1>5 DEF AllDescs
  <2> HIDE DEF t
  <2>3. <<>> \o t = t BY <2>1
  <2> QED BY <2>2, <2>3
<1>8. PreparedOnce'
  <2>1. thunks' = AllThunks' /\ descs' = AllDescs' BY <1>5, <1>6, <1>7, DllsStay
  <2> QED BY <2>1, <1>1, <1>4, <1>5 DEF PreparedOnce, Collecting
<1>9. SizesKept'
  <2>1. Len(sizes') = 0 BY <1>0, <1>1, SecRests DEF SizesKept
  <2> QED BY <2>1 DEF SizesKept, TEXT, DATA, IDATA
<1>10. AddressesKept' BY <1>1 DEF AddressesKept, Addressed
<1>11. WrittenInOrder'
  <2>1. Assembled' = Assembled /\ written' = written BY <1>1, AsmRests, SecRests
  <2> QED BY <1>0, <1>1, <2>1 DEF WrittenInOrder
<1> QED BY <1>1, <1>2, <1>3, <1>8, <1>9, <1>10, <1>11 DEF PeInv, Stages

-----------------------------------------------------------------------------


(* The parts of the invariant, to be cited by one name *)
LEMMA PeInvParts ==
  ASSUME PeInv
  PROVE  /\ AsmInv /\ AsmTypeOK /\ SecInv /\ SecTypeOK /\ stage \in Stages
         /\ DataKnown /\ PreparedOnce /\ SizesKept /\ AddressesKept /\ WrittenInOrder
BY DEF PeInv, AsmInv, SecInv

LEMMA PreparedStays ==
  ASSUME PreparedOnce, UNCHANGED importVars, Collecting' = Collecting
  PROVE  PreparedOnce'
<1>1. import_dlls' = import_dlls /\ thunks' = thunks /\ descs' = descs BY DEF importVars
<1> QED BY <1>1, ImportsStay DEF PreparedOnce

LEMMA DataStays ==
  ASSUME DataKnown, UNCHANGED dataVars
  PROVE  DataKnown'
BY DEF DataKnown, dataVars

(* The addresses stay while nothing they are computed from changes.        *)
LEMMA AddressesStay ==
  ASSUME AddressesKept, UNCHANGED dataVars, UNCHANGED importVars, headers' = headers,
         virtualAddress' = virtualAddress, imports' = imports, datas' = datas,
         Addressed' => Addressed
  PROVE  AddressesKept'
<1>1. \A section : Rva(section)' = Rva(section) BY DEF Rva
<1>2. Built' = Built BY DEF Built
<1>3. \A rva : DataAddresses(rva)' = DataAddresses(rva) BY DEF DataAddresses, dataVars
<1>4. \A rva : ImportAddresses(rva)' = ImportAddresses(rva) BY ImportsStay
<1>5. DataAddresses(Rva(DATA))' = DataAddresses(Rva(DATA)) BY <1>1 DEF DataAddresses, dataVars
<1>6. ImportAddresses(Rva(IDATA))' = ImportAddresses(Rva(IDATA))
  BY <1>1 DEF ImportAddresses, ImportedProcedures, FindImport, importVars
<1> QED BY <1>1, <1>2, <1>5, <1>6 DEF AddressesKept

(* The sizes stay while nothing they are counted from changes.             *)
LEMMA SizesStay ==
  ASSUME SizesKept, stage \notin {"data", "imports", "code"},
         stage' \notin {"data", "imports", "code"},
         sizes' = sizes, bytesCount' = bytesCount, UNCHANGED dataVars, UNCHANGED importVars
  PROVE  SizesKept'
<1>1. total_size' = total_size /\ data_bytes' = data_bytes BY ImportsStay DEF dataVars
<1> QED BY <1>1 DEF SizesKept

(* Before toBytes is through nothing is written. *)
LEMMA NothingWritten ==
  ASSUME WrittenInOrder, ~Assembled, SecTypeOK
  PROVE  Len(written) = 0 /\ stage # "written"
<1>1. Len(written) \in Nat BY DEF SecTypeOK
<1> QED BY <1>1 DEF WrittenInOrder

LEMMA WrittenLater ==
  ASSUME WrittenInOrder, ~Assembled, SecTypeOK, written' = written, stage' # "written"
  PROVE  WrittenInOrder'
BY NothingWritten DEF WrittenInOrder

(* Code is collected. *)
LEMMA PeInvCollectCode ==
  ASSUME PeInv, CollectCode
  PROVE  PeInv'
<1>0. PeInv BY DEF PeInv
<1>1. /\ stage = "code" /\ stage' = "code" /\ Api
      /\ UNCHANGED dataVars /\ UNCHANGED importVars /\ UNCHANGED secVars
  BY DEF CollectCode
<1>2. AsmInv' /\ SecInv' BY <1>1, PeInvParts, AsmInvApi, SecInvStutter
<1>3. DataKnown' BY <1>1, PeInvParts, DataStays
<1>4. PreparedOnce' BY <1>1, PeInvParts, PreparedStays DEF Collecting
<1>5. SizesKept'
  <2>1. Len(sizes') = 0 BY <1>1, PeInvParts, SecRests DEF SizesKept
  <2> QED BY <2>1 DEF SizesKept, TEXT, DATA, IDATA
<1>6. AddressesKept' BY <1>1 DEF AddressesKept, Addressed
<1>7. ~Assembled
  <2>1. phase = "code"
    BY <1>1 DEF Api, Plain, Lea, MakeLabel, Jump, Call, Load, AddLine
  <2> QED BY <2>1 DEF Assembled, LoopEnds
<1>8. WrittenInOrder'
  <2>1. written' = written BY <1>1 DEF secVars
  <2> QED BY <2>1, <1>1, <1>7, PeInvParts, WrittenLater
<1> QED BY <1>1, <1>2, <1>3, <1>4, <1>5, <1>6, <1>8 DEF PeInv, Stages

(* The sizes are announced, each when those before it are. *)
LEMMA PeInvAnnounce ==
  ASSUME PeInv, Announce
  PROVE  PeInv'
<1> DEFINE n == Len(sizes) + 1
           size == CASE n = TEXT -> bytesCount [] n = DATA -> data_bytes
                     [] n = IDATA -> total_size
<1>1. /\ stage \in {"code", "headers"} /\ stage' = "headers" /\ AddSection(size)
      /\ UNCHANGED dataVars /\ UNCHANGED importVars /\ UNCHANGED asmVars
  BY DEF Announce
<1>2. sizes \in Seq(Nat) /\ Len(sizes) \in Nat /\ Len(sizes) < 3 /\ n \in {1, 2, 3}
  BY <1>1, PeInvParts DEF SecTypeOK, AddSection, NumSections
<1>3. bytesCount \in Nat /\ data_bytes \in Nat /\ total_size \in Nat
  <2>1. bytesCount \in Nat BY PeInvParts, LineBytesAre
  <2>2. data_bytes \in Nat BY PeInvParts DEF DataKnown
  <2>3. import_dlls \in Seq(Dll) /\ thunks = AllThunks /\ descs = AllDescs
    BY <1>1, PeInvParts DEF PreparedOnce, Collecting
  <2>4. 0 \in Nat OBVIOUS
  <2>5. total_size \in Nat BY <2>3, <2>4, ImportBytes
  <2> QED BY <2>1, <2>2, <2>5
<1>4. /\ n = 1 => size = bytesCount
      /\ n = 2 => size = data_bytes
      /\ n = 3 => size = total_size
  BY DEF TEXT, DATA, IDATA
<1>5. size \in Nat BY <1>2, <1>3, <1>4
<1> HIDE DEF size
<1>6. AsmInv' /\ SecInv' BY <1>1, <1>5, PeInvParts, AsmInvStutter, SecInvAdd
<1>7. DataKnown' BY <1>1, PeInvParts, DataStays
<1>8. PreparedOnce' BY <1>1, PeInvParts, PreparedStays DEF Collecting
<1>9. sizes' = Append(sizes, size) /\ written' = written BY <1>1 DEF AddSection
<1>10. bytesCount' = bytesCount /\ total_size' = total_size /\ data_bytes' = data_bytes
       /\ Assembled' = Assembled
  BY <1>1, AsmRests, ImportsStay DEF dataVars
<1>11. SizesKept'
  <2>1. Len(sizes') = n /\ sizes'[n] = size /\ \A i \in 1..(n - 1) : sizes'[i] = sizes[i]
    BY <1>2, <1>5, <1>9
  <2>2. /\ Len(sizes) >= 1 => sizes[1] = bytesCount
        /\ Len(sizes) >= 2 => sizes[2] = data_bytes
        /\ Len(sizes) >= 3 => sizes[3] = total_size
    BY PeInvParts DEF SizesKept, TEXT, DATA, IDATA
  <2>3. CASE n = 1 BY <1>1, <1>4, <1>10, <2>1, <2>3 DEF SizesKept, TEXT, DATA, IDATA
  <2>4. CASE n = 2 BY <1>1, <1>2, <1>4, <1>10, <2>1, <2>2, <2>4 DEF SizesKept, TEXT, DATA, IDATA
  <2>5. CASE n = 3 BY <1>1, <1>2, <1>4, <1>10, <2>1, <2>2, <2>5 DEF SizesKept, TEXT, DATA, IDATA
  <2> QED BY <1>2, <2>3, <2>4, <2>5
<1>12. AddressesKept' BY <1>1 DEF AddressesKept, Addressed
<1>13. WrittenInOrder' BY <1>1, <1>9, <1>10, PeInvParts DEF WrittenInOrder
<1> QED BY <1>1, <1>6, <1>7, <1>8, <1>11, <1>12, <1>13 DEF PeInv, Stages

(* The headers are built. *)
LEMMA PeInvBuildHeaders ==
  ASSUME PeInv, BuildHeaders
  PROVE  PeInv'
<1>1. /\ stage = "headers" /\ stage' = "headers" /\ BuildHeader
      /\ UNCHANGED dataVars /\ UNCHANGED importVars /\ UNCHANGED asmVars
  BY DEF BuildHeaders
<1>2. AsmInv' /\ SecInv' BY <1>1, PeInvParts, AsmInvStutter, SecInvBuild
<1>3. DataKnown' BY <1>1, PeInvParts, DataStays
<1>4. PreparedOnce' BY <1>1, PeInvParts, PreparedStays DEF Collecting
<1>5. sizes' = sizes /\ written' = written BY <1>1 DEF BuildHeader
<1>6. bytesCount' = bytesCount /\ Assembled' = Assembled BY <1>1, AsmRests
<1>7. SizesKept' BY <1>1, <1>5, <1>6, PeInvParts, SizesStay
<1>8. AddressesKept' BY <1>1 DEF AddressesKept, Addressed
<1>9. WrittenInOrder' BY <1>1, <1>5, <1>6, PeInvParts DEF WrittenInOrder
<1> QED BY <1>1, <1>2, <1>3, <1>4, <1>7, <1>8, <1>9 DEF PeInv, Stages

(* Sections that have headers have addresses. *)
LEMMA RvaIsNat ==
  ASSUME SecTypeOK, Built, NEW section \in {TEXT, DATA, IDATA}
  PROVE  Rva(section) \in Nat
<1>1. headers \in Seq(Header) /\ section \in 1..Len(headers)
  BY DEF SecTypeOK, Built, NumSections, TEXT, DATA, IDATA
<1>2. headers[section] \in Header BY <1>1
<1> QED BY <1>2 DEF Rva, Header

LEMMA AddressTables ==
  ASSUME import_dlls \in Seq(Dll), DataKnown, NEW rva \in Nat
  PROVE  ImportAddresses(rva) \in Tables(Procedures, Nat) /\ DataAddresses(rva) \in Tables(Symbols, Nat)
<1>1. \A proc \in ImportedProcedures : proc \in Procedures /\ FindImport(proc) \in Nat
  BY FoundImport
<1>2. ImportAddresses(rva) \in [ImportedProcedures -> Nat] BY <1>1 DEF ImportAddresses
<1>3. ImportedProcedures \in SUBSET Procedures BY <1>1
<1>4. DOMAIN symbols \in SUBSET Symbols /\ \A s \in DOMAIN symbols : symbols[s] \in Nat
  BY TableValues DEF DataKnown
<1>5. DataAddresses(rva) \in [DOMAIN symbols -> Nat] BY <1>4 DEF DataAddresses
<1> QED BY <1>2, <1>3, <1>4, <1>5 DEF Tables

(* The code gets its addresses. *)
LEMMA PeInvSetRvas ==
  ASSUME PeInv, SetRvas
  PROVE  PeInv'
<1> DEFINE addr == Rva(TEXT)
           procs == ImportAddresses(Rva(IDATA))
           syms == DataAddresses(Rva(DATA))
<1>1. /\ stage = "headers" /\ stage' = "resolving" /\ Built /\ SetRva(addr, procs, syms)
      /\ UNCHANGED dataVars /\ UNCHANGED importVars /\ UNCHANGED secVars
  BY DEF SetRvas
<1>2. Rva(TEXT) \in Nat /\ Rva(DATA) \in Nat /\ Rva(IDATA) \in Nat
  BY <1>1, PeInvParts, RvaIsNat
<1>3. import_dlls \in Seq(Dll) BY PeInvParts DEF PreparedOnce
<1>4. procs \in Tables(Procedures, Nat) /\ syms \in Tables(Symbols, Nat)
  BY <1>2, <1>3, PeInvParts, AddressTables
<1>5. AsmInv'
  <2> HIDE DEF addr, procs, syms
  <2>1. addr \in Nat BY <1>2 DEF addr
  <2> QED BY <2>1, <1>1, <1>4, PeInvParts, AsmInvSetRva
<1>6. SecInv' BY <1>1, PeInvParts, SecInvStutter
<1>7. DataKnown' BY <1>1, PeInvParts, DataStays
<1>8. PreparedOnce' BY <1>1, PeInvParts, PreparedStays DEF Collecting
<1>9. /\ lines' = lines /\ virtualAddress' = addr /\ imports' = procs /\ datas' = syms
      /\ phase = "code"
  BY <1>1 DEF SetRva
<1>10. bytesCount' = bytesCount BY <1>9 DEF bytesCount, Bytes
<1>11. sizes' = sizes /\ written' = written /\ Built' = Built /\ headers' = headers
  BY <1>1, SecRests DEF secVars
<1>12. SizesKept' BY <1>1, <1>10, <1>11, PeInvParts, SizesStay
<1>13. AddressesKept'
  <2>1. \A section : Rva(section)' = Rva(section) BY <1>11 DEF Rva
  <2>2. ImportAddresses(Rva(IDATA))' = procs
    <3>1. import_dlls' = import_dlls /\ procs = ImportAddresses(Rva(IDATA))
      BY <1>1 DEF importVars
    <3>2. ImportedProcedures' = ImportedProcedures BY <3>1 DEF ImportedProcedures
    <3>3. \A proc : FindImport(proc)' = FindImport(proc) BY <3>1 DEF FindImport
    <3>4. Rva(IDATA)' = Rva(IDATA) BY <2>1
    <3> QED BY <3>1, <3>2, <3>3, <3>4 DEF ImportAddresses
  <2>3. DataAddresses(Rva(DATA))' = syms BY <1>1, <2>1 DEF DataAddresses, dataVars
  <2> QED BY <1>1, <1>9, <1>11, <2>1, <2>2, <2>3 DEF AddressesKept
<1>14. ~Assembled BY <1>9 DEF Assembled, LoopEnds
<1>15. WrittenInOrder' BY <1>1, <1>11, <1>14, PeInvParts, WrittenLater
<1> QED BY <1>1, <1>5, <1>6, <1>7, <1>8, <1>12, <1>13, <1>15 DEF PeInv, Stages

(* The code is resolved. *)
LEMMA AsmInvResolving ==
  ASSUME AsmInv, Resolving
  PROVE  AsmInv'
BY AsmInvApplyOffset, AsmInvResolveLabels, AsmInvResolve, AsmInvFails DEF Resolving

LEMMA PeInvResolveCode ==
  ASSUME PeInv, ResolveCode
  PROVE  PeInv'
<1>1. /\ stage = "resolving" /\ stage' = "resolving" /\ Resolving
      /\ UNCHANGED dataVars /\ UNCHANGED importVars /\ UNCHANGED secVars
  BY DEF ResolveCode
<1>2. AsmInv' /\ SecInv' BY <1>1, PeInvParts, AsmInvResolving, SecInvStutter
<1>3. DataKnown' BY <1>1, PeInvParts, DataStays
<1>4. PreparedOnce' BY <1>1, PeInvParts, PreparedStays DEF Collecting
<1>5. virtualAddress' = virtualAddress /\ imports' = imports /\ datas' = datas
  BY <1>1 DEF Resolving, ApplyOffset, ResolveLabels, ResolveJump, ResolveCall, ResolveLoad,
             ResolveOther, Fails, Advance
<1>6. bytesCount' = bytesCount BY <1>1, PeInvParts, ResolvingKeeps, BytesCountKept
<1>7. sizes' = sizes /\ written' = written /\ headers' = headers BY <1>1 DEF secVars
<1>8. SizesKept' BY <1>1, <1>6, <1>7, PeInvParts, SizesStay
<1>9. AddressesKept' BY <1>1, <1>5, <1>7, PeInvParts, AddressesStay DEF Addressed
<1>10. phase # "bytes"
  BY <1>1 DEF Resolving, ApplyOffset, ResolveLabels, ResolveJump, ResolveCall, ResolveLoad,
             ResolveOther, Fails, LoopAt, LoopEnds
<1>11. ~Assembled BY <1>10 DEF Assembled, LoopEnds
<1>12. WrittenInOrder' BY <1>1, <1>7, <1>11, PeInvParts, WrittenLater
<1> QED BY <1>1, <1>2, <1>3, <1>4, <1>8, <1>9, <1>12 DEF PeInv, Stages

(* The headers are written, and toBytes begins. *)
LEMMA PeInvWriteFileHeaders ==
  ASSUME PeInv, WriteFileHeaders
  PROVE  PeInv'
<1>1. /\ stage = "resolving" /\ stage' = "writing" /\ ToBytes /\ WriteHeaders
      /\ UNCHANGED dataVars /\ UNCHANGED importVars
  BY DEF WriteFileHeaders
<1>2. AsmInv' /\ SecInv' BY <1>1, PeInvParts, AsmInvToBytes, SecInvHeaders
<1>3. DataKnown' BY <1>1, PeInvParts, DataStays
<1>4. PreparedOnce' BY <1>1, PeInvParts, PreparedStays DEF Collecting
<1>5. /\ virtualAddress' = virtualAddress /\ imports' = imports /\ datas' = datas
      /\ lines' = lines /\ phase = "resolve"
  BY <1>1 DEF ToBytes, LoopEnds
<1>6. bytesCount' = bytesCount BY <1>5 DEF bytesCount, Bytes
<1>7. sizes' = sizes /\ written' = written /\ headers' = headers BY <1>1 DEF WriteHeaders
<1>8. SizesKept' BY <1>1, <1>6, <1>7, PeInvParts, SizesStay
<1>9. AddressesKept' BY <1>1, <1>5, <1>7, PeInvParts, AddressesStay DEF Addressed
<1>10. ~Assembled BY <1>5 DEF Assembled, LoopEnds
<1>11. WrittenInOrder' BY <1>1, <1>7, <1>10, PeInvParts, WrittenLater
<1> QED BY <1>1, <1>2, <1>3, <1>4, <1>8, <1>9, <1>11 DEF PeInv, Stages

(* The bytes of the code are put together. *)
LEMMA PeInvPutCode ==
  ASSUME PeInv, PutCode
  PROVE  PeInv'
<1>1. /\ stage = "writing" /\ stage' = "writing" /\ PutLine
      /\ UNCHANGED dataVars /\ UNCHANGED importVars /\ UNCHANGED secVars
  BY DEF PutCode
<1>2. AsmInv' /\ SecInv' BY <1>1, PeInvParts, AsmInvPutLine, SecInvStutter
<1>3. DataKnown' BY <1>1, PeInvParts, DataStays
<1>4. PreparedOnce' BY <1>1, PeInvParts, PreparedStays DEF Collecting
<1>5. /\ virtualAddress' = virtualAddress /\ imports' = imports /\ datas' = datas
      /\ lines' = lines /\ at <= Len(lines)
  BY <1>1 DEF PutLine, LoopAt
<1>6. bytesCount' = bytesCount BY <1>5 DEF bytesCount, Bytes
<1>7. sizes' = sizes /\ written' = written /\ headers' = headers BY <1>1 DEF secVars
<1>8. SizesKept' BY <1>1, <1>6, <1>7, PeInvParts, SizesStay
<1>9. AddressesKept' BY <1>1, <1>5, <1>7, PeInvParts, AddressesStay DEF Addressed
<1>10. ~Assembled
  <2>1. at \in Nat /\ Len(lines) \in Nat BY PeInvParts DEF AsmTypeOK
  <2> QED BY <2>1, <1>5 DEF Assembled, LoopEnds
<1>11. WrittenInOrder' BY <1>1, <1>7, <1>10, PeInvParts, WrittenLater
<1> QED BY <1>1, <1>2, <1>3, <1>4, <1>8, <1>9, <1>11 DEF PeInv, Stages

-----------------------------------------------------------------------------
(* The sections are written, each as long as was announced.                *)
LEMMA SizesComplete ==
  ASSUME PeInv, Built
  PROVE  /\ Len(sizes) = 3 /\ sizes[TEXT] = bytesCount /\ sizes[DATA] = data_bytes
         /\ sizes[IDATA] = total_size
<1>1. Lengths /\ SizesKept BY DEF PeInv, SecInv
<1>2. Len(sizes) = 3 BY <1>1, PeInvParts DEF Lengths, Built, NumSections, SecTypeOK
<1> QED BY <1>1, <1>2 DEF SizesKept, TEXT, DATA, IDATA

LEMMA TextSize ==
  ASSUME PeInv, WriteText
  PROVE  WriteSection(sizes[Len(written) + 1])
<1>1. Assembled /\ Len(written) + 1 = TEXT /\ WriteSection(count) /\ Built
  BY DEF WriteText, WriteSection
<1>2. count = bytesCount BY <1>1, PeInvParts, AssembledBytes
<1>3. sizes[TEXT] = bytesCount BY <1>1, SizesComplete
<1> QED BY <1>1, <1>2, <1>3

LEMMA DataSize ==
  ASSUME PeInv, WriteData
  PROVE  WriteSection(sizes[Len(written) + 1])
<1>1. Len(written) + 1 = DATA /\ WriteSection(data_bytes) /\ Built
  BY DEF WriteData, WriteSection
<1>2. sizes[DATA] = data_bytes BY <1>1, SizesComplete
<1> QED BY <1>1, <1>2

LEMMA ImportSize ==
  ASSUME PeInv, WriteImports
  PROVE  WriteSection(sizes[Len(written) + 1])
<1>1. /\ stage = "writing" /\ Len(written) + 1 = IDATA /\ idata' = ImportPieces(Rva(IDATA))
      /\ WriteSection(Sum(PieceSizes(idata')))
  BY DEF WriteImports
<1>2. Built BY <1>1 DEF WriteSection
<1>3. import_dlls \in Seq(Dll) /\ thunks = AllThunks /\ descs = AllDescs
  BY <1>1, PeInvParts DEF PreparedOnce, Collecting
<1>4. Rva(IDATA) \in Nat BY <1>2, PeInvParts, RvaIsNat
<1>5. Sum(PieceSizes(ImportPieces(Rva(IDATA)))) = total_size BY <1>3, <1>4, ImportBytes
<1>6. sizes[IDATA] = total_size BY <1>2, SizesComplete
<1> QED BY <1>1, <1>5, <1>6

(* What a section that is written leaves as it was *)
LEMMA PeInvWriteSection ==
  ASSUME PeInv, stage = "writing", WriteSection(sizes[Len(written) + 1]),
         UNCHANGED dataVars, UNCHANGED importVars, UNCHANGED asmVars,
         stage' \in {"writing", "written"}
  PROVE  /\ AsmInv' /\ SecInv' /\ DataKnown' /\ PreparedOnce' /\ SizesKept' /\ AddressesKept'
         /\ Assembled' = Assembled /\ Rva(IDATA)' = Rva(IDATA)
<1>1. AsmInv' /\ SecInv' BY PeInvParts, AsmInvStutter, SecInvWrite
<1>2. DataKnown' BY PeInvParts, DataStays
<1>3. PreparedOnce' BY PeInvParts, PreparedStays DEF Collecting
<1>4. sizes' = sizes /\ headers' = headers BY DEF WriteSection
<1>5. bytesCount' = bytesCount /\ Assembled' = Assembled BY AsmRests
<1>6. virtualAddress' = virtualAddress /\ imports' = imports /\ datas' = datas BY DEF asmVars
<1>7. SizesKept' BY <1>4, <1>5, PeInvParts, SizesStay
<1>8. AddressesKept' BY <1>4, <1>6, PeInvParts, AddressesStay DEF Addressed
<1>9. Rva(IDATA)' = Rva(IDATA) BY <1>4 DEF Rva
<1> QED BY <1>1, <1>2, <1>3, <1>5, <1>7, <1>8, <1>9

LEMMA PeInvWriteText ==
  ASSUME PeInv, WriteText
  PROVE  PeInv'
<1>1. /\ stage = "writing" /\ stage' = "writing" /\ Assembled
      /\ UNCHANGED dataVars /\ UNCHANGED importVars /\ UNCHANGED asmVars
  BY DEF WriteText
<1>2. WriteSection(sizes[Len(written) + 1]) BY TextSize
<1>3. /\ AsmInv' /\ SecInv' /\ DataKnown' /\ PreparedOnce' /\ SizesKept' /\ AddressesKept'
      /\ Assembled' = Assembled
  BY <1>1, <1>2, PeInvWriteSection
<1>4. WrittenInOrder' BY <1>1, <1>3 DEF WrittenInOrder
<1> QED BY <1>1, <1>3, <1>4 DEF PeInv, Stages

LEMMA PeInvWriteData ==
  ASSUME PeInv, WriteData
  PROVE  PeInv'
<1>1. /\ stage = "writing" /\ stage' = "writing" /\ Len(written) + 1 = DATA
      /\ UNCHANGED dataVars /\ UNCHANGED importVars /\ UNCHANGED asmVars
  BY DEF WriteData
<1>2. WriteSection(sizes[Len(written) + 1]) BY DataSize
<1>3. /\ AsmInv' /\ SecInv' /\ DataKnown' /\ PreparedOnce' /\ SizesKept' /\ AddressesKept'
      /\ Assembled' = Assembled
  BY <1>1, <1>2, PeInvWriteSection
<1>4. Assembled
  <2>1. Len(written) \in Nat BY PeInvParts DEF SecTypeOK
  <2>2. Len(written) > 0 BY <2>1, <1>1 DEF DATA
  <2> QED BY <2>2, PeInvParts DEF WrittenInOrder
<1>5. WrittenInOrder' BY <1>1, <1>3, <1>4 DEF WrittenInOrder
<1> QED BY <1>1, <1>3, <1>5 DEF PeInv, Stages

LEMMA PeInvWriteImports ==
  ASSUME PeInv, WriteImports
  PROVE  PeInv'
<1>1. /\ stage = "writing" /\ stage' = "written" /\ Len(written) + 1 = IDATA
      /\ UNCHANGED dataVars /\ UNCHANGED importVars /\ UNCHANGED asmVars
      /\ idata' = ImportPieces(Rva(IDATA))
  BY DEF WriteImports
<1>2. WriteSection(sizes[Len(written) + 1]) BY ImportSize
<1>3. /\ AsmInv' /\ SecInv' /\ DataKnown' /\ PreparedOnce' /\ SizesKept' /\ AddressesKept'
      /\ Assembled' = Assembled /\ Rva(IDATA)' = Rva(IDATA)
  BY <1>1, <1>2, PeInvWriteSection
<1>4. Assembled
  <2>1. Len(written) \in Nat BY PeInvParts DEF SecTypeOK
  <2>2. Len(written) > 0 BY <2>1, <1>1 DEF IDATA
  <2> QED BY <2>2, PeInvParts DEF WrittenInOrder
<1>5. ImportPieces(Rva(IDATA))' = ImportPieces(Rva(IDATA))
  BY <1>1, <1>3 DEF importVars, ImportPieces, ThunkPieces, DescriptorPieces, DirectoryPieces
<1>6. WrittenInOrder' BY <1>1, <1>3, <1>4, <1>5 DEF WrittenInOrder
<1> QED BY <1>1, <1>3, <1>6 DEF PeInv, Stages

LEMMA PeInvStutter ==
  ASSUME PeInv, UNCHANGED vars
  PROVE  PeInv'
<1>1. /\ UNCHANGED dataVars /\ UNCHANGED importVars /\ UNCHANGED asmVars /\ UNCHANGED secVars
      /\ stage' = stage /\ idata' = idata
  BY DEF vars
<1>2. AsmInv' /\ SecInv' BY <1>1, PeInvParts, AsmInvStutter, SecInvStutter
<1>3. DataKnown' BY <1>1, PeInvParts, DataStays
<1>4. PreparedOnce' BY <1>1, PeInvParts, PreparedStays DEF Collecting
<1>5. /\ virtualAddress' = virtualAddress /\ imports' = imports /\ datas' = datas
      /\ sizes' = sizes /\ written' = written /\ headers' = headers
  BY <1>1 DEF asmVars, secVars
<1>6. bytesCount' = bytesCount /\ Assembled' = Assembled /\ total_size' = total_size
      /\ data_bytes' = data_bytes
  BY <1>1, AsmRests, ImportsStay DEF dataVars
<1>7. SizesKept' BY <1>1, <1>5, <1>6, PeInvParts DEF SizesKept
<1>8. AddressesKept' BY <1>1, <1>5, PeInvParts, AddressesStay DEF Addressed
<1>9. Rva(IDATA)' = Rva(IDATA) BY <1>5 DEF Rva
<1>10. ImportPieces(Rva(IDATA))' = ImportPieces(Rva(IDATA))
  BY <1>1, <1>9 DEF importVars, ImportPieces, ThunkPieces, DescriptorPieces, DirectoryPieces
<1>11. WrittenInOrder' BY <1>1, <1>5, <1>6, <1>9, <1>10, PeInvParts DEF WrittenInOrder
<1> QED BY <1>1, <1>2, <1>3, <1>4, <1>7, <1>8, <1>11, PeInvParts DEF PeInv

-----------------------------------------------------------------------------
(* The writer keeps its invariant: sizes that are announced are those that *)
(* are written, and addresses that were given out stay (PeMainWriter).     *)
THEOREM PeInvAlways == Spec => []PeInv
<1>1. PeInv /\ [Next]_vars => PeInv'
  <2> SUFFICES ASSUME PeInv, [Next]_vars PROVE PeInv'
    OBVIOUS
  <2>1. CASE CollectData BY <2>1, PeInvCollectData
  <2>2. CASE CollectImports BY <2>2, PeInvCollectImports
  <2>3. CASE PrepareImports BY <2>3, PeInvPrepare
  <2>4. CASE CollectCode BY <2>4, PeInvCollectCode
  <2>5. CASE Announce BY <2>5, PeInvAnnounce
  <2>6. CASE BuildHeaders BY <2>6, PeInvBuildHeaders
  <2>7. CASE SetRvas BY <2>7, PeInvSetRvas
  <2>8. CASE ResolveCode BY <2>8, PeInvResolveCode
  <2>9. CASE WriteFileHeaders BY <2>9, PeInvWriteFileHeaders
  <2>10. CASE PutCode BY <2>10, PeInvPutCode
  <2>11. CASE WriteText BY <2>11, PeInvWriteText
  <2>12. CASE WriteData BY <2>12, PeInvWriteData
  <2>13. CASE WriteImports BY <2>13, PeInvWriteImports
  <2>14. CASE UNCHANGED vars BY <2>14, PeInvStutter
  <2> QED BY <2>1, <2>2, <2>3, <2>4, <2>5, <2>6, <2>7, <2>8, <2>9, <2>10, <2>11, <2>12,
             <2>13, <2>14 DEF Next
<1> QED BY <1>1, PeInvInit, PTL DEF Spec

LEMMA WrittenImports ==
  ASSUME PeInv, stage = "written"
  PROVE  ImportsWritten
<1>1. Built BY PeInvParts DEF AddressesKept, Addressed
<1>2. Rva(IDATA) \in Nat BY <1>1, PeInvParts, RvaIsNat
<1>3. import_dlls \in Seq(Dll) /\ thunks = AllThunks /\ descs = AllDescs
  BY PeInvParts DEF PreparedOnce, Collecting
<1>4. idata = ImportPieces(Rva(IDATA)) BY PeInvParts DEF WrittenInOrder
<1> QED BY <1>2, <1>3, <1>4 DEF ImportsWritten

(* A loader finds exactly the DLLs and procedures that were imported, in   *)
(* both tables (ImportSymbols.prepare, build).                             *)
THEOREM LoaderFindsImportsAlways == Spec => []LoaderFindsImports
<1>1. PeInv => LoaderFindsImports
  <2> SUFFICES ASSUME PeInv PROVE LoaderFindsImports
    OBVIOUS
  <2>1. CASE stage = "written" BY <2>1, WrittenImports, ImportsFound
  <2>2. CASE stage # "written" BY <2>2 DEF LoaderFindsImports
  <2> QED BY <2>1, <2>2
<1> QED BY <1>1, PeInvAlways, PTL

(* A call goes through the thunk of the procedure it names, in the first   *)
(* DLL that has it (Asm86.call, set_rva, ImportSymbols.symbol).            *)
THEOREM CallsLandAlways == Spec => []CallsLand
<1>1. PeInv => CallsLand
  <2> SUFFICES ASSUME PeInv, stage = "written", NEW i \in DOMAIN lines, Calls(lines[i])
               PROVE  \E d \in DOMAIN import_dlls : \E p \in DOMAIN import_dlls[d].imports :
                        /\ import_dlls[d].imports[p] = lines[i].repr
                        /\ \A e \in 1..(d - 1) : lines[i].repr \notin ToSet(import_dlls[e].imports)
                        /\ Target(i) = ImportDescriptor(d).FirstThunk + (p - 1) * SIZEOF_QWORD
    BY DEF CallsLand
  <2>1. Assembled /\ ImportsWritten BY PeInvParts, WrittenImports DEF WrittenInOrder
  <2>2. i \in Lines BY PeInvParts DEF AsmTypeOK, Lines
  <2> DEFINE proc == lines[i].repr
  <2>3. proc \in DOMAIN imports /\ After(lines[i]) + lines[i].rel = imports[proc]
    BY <2>1, <2>2, PeInvParts, WrittenLines DEF Leads
  <2>4. Target(i) = imports[proc]
    <3>1. After(lines[i]) = lines[i].offset + lines[i].size BY DEF After, Bytes, Calls
    <3>2. virtualAddress + places[i] = lines[i].offset BY <2>1, <2>2, PeInvParts, WrittenLines
    <3> QED BY <2>3, <3>1, <3>2 DEF Target
  <2>5. imports = ImportAddresses(Rva(IDATA)) BY PeInvParts DEF AddressesKept, Addressed
  <2> HIDE DEF proc
  <2>6. proc \in ImportedProcedures /\ imports[proc] = FindImport(proc) + Rva(IDATA)
    BY <2>3, <2>5 DEF ImportAddresses
  <2>7. import_dlls \in Seq(Dll) /\ Rva(IDATA) \in Nat BY <2>1 DEF ImportsWritten
  <2>8. PICK d \in DOMAIN import_dlls : \E p \in DOMAIN import_dlls[d].imports :
          /\ import_dlls[d].imports[p] = proc
          /\ \A e \in 1..(d - 1) : proc \notin ToSet(import_dlls[e].imports)
          /\ FindImport(proc) = ThunkAddr(d) + (p - 1) * SIZEOF_QWORD
    BY <2>6, <2>7, FoundImport
  <2>9. PICK p \in DOMAIN import_dlls[d].imports :
          /\ import_dlls[d].imports[p] = proc
          /\ \A e \in 1..(d - 1) : proc \notin ToSet(import_dlls[e].imports)
          /\ FindImport(proc) = ThunkAddr(d) + (p - 1) * SIZEOF_QWORD
    BY <2>8
  <2>10. ImportDescriptor(d).FirstThunk = Rva(IDATA) + ThunkAddr(d) BY <2>1, DescriptorsRead
  <2>11. ThunkAddr(d) \in Nat /\ p \in Nat
    <3>1. import_dlls[d] \in Dll /\ d \in 1..Len(import_dlls) BY <2>7
    <3>2. import_dlls[d].imports \in Seq(Procedures) BY <3>1, DllNumbers
    <3>3. p \in Nat BY <3>2
    <3>4. NumThunks(Before(import_dlls, d)) \in Nat BY <2>7, <3>1, ThunkPlaces
    <3> QED BY <3>3, <3>4 DEF ThunkAddr, SIZEOF_QWORD
  <2>12. Target(i) = ImportDescriptor(d).FirstThunk + (p - 1) * SIZEOF_QWORD
    BY <2>4, <2>6, <2>7, <2>9, <2>10, <2>11 DEF SIZEOF_QWORD
  <2> QED BY <2>9, <2>12 DEF proc
<1> QED BY <1>1, PeInvAlways, PTL

(* The writer announces and writes sections as the specification of        *)
(* sections says: every section as long as was announced.                  *)
THEOREM SectionsImplemented == Spec => SecSpec
<1>1. Init => SecInit BY DEF Init
<1>2. PeInv /\ [Next]_vars => [SecNext]_secVars
  <2> SUFFICES ASSUME PeInv, [Next]_vars, ~UNCHANGED secVars PROVE SecNext
    OBVIOUS
  <2>1. CASE Announce
    <3> DEFINE n == Len(sizes) + 1
               size == CASE n = TEXT -> bytesCount [] n = DATA -> data_bytes
                         [] n = IDATA -> total_size
    <3>1. AddSection(size) BY <2>1 DEF Announce
    <3>2. sizes' = Append(sizes, size) /\ sizes \in Seq(Nat)
      BY <3>1, PeInvParts DEF AddSection, SecTypeOK
    <3>3. sizes' \in Seq(Nat) BY <2>1, PeInvAnnounce DEF PeInv, SecInv, SecTypeOK
    <3> HIDE DEF size
    <3>4. Len(sizes') = Len(sizes) + 1 /\ sizes'[Len(sizes) + 1] = size /\ Len(sizes) \in Nat
      BY <3>2
    <3>5. size \in Nat BY <3>3, <3>4
    <3> QED BY <3>1, <3>5 DEF SecNext
  <2>2. CASE BuildHeaders BY <2>2 DEF BuildHeaders, SecNext
  <2>3. CASE WriteFileHeaders BY <2>3 DEF WriteFileHeaders, SecNext
  <2>4. CASE WriteText BY <2>4, TextSize DEF SecNext
  <2>5. CASE WriteData BY <2>5, DataSize DEF SecNext
  <2>6. CASE WriteImports BY <2>6, ImportSize DEF SecNext
  <2>7. CASE \/ CollectData \/ CollectImports \/ PrepareImports \/ CollectCode
             \/ SetRvas \/ ResolveCode \/ PutCode \/ UNCHANGED vars
    BY <2>7 DEF CollectData, CollectImports, PrepareImports, CollectCode, SetRvas, ResolveCode,
                PutCode, vars
  <2> QED BY <2>1, <2>2, <2>3, <2>4, <2>5, <2>6, <2>7 DEF Next
<1> QED BY <1>1, <1>2, PeInvAlways, PTL DEF Spec, SecSpec

(* The sections of an executable do not overlap (SectionHeadersBuilder).   *)
THEOREM ImageSectionsApart == Spec => []SectionsApart
BY SectionsImplemented, SectionsApartAlways, PTL

(* Each is written where its header says (PeMainWriter.write_section).     *)
THEOREM ImageWrittenWhereSaid == Spec => []WrittenWhereSaid
BY SectionsImplemented, WrittenWhereSaidAlways, PTL

-----------------------------------------------------------------------------


-----------------------------------------------------------------------------
(* Loads of the first two strings                                          *)

LoadLine(l) == l.repr \in Symbols => Loads(l)
LoadsKnown == \A k \in Lines : LoadLine(lines[k])

StringsKnown ==
  /\ DOMAIN symbols = {strings[k] : k \in 1..Len(strings)}
  /\ Len(strings) = 0 => current_offset = 0 /\ data_bytes = 0
  /\ Len(strings) = 1 => current_offset = Length[strings[1]] + 1 /\ data_bytes = current_offset
  /\ Len(strings) >= 1 => symbols[strings[1]] = 0
  /\ Len(strings) >= 2 => symbols[strings[2]] = Length[strings[1]] + 1

LoadInv == PeInv /\ LoadsKnown /\ StringsKnown

LEMMA StringsKnownAdd ==
  ASSUME DataKnown, StringsKnown, NEW sym \in Symbols, AddData(sym)
  PROVE  StringsKnown'
<1> DEFINE n == Len(strings)
<1>1. strings \in Seq(Symbols) /\ n \in Nat /\ data_bytes \in Nat /\ current_offset \in Nat
  BY DEF DataKnown
<1>2. Length[sym] \in Nat BY PeNamesAssumption
<1>3. /\ sym \notin DOMAIN symbols /\ strings' = Append(strings, sym)
      /\ data_bytes' = data_bytes + Length[sym] + 1
      /\ symbols' = [s \in DOMAIN symbols \cup {sym} |->
                       IF s = sym THEN current_offset ELSE symbols[s]]
      /\ current_offset' = current_offset + data_bytes'
  BY DEF AddData
<1>4. /\ Len(strings') = n + 1 /\ strings'[n + 1] = sym
      /\ \A k \in 1..n : strings'[k] = strings[k]
  BY <1>1, <1>3
<1>5. DOMAIN symbols = {strings[k] : k \in 1..n} BY DEF StringsKnown
<1>6. DOMAIN symbols' = {strings'[k] : k \in 1..(n + 1)}
  <2>1. DOMAIN symbols' = DOMAIN symbols \cup {sym} BY <1>3
  <2>2. \A s : s \in {strings'[k] : k \in 1..(n + 1)} <=> s \in DOMAIN symbols \cup {sym}
    <3>1. \A k \in 1..(n + 1) : k \in 1..n \/ k = n + 1 BY <1>1
    <3>2. \A k \in 1..n : k \in 1..(n + 1) BY <1>1
    <3>3. n + 1 \in 1..(n + 1) BY <1>1
    <3> QED BY <3>1, <3>2, <3>3, <1>4, <1>5
  <2> QED BY <2>1, <2>2
<1>7. \A k \in 1..n : symbols'[strings'[k]] = symbols[strings[k]] BY <1>3, <1>4, <1>5
<1>8. symbols'[sym] = current_offset BY <1>3
<1>9. CASE n = 0
  <2>1. current_offset = 0 /\ data_bytes = 0 BY <1>9 DEF StringsKnown
  <2>2. Len(strings') = 1 /\ strings'[1] = sym BY <1>4, <1>9
  <2>3. data_bytes' = Length[sym] + 1 /\ current_offset' = data_bytes'
    BY <2>1, <1>2, <1>3
  <2> QED BY <2>1, <2>2, <2>3, <1>6, <1>8, <1>9 DEF StringsKnown
<1>10. CASE n = 1
  <2>1. current_offset = Length[strings[1]] + 1 /\ symbols[strings[1]] = 0
    BY <1>10 DEF StringsKnown
  <2>2. Len(strings') = 2 /\ strings'[2] = sym /\ strings'[1] = strings[1] BY <1>4, <1>10
  <2>3. symbols'[strings'[1]] = 0 BY <2>1, <1>7, <1>10
  <2> QED BY <2>1, <2>2, <2>3, <1>6, <1>8, <1>10 DEF StringsKnown
<1>11. CASE n >= 2
  <2>1. symbols[strings[1]] = 0 /\ symbols[strings[2]] = Length[strings[1]] + 1
    BY <1>1, <1>11 DEF StringsKnown
  <2>2. Len(strings') >= 3 /\ strings'[1] = strings[1] /\ strings'[2] = strings[2]
    BY <1>1, <1>4, <1>11
  <2>3. symbols'[strings'[1]] = 0 /\ symbols'[strings'[2]] = Length[strings[1]] + 1
    BY <2>1, <1>1, <1>7, <1>11
  <2>4. DOMAIN symbols' = {strings'[k] : k \in 1..Len(strings')} BY <1>4, <1>6
  <2>5. symbols'[strings'[2]] = Length[strings'[1]] + 1 BY <2>2, <2>3
  <2>6. Len(strings') # 0 /\ Len(strings') # 1 BY <1>1, <1>4, <1>11
  <2> QED BY <2>3, <2>4, <2>5, <2>6 DEF StringsKnown
<1>12. n = 0 \/ n = 1 \/ n >= 2
  <2>1. \A j \in Nat : j = 0 \/ j = 1 \/ j >= 2 OBVIOUS
  <2> QED BY <2>1, <1>1
<1> QED BY <1>9, <1>10, <1>11, <1>12

LEMMA LoadsKnownAdd ==
  ASSUME AsmTypeOK, LoadsKnown, NEW l, LoadLine(l), lines' = Append(lines, l), l \in AsmLine
  PROVE  LoadsKnown'
<1> DEFINE n == Len(lines)
<1>1. lines \in Seq(AsmLine) /\ n \in Nat BY DEF AsmTypeOK
<1>2. Len(lines') = n + 1 /\ lines'[n + 1] = l /\ \A k \in 1..n : lines'[k] = lines[k] BY <1>1
<1>3. \A k \in 1..(n + 1) : k \in 1..n \/ k = n + 1 BY <1>1
<1> QED BY <1>2, <1>3 DEF LoadsKnown, LoadLine, Lines, Loads

(* Only load makes lines with a symbol, and it makes them so that they are *)
(* recognised: in a low register.                                          *)
LEMMA LoadsKnownApi ==
  ASSUME LoadRegs \subseteq {"low"}, Symbols \cap Procedures = {}, AsmInv, LoadsKnown, Api
  PROVE  LoadsKnown'
<1>0. AsmTypeOK BY DEF AsmInv
<1>1. PICK l : lines' = Append(lines, l) /\ LoadLine(l)
  <2>1. CASE Plain
    <3>1. PICK size \in PlainSizes : AddLine(CodeLine("other", size, NoName)) BY <2>1 DEF Plain
    <3>2. LoadLine(CodeLine("other", size, NoName))
      BY Asm86Assumption DEF LoadLine, CodeLine
    <3> QED BY <3>1, <3>2 DEF AddLine
  <2>2. CASE Lea
    <3>1. PICK dst \in LeaRegs, src \in LeaRegs :
            AddLine(CodeLine(IF dst = "low" /\ src = "low" THEN "48 8d" ELSE "other", 3, NoName))
      BY <2>2 DEF Lea
    <3>2. \A head : LoadLine(CodeLine(head, 3, NoName))
      BY Asm86Assumption DEF LoadLine, CodeLine
    <3> QED BY <3>1, <3>2 DEF AddLine
  <2>3. CASE MakeLabel
    <3>1. PICK l \in Labels : AddLine(LabelLine(l)) BY <2>3 DEF MakeLabel
    <3>2. LoadLine(LabelLine(l)) BY Asm86Assumption DEF LoadLine, LabelLine
    <3> QED BY <3>1, <3>2 DEF AddLine
  <2>4. CASE Jump
    <3>1. PICK l \in Labels : AddLine(JumpLine(l)) BY <2>4 DEF Jump
    <3>2. LoadLine(JumpLine(l)) BY Asm86Assumption DEF LoadLine, JumpLine
    <3> QED BY <3>1, <3>2 DEF AddLine
  <2>5. CASE Call
    <3>1. PICK proc \in Procedures : AddLine(CodeLine("ff 15", 6, proc)) BY <2>5 DEF Call
    <3>2. LoadLine(CodeLine("ff 15", 6, proc)) BY DEF LoadLine, CodeLine
    <3> QED BY <3>1, <3>2 DEF AddLine
  <2>6. CASE Load
    <3>1. PICK reg \in LoadRegs, sym \in Symbols :
            AddLine(CodeLine(IF reg = "low" THEN "48 8d" ELSE "other", 7, sym))
      BY <2>6 DEF Load
    <3>2. AddLine(CodeLine("48 8d", 7, sym)) BY <3>1
    <3>3. LoadLine(CodeLine("48 8d", 7, sym)) BY DEF LoadLine, CodeLine, Loads
    <3> QED BY <3>2, <3>3 DEF AddLine
  <2> QED BY <2>1, <2>2, <2>3, <2>4, <2>5, <2>6 DEF Api
<1>2. l \in AsmLine
  <2>1. lines' \in Seq(AsmLine) /\ lines \in Seq(AsmLine)
    BY <1>0, AsmInvApi DEF AsmInv, AsmTypeOK
  <2>2. Len(lines') = Len(lines) + 1 /\ lines'[Len(lines) + 1] = l /\ Len(lines) \in Nat
    BY <2>1, <1>1
  <2>3. Len(lines) + 1 \in 1..Len(lines') BY <2>2
  <2> QED BY <2>1, <2>2, <2>3
<1> QED BY <1>0, <1>1, <1>2, LoadsKnownAdd

LEMMA LoadsKnownResolving ==
  ASSUME AsmInv, LoadsKnown, Resolving
  PROVE  LoadsKnown'
<1>1. LinesKept BY ResolvingKeeps
<1>2. Lines' = Lines BY <1>1 DEF LinesKept, Lines
<1>3. ASSUME NEW k \in Lines PROVE LoadLine(lines'[k])
  <2>1. LoadLine(lines[k]) BY <1>3 DEF LoadsKnown
  <2>2. /\ lines'[k].kind = lines[k].kind /\ lines'[k].head = lines[k].head
        /\ lines'[k].repr = lines[k].repr
    BY <1>1, <1>3 DEF LinesKept
  <2> QED BY <2>1, <2>2 DEF LoadLine, Loads
<1> QED BY <1>2, <1>3 DEF LoadsKnown, LoadLine, Loads

LEMMA LoadInvInductive ==
  ASSUME LoadRegs \subseteq {"low"}, Symbols \cap Procedures = {},
         PeInv, PeInv', LoadsKnown, StringsKnown, [Next]_vars
  PROVE  LoadsKnown' /\ StringsKnown'
<1>1. ASSUME lines' = lines PROVE LoadsKnown'
  BY <1>1 DEF LoadsKnown, LoadLine, Loads, Lines
<1>2. ASSUME UNCHANGED dataVars PROVE StringsKnown'
  BY <1>2 DEF StringsKnown, dataVars
<1>3. CASE CollectData
  <2>1. PICK sym \in Symbols : AddData(sym) BY <1>3 DEF CollectData
  <2>2. StringsKnown' BY <2>1, PeInvParts, StringsKnownAdd
  <2> QED BY <2>2, <1>1, <1>3 DEF CollectData, asmVars
<1>4. CASE CollectCode BY <1>2, <1>4, PeInvParts, LoadsKnownApi DEF CollectCode
<1>5. CASE ResolveCode BY <1>2, <1>5, PeInvParts, LoadsKnownResolving DEF ResolveCode
<1>6. CASE CollectImports \/ PrepareImports \/ Announce \/ BuildHeaders
  BY <1>1, <1>2, <1>6 DEF CollectImports, PrepareImports, Announce, BuildHeaders, asmVars
<1>7. CASE SetRvas BY <1>1, <1>2, <1>7 DEF SetRvas, SetRva
<1>8. CASE WriteFileHeaders \/ PutCode
  BY <1>1, <1>2, <1>8 DEF WriteFileHeaders, PutCode, ToBytes, PutLine
<1>9. CASE WriteText \/ WriteData \/ WriteImports
  BY <1>1, <1>2, <1>9 DEF WriteText, WriteData, WriteImports, asmVars
<1>10. CASE UNCHANGED vars BY <1>1, <1>2, <1>10 DEF vars, asmVars
<1> QED BY <1>3, <1>4, <1>5, <1>6, <1>7, <1>8, <1>9, <1>10 DEF Next

(* Where the first two strings are written *)
LEMMA FirstSums ==
  ASSUME StringsKnown, DataKnown, Len(strings) <= 2, NEW k \in DOMAIN strings
  PROVE  symbols[strings[k]] = Sum([m \in 1..(k - 1) |-> Length[strings[m]] + 1])
<1> DEFINE s == [m \in 1..(k - 1) |-> Length[strings[m]] + 1]
<1>1. strings \in Seq(Symbols) /\ Len(strings) \in Nat /\ k \in 1..Len(strings) /\ k \in Nat
  BY DEF DataKnown
<1>2. k = 1 \/ k = 2 BY <1>1
<1>3. \A m \in 1..(k - 1) : Length[strings[m]] + 1 \in Nat
  <2> SUFFICES ASSUME NEW m \in 1..(k - 1) PROVE Length[strings[m]] + 1 \in Nat
    OBVIOUS
  <2>1. m \in 1..Len(strings) BY <1>1
  <2>2. strings[m] \in Symbols BY <1>1, <2>1
  <2>3. Length[strings[m]] \in Nat BY <2>2, PeNamesAssumption
  <2> QED BY <1>1, <2>3
<1>4. s \in Seq(Nat) /\ Len(s) = k - 1 /\ \A m \in 1..(k - 1) : s[m] = Length[strings[m]] + 1
  BY <1>1, <1>3
<1> HIDE DEF s
<1>5. PICK G : Totals(G, s) /\ Sum(s) = G[Len(s)] BY <1>4, TotalsExist
<1>6. G[0] = 0 /\ \A n \in 1..Len(s) : G[n] = G[n - 1] + s[n] BY <1>5 DEF Totals
<1>7. CASE k = 1
  <2>1. Sum(s) = 0 BY <1>4, <1>5, <1>6, <1>7
  <2>2. symbols[strings[1]] = 0 BY <1>1, <1>7 DEF StringsKnown
  <2> QED BY <2>1, <2>2, <1>7 DEF s
<1>8. CASE k = 2
  <2>1. Len(s) = 1 /\ 1 \in 1..(k - 1) BY <1>4, <1>8
  <2>2. G[1] = G[0] + s[1] BY <2>1, <1>6
  <2>3. s[1] = Length[strings[1]] + 1 /\ s[1] \in Nat BY <2>1, <1>4
  <2>4. Sum(s) = s[1]
    <3>1. G[0] = 0 BY <1>6
    <3>2. G[1] = s[1] BY <3>1, <2>2, <2>3
    <3> QED BY <3>2, <2>1, <1>5
  <2>5. symbols[strings[2]] = Length[strings[1]] + 1 BY <1>1, <1>8 DEF StringsKnown
  <2> QED BY <2>3, <2>4, <2>5, <1>8 DEF s
<1> QED BY <1>2, <1>7, <1>8

(* A load into one of the registers that are recognised gives the address  *)
(* of its string, in a program that has no more than two strings: what the *)
(* offsets of DataSymbols.add are right for (Asm86.load, DataSymbols.add). *)
THEOREM FirstLoadsLand ==
  ASSUME LoadRegs \subseteq {"low"}, Symbols \cap Procedures = {}
  PROVE  Spec => [](Len(strings) <= 2 => LoadsLand)
<1>1. Init => LoadsKnown /\ StringsKnown
  <2> SUFFICES ASSUME Init PROVE LoadsKnown /\ StringsKnown
    OBVIOUS
  <2>1. lines = <<>> /\ strings = <<>> /\ symbols = <<>> /\ current_offset = 0 /\ data_bytes = 0
    BY DEF Init, AsmInit, DataInit
  <2>2. Len(strings) = 0 /\ Len(lines) = 0 BY <2>1
  <2>3. DOMAIN symbols = {} /\ 1..Len(strings) = {} /\ Lines = {} BY <2>1, <2>2 DEF Lines
  <2> QED BY <2>1, <2>2, <2>3 DEF LoadsKnown, StringsKnown
<1>2. PeInv /\ PeInv' /\ LoadsKnown /\ StringsKnown /\ [Next]_vars => LoadsKnown' /\ StringsKnown'
  BY LoadInvInductive
<1>3. PeInv /\ LoadsKnown /\ StringsKnown => (Len(strings) <= 2 => LoadsLand)
  <2> SUFFICES ASSUME PeInv, LoadsKnown, StringsKnown, Len(strings) <= 2, stage = "written",
                      NEW i \in DOMAIN lines, lines[i].repr \in DOMAIN symbols
               PROVE  \E k \in DOMAIN strings :
                        /\ strings[k] = lines[i].repr
                        /\ Target(i) = Rva(DATA)
                             + Sum([m \in 1..(k - 1) |-> Length[strings[m]] + 1])
    BY DEF LoadsLand
  <2> DEFINE sym == lines[i].repr
  <2>1. Assembled /\ Built BY PeInvParts DEF WrittenInOrder, AddressesKept, Addressed
  <2>2. Rva(DATA) \in Nat BY <2>1, PeInvParts, RvaIsNat
  <2>3. i \in Lines BY PeInvParts DEF AsmTypeOK, Lines
  <2>4. sym \in Symbols /\ symbols[sym] \in Nat BY PeInvParts, TableValues DEF DataKnown
  <2>5. Loads(lines[i]) BY <2>3, <2>4 DEF LoadsKnown, LoadLine
  <2>6. After(lines[i]) + lines[i].rel = datas[sym]
    BY <2>1, <2>3, <2>5, PeInvParts, WrittenLines DEF Leads
  <2>7. Target(i) = datas[sym]
    <3>1. After(lines[i]) = lines[i].offset + lines[i].size BY <2>5 DEF After, Bytes, Loads
    <3>2. virtualAddress + places[i] = lines[i].offset
      BY <2>1, <2>3, PeInvParts, WrittenLines
    <3> QED BY <2>6, <3>1, <3>2 DEF Target
  <2>8. datas[sym] = symbols[sym] + Rva(DATA)
    BY PeInvParts DEF AddressesKept, Addressed, DataAddresses
  <2>9. PICK k \in 1..Len(strings) : strings[k] = sym BY DEF StringsKnown
  <2>10. k \in DOMAIN strings BY PeInvParts DEF DataKnown
  <2>11. symbols[strings[k]] = Sum([m \in 1..(k - 1) |-> Length[strings[m]] + 1])
    BY <2>10, PeInvParts, FirstSums
  <2> DEFINE before == Sum([m \in 1..(k - 1) |-> Length[strings[m]] + 1])
  <2> HIDE DEF sym, before
  <2>12. Target(i) = Rva(DATA) + before
    BY <2>2, <2>4, <2>7, <2>8, <2>9, <2>11 DEF before
  <2> QED BY <2>9, <2>10, <2>12 DEF sym, before
<1> QED BY <1>1, <1>2, <1>3, PeInvAlways, PTL DEF Spec

(* Jumps lead to their labels in the file as well: the sections get their  *)
(* addresses without a line being changed (Asm86.set_rva).                 *)
THEOREM ImageJumpsLand == Spec => []JumpsLand
<1>1. PeInv => JumpsLand BY PeInvParts, JumpsLandThere
<1> QED BY <1>1, PeInvAlways, PTL

=============================================================================
