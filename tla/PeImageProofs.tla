--------------------------- MODULE PeImageProofs ---------------------------
(***************************************************************************)
(* Proofs about PeImage: for every width of the words, every header size   *)
(* and every image, the check accepts and rejects what it should.          *)
(***************************************************************************)
EXTENDS PeImage, TLAPS

\* What the check has found out: the sections and the directories before the
\* index are in order.
SectionsOK(n) ==
  \A k \in 1..Len(image.sections) : k < n => SectionOK(image.sections[k], image)
DirectoriesOK(n) ==
  \A k \in 1..Len(image.directories) : k < n => DirectoryOK(image.directories[k], image)

Refused ==
  \/ ~HeadersOK(image)
  \/ \E k \in 1..Len(image.sections) : ~SectionOK(image.sections[k], image)
  \/ \E k \in 1..Len(image.directories) : ~DirectoryOK(image.directories[k], image)

AfterSections == {"directories", "page", "accepted"}

IInv ==
  /\ TypeOK
  /\ pc \in {"sections"} \union AfterSections => HeadersOK(image)
  /\ pc = "sections" => SectionsOK(index)
  /\ pc \in AfterSections => SectionsOK(Len(image.sections) + 1)
  /\ pc = "directories" => DirectoriesOK(index)
  /\ pc \in {"page", "accepted"} => DirectoriesOK(Len(image.directories) + 1)
  /\ pc = "rejected" => Refused

-----------------------------------------------------------------------------
(* Arithmetic of words.                                                    *)

\* A sum below 2^32 does not wrap around.
LEMMA NoWrap ==
  ASSUME NEW m \in Nat, NEW n \in Nat, m + n < Modulus
  PROVE  Plus(m, n) = m + n
BY PeConstants DEF Plus

\* The section table takes no more room than that of MaxSections sections.
LEMMA TableSize ==
  ASSUME NEW n \in Nat, n <= MaxSections
  PROVE  /\ n * SectionHeader \in Nat
         /\ n * SectionHeader <= MaxSections * SectionHeader
         /\ MaxSections * SectionHeader \in Nat
BY PeConstants, SMTT(30)

-----------------------------------------------------------------------------
(* What the fields of an image are.                                        *)

LEMMA FieldTypes ==
  ASSUME NEW i \in Image
  PROVE  /\ i.pool \in Nat
         /\ i.lfanew \in Nat /\ i.size \in Nat /\ i.size < Modulus
         /\ i.headers \in Nat /\ i.entry \in Nat
         /\ Len(i.sections) \in Nat /\ Len(i.directories) \in Nat
         /\ MinImage \in Nat /\ NtHeaders \in Nat /\ Modulus \in Nat
         /\ DosHeader \in Nat /\ MaxSections \in Nat
<1>1. /\ i.sections \in Seq(Range) /\ i.directories \in Seq(Range)
      /\ i.lfanew \in Word /\ i.size \in Word
      /\ i.headers \in Word /\ i.entry \in Word /\ i.pool \in Nat
  BY DEF Image
<1> QED BY <1>1, PeConstants DEF Word

LEMMA RangeTypes ==
  ASSUME NEW s \in Seq(Range), NEW k \in 1..Len(s)
  PROVE  s[k].va \in Nat /\ s[k].size \in Nat
<1>1. s[k] \in Range OBVIOUS
<1> QED BY <1>1, PeConstants DEF Range, Word

\* The two sums over the headers, when their end is not beyond the word.
LEMMA EndOfTableExact ==
  ASSUME NEW i \in Image, Len(i.sections) <= MaxSections,
         i.lfanew + NtHeaders + Len(i.sections) * SectionHeader < Modulus
  PROVE  EndOfTable(i) = i.lfanew + NtHeaders + Len(i.sections) * SectionHeader
<1> DEFINE table == Len(i.sections) * SectionHeader
<1>1. i.lfanew \in Nat /\ NtHeaders \in Nat /\ Modulus \in Nat /\ Len(i.sections) \in Nat
  BY FieldTypes
<1>2. table \in Nat
  BY <1>1, TableSize
<1> HIDE DEF table
<1>3. i.lfanew + NtHeaders + table < Modulus
  BY DEF table
<1>4. Plus(i.lfanew, NtHeaders) = i.lfanew + NtHeaders
  BY <1>1, <1>2, <1>3, NoWrap
<1>5. Plus(i.lfanew + NtHeaders, table) = i.lfanew + NtHeaders + table
  BY <1>1, <1>2, <1>3, NoWrap
<1> QED BY <1>4, <1>5 DEF EndOfTable, table

\* A range that ends within the image ends there in the sum of words too.
LEMMA RangeExact ==
  ASSUME NEW i \in Image, NEW va \in Nat, NEW size \in Nat,
         \/ va + size <= i.size
         \/ va < i.size /\ size <= i.size /\ 2 * i.pool <= Modulus /\ i.size <= i.pool
  PROVE  Plus(va, size) = va + size
<1>1. i.size \in Nat /\ i.size < Modulus /\ i.pool \in Nat /\ Modulus \in Nat
  BY FieldTypes
<1>2. va + size < Modulus
  BY <1>1
<1> QED BY <1>2, NoWrap

-----------------------------------------------------------------------------
(* The tests of the check, against images.                                 *)

\* A whole image passes the test of its headers.
LEMMA WholeHeaders ==
  ASSUME NEW i \in Image, Whole(i)
  PROVE  HeadersOK(i)
<1> DEFINE end == i.lfanew + NtHeaders + Len(i.sections) * SectionHeader
<1>1. /\ i.lfanew \in Nat /\ NtHeaders \in Nat /\ Modulus \in Nat /\ Len(i.sections) \in Nat
      /\ i.pool \in Nat /\ i.size \in Nat /\ i.size < Modulus /\ i.headers \in Nat
      /\ MaxSections \in Nat /\ MinImage \in Nat
  BY FieldTypes
<1>2. Len(i.sections) \in 1..MaxSections
  BY DEF Whole
<1>3. Len(i.sections) * SectionHeader \in Nat
  BY <1>1, <1>2, TableSize
<1>4. end <= i.headers /\ i.headers <= i.size /\ i.size <= i.pool /\ i.size >= MinImage
  BY DEF Whole
<1>5. end \in Nat /\ i.lfanew + NtHeaders <= end
  BY <1>1, <1>3
<1>6. end < Modulus
  BY <1>1, <1>4, <1>5
<1>7. EndOfTable(i) = end
  BY <1>1, <1>2, <1>6, EndOfTableExact
<1>8. /\ i.pool >= MinImage /\ i.lfanew <= i.pool - NtHeaders
      /\ i.headers <= i.pool
      /\ EndOfTable(i) <= i.headers /\ EndOfTable(i) <= i.pool
  BY <1>1, <1>4, <1>5, <1>7
<1> QED BY <1>2, <1>4, <1>8 DEF HeadersOK, Whole

\* ... and each of its sections and directories passes its own.
LEMMA WholeRanges ==
  ASSUME NEW i \in Image, Whole(i)
  PROVE  /\ \A k \in 1..Len(i.sections) : SectionOK(i.sections[k], i)
         /\ \A k \in 1..Len(i.directories) : DirectoryOK(i.directories[k], i)
<1>1. i.sections \in Seq(Range) /\ i.directories \in Seq(Range)
  BY DEF Image
<1>2. i.size \in Nat /\ i.pool \in Nat /\ i.size <= i.pool
  BY FieldTypes DEF Whole
<1>3. ASSUME NEW k \in 1..Len(i.sections)
      PROVE  SectionOK(i.sections[k], i)
  <2> DEFINE va == i.sections[k].va
             size == i.sections[k].size
  <2>1. va \in Nat /\ size \in Nat
    BY <1>1, RangeTypes
  <2>2. va < i.size /\ va + size <= i.size
    BY DEF Whole, InImage
  <2>3. Plus(va, size) = va + size
    BY <2>1, <2>2, RangeExact
  <2> QED BY <1>2, <2>1, <2>2, <2>3 DEF SectionOK
<1>4. ASSUME NEW k \in 1..Len(i.directories)
      PROVE  DirectoryOK(i.directories[k], i)
  <2> DEFINE va == i.directories[k].va
             size == i.directories[k].size
  <2>1. va \in Nat /\ size \in Nat
    BY <1>1, RangeTypes
  <2>2. va = 0 \/ size = 0 \/ va + size <= i.size
    BY DEF Whole, InImage
  <2>3. CASE va = 0 \/ size = 0
    BY <2>3 DEF DirectoryOK
  <2>4. CASE size # 0 /\ va + size <= i.size
    <3>1. Plus(va, size) = va + size
      BY <2>1, <2>4, RangeExact
    <3> QED BY <1>2, <2>1, <2>4, <3>1 DEF DirectoryOK
  <2> QED BY <2>2, <2>3, <2>4
<1> QED BY <1>3, <1>4

\* In a block of at most 2 GB what passes every test is whole.
LEMMA CheckedIsWhole ==
  ASSUME NEW i \in Image, 2 * i.pool <= Modulus, HeadersOK(i),
         \A k \in 1..Len(i.sections) : SectionOK(i.sections[k], i),
         \A k \in 1..Len(i.directories) : DirectoryOK(i.directories[k], i)
  PROVE  Whole(i)
<1> DEFINE table == Len(i.sections) * SectionHeader
<1>1. /\ i.lfanew \in Nat /\ NtHeaders \in Nat /\ Modulus \in Nat /\ Len(i.sections) \in Nat
      /\ i.pool \in Nat /\ i.size \in Nat /\ i.headers \in Nat /\ MaxSections \in Nat
  BY FieldTypes
<1>2. i.sections \in Seq(Range) /\ i.directories \in Seq(Range)
  BY DEF Image
<1>3. Len(i.sections) \in 1..MaxSections /\ i.size <= i.pool /\ i.lfanew <= i.pool - NtHeaders
  BY DEF HeadersOK
<1>4. i.lfanew + NtHeaders + table <= i.headers
  <2>1. table \in Nat /\ table <= MaxSections * SectionHeader
        /\ MaxSections * SectionHeader \in Nat
    BY <1>1, <1>3, TableSize
  <2>2. 2 * (MaxSections * SectionHeader) < Modulus
    BY PeConstants
  <2> HIDE DEF table
  <2>3. i.lfanew + NtHeaders + table < Modulus
    BY <1>1, <1>3, <2>1, <2>2
  <2>4. EndOfTable(i) = i.lfanew + NtHeaders + table
    BY <1>1, <1>3, <2>3, EndOfTableExact DEF table
  <2> QED BY <2>4 DEF HeadersOK
<1>5. ASSUME NEW k \in 1..Len(i.sections)
      PROVE  i.sections[k].va < i.size
             /\ InImage(i.sections[k].va, i.sections[k].size, i)
  <2> DEFINE va == i.sections[k].va
             size == i.sections[k].size
  <2>1. va \in Nat /\ size \in Nat
    BY <1>2, RangeTypes
  <2>2. SectionOK(i.sections[k], i)
    BY <1>5
  <2>3. va < i.size
    BY <2>2 DEF SectionOK
  <2>4. CASE size = 0
    BY <1>1, <2>1, <2>3, <2>4 DEF InImage
  <2>5. CASE size # 0
    <3>1. size <= i.size /\ Plus(va, size) <= i.size
      BY <2>2, <2>5 DEF SectionOK
    <3>2. Plus(va, size) = va + size
      BY <1>3, <2>1, <2>3, <3>1, RangeExact
    <3> QED BY <2>3, <3>1, <3>2 DEF InImage
  <2> QED BY <2>4, <2>5
<1>6. ASSUME NEW k \in 1..Len(i.directories)
      PROVE  \/ i.directories[k].va = 0 \/ i.directories[k].size = 0
             \/ InImage(i.directories[k].va, i.directories[k].size, i)
  <2> DEFINE va == i.directories[k].va
             size == i.directories[k].size
  <2>1. va \in Nat /\ size \in Nat
    BY <1>2, RangeTypes
  <2>2. DirectoryOK(i.directories[k], i)
    BY <1>6
  <2>3. CASE va = 0 \/ size = 0
    BY <2>3
  <2>4. CASE va < i.size /\ size <= i.size /\ Plus(va, size) <= i.size
    <3>1. Plus(va, size) = va + size
      BY <1>3, <2>1, <2>4, RangeExact
    <3> QED BY <2>4, <3>1 DEF InImage
  <2> QED BY <2>2, <2>3, <2>4 DEF DirectoryOK
<1> QED BY <1>3, <1>4, <1>5, <1>6 DEF Whole, HeadersOK

-----------------------------------------------------------------------------
(* The inductive invariant.                                                *)

LEMMA InitIInv == Init => IInv
BY PeConstants DEF Init, IInv, TypeOK, AfterSections

LEMMA HeadersStep ==
  IInv /\ CheckHeaders => IInv'
<1> SUFFICES ASSUME IInv, CheckHeaders PROVE IInv'
  OBVIOUS
<1> USE DEF IInv, TypeOK, CheckHeaders, Goto, AfterSections
<1>1. CASE HeadersOK(image)
  <2>1. pc' = "sections" /\ index' = 1 /\ image' = image
    BY <1>1
  <2>2. SectionsOK(index)'
    BY <2>1, FieldTypes DEF SectionsOK
  <2> QED BY <1>1, <2>1, <2>2, FieldTypes
<1>2. CASE ~HeadersOK(image)
  BY <1>2 DEF Refused
<1> QED BY <1>1, <1>2

LEMMA SectionStep ==
  IInv /\ CheckSection => IInv'
<1> SUFFICES ASSUME IInv, CheckSection PROVE IInv'
  OBVIOUS
<1> USE DEF IInv, TypeOK, Goto, AfterSections
<1>1. /\ pc = "sections" /\ SectionsOK(index) /\ HeadersOK(image)
      /\ index \in Nat \ {0} /\ image' = image
      /\ Len(image.sections) \in Nat /\ Len(image.directories) \in Nat
  BY FieldTypes DEF CheckSection
<1>2. CASE index > Len(image.sections)
  <2>1. pc' = "directories" /\ index' = 1
    BY <1>1, <1>2 DEF CheckSection
  <2>2. SectionsOK(Len(image.sections) + 1)' /\ DirectoriesOK(index)'
    BY <1>1, <1>2, <2>1 DEF SectionsOK, DirectoriesOK
  <2> QED BY <1>1, <2>1, <2>2
<1>3. CASE /\ index <= Len(image.sections)
           /\ SectionOK(image.sections[index], image)
  <2>1. pc' = pc /\ index' = index + 1
    BY <1>1, <1>3 DEF CheckSection
  <2>2. SectionsOK(index)'
    BY <1>1, <1>3, <2>1 DEF SectionsOK
  <2> QED BY <1>1, <1>3, <2>1, <2>2
<1>4. CASE /\ index <= Len(image.sections)
           /\ ~SectionOK(image.sections[index], image)
  <2>1. pc' = "rejected" /\ index' = 1
    BY <1>1, <1>4 DEF CheckSection
  <2>2. index \in 1..Len(image.sections)
    BY <1>1, <1>4
  <2>3. Refused'
    BY <1>1, <1>4, <2>2 DEF Refused
  <2> QED BY <1>1, <2>1, <2>3
<1> QED BY <1>1, <1>2, <1>3, <1>4

LEMMA DirectoryStep ==
  IInv /\ CheckDirectory => IInv'
<1> SUFFICES ASSUME IInv, CheckDirectory PROVE IInv'
  OBVIOUS
<1> USE DEF IInv, TypeOK, Goto, AfterSections
<1>1. /\ pc = "directories" /\ DirectoriesOK(index) /\ HeadersOK(image)
      /\ SectionsOK(Len(image.sections) + 1)
      /\ index \in Nat \ {0} /\ image' = image
      /\ Len(image.sections) \in Nat /\ Len(image.directories) \in Nat
  BY FieldTypes DEF CheckDirectory
<1>2. SectionsOK(Len(image.sections) + 1)'
  BY <1>1 DEF SectionsOK
<1>3. CASE index > Len(image.directories)
  <2>1. pc' = "page" /\ index' = 1
    BY <1>1, <1>3 DEF CheckDirectory
  <2>2. DirectoriesOK(Len(image.directories) + 1)'
    BY <1>1, <1>3, <2>1 DEF DirectoriesOK
  <2> QED BY <1>1, <1>2, <2>1, <2>2
<1>4. CASE /\ index <= Len(image.directories)
           /\ DirectoryOK(image.directories[index], image)
  <2>1. pc' = pc /\ index' = index + 1
    BY <1>1, <1>4 DEF CheckDirectory
  <2>2. DirectoriesOK(index)'
    BY <1>1, <1>4, <2>1 DEF DirectoriesOK
  <2> QED BY <1>1, <1>2, <1>4, <2>1, <2>2
<1>5. CASE /\ index <= Len(image.directories)
           /\ ~DirectoryOK(image.directories[index], image)
  <2>1. pc' = "rejected" /\ index' = 1
    BY <1>1, <1>5 DEF CheckDirectory
  <2>2. index \in 1..Len(image.directories)
    BY <1>1, <1>5
  <2>3. Refused'
    BY <1>1, <1>5, <2>2 DEF Refused
  <2> QED BY <1>1, <2>1, <2>3
<1> QED BY <1>1, <1>3, <1>4, <1>5

LEMMA LastSteps ==
  IInv /\ (CheckLastPage \/ Fault \/ UNCHANGED vars) => IInv'
<1> SUFFICES ASSUME IInv, CheckLastPage \/ Fault \/ UNCHANGED vars PROVE IInv'
  OBVIOUS
<1> USE DEF IInv, TypeOK, Goto, AfterSections
<1>1. CASE CheckLastPage
  BY <1>1 DEF CheckLastPage, SectionsOK, DirectoriesOK
<1>2. CASE Fault
  BY <1>2 DEF Fault
<1>3. CASE UNCHANGED vars
  BY <1>3 DEF vars, SectionsOK, DirectoriesOK, Refused
<1> QED BY <1>1, <1>2, <1>3

LEMMA NextIInv == IInv /\ [Next]_vars => IInv'
BY HeadersStep, SectionStep, DirectoryStep, LastSteps DEF Next

-----------------------------------------------------------------------------
(* Theorems.                                                               *)

\* The loop indexes of the check of the image in a pool block stay within
\* their tables, whatever the headers say.
THEOREM PeTypeCorrect == Spec => []TypeOK
<1>1. IInv => TypeOK
  BY DEF IInv
<1> QED BY InitIInv, NextIInv, <1>1, PTL DEF Spec

\* For every width of the words and every header: in a block of at most 2 GB
\* the check accepts whole images only, though it adds in ULONGs.
THEOREM AcceptedIsWholeThm == Spec => []AcceptedIsWhole
<1>1. IInv => AcceptedIsWhole
  <2> SUFFICES ASSUME IInv, pc = "accepted", 2 * image.pool <= Modulus
               PROVE  Whole(image)
    BY DEF AcceptedIsWhole
  <2>1. /\ image \in Image /\ HeadersOK(image)
        /\ SectionsOK(Len(image.sections) + 1)
        /\ DirectoriesOK(Len(image.directories) + 1)
    BY DEF IInv, TypeOK, AfterSections
  <2>2. Len(image.sections) \in Nat /\ Len(image.directories) \in Nat
    BY <2>1, FieldTypes
  <2>3. /\ \A k \in 1..Len(image.sections) : SectionOK(image.sections[k], image)
        /\ \A k \in 1..Len(image.directories) : DirectoryOK(image.directories[k], image)
    BY <2>1, <2>2 DEF SectionsOK, DirectoriesOK
  <2> QED BY <2>1, <2>3, CheckedIsWhole
<1> QED BY InitIInv, NextIInv, <1>1, PTL DEF Spec

\* For every width of the words and every header: the check turns no whole
\* image down, in blocks of any size.
THEOREM RejectedIsNotWholeThm == Spec => []RejectedIsNotWhole
<1>1. IInv => RejectedIsNotWhole
  <2> SUFFICES ASSUME IInv, pc = "rejected", Whole(image)
               PROVE  FALSE
    BY DEF RejectedIsNotWhole
  <2>1. image \in Image /\ Refused
    BY DEF IInv, TypeOK
  <2>2. /\ HeadersOK(image)
        /\ \A k \in 1..Len(image.sections) : SectionOK(image.sections[k], image)
        /\ \A k \in 1..Len(image.directories) : DirectoryOK(image.directories[k], image)
    BY <2>1, WholeHeaders, WholeRanges
  <2> QED BY <2>1, <2>2 DEF Refused
<1> QED BY InitIInv, NextIInv, <1>1, PTL DEF Spec

=============================================================================
