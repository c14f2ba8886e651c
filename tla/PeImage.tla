------------------------------ MODULE PeImage ------------------------------
(***************************************************************************)
(* The check of View C that a big pool block holds a whole native image    *)
(* (IsCredibleBigPoolPeImage of AntiRootKitDriver/DetectHiddenModule.c):   *)
(* headers first, then section by section, directory by directory, and the *)
(* last page.  Sums of two ULONGs are taken modulo 2^32.                   *)
(***************************************************************************)
EXTENDS Integers, Sequences

CONSTANTS
  Modulus,        \* 2^32
  DosHeader,      \* sizeof(IMAGE_DOS_HEADER)
  NtHeaders,      \* sizeof(IMAGE_NT_HEADERS64)
  SectionHeader,  \* sizeof(IMAGE_SECTION_HEADER)
  Alignment,      \* of the NT headers
  MinImage,       \* ARK_BIGPOOL_MIN_IMAGE_SIZE
  MaxSections,    \* ARK_BIGPOOL_MAX_SECTIONS
  Images          \* what blocks may hold

Word == 0..(Modulus - 1)
Range == [va : Word, size : Word]
Image == [native : BOOLEAN,   \* MZ, PE, AMD64, PE32+, executable, native
          pool : Nat,         \* poolSize, 64 bits
          lfanew : Word, size : Word, headers : Word, entry : Word,
          sections : Seq(Range), directories : Seq(Range)]

ASSUME PeConstants ==
  /\ Modulus \in Nat \ {0} /\ Alignment \in Nat \ {0}
  /\ DosHeader \in Nat /\ NtHeaders \in Nat /\ SectionHeader \in Nat
  /\ MinImage \in Nat /\ MaxSections \in Nat
  /\ MinImage >= NtHeaders
  /\ 2 * (MaxSections * SectionHeader) < Modulus
  /\ Images \subseteq Image

VARIABLES
  image,
  pc,
  index     \* sectionIndex, directoryIndex

vars == <<image, pc, index>>

Plus(m, n) == (m + n) % Modulus

\* eLfanew + sizeof(IMAGE_NT_HEADERS64) + sectionTableBytes
EndOfTable(i) ==
  Plus(Plus(i.lfanew, NtHeaders), Len(i.sections) * SectionHeader)

HeadersOK(i) ==
  /\ i.native
  /\ i.pool >= MinImage
  /\ i.lfanew >= DosHeader /\ i.lfanew <= i.pool - NtHeaders
  /\ i.lfanew % Alignment = 0
  /\ Len(i.sections) \in 1..MaxSections
  /\ i.size >= MinImage /\ i.size <= i.pool
  /\ i.headers # 0 /\ i.headers <= i.size /\ i.headers <= i.pool
  /\ i.entry = 0 \/ i.entry < i.size
  /\ EndOfTable(i) <= i.headers /\ EndOfTable(i) <= i.pool

\* Seeded faults: the end of a section is not looked at; a section that ends
\* where the image does is refused.
SectionOK_StartOnly(s, i) == s.va < i.size
SectionOK_EndExcluded(s, i) ==
  s.va < i.size /\ (s.size = 0 \/ Plus(s.va, s.size) < i.size)

SectionOK(s, i) ==
  /\ s.va < i.size
  /\ s.size # 0 =>
       s.va <= i.size /\ s.size <= i.size /\ Plus(s.va, s.size) <= i.size

DirectoryOK(d, i) ==
  \/ d.va = 0 \/ d.size = 0
  \/ /\ d.va < i.size /\ d.size <= i.size
     /\ Plus(d.va, d.size) <= i.size /\ Plus(d.va, d.size) <= i.pool

-----------------------------------------------------------------------------

Goto(next) == pc' = next /\ index' = 1 /\ UNCHANGED image

\* An address that is not valid, or an exception, ends the check anywhere.
Fault ==
  /\ pc \in {"headers", "sections", "directories", "page"}
  /\ Goto("unreadable")

CheckHeaders ==
  /\ pc = "headers"
  /\ Goto(IF HeadersOK(image) THEN "sections" ELSE "rejected")

\* One turn of the first loop, and of the second: the range at index refuses
\* the image, or the next one is looked at, or the loop is over.
CheckSection ==
  /\ pc = "sections"
  /\ \/ index > Len(image.sections) /\ Goto("directories")
     \/ /\ index <= Len(image.sections)
        /\ IF SectionOK(image.sections[index], image)
           THEN index' = index + 1 /\ UNCHANGED <<image, pc>>
           ELSE Goto("rejected")

CheckDirectory ==
  /\ pc = "directories"
  /\ \/ index > Len(image.directories) /\ Goto("page")
     \/ /\ index <= Len(image.directories)
        /\ IF DirectoryOK(image.directories[index], image)
           THEN index' = index + 1 /\ UNCHANGED <<image, pc>>
           ELSE Goto("rejected")

CheckLastPage == pc = "page" /\ Goto("accepted")

Init == image \in Images /\ pc = "headers" /\ index = 1

Next == CheckHeaders \/ CheckSection \/ CheckDirectory \/ CheckLastPage \/ Fault

Spec == Init /\ [][Next]_vars

-----------------------------------------------------------------------------
(* Properties.                                                             *)

TypeOK ==
  /\ image \in Image
  /\ pc \in {"headers", "sections", "directories", "page",
             "accepted", "rejected", "unreadable"}
  /\ index \in Nat \ {0}
  /\ pc = "sections" => index <= Len(image.sections) + 1
  /\ pc = "directories" => index <= Len(image.directories) + 1

\* "SizeOfImage within the pool block, the directories and the section table
\* not beyond its bounds" (DetectHiddenModule.c:737-738), with the sums of
\* mathematics.
InImage(va, size, i) == va + size <= i.size

Whole(i) ==
  /\ i.native /\ i.lfanew % Alignment = 0 /\ i.lfanew >= DosHeader
  /\ Len(i.sections) \in 1..MaxSections
  /\ i.lfanew + NtHeaders + Len(i.sections) * SectionHeader <= i.headers
  /\ i.headers # 0 /\ i.headers <= i.size
  /\ i.size >= MinImage /\ i.size <= i.pool
  /\ i.entry = 0 \/ i.entry < i.size
  /\ \A k \in 1..Len(i.sections) :
       LET s == i.sections[k]
       IN  s.va < i.size /\ InImage(s.va, s.size, i)
  /\ \A k \in 1..Len(i.directories) :
       LET d == i.directories[k]
       IN  d.va = 0 \/ d.size = 0 \/ InImage(d.va, d.size, i)

\* In a block of at most 2 GB no sum of the check wraps around, so what is
\* accepted is whole.  (Above, e_lfanew or a section can wrap to a small end.)
AcceptedIsWhole ==
  pc = "accepted" /\ 2 * image.pool <= Modulus => Whole(image)

\* No whole image is turned down, whatever its size and in whichever loop.
RejectedIsNotWhole == pc = "rejected" => ~Whole(image)

=============================================================================
