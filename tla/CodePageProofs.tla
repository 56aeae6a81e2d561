---------------------------- MODULE CodePageProofs ----------------------------
(***************************************************************************)
(* Programs stay in the code page as long as a thread runs one, for any    *)
(* files, any number of threads and any order in which they are loaded,    *)
(* create threads, end and are cancelled.                                  *)
(***************************************************************************)
EXTENDS CodePage, ThreadsProofs, WellFoundedInduction

\* What the linker gives for each program is what the loader takes for granted.
LinkedPrograms == \A p \in Programs : Linked(Elfs[p])

\* No canary is overwritten: a thread destroyed for that keeps the page.
WellBehaved == NoneRemoved /\ WakesOnlyWaiting /\ "stack_error" \notin Calls

----------------------------------------------------------------------------
(* What a file has in the page.                                            *)

IsContent(section) == section.alloc /\ section.sh_type \in {SHT_PROGBITS, SHT_NOBITS}

\* The sections before the n-th are in the page.
HasSections(page, file, n) ==
    \A i \in DOMAIN file.sections : i < n /\ IsContent(file.sections[i]) =>
        \A c \in ImageCells(file, file.sections[i]) :
            c \in Cells /\ page[c] = InFile(file, file.sections[i], c)

\* Relocation l of section i comes before relocation k of section n.
IsDone(file, n, k, i, l) ==
    /\ i \in DOMAIN file.sections /\ HasRelocations(file.sections[i])
    /\ l \in DOMAIN file.sections[i].relocs
    /\ i < n \/ (i = n /\ l < k)

\* All sections are in the page, with the relocations before that one.
HasRelocated(page, file, n, k) ==
    \A s \in Contents(file) : \A c \in ImageCells(file, s) :
        /\ c \in Cells
        /\ \/ page[c] = InFile(file, s, c)
           \/ \E i, l \in Nat : IsDone(file, n, k, i, l) /\ file.sections[i].relocs[l].r_offset = c
        /\ \A i, l \in Nat :
              IsDone(file, n, k, i, l) /\ file.sections[i].relocs[l].r_offset = c
                 => page[c] = Relocated(file.sections[i].relocs[l], InFile(file, s, c))

----------------------------------------------------------------------------
(* The invariant.                                                          *)

Loadings ==
    [at : {"done", "header", "sections", "relocations"}, file : Programs \cup {"none"},
     remove : RemoveSets \cup {{}}, section : Nat, reloc : Nat, found : BOOLEAN]

\* A loader counts from 1, and knows whether it has loaded anything.
LoaderOK(l) ==
    /\ l.at # "done" => l.file \in Programs
    /\ l.at = "header" => ~l.found
    /\ l.at = "sections" =>
          /\ l.section > 0
          /\ l.found <=> \E i \in DOMAIN Elfs[l.file].sections :
                            i < l.section /\ Elfs[l.file].sections[i].alloc
    /\ l.at = "relocations" => l.section > 0 /\ l.reloc > 0

LoadersOK == loading \in [Tids -> Loadings] /\ \A t \in Tids : LoaderOK(loading[t])

\* A thread that has the page is alive and has not cleaned up, one that runs a
\* program or loads one has it, and one that loads has it alone.
UsersTypeOK ==
    /\ in_code_page \in [Tids -> BOOLEAN]
    /\ program \in [Tids -> Programs \cup {"kernel"}]

IsUser(t) ==
    /\ in_code_page[t] => ~SlotIsFree(t) /\ stage[t] = "work"
    /\ IsLoader(t) => program[t] = "kernel" /\ stage[t] = "work"
    /\ ~SlotIsFree(t) /\ stage[t] = "work" /\ (IsLoader(t) \/ program[t] # "kernel")
          => in_code_page[t]

LoadsAlone ==
    \A t, u \in Tids : ~SlotIsFree(t) /\ IsLoader(t) /\ in_code_page[u] => u = t

LoadedSoFar(page, l) ==
    /\ l.at = "sections" => HasSections(page, Elfs[l.file], l.section)
    /\ l.at = "relocations" => HasRelocated(page, Elfs[l.file], l.section, l.reloc)

UsersInv == UsersTypeOK /\ (\A t \in Tids : IsUser(t)) /\ LoadsAlone

\* The page of a thread that has it.
ItsPage(t) ==
    in_code_page[t] =>
        /\ program[t] # "kernel" => IsImageOf(code_page, Elfs[program[t]])
        /\ IsLoader(t) => LoadedSoFar(code_page, loading[t])

\* The page and its users.
PageOK == UsersInv /\ DOMAIN code_page = Cells /\ \A t \in Tids : ItsPage(t)

PageInv == SafeInv /\ BootInv /\ LoadersOK /\ PageOK

----------------------------------------------------------------------------
(* Loading a file, a section and a relocation at a time.                   *)

\* Sections have their places in the page where the loader puts them.
LEMMA SectionPlaces ==
    ASSUME NEW file \in Files, NEW s \in Sections
    PROVE  /\ FirstCell(file, s) = section_start(file, s) - CodePageStart
           /\ FirstCell(file, s) \in Int
           /\ section_start(file, s) \in Int /\ section_end(file, s) \in Int
           /\ CellsOf(file, s) = ImageCells(file, s)
           /\ SectionFits(file, s) => ImageCells(file, s) \subseteq Cells
  <1>1. CodePageStart \in Nat /\ CODE_PAGE_SIZE \in Nat
    BY CodePageAssumption
  <1>2. s.sh_addr \in Int /\ s.sh_size \in Nat
    BY DEF Sections
  <1>3. /\ FirstCell(file, s) = section_start(file, s) - CodePageStart
        /\ FirstCell(file, s) \in Int /\ section_start(file, s) \in Int
    BY <1>1, <1>2 DEF FirstCell, section_start
  <1>4. section_end(file, s) = section_start(file, s) + s.sh_size
    BY DEF section_end
  <1>5. CellsOf(file, s) = ImageCells(file, s)
    BY <1>1, <1>2, <1>3, <1>4 DEF CellsOf, ImageCells
  <1>6. SectionFits(file, s) => ImageCells(file, s) \subseteq Cells
    BY <1>1, <1>2, <1>3, <1>4 DEF ImageCells, SectionFits, CodePageEnd, Cells
  <1> QED
    BY <1>2, <1>3, <1>4, <1>5, <1>6

\* A section of a file.
LEMMA SectionIs ==
    ASSUME NEW file \in Files, NEW i \in DOMAIN file.sections
    PROVE  /\ file.sections[i] \in Sections
           /\ i \in Nat /\ i > 0 /\ i <= Len(file.sections)
           /\ Len(file.sections) \in Nat /\ DOMAIN file.sections = 1 .. Len(file.sections)
           /\ DOMAIN file.sections[i].relocs = 1 .. Len(file.sections[i].relocs)
           /\ Len(file.sections[i].relocs) \in Nat
           /\ \A k \in DOMAIN file.sections[i].relocs :
                 /\ file.sections[i].relocs[k] \in Relocations
                 /\ k \in Nat /\ k > 0 /\ k <= Len(file.sections[i].relocs)
  <1>1. file.sections \in Seq(Sections)
    BY DEF Files
  <1>2. file.sections[i] \in Sections
    BY <1>1
  <1>3. file.sections[i].relocs \in Seq(Relocations)
    BY <1>2 DEF Sections
  <1> QED
    BY <1>1, <1>2, <1>3

\* What load_section does to the cells of a section that has contents, and to others.
LEMMA LoadedCells ==
    ASSUME NEW file \in Files, NEW s \in Sections, NEW page, NEW c \in Cells
    PROVE  /\ IsContent(s) /\ c \in ImageCells(file, s)
                 => load_section(page, file, s)[c] = InFile(file, s, c)
           /\ ~s.alloc \/ c \notin ImageCells(file, s)
                 => load_section(page, file, s)[c] = page[c]
  <1>1. CellsOf(file, s) = ImageCells(file, s)
        /\ FirstCell(file, s) = section_start(file, s) - CodePageStart
    BY SectionPlaces
  <1>2. load_section(page, file, s)[c] =
            IF ~s.alloc \/ c \notin ImageCells(file, s) THEN page[c]
            ELSE IF ZeroInit(s) THEN 0
            ELSE s.content[c - FirstCell(file, s) + 1]
    BY <1>1 DEF load_section
  <1>3. IsContent(s) => (ZeroInit(s) <=> s.sh_type = SHT_NOBITS)
    BY DEF IsContent, ZeroInit, SHT_PROGBITS, SHT_NOBITS
  <1> QED
    BY <1>2, <1>3 DEF InFile, IsContent

\* The next section, in its place, leaves those that are there alone.
LEMMA SectionLoads ==
    ASSUME NEW file \in Files, Linked(file), NEW n \in DOMAIN file.sections, NEW page,
           CanLoad(file, file.sections[n]), HasSections(page, file, n)
    PROVE  HasSections(load_section(page, file, file.sections[n]), file, n + 1)
  <1> DEFINE s == file.sections[n]
  <1> SUFFICES ASSUME NEW i \in DOMAIN file.sections, i < n + 1, IsContent(file.sections[i]),
                      NEW c \in ImageCells(file, file.sections[i])
               PROVE  /\ c \in Cells
                      /\ load_section(page, file, s)[c] = InFile(file, file.sections[i], c)
    BY DEF HasSections
  <1>1. file.sections[i] \in Sections /\ s \in Sections /\ i \in Nat /\ n \in Nat
    BY SectionIs
  <1>2. CASE i = n
    <2>1. c \in Cells
      BY <1>1, <1>2, SectionPlaces DEF CanLoad, IsContent
    <2> QED
      BY <1>1, <1>2, <2>1, LoadedCells
  <1>3. CASE i # n
    <2>1. c \in Cells /\ page[c] = InFile(file, file.sections[i], c)
      BY <1>1, <1>3 DEF HasSections
    <2>2. ~s.alloc \/ c \notin ImageCells(file, s)
      BY <1>1, <1>3, SectionPlaces DEF Linked, IsContent
    <2>3. load_section(page, file, s)[c] = page[c]
      BY <1>1, <2>1, <2>2, LoadedCells
    <2> QED
      BY <2>1, <2>3
  <1> QED
    BY <1>2, <1>3

\* Once all sections are in the page, relocations come.
LEMMA SectionsAreLoaded ==
    ASSUME NEW file \in Files, NEW n \in Nat, n > Len(file.sections), NEW page,
           HasSections(page, file, n)
    PROVE  HasRelocated(page, file, 1, 1)
  <1>1. ASSUME NEW s \in Contents(file), NEW c \in ImageCells(file, s)
        PROVE  c \in Cells /\ page[c] = InFile(file, s, c)
    <2>1. PICK i \in DOMAIN file.sections : s = file.sections[i] /\ IsContent(s)
      BY DEF Contents, SectionsOf, IsContent
    <2>2. i < n
      BY SectionIs
    <2> QED
      BY <2>1, <2>2 DEF HasSections
  <1>2. ASSUME NEW i \in Nat, NEW l \in Nat
        PROVE  ~IsDone(file, 1, 1, i, l)
    BY SectionIs DEF IsDone
  <1> QED
    BY <1>1, <1>2 DEF HasRelocated

\* The end of the relocations of a section is the start of those of the next.
LEMMA RelocationsGoOn ==
    ASSUME NEW file \in Files, NEW n \in DOMAIN file.sections, NEW k \in Nat, NEW page,
           ~HasRelocations(file.sections[n]) \/ k > Len(file.sections[n].relocs),
           HasRelocated(page, file, n, k)
    PROVE  HasRelocated(page, file, n + 1, 1)
  <1>1. ASSUME NEW i \in Nat, NEW l \in Nat
        PROVE  IsDone(file, n + 1, 1, i, l) <=> IsDone(file, n, k, i, l)
    BY SectionIs DEF IsDone
  <1> QED
    BY <1>1 DEF HasRelocated

\* A relocation that the loader writes is the one that the file asks for.
LEMMA WordIsRelocated ==
    ASSUME NEW file \in Files, Linked(file), NEW s \in Contents(file), NEW r \in RelocsOf(file),
           CanResolve(r), r.r_offset \in ImageCells(file, s), NEW page, r.r_offset \in DOMAIN page,
           page[r.r_offset] = InFile(file, s, r.r_offset)
    PROVE  resolve_reloc(page, r)[r.r_offset] = Relocated(r, InFile(file, s, r.r_offset))
  <1> DEFINE c == r.r_offset
             word == InFile(file, s, c)
             addend == IF UsesRela THEN r.r_addend ELSE 0
  <1>1. IF UsesRela THEN r.r_type = "RELATIVE" => word = r.r_addend
        ELSE r.r_type \in {"GLOB_DAT", "REL32"} => word = 0
    BY DEF Linked
  <1>2. resolve_reloc(page, r)[c] =
            CASE r.r_type = "RELATIVE" -> page[c] + CodePageStart
              [] r.r_type \in {"GLOB_DAT", "JUMP_SLOT"} -> SymbolValue(r.symbol) + addend
              [] r.r_type = "REL32" -> SymbolValue(r.symbol) + addend - (CodePageStart + c)
    BY DEF resolve_reloc
  <1>3. r.r_type \in {"RELATIVE", "GLOB_DAT", "JUMP_SLOT", "REL32"}
    BY DEF CanResolve
  <1> HIDE DEF word, c
  <1>4. CASE r.r_type = "RELATIVE"
    BY <1>1, <1>2, <1>4 DEF Relocated, word, c
  <1>5. CASE r.r_type = "GLOB_DAT"
    BY <1>1, <1>2, <1>5 DEF Relocated, word, c
  <1>6. CASE r.r_type = "JUMP_SLOT"
    BY <1>1, <1>2, <1>6 DEF Relocated, word, c
  <1>7. CASE r.r_type = "REL32"
    BY <1>1, <1>2, <1>7 DEF Relocated, word, c
  <1> QED
    BY <1>3, <1>4, <1>5, <1>6, <1>7 DEF word, c

\* The next relocation goes to a word that has none yet.
LEMMA RelocationApplies ==
    ASSUME NEW file \in Files, Linked(file), NEW n \in DOMAIN file.sections,
           HasRelocations(file.sections[n]), NEW k \in DOMAIN file.sections[n].relocs,
           CanResolve(file.sections[n].relocs[k]),
           NEW page, DOMAIN page = Cells, HasRelocated(page, file, n, k)
    PROVE  HasRelocated(resolve_reloc(page, file.sections[n].relocs[k]), file, n, k + 1)
  <1> DEFINE r == file.sections[n].relocs[k]
             after == resolve_reloc(page, r)
  <1>1. n \in Nat /\ k \in Nat /\ r \in RelocsOf(file) /\ r.r_offset \in Cells
    BY SectionIs DEF RelocsOf, SectionsOf, CanResolve
  <1>2. ASSUME NEW i \in Nat, NEW l \in Nat
        PROVE  IsDone(file, n, k + 1, i, l) <=> IsDone(file, n, k, i, l) \/ (i = n /\ l = k)
    BY <1>1, SectionIs DEF IsDone
  <1>3. ASSUME NEW i \in Nat, NEW l \in Nat, IsDone(file, n, k, i, l)
        PROVE  file.sections[i].relocs[l].r_offset # r.r_offset
    BY <1>1, <1>3, SectionIs DEF IsDone, Linked
  <1>4. ASSUME NEW c \in Cells, c # r.r_offset
        PROVE  after[c] = page[c]
    BY <1>4 DEF resolve_reloc
  <1> SUFFICES ASSUME NEW s \in Contents(file), NEW c \in ImageCells(file, s)
               PROVE  /\ c \in Cells
                      /\ \/ after[c] = InFile(file, s, c)
                         \/ \E i, l \in Nat : /\ IsDone(file, n, k + 1, i, l)
                                              /\ file.sections[i].relocs[l].r_offset = c
                      /\ \A i, l \in Nat :
                            /\ IsDone(file, n, k + 1, i, l)
                            /\ file.sections[i].relocs[l].r_offset = c
                            => after[c] = Relocated(file.sections[i].relocs[l], InFile(file, s, c))
    BY DEF HasRelocated
  <1>5. /\ c \in Cells
        /\ \/ page[c] = InFile(file, s, c)
           \/ \E i, l \in Nat : IsDone(file, n, k, i, l) /\ file.sections[i].relocs[l].r_offset = c
        /\ \A i, l \in Nat :
              IsDone(file, n, k, i, l) /\ file.sections[i].relocs[l].r_offset = c
                 => page[c] = Relocated(file.sections[i].relocs[l], InFile(file, s, c))
    BY DEF HasRelocated
  <1>6. CASE c = r.r_offset
    <2>1. page[c] = InFile(file, s, c)
      BY <1>3, <1>5, <1>6
    <2>2. after[c] = Relocated(r, InFile(file, s, c))
      BY <1>1, <1>6, <2>1, WordIsRelocated
    <2> HIDE DEF after
    <2> QED
      BY <1>1, <1>2, <1>3, <1>5, <1>6, <2>2
  <1>7. CASE c # r.r_offset
    <2>1. after[c] = page[c]
      BY <1>4, <1>5, <1>7
    <2> HIDE DEF after
    <2> QED
      BY <1>1, <1>2, <1>5, <1>7, <2>1
  <1> QED
    BY <1>6, <1>7

\* Once all relocations are done the page has the file.
LEMMA FileIsLoaded ==
    ASSUME NEW file \in Files, NEW n \in Nat, n > Len(file.sections), NEW k, NEW page,
           HasRelocated(page, file, n, k)
    PROVE  IsImageOf(page, file)
  <1> SUFFICES ASSUME NEW s \in Contents(file), NEW c \in ImageCells(file, s),
                      NEW relocs, relocs = {r \in RelocsOf(file) : r.r_offset = c}
               PROVE  /\ c \in Cells
                      /\ IF relocs = {} THEN page[c] = InFile(file, s, c)
                         ELSE \E r \in relocs : page[c] = Relocated(r, InFile(file, s, c))
    BY DEF IsImageOf
  <1>1. ASSUME NEW r \in RelocsOf(file)
        PROVE  \E i, l \in Nat : IsDone(file, n, k, i, l) /\ r = file.sections[i].relocs[l]
    <2>1. PICK i \in DOMAIN file.sections :
             /\ HasRelocations(file.sections[i])
             /\ \E l \in DOMAIN file.sections[i].relocs : r = file.sections[i].relocs[l]
      BY DEF RelocsOf, SectionsOf
    <2>2. PICK l \in DOMAIN file.sections[i].relocs : r = file.sections[i].relocs[l]
      BY <2>1
    <2>3. i \in Nat /\ l \in Nat /\ i < n
      BY SectionIs
    <2> QED
      BY <2>1, <2>2, <2>3 DEF IsDone
  <1>2. ASSUME NEW i, NEW l, IsDone(file, n, k, i, l)
        PROVE  file.sections[i].relocs[l] \in RelocsOf(file)
    BY <1>2 DEF IsDone, RelocsOf, SectionsOf
  <1>3. c \in Cells
    BY DEF HasRelocated
  <1>4. CASE relocs = {}
    BY <1>2, <1>3, <1>4 DEF HasRelocated
  <1>5. CASE relocs # {}
    <2>1. PICK r \in relocs : r \in RelocsOf(file) /\ r.r_offset = c
      BY <1>5
    <2>2. page[c] = Relocated(r, InFile(file, s, c))
      BY <1>1, <2>1 DEF HasRelocated
    <2> QED
      BY <1>3, <1>5, <2>1, <2>2
  <1> QED
    BY <1>4, <1>5


----------------------------------------------------------------------------
(* The loaders.                                                            *)

\* The steps of a loader inside load_elf, but for its failures.
LoaderStep == OpenElf \/ LoadSection \/ LoadedSections \/ ResolveReloc \/ NextSection

\* The steps that have nothing to do with programs.
Elsewhere ==
    \/ /\ Worker
       /\ \/ YieldAny \/ ThreadWait \/ StackError
          \/ \E t \in Tids : ThreadWake(t)
          \/ \E armed \in BOOLEAN : SetTimer(armed)
          \/ \E destroy \in BOOLEAN : SetKernelConfig(destroy)
    \/ Tick \/ SetFinished \/ YieldAsm \/ Halted

\* A step is one of the actions, told apart by what they do to the page.
LEMMA PageStepIs ==
    ASSUME [PageNext]_pageVars
    PROVE  \/ LoaderStep \/ RestartAsProgram \/ LoaderExits
           \/ \E t \in Tids :
                \/ Create(t)
                \/ \E f \in Programs, remove \in RemoveSets : AddThreadFromFile(t, f, remove)
           \/ /\ Worker
              /\ \/ CleanupThread /\ ReleasePage(current)
                 \/ \E t \in Tids : ThreadCancel(t) /\ ReleasePage(t)
              /\ UNCHANGED <<code_page, program, loading>>
           \/ Elsewhere /\ UNCHANGED <<code_page, in_code_page, program, loading>>
           \/ UNCHANGED pageVars
  BY DEF PageNext, LoaderStep, Elsewhere

\* Nothing is loaded before the boot.
LEMMA LoadersStart == PageInit => LoadersOK
  BY DEF PageInit, NotLoading, LoadersOK, LoaderOK, Loadings

\* Each step of a loader leaves it counting right, from where it was.
LEMMA LoaderGoesOn ==
    ASSUME LoadersOK, current \in Tids, LoaderStep
    PROVE  /\ UNCHANGED vars
           /\ \E l \in Loadings : /\ LoaderOK(l) /\ l.at # "done"
                                /\ loading' = [loading EXCEPT ![current] = l]
  <1>1. PICK l : l = loading[current]
    OBVIOUS
  <1>2. l \in Loadings /\ LoaderOK(l)
    BY <1>1 DEF LoadersOK
  <1>a. l.section \in Nat /\ l.reloc \in Nat
    BY <1>2 DEF Loadings
  <1>3. CASE OpenElf
    <2>1. l.at = "header" /\ UNCHANGED vars
          /\ loading' = [loading EXCEPT ![current] = [l EXCEPT !.at = "sections", !.section = 1]]
      BY <1>1, <1>3 DEF OpenElf, LoaderAt, GoTo, Self, Loaded
    <2>2. /\ LoaderOK([l EXCEPT !.at = "sections", !.section = 1])
          /\ [l EXCEPT !.at = "sections", !.section = 1].at = "sections"
      <3>1. l.file \in Programs /\ ~l.found
        BY <1>2, <2>1 DEF LoaderOK
      <3>2. \A i \in DOMAIN Elfs[l.file].sections : ~(i < 1)
        BY <3>1, SectionIs, ProgramsAssumption
      <3> DEFINE next == [l EXCEPT !.at = "sections", !.section = 1]
      <3>3. /\ next.at = "sections" /\ next.file = l.file /\ next.section = 1
            /\ next.found = l.found
        BY <1>2 DEF Loadings
      <3> HIDE DEF next
      <3> QED
        BY <3>1, <3>2, <3>3 DEF LoaderOK
    <2> QED
      BY <1>2, <2>1, <2>2 DEF Loadings
  <1>4. CASE LoadSection
    <2> DEFINE next == [l EXCEPT !.section = @ + 1, !.found = @ \/ Section.alloc]
    <2>1. l.at = "sections" /\ UNCHANGED vars /\ loading' = [loading EXCEPT ![current] = next]
          /\ l.section <= Len(Elfs[l.file].sections)
      BY <1>1, <1>4 DEF LoadSection, LoaderAt, GoTo, Self, Loaded, File
    <2>2. l.file \in Programs /\ l.section > 0 /\ l.section \in Nat
      BY <1>a, <1>2, <2>1 DEF LoaderOK
    <2>3. /\ Elfs[l.file] \in Files /\ Elfs[l.file].sections \in Seq(Sections)
          /\ l.section \in DOMAIN Elfs[l.file].sections
      BY <2>1, <2>2, ProgramsAssumption DEF Files
    <2>4. Section = Elfs[l.file].sections[l.section] /\ Section.alloc \in BOOLEAN
      <3>1. Section = Elfs[l.file].sections[l.section]
        BY <1>1 DEF Section, File, Self
      <3> QED
        BY <2>3, <3>1, SectionIs DEF Sections
    <2>5. next \in Loadings
      <3>1. PICK b \in BOOLEAN : b = (l.found \/ Section.alloc)
        OBVIOUS
      <3>2. PICK n \in Nat : n = l.section + 1
        BY <1>a
      <3>3. next = [l EXCEPT !.section = n, !.found = b]
        BY <3>1, <3>2
      <3> QED
        BY <1>2, <3>3 DEF Loadings
    <2>6. \A i \in DOMAIN Elfs[l.file].sections :
             i < l.section + 1 <=> i < l.section \/ i = l.section
      BY <2>2, <2>3, SectionIs
    <2>7. LoaderOK(next) /\ next.at = "sections"
      <3>1. next.at = "sections" /\ next.file = l.file /\ next.section = l.section + 1
            /\ (next.found <=> l.found \/ Section.alloc)
        BY <1>2, <2>1 DEF Loadings
      <3> HIDE DEF next
      <3> QED
        BY <1>2, <2>1, <2>2, <2>3, <2>4, <2>6, <3>1 DEF LoaderOK
    <2> QED
      BY <2>1, <2>5, <2>7
  <1>5. CASE LoadedSections
    <2> DEFINE next == [l EXCEPT !.at = "relocations", !.section = 1, !.reloc = 1]
    <2>1. l.at = "sections" /\ UNCHANGED vars /\ loading' = [loading EXCEPT ![current] = next]
      BY <1>1, <1>5 DEF LoadedSections, LoaderAt, GoTo, Self, Loaded
    <2>2. next \in Loadings /\ next.at = "relocations" /\ next.file = l.file
          /\ next.section = 1 /\ next.reloc = 1
      BY <1>2, <2>1 DEF Loadings
    <2> HIDE DEF next
    <2>3. LoaderOK(next)
      BY <1>2, <2>1, <2>2 DEF LoaderOK
    <2> QED
      BY <2>1, <2>2, <2>3
  <1>6. CASE ResolveReloc
    <2> DEFINE next == [l EXCEPT !.reloc = @ + 1]
    <2>1. l.at = "relocations" /\ UNCHANGED vars /\ loading' = [loading EXCEPT ![current] = next]
      BY <1>1, <1>6 DEF ResolveReloc, LoaderAt, GoTo, Self, Loaded
    <2>a. PICK n \in Nat : n = l.reloc + 1
      BY <1>a
    <2>b. next = [l EXCEPT !.reloc = n]
      BY <2>a
    <2>2. next \in Loadings /\ next.at = "relocations" /\ next.file = l.file
          /\ next.section = l.section /\ next.reloc = l.reloc + 1
      BY <1>2, <2>1, <2>a, <2>b DEF Loadings
    <2> HIDE DEF next
    <2>3. LoaderOK(next)
      BY <1>2, <2>1, <2>2 DEF LoaderOK, Loadings
    <2> QED
      BY <2>1, <2>2, <2>3
  <1>7. CASE NextSection
    <2> DEFINE next == [l EXCEPT !.section = @ + 1, !.reloc = 1]
    <2>1. l.at = "relocations" /\ UNCHANGED vars /\ loading' = [loading EXCEPT ![current] = next]
      BY <1>1, <1>7 DEF NextSection, LoaderAt, GoTo, Self, Loaded
    <2>a. PICK n \in Nat : n = l.section + 1
      BY <1>a
    <2>b. next = [l EXCEPT !.section = n, !.reloc = 1]
      BY <2>a
    <2>2. next \in Loadings /\ next.at = "relocations" /\ next.file = l.file
          /\ next.section = l.section + 1 /\ next.reloc = 1
      BY <1>2, <2>1, <2>a, <2>b DEF Loadings
    <2> HIDE DEF next
    <2>3. LoaderOK(next)
      BY <1>2, <2>1, <2>2 DEF LoaderOK, Loadings
    <2> QED
      BY <2>1, <2>2, <2>3
  <1> QED
    BY <1>3, <1>4, <1>5, <1>6, <1>7 DEF LoaderStep

\* Every step keeps the loaders counting right.
LEMMA LoadersStep ==
    ASSUME SafeInv, LoadersOK, [PageNext]_pageVars
    PROVE  LoadersOK'
  <1>0. kernel = "up" => current \in Tids
    BY WorkerIsLive
  <1>1. CASE \E t \in Tids, l \in Loadings : LoaderOK(l) /\ loading' = [loading EXCEPT ![t] = l]
    BY <1>1 DEF LoadersOK
  <1>2. CASE UNCHANGED loading
    BY <1>2 DEF LoadersOK
  <1>3. NotLoading \in Loadings /\ LoaderOK(NotLoading)
    BY DEF NotLoading, Loadings, LoaderOK
  <1>4. CASE LoaderStep
    <2>1. kernel = "up"
      BY <1>4 DEF LoaderStep, OpenElf, LoadSection, LoadedSections, ResolveReloc, NextSection,
                  LoaderAt
    <2> QED
      BY <1>0, <1>1, <1>4, <2>1, LoaderGoesOn
  <1>5. CASE RestartAsProgram
    BY <1>0, <1>1, <1>3, <1>5 DEF RestartAsProgram, LoaderAt, GoTo
  <1>6. CASE \E t \in Tids : Create(t)
    BY <1>1, <1>3, <1>6 DEF Create
  <1>7. ASSUME NEW t \in Tids, NEW f \in Programs, NEW remove \in RemoveSets,
               AddThreadFromFile(t, f, remove)
        PROVE  LoadersOK'
    <2>1. Loader(f, remove) \in Loadings /\ LoaderOK(Loader(f, remove))
      BY <1>3 DEF Loader, NotLoading, Loadings, LoaderOK
    <2> QED
      BY <1>1, <1>7, <2>1 DEF AddThreadFromFile
  <1> QED
    BY <1>2, <1>4, <1>5, <1>6, <1>7, PageStepIs DEF LoaderExits, pageVars

\* A step of this module is a step of the threads.
LEMMA PageThreadsStep ==
    ASSUME NoneRemoved, SafeInv, LoadersOK, [PageNext]_pageVars
    PROVE  [Next]_vars
  <1>1. CASE LoaderStep
    <2>1. UNCHANGED vars
      BY <1>1 DEF LoaderStep, OpenElf, LoadSection, LoadedSections, ResolveReloc, NextSection,
                  Loaded
    <2> QED
      BY <2>1
  <1>2. CASE RestartAsProgram
    <2>1. current \in Tids
      BY <1>2, WorkerIsLive DEF RestartAsProgram, LoaderAt
    <2>2. Self.remove \in RemoveSets
      BY <2>1 DEF Self, LoadersOK, Loadings, NoneRemoved
    <2> QED
      BY <1>2, <2>2 DEF RestartAsProgram, Next, UserStep
  <1>3. CASE ~LoaderStep /\ ~RestartAsProgram
    BY <1>3, PageStepIs DEF LoaderExits, Create, AddThreadFromFile, Elsewhere, pageVars,
           NoneRemoved, Next, UserStep, ThreadEnd
  <1> QED
    BY <1>1, <1>2, <1>3


\* Steps that are not a loader's do not stop the kernel with status 1, unless a
\* worker's stack is broken.
LEMMA LoaderStops ==
    ASSUME SafeInv, LoadersOK, [PageNext]_pageVars,
           kernel = "up", IsLoader(current), kernel' = "exit1"
    PROVE  LoaderFails
  <1>1. CASE LoaderStep
    <2>1. UNCHANGED vars
      BY <1>1, LoaderGoesOn, WorkerIsLive
    <2> QED
      BY <2>1 DEF vars
  <1>2. CASE Elsewhere
    <2>1. ~Worker
      BY DEF Worker
    <2>2. Tick \/ SetFinished \/ YieldAsm \/ Halted
      BY <1>2, <2>1 DEF Elsewhere
    <2> QED
      BY <2>2, SchedulerKeepsDead DEF Tick, SetFinished, YieldAsm, Halted, vars, NULL
  <1>3. CASE UNCHANGED pageVars \/ RestartAsProgram
    BY <1>3 DEF pageVars, vars, RestartAsProgram, Restart
  <1>4. CASE \E t \in Tids :
                \/ Create(t)
                \/ \E f \in Programs, remove \in RemoveSets : AddThreadFromFile(t, f, remove)
    BY <1>4 DEF Create, AddThreadFromFile, Boot, Worker
  <1> QED
    BY <1>1, <1>2, <1>3, <1>4, PageStepIs DEF LoaderExits, Worker

\* What a loader asks for is there, if it may read it and the linker made it so.
LEMMA LoadableIsThere ==
    ASSUME LoadersOK, current \in Tids, IsLoader(current), Loadable(File), CanRead
    PROVE  ~LoaderFails
  <1>1. PICK l \in Loadings : l = loading[current] /\ LoaderOK(l) /\ l.at # "done"
    BY DEF LoadersOK, IsLoader
  <1>2. PICK file \in Files : file = File /\ l.file \in Programs /\ file = Elfs[l.file]
    BY <1>1, ProgramsAssumption DEF LoaderOK, File, Self
  <1>3. /\ check_elf_hdr(file)
        /\ \E s \in SectionsOf(file) : s.alloc
        /\ \A s \in SectionsOf(file) :
              /\ s.named
              /\ s.alloc =>
                  /\ FirstCell(file, s) >= 0
                  /\ FirstCell(file, s) + s.sh_size < CODE_PAGE_SIZE
                  /\ s.sh_type = SHT_NOBITS \/ Len(s.content) >= s.sh_size
              /\ HasRelocations(s) => ExpectedRelocations(s)
        /\ \A r \in RelocsOf(file) : CanResolve(r)
    BY <1>2 DEF Loadable
  <1>4. /\ l.section \in Nat /\ l.reloc \in Nat
        /\ Len(file.sections) \in Nat /\ DOMAIN file.sections = 1 .. Len(file.sections)
    BY <1>1 DEF Loadings, Files
  <1>5. Self = l /\ File = file /\ Section = file.sections[l.section]
    BY <1>1, <1>2 DEF Self, File, Section
  <1>6. ~(LoaderAt("header") /\ ~(CanRead /\ check_elf_hdr(File)))
    BY <1>3, <1>5
  <1>7. ASSUME LoaderAt("sections"), l.section > Len(file.sections)
        PROVE  l.found
    <2>1. PICK i \in DOMAIN file.sections : file.sections[i].alloc
      BY <1>3 DEF SectionsOf
    <2>2. i < l.section
      BY <1>4, <1>7
    <2> QED
      BY <1>1, <1>2, <1>7, <2>1, <2>2 DEF LoaderAt, LoaderOK
  <1>8. ASSUME NEW i \in DOMAIN file.sections
        PROVE  CanLoad(file, file.sections[i])
    <2>1. file.sections[i] \in SectionsOf(file) /\ file.sections[i] \in Sections
      BY SectionIs DEF SectionsOf
    <2>2. PICK s \in Sections : s = file.sections[i]
      BY <2>1
    <2>3. ASSUME s.alloc
          PROVE  SectionFits(file, s) /\ (ZeroInit(s) \/ Len(s.content) >= s.sh_size)
      <3>1. s.sh_type = SHT_NOBITS => ZeroInit(s)
        BY DEF ZeroInit, SHT_NOBITS
      <3>2. /\ FirstCell(file, s) = section_start(file, s) - CodePageStart
            /\ section_start(file, s) \in Int
            /\ section_end(file, s) = section_start(file, s) + s.sh_size
            /\ s.sh_size \in Nat
        BY SectionPlaces DEF section_end, Sections
      <3>3. FirstCell(file, s) >= 0 /\ FirstCell(file, s) + s.sh_size < CODE_PAGE_SIZE
        BY <1>3, <2>1, <2>2, <2>3
      <3>4. SectionFits(file, s)
        BY <3>2, <3>3, CodePageAssumption DEF SectionFits, CodePageEnd
      <3> QED
        BY <1>3, <2>1, <2>2, <2>3, <3>1, <3>4
    <2> QED
      BY <1>3, <2>1, <2>2, <2>3 DEF CanLoad
  <1>9. ASSUME LoaderAt("sections"), l.section <= Len(file.sections)
        PROVE  CanLoad(File, Section)
    <2>1. l.section > 0
      BY <1>1, <1>9 DEF LoaderAt, LoaderOK
    <2>2. l.section \in DOMAIN file.sections
      BY <1>4, <1>9, <2>1
    <2> QED
      BY <1>5, <1>8, <2>2
  <1>10. ASSUME LoaderAt("relocations"), l.section <= Len(file.sections), HasRelocations(Section)
         PROVE  /\ ExpectedRelocations(Section)
                /\ l.reloc <= Len(Section.relocs) => CanResolve(Section.relocs[l.reloc])
    <2>1. l.section > 0 /\ l.reloc > 0
      BY <1>1, <1>10 DEF LoaderAt, LoaderOK
    <2>2. l.section \in DOMAIN file.sections
      BY <1>4, <1>10, <2>1
    <2>3. Section \in SectionsOf(file)
      BY <1>5, <2>2 DEF SectionsOf
    <2>4. ASSUME l.reloc <= Len(Section.relocs)
          PROVE  Section.relocs[l.reloc] \in RelocsOf(file)
      <3>1. l.reloc \in DOMAIN Section.relocs
        BY <1>4, <1>5, <2>1, <2>2, <2>4, SectionIs
      <3> QED
        BY <1>10, <2>3, <3>1 DEF RelocsOf
    <2> QED
      BY <1>3, <1>10, <2>3, <2>4
  <1> QED
    BY <1>4, <1>5, <1>6, <1>7, <1>9, <1>10 DEF LoaderFails

\* The loader stops the kernel only for files that the linker scripts do not make
\* or that it may not read, whatever the files (load_elf and what it calls).
THEOREM LoaderAcceptsPrograms == ASSUME NoneRemoved PROVE PageSpec => LoadableProgramsLoad
  <1>1. PageInit => SafeInv /\ LoadersOK
    BY SafeInit, LoadersStart DEF PageInit
  <1>2. SafeInv /\ LoadersOK /\ [PageNext]_pageVars => (SafeInv /\ LoadersOK)'
    BY LoadersStep, PageThreadsStep, SafeStep
  <1>3. SafeInv /\ LoadersOK /\ [PageNext]_pageVars =>
            [kernel = "up" /\ IsLoader(current) /\ kernel' = "exit1"
                => ~Loadable(File) \/ ~CanRead]_pageVars
    <2> SUFFICES ASSUME SafeInv, LoadersOK, [PageNext]_pageVars,
                        kernel = "up", IsLoader(current), kernel' = "exit1"
                 PROVE  ~Loadable(File) \/ ~CanRead
      OBVIOUS
    <2>1. LoaderFails
      BY LoaderStops
    <2>2. current \in Tids
      BY WorkerIsLive
    <2> QED
      BY <2>1, <2>2, LoadableIsThere
  <1> QED
    BY <1>1, <1>2, <1>3, PTL DEF PageSpec, LoadableProgramsLoad


----------------------------------------------------------------------------
(* Who has the page, and what is in it.                                    *)

\* What the current loader has in the page stays right with each of its steps.
LEMMA LoaderLoads ==
    ASSUME LinkedPrograms, LoadersOK, current \in Tids, DOMAIN code_page = Cells,
           LoadedSoFar(code_page, loading[current]), LoaderStep
    PROVE  DOMAIN code_page' = Cells /\ LoadedSoFar(code_page', loading'[current])
  <1>1. PICK l \in Loadings : l = loading[current]
    BY DEF LoadersOK
  <1>2. LoaderOK(l) /\ DOMAIN loading = Tids /\ l.section \in Nat /\ l.reloc \in Nat
    BY <1>1 DEF LoadersOK, Loadings
  <1>3. Self = l /\ File = Elfs[l.file] /\ Section = Elfs[l.file].sections[l.section]
    BY <1>1 DEF Self, File, Section
  <1>4. l.at # "done"
    BY <1>1 DEF LoaderStep, OpenElf, LoadSection, LoadedSections, ResolveReloc, NextSection,
                LoaderAt
  <1>5. PICK file \in Files : file = Elfs[l.file] /\ Linked(file)
    BY <1>2, <1>4, ProgramsAssumption DEF LoaderOK, LinkedPrograms
  <1>6. DOMAIN file.sections = 1 .. Len(file.sections) /\ Len(file.sections) \in Nat
    BY DEF Files
  <1>7. CASE OpenElf
    <2>1. code_page' = code_page
          /\ loading'[current] = [l EXCEPT !.at = "sections", !.section = 1]
      BY <1>1, <1>2, <1>3, <1>7 DEF OpenElf, GoTo
    <2>2. /\ loading'[current].at = "sections" /\ loading'[current].section = 1
          /\ loading'[current].file = l.file
      BY <2>1 DEF Loadings
    <2>3. HasSections(code_page, file, 1)
      BY SectionIs DEF HasSections
    <2> QED
      BY <1>5, <2>1, <2>2, <2>3 DEF LoadedSoFar
  <1>8. CASE LoadSection
    <2>1. /\ l.at = "sections" /\ l.section <= Len(file.sections)
          /\ CanLoad(file, file.sections[l.section])
          /\ code_page' = load_section(code_page, file, file.sections[l.section])
          /\ loading'[current] = [l EXCEPT !.section = @ + 1, !.found = @ \/ Section.alloc]
      BY <1>1, <1>2, <1>3, <1>5, <1>8 DEF LoadSection, LoaderAt, GoTo
    <2>2. l.section \in DOMAIN file.sections
      BY <1>2, <1>6, <2>1 DEF LoaderOK
    <2>3. /\ loading'[current].at = "sections" /\ loading'[current].section = l.section + 1
          /\ loading'[current].file = l.file
      BY <2>1 DEF Loadings
    <2>4. HasSections(code_page, file, l.section)
      BY <1>1, <1>5, <2>1 DEF LoadedSoFar
    <2>5. HasSections(load_section(code_page, file, file.sections[l.section]), file, l.section + 1)
      BY <1>5, <2>1, <2>2, <2>4, SectionLoads
    <2>6. DOMAIN code_page' = Cells
      BY <2>1 DEF load_section
    <2> QED
      BY <1>5, <2>1, <2>3, <2>5, <2>6 DEF LoadedSoFar
  <1>9. CASE LoadedSections
    <2>1. /\ l.at = "sections" /\ l.section > Len(file.sections)
          /\ code_page' = code_page
          /\ loading'[current] = [l EXCEPT !.at = "relocations", !.section = 1, !.reloc = 1]
      BY <1>1, <1>2, <1>3, <1>5, <1>9 DEF LoadedSections, LoaderAt, GoTo
    <2>2. /\ loading'[current].at = "relocations" /\ loading'[current].section = 1
          /\ loading'[current].reloc = 1 /\ loading'[current].file = l.file
      BY <2>1 DEF Loadings
    <2>3. HasSections(code_page, file, l.section)
      BY <1>1, <1>5, <2>1 DEF LoadedSoFar
    <2>4. HasRelocated(code_page, file, 1, 1)
      BY <1>2, <2>1, <2>3, SectionsAreLoaded
    <2> QED
      BY <1>5, <2>1, <2>2, <2>4 DEF LoadedSoFar
  <1>10. CASE ResolveReloc
    <2>1. /\ l.at = "relocations" /\ l.section <= Len(file.sections)
          /\ HasRelocations(file.sections[l.section])
          /\ l.reloc <= Len(file.sections[l.section].relocs)
          /\ CanResolve(file.sections[l.section].relocs[l.reloc])
          /\ code_page' = resolve_reloc(code_page, file.sections[l.section].relocs[l.reloc])
          /\ loading'[current] = [l EXCEPT !.reloc = @ + 1]
      BY <1>1, <1>2, <1>3, <1>5, <1>10 DEF ResolveReloc, LoaderAt, GoTo
    <2>2. l.section > 0 /\ l.reloc > 0
      BY <1>2, <2>1 DEF LoaderOK
    <2>3. l.section \in DOMAIN file.sections
      BY <1>2, <1>6, <2>1, <2>2
    <2>4. l.reloc \in DOMAIN file.sections[l.section].relocs
      BY <1>2, <2>1, <2>2, <2>3, SectionIs
    <2>5. /\ loading'[current].at = "relocations" /\ loading'[current].section = l.section
          /\ loading'[current].reloc = l.reloc + 1 /\ loading'[current].file = l.file
      BY <2>1 DEF Loadings
    <2>6. HasRelocated(code_page, file, l.section, l.reloc)
      BY <1>1, <1>5, <2>1 DEF LoadedSoFar
    <2>7. HasRelocated(code_page', file, l.section, l.reloc + 1)
      BY <1>5, <2>1, <2>3, <2>4, <2>6, RelocationApplies
    <2>8. DOMAIN code_page' = Cells
      BY <2>1 DEF resolve_reloc
    <2> QED
      BY <1>5, <2>5, <2>7, <2>8 DEF LoadedSoFar
  <1>11. CASE NextSection
    <2>1. /\ l.at = "relocations" /\ l.section <= Len(file.sections)
          /\ \/ ~HasRelocations(file.sections[l.section])
             \/ l.reloc > Len(file.sections[l.section].relocs)
          /\ code_page' = code_page
          /\ loading'[current] = [l EXCEPT !.section = @ + 1, !.reloc = 1]
      BY <1>1, <1>2, <1>3, <1>5, <1>11 DEF NextSection, LoaderAt, GoTo
    <2>2. l.section \in DOMAIN file.sections
      BY <1>2, <1>6, <2>1 DEF LoaderOK
    <2>3. /\ loading'[current].at = "relocations" /\ loading'[current].section = l.section + 1
          /\ loading'[current].reloc = 1 /\ loading'[current].file = l.file
      BY <2>1 DEF Loadings
    <2>4. HasRelocated(code_page, file, l.section, l.reloc)
      BY <1>1, <1>5, <2>1 DEF LoadedSoFar
    <2>5. HasRelocated(code_page, file, l.section + 1, 1)
      BY <1>2, <2>1, <2>2, <2>4, RelocationsGoOn
    <2> QED
      BY <1>5, <2>1, <2>3, <2>5 DEF LoadedSoFar
  <1> QED
    BY <1>7, <1>8, <1>9, <1>10, <1>11 DEF LoaderStep

\* A thread that keeps its place, its program and its page stays a user.
LEMMA StaysUser ==
    ASSUME NEW t \in Tids, IsUser(t), ItsPage(t), code_page' = code_page,
           stage'[t] = "work" <=> stage[t] = "work",
           stage[t] = "work" => (SlotIsFree(t)' <=> SlotIsFree(t)),
           in_code_page'[t] = in_code_page[t], program'[t] = program[t],
           loading'[t] = loading[t]
    PROVE  IsUser(t)' /\ ItsPage(t)'
  BY DEF IsUser, ItsPage, IsLoader

\* Who loads alone goes on alone as long as nobody else starts to load.
LEMMA StaysAlone ==
    ASSUME UsersInv,
           \A t \in Tids : in_code_page'[t] => in_code_page[t],
           \A t \in Tids : ~SlotIsFree(t)' /\ IsLoader(t)' => ~SlotIsFree(t) /\ IsLoader(t)
    PROVE  LoadsAlone'
  BY DEF UsersInv, LoadsAlone

\* Steps that have nothing to do with programs.
LEMMA PageStays ==
    ASSUME PageOK, UNCHANGED <<code_page, in_code_page, program, loading>>,
           \A t \in Tids : stage'[t] = "work" <=> stage[t] = "work",
           \A t \in Tids : stage[t] = "work" => (SlotIsFree(t)' <=> SlotIsFree(t))
    PROVE  PageOK'
  <1>1. \A t \in Tids : IsUser(t)' /\ ItsPage(t)'
    BY StaysUser DEF PageOK, UsersInv
  <1>2. LoadsAlone'
    <2>1. \A t \in Tids : ~SlotIsFree(t)' /\ IsLoader(t)' => ~SlotIsFree(t) /\ IsLoader(t)
      BY DEF PageOK, UsersInv, IsUser, IsLoader
    <2> QED
      BY <2>1, StaysAlone DEF PageOK
  <1> QED
    BY <1>1, <1>2 DEF PageOK, UsersInv, UsersTypeOK

\* A loader loads: nobody else has the page.
LEMMA LoadingKeepsPage ==
    ASSUME LinkedPrograms, SafeInv, LoadersOK, PageOK, LoaderStep
    PROVE  PageOK'
  <1>1. /\ kernel = "up" /\ IsLoader(current)
        /\ UNCHANGED <<vars, in_code_page, program>>
    BY DEF LoaderStep, OpenElf, LoadSection, LoadedSections, ResolveReloc, NextSection,
           LoaderAt, IsLoader, Loaded
  <1>2. PICK c \in Tids : c = current
    BY <1>1, WorkerIsLive
  <1>3. IsUser(c) /\ ~SlotIsFree(c) /\ in_code_page[c] /\ program[c] = "kernel"
    BY <1>1, <1>2, WorkerIsLive DEF PageOK, UsersInv, IsUser
  <1>4. PICK l \in Loadings : l.at # "done" /\ loading' = [loading EXCEPT ![c] = l]
    BY <1>2, LoaderGoesOn
  <1>5. \A t \in Tids : /\ IsLoader(t)' <=> IsLoader(t)
                        /\ SlotIsFree(t)' <=> SlotIsFree(t)
    BY <1>1, <1>2, <1>4 DEF LoadersOK, IsLoader, SlotIsFree, vars
  <1>6. \A t \in Tids : in_code_page[t] => t = c
    BY <1>1, <1>2, <1>3 DEF PageOK, UsersInv, LoadsAlone
  <1>7. DOMAIN code_page' = Cells /\ LoadedSoFar(code_page', loading'[c])
    BY <1>1, <1>2, <1>3, LoaderLoads DEF PageOK, ItsPage
  <1>8. \A t \in Tids : IsUser(t)'
    BY <1>1, <1>5 DEF PageOK, UsersInv, IsUser, vars
  <1>9. \A t \in Tids : ItsPage(t)'
    BY <1>1, <1>3, <1>6, <1>7 DEF ItsPage
  <1>10. LoadsAlone'
    BY <1>1, <1>5, StaysAlone DEF PageOK
  <1> QED
    BY <1>1, <1>7, <1>8, <1>9, <1>10 DEF PageOK, UsersInv, UsersTypeOK

\* The loader becomes the program that it has loaded, all of it.
LEMMA RestartKeepsPage ==
    ASSUME SafeInv, LoadersOK, PageOK, RestartAsProgram
    PROVE  PageOK'
  <1>1. /\ kernel = "up" /\ IsLoader(current) /\ loading[current].at = "relocations"
        /\ Self.section > Len(File.sections)
        /\ Restart(Self.remove)
        /\ program' = [program EXCEPT ![current] = Self.file]
        /\ loading' = [loading EXCEPT ![current] = NotLoading]
        /\ UNCHANGED <<code_page, in_code_page>>
    BY DEF RestartAsProgram, LoaderAt, IsLoader, GoTo
  <1>2. PICK c \in Tids : c = current
    BY <1>1, WorkerIsLive
  <1>3. PICK l \in Loadings : l = loading[c] /\ LoaderOK(l) /\ l.file \in Programs
    BY <1>1, <1>2 DEF LoadersOK, LoaderOK, IsLoader
  <1>4. IsUser(c) /\ ~SlotIsFree(c) /\ in_code_page[c] /\ stage[c] = "work"
    BY <1>1, <1>2, WorkerIsLive DEF PageOK, UsersInv, IsUser
  <1>5. \A t \in Tids : (SlotIsFree(t)' <=> SlotIsFree(t)) /\ stage'[t] = stage[t]
    BY <1>1, RestartKeepsSlots
  <1>6. /\ program'[c] = l.file /\ loading'[c] = NotLoading
        /\ \A t \in Tids \ {c} : program'[t] = program[t] /\ loading'[t] = loading[t]
    BY <1>1, <1>2, <1>3 DEF PageOK, UsersInv, UsersTypeOK, LoadersOK, Self
  <1>7. NotLoading.at = "done"
    BY DEF NotLoading
  <1>8. IsImageOf(code_page, Elfs[l.file])
    <2>1. HasRelocated(code_page, Elfs[l.file], l.section, l.reloc)
      BY <1>1, <1>2, <1>3, <1>4 DEF PageOK, ItsPage, LoadedSoFar
    <2>2. l.section > Len(Elfs[l.file].sections) /\ l.section \in Nat
      BY <1>1, <1>2, <1>3 DEF Self, File, Loadings
    <2> QED
      BY <1>3, <2>1, <2>2, FileIsLoaded, ProgramsAssumption
  <1>9. \A t \in Tids : IsUser(t)' /\ ItsPage(t)'
    <2>1. IsUser(c)' /\ ItsPage(c)'
      BY <1>1, <1>4, <1>5, <1>6, <1>7, <1>8 DEF IsUser, ItsPage, IsLoader
    <2>2. ASSUME NEW t \in Tids, t # c
          PROVE  IsUser(t)' /\ ItsPage(t)'
      BY <1>1, <1>5, <1>6, <2>2, StaysUser DEF PageOK, UsersInv
    <2> QED
      BY <2>1, <2>2
  <1>10. LoadsAlone'
    <2>1. \A t \in Tids : IsLoader(t)' => IsLoader(t)
      BY <1>6, <1>7 DEF IsLoader
    <2> QED
      BY <1>1, <1>5, <2>1, StaysAlone DEF PageOK
  <1>11. UsersTypeOK'
    BY <1>1, <1>2, <1>3 DEF PageOK, UsersInv, UsersTypeOK, Self
  <1> QED
    BY <1>1, <1>9, <1>10, <1>11 DEF PageOK, UsersInv


\* No thread has the page when nobody is found that does.
LEMMA NobodyFound ==
    ASSUME SafeInv, UsersInv, code_page_in_use_by = INVALID_THREAD
    PROVE  \A t \in Tids : ~in_code_page[t]
  <1> SUFFICES ASSUME NEW v \in Tids, in_code_page[v]
               PROVE  FALSE
    OBVIOUS
  <1>1. PICK users : users = {t \in Tids : in_code_page[t]}
    OBVIOUS
  <1>2. users \subseteq Nat /\ users # {}
    BY <1>1 DEF Tids
  <1>3. \E t \in users : \A u \in users : t <= u
    <2> DEFINE Less == {pair \in Nat \X Nat : pair[1] < pair[2]}
    <2>1. IsWellFoundedOn(Less, Nat)
      BY NatLessThanWellFounded DEF OpToRel
    <2>2. \A a, b \in Nat : <<a, b>> \in Less <=> a < b
      OBVIOUS
    <2> HIDE DEF Less
    <2>3. PICK t \in users : \A u \in users : <<u, t>> \notin Less
      BY <1>2, <2>1, WFMin
    <2>4. ASSUME NEW u \in users
          PROVE  t <= u
      <3>1. t \in Nat /\ u \in Nat
        BY <1>2
      <3>2. ~(u < t)
        BY <2>2, <2>3, <3>1
      <3> QED
        BY <3>1, <3>2
    <2> QED
      BY <2>4
  <1>4. PICK first \in users : code_page_in_use_by = id[first]
    BY <1>1, <1>2, <1>3 DEF code_page_in_use_by
  <1> QED
    BY <1>1, <1>4 DEF UsersInv, IsUser, SlotIsFree

\* A new thread runs what its creator runs, and has the page as its creator does.
LEMMA CreateKeepsPage ==
    ASSUME SafeInv, BootInv, LoadersOK, PageOK, NEW t \in Tids, Create(t)
    PROVE  PageOK'
  <1>1. PICK had \in BOOLEAN, ran \in Programs \cup {"kernel"} :
          /\ had = (current # NULL /\ in_code_page[current])
          /\ ran = IF current = NULL THEN "kernel" ELSE program[current]
    BY DEF SafeInv, TypeOK, PageOK, UsersInv, UsersTypeOK
  <1>2. /\ in_code_page' = [in_code_page EXCEPT ![t] = had]
        /\ program' = [program EXCEPT ![t] = ran]
        /\ loading' = [loading EXCEPT ![t] = NotLoading]
        /\ code_page' = code_page
    BY <1>1 DEF Create
  <1>3. /\ in_code_page'[t] = had /\ program'[t] = ran /\ loading'[t] = NotLoading
        /\ \A u \in Tids \ {t} : /\ in_code_page'[u] = in_code_page[u]
                                 /\ program'[u] = program[u] /\ loading'[u] = loading[u]
    BY <1>2 DEF PageOK, UsersInv, UsersTypeOK, LoadersOK
  <1>4. NotLoading.at = "done" /\ ~IsLoader(t)'
    BY <1>3 DEF NotLoading, IsLoader
  <1>5. UsersTypeOK'
    BY <1>2 DEF PageOK, UsersInv, UsersTypeOK
  <1> SUFFICES (\A u \in Tids : IsUser(u)' /\ ItsPage(u)') /\ LoadsAlone'
    BY <1>2, <1>5 DEF PageOK, UsersInv
  <1>6. CASE t = 0 /\ Boot
    <2>1. current = NULL /\ \A u \in Tids : SlotIsFree(u)
      BY <1>6 DEF BootInv, Boot, SlotIsFree
    <2>2. \A u \in Tids : ~in_code_page'[u]
      BY <1>1, <1>3, <2>1 DEF PageOK, UsersInv, IsUser
    <2>3. /\ id' = [id EXCEPT ![0] = 0] /\ stage' = [stage EXCEPT ![0] = "work"]
          /\ \A u \in Tids : id[u] = INVALID_THREAD
      BY <1>6 DEF BootInv, Boot, init_thread
    <2>4. \A u \in Tids \ {t} : SlotIsFree(u)' /\ stage'[u] = stage[u]
      BY <1>6, <2>3 DEF SafeInv, TypeOK, SlotIsFree
    <2>5. \A u \in Tids : IsUser(u)' /\ ItsPage(u)'
      BY <1>1, <1>3, <1>4, <2>1, <2>2, <2>4 DEF PageOK, UsersInv, IsUser, ItsPage, IsLoader
    <2> QED
      BY <2>2, <2>5 DEF LoadsAlone
  <1>7. CASE Worker /\ FirstFreeSlot(t) /\ AddThread({})
    <2>1. PICK c \in Tids : c = current
      BY <1>7, NewThreadTakesSlot
    <2>2. /\ t # c /\ ~SlotIsFree(t)' /\ stage'[t] = "work"
          /\ \A u \in Tids \ {t} : (SlotIsFree(u)' <=> SlotIsFree(u)) /\ stage'[u] = stage[u]
      BY <1>7, <2>1, NewThreadTakesSlot
    <2>3. /\ had = in_code_page[c] /\ ran = program[c]
          /\ ~IsLoader(c) /\ ~SlotIsFree(c) /\ stage[c] = "work"
      <3>1. c # NULL
        BY DEF NULL, Tids
      <3>2. ~IsLoader(c)
        BY <1>7, <2>1 DEF Worker, IsLoader
      <3>3. Syscall("add_thread")
        BY <1>7 DEF AddThread
      <3>4. stage[c] = "work"
        BY <2>1, <3>3 DEF Syscall, AtStage
      <3>5. ~SlotIsFree(c)
        BY <2>1, <3>3, <3>4, WorkerIsLive DEF Syscall, AtStage
      <3>6. in_code_page[c] \in BOOLEAN
        BY DEF PageOK, UsersInv, UsersTypeOK
      <3>7. had = in_code_page[c]
        BY <1>1, <2>1, <3>1, <3>6
      <3> QED
        BY <1>1, <2>1, <3>1, <3>2, <3>4, <3>5, <3>7
    <2>4. IsUser(c) /\ ItsPage(c)
      BY DEF PageOK, UsersInv
    <2>5. IsUser(t)' /\ ItsPage(t)'
      BY <1>2, <1>3, <1>4, <2>2, <2>3, <2>4 DEF IsUser, ItsPage
    <2>6. ASSUME NEW u \in Tids, u # t
          PROVE  IsUser(u)' /\ ItsPage(u)'
      BY <1>2, <1>3, <2>2, <2>6, StaysUser DEF PageOK, UsersInv
    <2>7. ASSUME NEW v \in Tids, NEW u \in Tids,
                 ~SlotIsFree(v)', IsLoader(v)', in_code_page'[u]
          PROVE  u = v
      <3>1. v # t /\ ~SlotIsFree(v) /\ IsLoader(v)
        BY <1>3, <1>4, <2>2, <2>7 DEF IsLoader
      <3>2. u # t
        BY <1>3, <2>3, <2>7, <3>1 DEF PageOK, UsersInv, LoadsAlone
      <3> QED
        BY <1>3, <2>7, <3>1, <3>2 DEF PageOK, UsersInv, LoadsAlone
    <2> QED
      BY <2>5, <2>6, <2>7 DEF LoadsAlone
  <1> QED
    BY <1>6, <1>7 DEF Create

\* A new loader is the first to have the page again.
LEMMA AddThreadFromFileKeepsPage ==
    ASSUME SafeInv, BootInv, LoadersOK, PageOK, NEW t \in Tids, NEW f \in Programs, NEW remove,
           AddThreadFromFile(t, f, remove)
    PROVE  PageOK'
  <1>1. /\ in_code_page' = [in_code_page EXCEPT ![t] = TRUE]
        /\ program' = [program EXCEPT ![t] = "kernel"]
        /\ loading' = [loading EXCEPT ![t] = Loader(f, remove)]
        /\ code_page' = code_page
    BY DEF AddThreadFromFile
  <1>2. /\ in_code_page'[t] = TRUE /\ program'[t] = "kernel" /\ loading'[t] = Loader(f, remove)
        /\ \A u \in Tids \ {t} : /\ in_code_page'[u] = in_code_page[u]
                                 /\ program'[u] = program[u] /\ loading'[u] = loading[u]
    BY <1>1 DEF PageOK, UsersInv, UsersTypeOK, LoadersOK
  <1>3. \A u \in Tids : ~in_code_page[u]
    BY NobodyFound DEF AddThreadFromFile, PageOK
  <1>4. Loader(f, remove).at = "header"
    BY DEF Loader, NotLoading
  <1>5. ItsPage(t)'
    BY <1>2, <1>4 DEF ItsPage, LoadedSoFar
  <1>6. /\ ~SlotIsFree(t)' /\ stage'[t] = "work"
        /\ \A u \in Tids \ {t} : (SlotIsFree(u)' => SlotIsFree(u)) /\ stage'[u] = stage[u]
        /\ \A u \in Tids \ {t} : ~SlotIsFree(u)' => ~SlotIsFree(u)
    <2>1. CASE t = 0 /\ Boot
      <3>1. /\ id' = [id EXCEPT ![0] = 0] /\ stage' = [stage EXCEPT ![0] = "work"]
            /\ \A u \in Tids : id[u] = INVALID_THREAD
            /\ do_scheduler(id', [state EXCEPT ![0] = "init"], NULL)
        BY <2>1 DEF BootInv, Boot, init_thread
      <3>2. state'[0] \notin {"cancelled", "finished"}
        BY <2>1, <3>1 DEF do_scheduler, SwitchTo, SafeInv, TypeOK, choose_next_thread,
                          can_schedule_thread
      <3> QED
        BY <2>1, <3>1, <3>2 DEF SafeInv, TypeOK, SlotIsFree, INVALID_THREAD
    <2>2. CASE Worker /\ FirstFreeSlot(t) /\ AddThread({})
      BY <2>2, NewThreadTakesSlot
    <2> QED
      BY <2>1, <2>2 DEF AddThreadFromFile
  <1>7. IsUser(t)'
    BY <1>2, <1>4, <1>6 DEF IsUser
  <1>8. ASSUME NEW u \in Tids, u # t
        PROVE  IsUser(u)' /\ ItsPage(u)'
    BY <1>1, <1>2, <1>6, <1>8, StaysUser DEF PageOK, UsersInv
  <1>9. LoadsAlone'
    <2>1. ASSUME NEW v \in Tids, ~SlotIsFree(v)', IsLoader(v)'
          PROVE  v = t
      <3>1. v # t => ~SlotIsFree(v) /\ IsLoader(v)
        BY <1>2, <1>6, <2>1 DEF IsLoader
      <3> QED
        BY <1>3, <3>1 DEF PageOK, UsersInv, IsUser
    <2> QED
      BY <1>2, <1>3, <2>1 DEF LoadsAlone
  <1> QED
    BY <1>1, <1>5, <1>7, <1>8, <1>9 DEF PageOK, UsersInv, UsersTypeOK

\* A thread that cleans up or is cancelled gives up the page.
LEMMA ReleaseKeepsPage ==
    ASSUME SafeInv, PageOK, NEW t \in Tids, ReleasePage(t),
           UNCHANGED <<code_page, program, loading>>,
           SlotIsFree(t)' \/ stage'[t] # "work",
           IsLoader(t) => stage'[t] = "work",
           \A u \in Tids \ {t} : (SlotIsFree(u)' <=> SlotIsFree(u)) /\ stage'[u] = stage[u],
           ~SlotIsFree(t)' => ~SlotIsFree(t)
    PROVE  PageOK'
  <1>1. /\ in_code_page' = [in_code_page EXCEPT ![t] = FALSE]
        /\ ~in_code_page'[t]
        /\ \A u \in Tids \ {t} : in_code_page'[u] = in_code_page[u]
    BY DEF ReleasePage, PageOK, UsersInv, UsersTypeOK
  <1>2. IsUser(t)' /\ ItsPage(t)'
    BY <1>1 DEF PageOK, UsersInv, IsUser, ItsPage, IsLoader
  <1>3. ASSUME NEW u \in Tids, u # t
        PROVE  IsUser(u)' /\ ItsPage(u)'
    BY <1>1, <1>3, StaysUser DEF PageOK, UsersInv
  <1>4. LoadsAlone'
    <2>1. \A u \in Tids : ~SlotIsFree(u)' /\ IsLoader(u)' => ~SlotIsFree(u) /\ IsLoader(u)
      BY DEF IsLoader
    <2>2. \A u \in Tids : in_code_page'[u] => in_code_page[u]
      BY <1>1
    <2> QED
      BY <2>1, <2>2, StaysAlone DEF PageOK
  <1> QED
    BY <1>1, <1>2, <1>3, <1>4 DEF PageOK, UsersInv, UsersTypeOK

\* The rest of the threads' steps.
LEMMA ElsewhereKeepsPage ==
    ASSUME WellBehaved, SafeInv, PageOK, Elsewhere \/ LoaderExits \/ UNCHANGED pageVars,
           UNCHANGED <<code_page, in_code_page, program, loading>>
    PROVE  PageOK'
  <1>1. CASE YieldAny \/ ThreadWait \/ Tick \/ YieldAsm
    <2>1. \A t \in Tids : /\ SlotIsFree(t)' <=> SlotIsFree(t)
                          /\ \/ stage'[t] = stage[t]
                             \/ stage[t] = "finished" /\ stage'[t] = "returned"
      BY <1>1, SwitchingKeepsSlots
    <2> QED
      BY <2>1, PageStays
  <1>2. CASE \/ \E t \in Tids : ThreadWake(t)
             \/ \E armed \in BOOLEAN : SetTimer(armed)
             \/ \E destroy \in BOOLEAN : SetKernelConfig(destroy)
             \/ SetFinished \/ UNCHANGED vars
    <2>1. \A t \in Tids : /\ SlotIsFree(t)' => SlotIsFree(t) \/ stage[t] # "work"
                          /\ SlotIsFree(t) => SlotIsFree(t)'
                          /\ stage'[t] = stage[t] \/ (stage[t] # "work" /\ stage'[t] # "work")
      BY <1>2, StayingKeepsSlots DEF WellBehaved
    <2> QED
      BY <2>1, PageStays
  <1>3. CASE LoaderExits
    <2>1. \A t \in Tids : (SlotIsFree(t)' <=> SlotIsFree(t)) /\ stage'[t] = stage[t]
      BY <1>3 DEF LoaderExits, Exit, SlotIsFree
    <2> QED
      BY <2>1, PageStays
  <1> QED
    BY <1>1, <1>2, <1>3 DEF Elsewhere, Halted, pageVars, StackError, Syscall, WellBehaved

----------------------------------------------------------------------------
(* The specification.                                                      *)

\* Nobody has the page before the boot.
LEMMA PageStart == PageInit => PageInv
  <1> SUFFICES ASSUME PageInit
               PROVE  PageInv
    OBVIOUS
  <1>1. SafeInv /\ LoadersOK
    BY SafeInit, LoadersStart DEF PageInit
  <1>2. BootInv
    BY DEF PageInit, Init, BootInv
  <1>3. NotLoading.at = "done"
    BY DEF NotLoading
  <1>4. \A t \in Tids : ~IsLoader(t) /\ ~in_code_page[t] /\ program[t] = "kernel"
    BY <1>3 DEF PageInit, IsLoader
  <1>5. UsersTypeOK /\ DOMAIN code_page = Cells
    BY DEF PageInit, UsersTypeOK
  <1> QED
    BY <1>1, <1>2, <1>4, <1>5 DEF PageInv, PageOK, UsersInv, IsUser, LoadsAlone, ItsPage

\* Every step keeps the page right, action by action.
LEMMA PageStep ==
    ASSUME WellBehaved, LinkedPrograms, PageInv, [PageNext]_pageVars
    PROVE  PageInv'
  <1>1. SafeInv /\ BootInv /\ LoadersOK /\ PageOK
    BY DEF PageInv
  <1>2. SafeInv' /\ BootInv' /\ LoadersOK'
    BY <1>1, LoadersStep, PageThreadsStep, SafeStep, BootInvStep DEF WellBehaved
  <1>3. CASE LoaderStep
    BY <1>1, <1>2, <1>3, LoadingKeepsPage DEF PageInv
  <1>4. CASE RestartAsProgram
    BY <1>1, <1>2, <1>4, RestartKeepsPage DEF PageInv
  <1>5. ASSUME NEW t \in Tids, Create(t)
        PROVE  PageInv'
    BY <1>1, <1>2, <1>5, CreateKeepsPage DEF PageInv
  <1>6. ASSUME NEW t \in Tids, NEW f \in Programs, NEW remove \in RemoveSets,
               AddThreadFromFile(t, f, remove)
        PROVE  PageInv'
    BY <1>1, <1>2, <1>6, AddThreadFromFileKeepsPage DEF PageInv
  <1>7. ASSUME Worker, CleanupThread, ReleasePage(current),
               UNCHANGED <<code_page, program, loading>>
        PROVE  PageInv'
    <2>1. PICK c \in Tids : c = current
      BY <1>1, <1>7, WorkerIsLive DEF Worker
    <2>2. /\ stage' = [stage EXCEPT ![c] = "cleaned"] /\ UNCHANGED <<id, state>>
          /\ ReleasePage(c) /\ ~IsLoader(c)
      BY <1>7, <2>1 DEF CleanupThread, Worker, ReleasePage
    <2>3. \A u \in Tids : /\ SlotIsFree(u)' <=> SlotIsFree(u)
                          /\ stage'[u] = IF u = c THEN "cleaned" ELSE stage[u]
      BY <1>1, <2>2 DEF SafeInv, TypeOK, SlotIsFree
    <2> QED
      BY <1>1, <1>2, <1>7, <2>2, <2>3, ReleaseKeepsPage DEF PageInv
  <1>8. ASSUME NEW t \in Tids, ThreadCancel(t), ReleasePage(t),
               UNCHANGED <<code_page, program, loading>>
        PROVE  PageInv'
    <2>1. /\ SlotIsFree(t)' /\ \A u \in Tids : stage'[u] = stage[u]
          /\ \A u \in Tids \ {t} : SlotIsFree(u)' <=> SlotIsFree(u)
      BY <1>1, <1>8, CancelKeepsSlots
    <2>2. IsLoader(t) => stage'[t] = "work"
      BY <1>1, <2>1 DEF PageOK, UsersInv, IsUser
    <2> QED
      BY <1>1, <1>2, <1>8, <2>1, <2>2, ReleaseKeepsPage DEF PageInv
  <1>9. CASE \/ /\ Elsewhere \/ LoaderExits
                /\ UNCHANGED <<code_page, in_code_page, program, loading>>
             \/ UNCHANGED pageVars
    BY <1>1, <1>2, <1>9, ElsewhereKeepsPage DEF PageInv, pageVars
  <1>10. LoaderExits => UNCHANGED <<code_page, in_code_page, program, loading>>
    BY DEF LoaderExits
  <1> QED
    BY <1>3, <1>4, <1>5, <1>6, <1>7, <1>8, <1>9, <1>10, PageStepIs

\* A program stays in the page, whole and relocated, as long as a thread runs it,
\* for any files that the linker scripts make, whatever thread of it loaded it,
\* ended first or waits (add_thread_from_file, load_elf, cleanup_thread).
THEOREM LoadedProgramsStay ==
    ASSUME WellBehaved, LinkedPrograms
    PROVE  PageSpec => []ProgramsStayInThePage
  <1>1. PageInit => PageInv
    BY PageStart
  <1>2. PageInv /\ [PageNext]_pageVars => PageInv'
    BY PageStep
  <1>3. PageInv => ProgramsStayInThePage
    BY DEF PageInv, PageOK, UsersInv, IsUser, ItsPage, ProgramsStayInThePage, is_valid_thread,
           Dead, SlotIsFree
  <1> QED
    BY <1>1, <1>2, <1>3, PTL DEF PageSpec
=============================================================================
