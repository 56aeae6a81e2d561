-------------------------------- MODULE Elf --------------------------------
(***************************************************************************)
(* What the loader of Badger Kernel makes of an ELF file                   *)
(* (src/user/elf.c), apart from when it does it.  The unit of addresses,   *)
(* sizes and contents is a word.  A file is a record with what the loader  *)
(* looks at; where it only asks whether something can be read or has the   *)
(* right size, the record has the answer.                                  *)
(***************************************************************************)
EXTENDS Integers, Sequences

CONSTANTS
    CODE_PAGE_SIZE,
    CodePageStart,   \* the address of code_page
    KernelSymbols,   \* kernel_symbols, as a function from names to addresses
    UsesRela         \* TRUE for AArch64, FALSE for Arm

ASSUME CodePageAssumption == CODE_PAGE_SIZE \in Nat \ {0} /\ CodePageStart \in Nat
ASSUME UsesRelaAssumption == UsesRela \in BOOLEAN

Cells == 0 .. CODE_PAGE_SIZE - 1
CodePageEnd == CodePageStart + CODE_PAGE_SIZE

\* What check_elf_hdr and load_elf want of a header.  The check for endianness
\* looks at byte 6, which is the version.
HeaderFeatures ==
    {"magic", "version", "machine", "section_table", "name_table", "entry_size"}

\* Files, whatever is in them.
Symbols == [readable : BOOLEAN, undef : BOOLEAN, name : STRING, st_value : Int]
Relocations == [r_type : STRING, r_offset : Int, r_addend : Int, has_symbol : BOOLEAN,
                symbol : Symbols]
Sections == [named : BOOLEAN, alloc : BOOLEAN, sh_type : Nat, sh_addr : Int, sh_size : Nat,
             content : Seq(Int), relocs : Seq(Relocations)]
Files == [readable : BOOLEAN, header : SUBSET HeaderFeatures, e_type : STRING,
          sections : Seq(Sections)]

SHT_PROGBITS == 1
SHT_RELA == 4
SHT_NOBITS == 8
SHT_REL == 9

----------------------------------------------------------------------------
check_elf_hdr(file) ==
    /\ file.readable
    /\ file.header = HeaderFeatures
    /\ file.e_type \in {"ET_EXEC", "ET_DYN"}

IsShared(file) == file.e_type = "ET_DYN"

\* Mutated: the sections of a shared file stay where the file has them.
section_startUnshifted(file, section) == section.sh_addr

\* Shared files have base address 0 and run from the code page as any other.
section_start(file, section) ==
    section.sh_addr + (IF IsShared(file) THEN CodePageStart ELSE 0)

section_end(file, section) == section_start(file, section) + section.sh_size

\* The bounds as load_section checks them: a section may not end with the page.
SectionFits(file, section) ==
    /\ section_start(file, section) >= CodePageStart
    /\ section_start(file, section) < CodePageEnd
    /\ section_end(file, section) < CodePageEnd

\* sh_type & SHT_NOBITS: also types 9 to 15 pass the test.
ZeroInit(section) == (section.sh_type \div SHT_NOBITS) % 2 = 1

\* The header and the name of a section, and what is to be copied, can be read.
CanLoad(file, section) ==
    /\ section.named
    /\ section.alloc =>
        /\ SectionFits(file, section)
        /\ ZeroInit(section) \/ Len(section.content) >= section.sh_size

CellsOf(file, section) ==
    section_start(file, section) - CodePageStart
        .. section_end(file, section) - CodePageStart - 1

\* The page once the section is copied to it.
load_section(page, file, section) ==
    [c \in Cells |->
        IF ~section.alloc \/ c \notin CellsOf(file, section) THEN page[c]
        ELSE IF ZeroInit(section) THEN 0
        ELSE section.content[c - (section_start(file, section) - CodePageStart) + 1]]

----------------------------------------------------------------------------
(* Relocations.                                                            *)

HasRelocations(section) == section.sh_type \in {SHT_REL, SHT_RELA}

ExpectedRelocations(section) ==
    section.sh_type = IF UsesRela THEN SHT_RELA ELSE SHT_REL

\* A symbol without a section is one of the kernel's.
SymbolKnown(symbol) ==
    symbol.readable /\ (symbol.undef => symbol.name \in DOMAIN KernelSymbols)

get_kernel_symbol_value(name) == KernelSymbols[name]

\* PC_ADD_MODE changes nothing but on Thumb.
SymbolValue(symbol) ==
    IF symbol.undef THEN get_kernel_symbol_value(symbol.name)
                    ELSE symbol.st_value + CodePageStart

CanResolve(reloc) ==
    /\ reloc.r_offset \in Cells
    /\ \/ reloc.r_type = "RELATIVE" /\ ~reloc.has_symbol
       \/ reloc.r_type \in {"GLOB_DAT", "JUMP_SLOT", "REL32"} /\ SymbolKnown(reloc.symbol)

\* The page once the relocation is written to it.
resolve_reloc(page, reloc) ==
    LET addend == IF UsesRela THEN reloc.r_addend ELSE 0
        place  == CodePageStart + reloc.r_offset
    IN  [page EXCEPT ![reloc.r_offset] =
            CASE reloc.r_type = "RELATIVE" -> @ + CodePageStart
              [] reloc.r_type \in {"GLOB_DAT", "JUMP_SLOT"} ->
                    SymbolValue(reloc.symbol) + addend
              [] reloc.r_type = "REL32" -> SymbolValue(reloc.symbol) + addend - place]

----------------------------------------------------------------------------
(* The reference: what the ELF specification for Arm says a file is in     *)
(* memory.                                                                 *)

SectionsOf(file) == {file.sections[i] : i \in DOMAIN file.sections}

Contents(file) ==
    {s \in SectionsOf(file) : s.alloc /\ s.sh_type \in {SHT_PROGBITS, SHT_NOBITS}}

RelocsOf(file) ==
    UNION {{s.relocs[i] : i \in DOMAIN s.relocs} :
              s \in {s \in SectionsOf(file) : HasRelocations(s)}}

\* Where a section belongs: shared files are linked for address 0.
FirstCell(file, section) ==
    section.sh_addr - (IF IsShared(file) THEN 0 ELSE CodePageStart)

ImageCells(file, section) ==
    FirstCell(file, section) .. FirstCell(file, section) + section.sh_size - 1

InFile(file, section, c) ==
    IF section.sh_type = SHT_NOBITS THEN 0
    ELSE section.content[c - FirstCell(file, section) + 1]

\* A is the addend of the relocation or, on Arm, the word that is relocated, but
\* for the words that lead to stubs of the dynamic linker.
Relocated(reloc, word) ==
    LET A == IF UsesRela THEN reloc.r_addend
             ELSE IF reloc.r_type = "JUMP_SLOT" THEN 0 ELSE word
    IN  CASE reloc.r_type = "RELATIVE" -> A + CodePageStart
          [] reloc.r_type \in {"GLOB_DAT", "JUMP_SLOT"} -> SymbolValue(reloc.symbol) + A
          [] reloc.r_type = "REL32" ->
                SymbolValue(reloc.symbol) + A - (CodePageStart + reloc.r_offset)

\* The page holds the file.
IsImageOf(page, file) ==
    \A s \in Contents(file) : \A c \in ImageCells(file, s) :
        LET relocs == {r \in RelocsOf(file) : r.r_offset = c}
        IN  /\ c \in Cells
            /\ IF relocs = {} THEN page[c] = InFile(file, s, c)
               ELSE \E r \in relocs : page[c] = Relocated(r, InFile(file, s, c))

\* The files that linker/loadable.ld and linker/pie_loadable.ld make, as long as
\* they leave room in the page: the loader wants one more word than they do.
Loadable(file) ==
    /\ check_elf_hdr(file)
    /\ \E s \in SectionsOf(file) : s.alloc
    /\ \A s \in SectionsOf(file) :
        /\ s.named
        /\ s.alloc =>
            /\ FirstCell(file, s) >= 0
            /\ FirstCell(file, s) + s.sh_size < CODE_PAGE_SIZE
            /\ s.sh_type = SHT_NOBITS \/ Len(s.content) >= s.sh_size
        /\ HasRelocations(s) => ExpectedRelocations(s)
    /\ \A r \in RelocsOf(file) : CanResolve(r)

\* What the loader takes for granted of the linker: sections in memory are apart,
\* a word is relocated once, and the addend is where the loader looks for it: of a
\* relative relocation in the word, of another one on Arm nowhere.
Linked(file) ==
    /\ \A i, j \in DOMAIN file.sections :
          LET s == file.sections[i]
              u == file.sections[j]
          IN  s.alloc /\ u.alloc /\ CellsOf(file, s) \cap CellsOf(file, u) # {} => i = j
    /\ \A i, j \in DOMAIN file.sections :
          LET s == file.sections[i]
              u == file.sections[j]
          IN  HasRelocations(s) /\ HasRelocations(u) =>
                  \A k \in DOMAIN s.relocs, l \in DOMAIN u.relocs :
                      s.relocs[k].r_offset = u.relocs[l].r_offset => i = j /\ k = l
    /\ \A s \in Contents(file), r \in RelocsOf(file) :
          LET word == InFile(file, s, r.r_offset)
          IN  r.r_offset \in ImageCells(file, s) =>
                  IF UsesRela THEN r.r_type = "RELATIVE" => word = r.r_addend
                  ELSE r.r_type \in {"GLOB_DAT", "REL32"} => word = 0
============================================================================
