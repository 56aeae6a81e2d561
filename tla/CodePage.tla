------------------------------ MODULE CodePage ------------------------------
(***************************************************************************)
(* Programs loaded from files, in a build with one code page and no        *)
(* backing pages (src/kernel/thread.c, src/user/elf.c).  A program can be  *)
(* loaded as long as no thread runs from the page; every thread says of    *)
(* itself whether it does.                                                 *)
(***************************************************************************)
EXTENDS Threads, Elf

CONSTANTS
    Programs,        \* the names of files
    Elfs             \* what is in them

ASSUME ProgramsAssumption == "kernel" \notin Programs /\ Elfs \in [Programs -> Files]

VARIABLES
    code_page,      \* the words in the code page
    in_code_page,   \* all_threads[t].in_code_page
    program,        \* what each thread runs: a program, or code of the kernel
    loading         \* where each loader is in load_elf, and with what arguments

pageVars == <<vars, code_page, in_code_page, program, loading>>

\* A loader reads the header, then the sections, then the relocations, by
\* section: "found" is loaded_something.
NotLoading == [at |-> "done", file |-> "none", remove |-> {}, section |-> 0, reloc |-> 0,
               found |-> FALSE]

IsLoader(t) == loading[t].at # "done"

PageInit ==
    /\ Init
    /\ code_page = [c \in Cells |-> 0]
    /\ in_code_page = [t \in Tids |-> FALSE]
    /\ program = [t \in Tids |-> "kernel"]
    /\ loading = [t \in Tids |-> NotLoading]

\* Mutated: only the thread that asks is looked at.
code_page_in_use_byCurrent ==
    IF current # NULL /\ in_code_page[current] THEN current ELSE INVALID_THREAD

\* The id of the first thread that has the page.
code_page_in_use_by ==
    LET users == {t \in Tids : in_code_page[t]}
    IN  IF users = {} THEN INVALID_THREAD
        ELSE id[CHOOSE t \in users : \A u \in users : t <= u]

\* The current thread is in the code of its worker, not in the loader.
Worker == kernel = "up" /\ ~IsLoader(current)

Create(t) ==
    /\ \/ t = 0 /\ Boot
       \/ Worker /\ FirstFreeSlot(t) /\ AddThread({})
    /\ in_code_page' = [in_code_page EXCEPT ![t] = current # NULL /\ in_code_page[current]]
    /\ program' = [program EXCEPT ![t] = IF current = NULL THEN "kernel" ELSE program[current]]
    /\ loading' = [loading EXCEPT ![t] = NotLoading]
    /\ UNCHANGED code_page

Loader(file, remove) ==
    [NotLoading EXCEPT !.at = "header", !.file = file, !.remove = remove]

\* Called by a thread, or for STARTUP_PROG.  The loader has the permissions of
\* its creator; the program will not.
AddThreadFromFile(t, file, remove) ==
    /\ code_page_in_use_by = INVALID_THREAD
    /\ \/ t = 0 /\ remove = {} /\ Boot
       \/ Worker /\ FirstFreeSlot(t) /\ AddThread({})
    /\ in_code_page' = [in_code_page EXCEPT ![t] = TRUE]
    /\ program' = [program EXCEPT ![t] = "kernel"]
    /\ loading' = [loading EXCEPT ![t] = Loader(file, remove)]
    /\ UNCHANGED code_page

----------------------------------------------------------------------------
(* load_elf.  It runs in user mode, and a timer interrupt or, meanwhile, a *)
(* cancel can come between any two of its steps.                           *)

\* open, lseek and read work.
CanRead == "file" \in permissions[current]

LoaderAt(place) == kernel = "up" /\ loading[current].at = place

Self == loading[current]
File == Elfs[Self.file]
Section == File.sections[Self.section]
GoTo(place) == loading' = [loading EXCEPT ![current] = place]
Loaded == UNCHANGED <<vars, in_code_page, program>>

OpenElf ==
    /\ LoaderAt("header")
    /\ CanRead
    /\ check_elf_hdr(File)
    /\ GoTo([Self EXCEPT !.at = "sections", !.section = 1])
    /\ UNCHANGED code_page
    /\ Loaded

LoadSection ==
    /\ LoaderAt("sections")
    /\ Self.section <= Len(File.sections)
    /\ CanRead
    /\ CanLoad(File, Section)
    /\ code_page' = load_section(code_page, File, Section)
    /\ GoTo([Self EXCEPT !.section = @ + 1, !.found = @ \/ Section.alloc])
    /\ Loaded

\* The sections are loaded: on to their relocations.
LoadedSections ==
    /\ LoaderAt("sections")
    /\ Self.section > Len(File.sections)
    /\ Self.found
    /\ GoTo([Self EXCEPT !.at = "relocations", !.section = 1, !.reloc = 1])
    /\ UNCHANGED code_page
    /\ Loaded

ResolveReloc ==
    /\ LoaderAt("relocations")
    /\ Self.section <= Len(File.sections)
    /\ CanRead
    /\ HasRelocations(Section) /\ ExpectedRelocations(Section)
    /\ Self.reloc <= Len(Section.relocs)
    /\ CanResolve(Section.relocs[Self.reloc])
    /\ code_page' = resolve_reloc(code_page, Section.relocs[Self.reloc])
    /\ GoTo([Self EXCEPT !.reloc = @ + 1])
    /\ Loaded

\* No relocations in this section, or no more.
NextSection ==
    /\ LoaderAt("relocations")
    /\ Self.section <= Len(File.sections)
    /\ CanRead
    /\ \/ ~HasRelocations(Section)
       \/ ExpectedRelocations(Section) /\ Self.reloc > Len(Section.relocs)
    /\ GoTo([Self EXCEPT !.section = @ + 1, !.reloc = 1])
    /\ UNCHANGED code_page
    /\ Loaded

\* k_restart keeps in_code_page.
RestartAsProgram ==
    /\ LoaderAt("relocations")
    /\ Self.section > Len(File.sections)
    /\ Restart(Self.remove)
    /\ program' = [program EXCEPT ![current] = Self.file]
    /\ GoTo(NotLoading)
    /\ UNCHANGED <<code_page, in_code_page>>

\* What the loader asks for next is not there.
LoaderFails ==
    \/ LoaderAt("header") /\ ~(CanRead /\ check_elf_hdr(File))
    \/ LoaderAt("sections") /\ IF Self.section > Len(File.sections) THEN ~Self.found
                               ELSE ~(CanRead /\ CanLoad(File, Section))
    \/ /\ LoaderAt("relocations")
       /\ Self.section <= Len(File.sections)
       /\ \/ ~CanRead
          \/ /\ HasRelocations(Section)
             /\ \/ ~ExpectedRelocations(Section)
                \/ /\ Self.reloc <= Len(Section.relocs)
                   /\ ~CanResolve(Section.relocs[Self.reloc])

\* PRINT_EXIT stops the kernel.
LoaderExits ==
    /\ LoaderFails
    /\ Exit("exit1")
    /\ UNCHANGED <<code_page, in_code_page, program, loading>>

----------------------------------------------------------------------------
ReleasePage(t) == in_code_page' = [in_code_page EXCEPT ![t] = FALSE]

PageNext ==
    \/ OpenElf \/ LoadSection \/ LoadedSections \/ ResolveReloc \/ NextSection
    \/ RestartAsProgram \/ LoaderExits
    \/ \E t \in Tids :
        \/ Create(t)
        \/ \E f \in Programs : \E remove \in RemoveSets : AddThreadFromFile(t, f, remove)
    \/ /\ Worker
       /\ \/ CleanupThread /\ ReleasePage(current)
          \/ \E t \in Tids : ThreadCancel(t) /\ ReleasePage(t)
       /\ UNCHANGED <<code_page, program, loading>>
    \/ /\ \/ /\ Worker
             /\ \/ YieldAny \/ ThreadWait \/ StackError
                \/ \E t \in Tids : ThreadWake(t)
                \/ \E armed \in BOOLEAN : SetTimer(armed)
                \/ \E destroy \in BOOLEAN : SetKernelConfig(destroy)
          \/ Tick \/ SetFinished \/ YieldAsm \/ Halted
       /\ UNCHANGED <<code_page, in_code_page, program, loading>>

PageSpec == PageInit /\ [][PageNext]_pageVars

----------------------------------------------------------------------------
(* Properties.                                                             *)

\* A thread that runs a program finds all of it in the page, relocated for the
\* page and not mixed with what was there before, whichever thread of it loaded
\* it, ended first or is waiting.
ProgramsStayInThePage ==
    \A t \in Tids :
        (is_valid_thread(t) /\ ~Dead(t) /\ program[t] # "kernel" /\ stage[t] = "work")
            => IsImageOf(code_page, Elfs[program[t]])

\* The loader stops the kernel only for files that the linker scripts do not
\* make, or when it may not read them.
LoadableProgramsLoad ==
    [][kernel = "up" /\ IsLoader(current) /\ kernel' = "exit1"
            => ~Loadable(File) \/ ~CanRead]_pageVars
============================================================================
