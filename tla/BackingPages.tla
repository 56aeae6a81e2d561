---------------------------- MODULE BackingPages ----------------------------
(***************************************************************************)
(* Programs loaded from files, in a build with code backing pages          *)
(* (src/kernel/thread.c with CODE_BACKING_PAGES, src/user/elf.c).  All     *)
(* programs run in the one code page; while another one runs, a program is *)
(* kept in a backing page, which counts the threads that use it.  The      *)
(* loader is a thread of the kernel image that writes a program into its   *)
(* backing page and restarts itself as that program.                       *)
(***************************************************************************)
EXTENDS Threads, FiniteSetsExt

CONSTANTS
    CODE_BACKING_PAGES,
    Programs,         \* the files
    ProgramsLoad      \* TRUE: programs load other programs

ASSUME PagesAssumption == CODE_BACKING_PAGES \in Nat \ {0}
ASSUME ProgramsAssumption == "kernel" \notin Programs
ASSUME ProgramsLoadAssumption == ProgramsLoad \in BOOLEAN

VARIABLES
    code_page,           \* what is in the code page: a program and its data
    backing,             \* code_backing_pages[p].data
    ref_count,           \* code_backing_pages[p].ref_count
    code_backing_page,   \* all_threads[t].code_backing_page
    program,             \* what each thread runs: a program, or code of the kernel
    loading,             \* what each loader has to do, and for which program
    written              \* history: the data last written by the programs of a page

pages == <<code_page, backing, ref_count, code_backing_page>>
pagesVars == <<vars, pages, program, loading, written>>

Pages == 0 .. CODE_BACKING_PAGES - 1
INVALID_PAGE == -1
Files == Programs \cup {"zeros"}
Fresh(file) == [program |-> file, data |-> 0]
Lost == -1      \* written, and not saved when the thread that wrote it ended
Nothing == [do |-> "nothing", file |-> "zeros"]

PagesInit ==
    /\ Init
    /\ code_page = Fresh("zeros")
    /\ backing = [p \in Pages |-> Fresh("zeros")]
    /\ ref_count = [p \in Pages |-> 0]
    /\ code_backing_page = [t \in Tids |-> INVALID_PAGE]
    /\ program = [t \in Tids |-> "kernel"]
    /\ loading = [t \in Tids |-> Nothing]
    /\ written = [p \in Pages |-> 0]

----------------------------------------------------------------------------
\* Mutated: what the thread wrote in the code page is not saved.
swap_paged_threadsUnsaved(page_of) ==
    /\ UNCHANGED backing
    /\ code_page' = IF current = current' \/ page_of[current'] = INVALID_PAGE
                    THEN code_page ELSE backing[page_of[current']]

\* Mutated: the next thread's page is not copied in.
swap_paged_threadsKept(page_of) == UNCHANGED <<code_page, backing>>

\* What do_scheduler does to the pages when it goes from current to current'.
swap_paged_threads(page_of) ==
    LET saved == IF current # NULL /\ page_of[current] # INVALID_PAGE
                 THEN [backing EXCEPT ![page_of[current]] = code_page] ELSE backing
    IN  IF current = current' THEN UNCHANGED <<code_page, backing>>
        ELSE /\ backing' = saved
             /\ code_page' = IF page_of[current'] = INVALID_PAGE THEN code_page
                                                     ELSE saved[page_of[current']]

Counted(counts, p, by) == [counts EXCEPT ![p] = (@ + by) % 256]

\* Mutated: threads that a program creates are not counted.
setup_code_pageUncounted(t) ==
    /\ code_backing_page' =
           [code_backing_page EXCEPT ![t] = IF current = NULL THEN INVALID_PAGE
                                                              ELSE code_backing_page[current]]
    /\ UNCHANGED ref_count

\* A new thread uses the page of its creator.
setup_code_page(t) ==
    LET page == IF current = NULL THEN INVALID_PAGE ELSE code_backing_page[current]
    IN  /\ code_backing_page' = [code_backing_page EXCEPT ![t] = page]
        /\ ref_count' = IF page = INVALID_PAGE THEN ref_count
                                               ELSE Counted(ref_count, page, 1)

\* cleanup_thread: t does not use its page any more.
ReleasePage(t) ==
    LET page == code_backing_page[t]
    IN  /\ code_backing_page' = [code_backing_page EXCEPT ![t] = INVALID_PAGE]
        /\ ref_count' = IF page = INVALID_PAGE \/ ref_count[page] = 0 THEN ref_count
                        ELSE Counted(ref_count, page, -1)

\* The current thread gives up its page: it is not saved when it is left.
LeaveUnsaved ==
    LET page == code_backing_page[current]
    IN  written' = IF page # INVALID_PAGE /\ program[current] # "kernel"
                      /\ backing[page].data # code_page.data
                   THEN [written EXCEPT ![page] = Lost] ELSE written

Idle == loading[current] = Nothing

Create(t) ==
    /\ \/ t = 0 /\ Boot
       \/ kernel = "up" /\ Idle /\ FirstFreeSlot(t) /\ AddThread({})
    /\ setup_code_page(t)
    /\ program' = [program EXCEPT ![t] = IF current = NULL THEN "kernel" ELSE program[current]]
    /\ loading' = [loading EXCEPT ![t] = Nothing]
    /\ UNCHANGED <<code_page, backing, written>>

----------------------------------------------------------------------------
\* k_add_thread_from_file_with_args.  The loader first gets the page of its
\* creator, as any new thread, and then the free page instead.
AddThreadFromFile(t, file) ==
    /\ kernel = "up" /\ Idle
    /\ ProgramsLoad \/ program[current] = "kernel"
    /\ FirstFreeSlot(t)
    /\ AddThread({})
    /\ \E p \in Pages :
        /\ ref_count[p] = 0
        /\ \A q \in Pages : ref_count[q] = 0 => p <= q
        /\ LET creators == code_backing_page[current]
               counts == IF creators = INVALID_PAGE THEN ref_count
                                                    ELSE Counted(ref_count, creators, 1)
           IN  ref_count' = Counted(counts, p, 1)
        /\ code_backing_page' = [code_backing_page EXCEPT ![t] = p]
    /\ program' = [program EXCEPT ![t] = "kernel"]
    /\ loading' = [loading EXCEPT ![t] = [do |-> "copy", file |-> file]]
    /\ UNCHANGED <<code_page, backing, written>>

\* load_elf copies the sections to its destination, the data of the page.
LoadElf ==
    /\ kernel = "up"
    /\ loading[current].do = "copy"
    /\ backing' = [backing EXCEPT ![code_backing_page[current]] = Fresh(loading[current].file)]
    /\ written' = [written EXCEPT ![code_backing_page[current]] = 0]
    /\ loading' = [loading EXCEPT ![current].do = "restart"]
    /\ UNCHANGED <<vars, code_page, ref_count, code_backing_page, program>>

\* k_restart keeps the page, and swap_paged_threads copies it in.
RestartAsProgram ==
    /\ kernel = "up"
    /\ loading[current].do = "restart"
    /\ Restart({})
    /\ code_page' = backing[code_backing_page[current]]
    /\ program' = [program EXCEPT ![current] = loading[current].file]
    /\ loading' = [loading EXCEPT ![current] = Nothing]
    /\ UNCHANGED <<backing, ref_count, code_backing_page, written>>

\* A program writes a variable, in the code page.
WriteData(v) ==
    /\ Syscall("write") /\ Idle
    /\ program[current] # "kernel"
    /\ code_page' = [code_page EXCEPT !.data = v]
    /\ written' = [written EXCEPT ![code_backing_page[current]] = v]
    /\ UNCHANGED <<vars, backing, ref_count, code_backing_page, program, loading>>

----------------------------------------------------------------------------
CancelThread(t) ==
    /\ kernel = "up" /\ Idle
    /\ ThreadCancel(t)
    /\ ReleasePage(t)
    /\ swap_paged_threads(code_backing_page')
    /\ IF t = current THEN LeaveUnsaved ELSE UNCHANGED written
    /\ UNCHANGED <<program, loading>>

Cleanup ==
    /\ kernel = "up" /\ Idle
    /\ CleanupThread
    /\ ReleasePage(current)
    /\ LeaveUnsaved
    /\ UNCHANGED <<code_page, backing, program, loading>>

\* The steps that give up the processor, or may.
Switch ==
    /\ \/ kernel = "up" /\ Idle /\ (YieldAny \/ ThreadWait \/ StackError)
       \/ Tick \/ YieldAsm
    /\ swap_paged_threads(code_backing_page)
    /\ UNCHANGED <<ref_count, code_backing_page, program, loading, written>>

PagesNext ==
    \/ LoadElf \/ RestartAsProgram \/ Cleanup \/ Switch
    \/ \E v \in {0, 1} : WriteData(v)
    \/ \E t \in Tids : Create(t) \/ CancelThread(t) \/ \E f \in Programs : AddThreadFromFile(t, f)
    \/ /\ \/ kernel = "up" /\ Idle
             /\ \/ \E t \in Tids : ThreadWake(t)
                \/ \E armed \in BOOLEAN : SetTimer(armed)
                \/ \E destroy \in BOOLEAN : SetKernelConfig(destroy)
          \/ SetFinished \/ Halted
       /\ UNCHANGED <<pages, program, loading, written>>

PagesSpec == PagesInit /\ [][PagesNext]_pagesVars

----------------------------------------------------------------------------
(* Properties.                                                             *)

\* The code page holds the program of the thread that runs, whatever was
\* loaded, swapped, cancelled or started since the thread last ran.
RunsItsOwnProgram ==
    (kernel = "up" /\ program[current] # "kernel" /\ stage[current] = "work")
        => code_page.program = program[current]

\* What one thread of a program writes the others of its page read, also when
\* other programs run in between, unless the one that wrote it has ended.
ProgramDataIsKept ==
    (kernel = "up" /\ program[current] # "kernel" /\ stage[current] = "work")
        => written[code_backing_page[current]] \in {code_page.data, Lost}

\* A backing page counts the threads that use it: one that is used is never
\* loaded into, one that is not can be.
CountsItsUsers ==
    \A p \in Pages :
        ref_count[p] = Cardinality({t \in Tids : is_valid_thread(t) /\ ~Dead(t)
                                                 /\ code_backing_page[t] = p})
============================================================================
