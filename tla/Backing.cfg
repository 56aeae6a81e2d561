\* Threads of the kernel image load programs that create threads and write
\* data; nobody interrupts anybody.
CONSTANTS
    MAX_THREADS = 3
    Calls = {"add_thread", "restart", "yield", "wait", "wake", "cancel", "return", "write"}
    RemoveSets = {{}}
    WakesOnlyWaiting = TRUE
    CODE_BACKING_PAGES = 2
    Programs = {"a", "b"}
    ProgramsLoad = FALSE
SPECIFICATION PagesSpec
INVARIANTS ProgramDataIsKept RunsItsOwnProgram CountsItsUsers
