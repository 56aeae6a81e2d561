\* A program that a stack error ends, and one that is loaded after it.
CONSTANTS
    MAX_THREADS = 4
    Calls = {"add_thread", "restart", "yield", "kernel_config", "stack_error"}
    RemoveSets = {{}}
    WakesOnlyWaiting = TRUE
    Programs = {"fixed", "shared"}
    Elfs <- MCElfs
    CODE_PAGE_SIZE = 5
    CodePageStart = 8
    KernelSymbols <- MCKernelSymbols
    UsesRela = TRUE
SPECIFICATION PageSpec
INVARIANTS ProgramsStayInThePage
