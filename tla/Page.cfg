\* Programs that create threads and load programs, ended in any order.
CONSTANTS
    MAX_THREADS = 3
    Calls = {"add_thread", "restart", "yield", "wait", "wake", "timer", "cancel", "return", "exit"}
    RemoveSets = {{}, {"file"}}
    WakesOnlyWaiting = TRUE
    Programs = {"fixed", "shared", "large"}
    Elfs <- MCElfs
    CODE_PAGE_SIZE = 5
    CodePageStart = 8
    KernelSymbols <- MCKernelSymbols
    UsesRela = TRUE
SPECIFICATION PageSpec
INVARIANTS ProgramsStayInThePage
PROPERTY LoadableProgramsLoad
