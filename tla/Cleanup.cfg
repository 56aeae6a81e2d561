\* Two threads that end while the others allocate and free, with the timer at
\* any point of their walks, cancels, stack errors and slots used again.
CONSTANTS
    MAX_THREADS = 3
    Calls = {"add_thread", "yield", "timer", "cancel", "return", "alloc", "kernel_config", "stack_error"}
    RemoveSets = {{}}
    WakesOnlyWaiting = TRUE
    NUM_BLOCKS = 2
    Sizes = {1, 2}
    Finishers = {1, 2}
SPECIFICATION CleanupSpec
INVARIANTS HeldAllocationsStay DeadThreadsOwnNothing
