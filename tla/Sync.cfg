\* Threads that lock, wait on one condition variable, end and are replaced,
\* interrupted anywhere; nothing else blocks, wakes or cancels them.
CONSTANTS
    MAX_THREADS = 3
    Calls = {"add_thread", "yield", "timer", "return", "mutex", "cv"}
    RemoveSets = {{}}
    WakesOnlyWaiting = TRUE
SPECIFICATION SyncSpec
INVARIANTS MutualExclusion SyncTypeOK
PROPERTIES ImplementsWaitQueue
