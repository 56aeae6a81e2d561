\* Handlers that are interrupted, nest and signal, on two stacks of up to
\* three handlers, with threads that end, restart and are replaced.
CONSTANTS
    MAX_THREADS = 2
    Calls = {"add_thread", "restart", "yield", "wait", "wake", "cancel", "timer", "return", "signal", "set_handler"}
    RemoveSets = {{}}
    WakesOnlyWaiting = TRUE
    Signal = {1, 2}
    MaxContexts = 4
SPECIFICATION FairSignalSpec
INVARIANTS NeverPastTheWrapper
PROPERTIES HandlersTakeTheLowestPending NewThreadsHaveNoSignals SignalsAreTaken
