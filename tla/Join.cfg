\* Thread 0 creates the other threads and joins them, as in the demos; any
\* thread can cancel any other, with the timer at any point.
CONSTANTS
    MAX_THREADS = 3
    Calls = {"add_thread", "yield", "timer", "cancel", "return", "join", "registers", "restart"}
    RemoveSets = {{"tconfig", "tconfig_other"}}
    WakesOnlyWaiting = TRUE
    Joiners = {0}
    Creators = {0}
    Restarters = {2}
    Ports = {"aarch64", "arm", "thumb"}
    TimerPorts = {"aarch64", "thumb"}
SPECIFICATION FairJoinSpec
INVARIANTS KeepsRegisters ContextsAreNamed
PROPERTIES JoinReturns InterruptsReschedule
