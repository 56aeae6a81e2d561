\* Every call but the ones on families, the timer at any point, stack errors
\* with and without a kernel exit, one permission to remove; programs that wake
\* only threads that are waiting.
CONSTANTS
    MAX_THREADS = 3
    Calls = {"add_thread", "restart", "yield", "yield_to", "wait", "wake",
             "cancel", "timer", "kernel_config", "stack_error", "return", "exit", "permissions"}
    RemoveSets = {{}, {"kconfig"}}
    WakesOnlyWaiting = TRUE
SPECIFICATION Spec
INVARIANTS TypeOK OnlyCurrentRuns CurrentIsLive NeverResumedAfterEnd
PROPERTIES DeadStaysDead ExtinctPermissionsStayExtinct ImplementsLifecycle
