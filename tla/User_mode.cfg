\* Switches of every kind and failing calls between the accesses of two slots
\* to three variables, with two indexes for them and room for all but one of
\* their copies; the shell with lines of up to three commands on three slots;
\* two fibers; one conversion of every kind, before and after other output.
CONSTANTS
    MAX_THREADS = 3
    Calls = {"add_thread", "restart", "yield", "yield_to", "wait", "wake", "timer", "cancel", "kernel_config", "set_child", "return", "exit"}
    RemoveSets = {{}}
    WakesOnlyWaiting = TRUE
    Errors = {4}
    LogsErrno = FALSE
    TLSThreads = 2
    Vars = {x, y, z}
    MAX_TLS_VARS = 2
    AllocSpace = 3
    Letters = {"h", "q", "r", "e", " "}
    MAX_CMD_LINE = 5
    MAX_CMD_LINE_PARTS = 3
    FiberPorts = {"aarch64", "arm", "thumb"}
    FiberNames = {"f", "g"}
    INT_MAX = 127
    WORD_MAX = 65535
    Numbers <- MCNumbers
    Texts <- MCTexts
    Widths <- MCWidths
SPECIFICATION UserModeSpec
SYMMETRY Symmetry
INVARIANTS InfoIsCurrent ErrnoIsPerThread VariablesAreSeparate PromptComesLast
    CommandsGetTheirWords FibersKeepRegisters PrintsWhatTheFormatSays
PROPERTY ImplementsCoroutines
