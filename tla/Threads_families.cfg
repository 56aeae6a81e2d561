\* Parents and children, set by a thread on itself and on others, with threads
\* that end and slots that are used again.
CONSTANTS
    MAX_THREADS = 3
    Calls = {"add_thread", "set_child", "yield", "wake", "return"}
    RemoveSets = {{}}
    WakesOnlyWaiting = FALSE
SPECIFICATION FairSpec
PROPERTIES OnlyFamiliesStarve
