\* Rings of two messages that fill and wrap, told apart by their sender, between
\* two slots whose threads end, restart, are cancelled and replaced.
CONSTANTS
    MAX_THREADS = 2
    Calls = {"add_thread", "restart", "yield", "timer", "cancel", "return", "send_msg", "get_msg"}
    RemoveSets = {{}}
    WakesOnlyWaiting = TRUE
    THREAD_MSG_QUEUE_SIZE = 2
    Contents = {0}
INVARIANT RingTypeOK
SPECIFICATION MessagesSpec

PROPERTIES ImplementsMailboxes NewThreadsHaveNoMessages
