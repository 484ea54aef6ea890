CONSTANTS
    Clients = {1, 2}
    Threads = {1, 2, 3}
    Home <- Home21
    SpuriousWakeups = TRUE
SPECIFICATION Spec
INVARIANTS
    ServerConsistent
CHECK_DEADLOCK FALSE
