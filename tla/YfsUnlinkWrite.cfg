SPECIFICATION Spec
CONSTANTS
    Clients = {c1, c2}
    Inums = {1, 2, 3, 4, 5}
    Workloads <- Mixed
INVARIANT OneAtATime
CHECK_DEADLOCK FALSE
