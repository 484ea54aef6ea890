SPECIFICATION Spec
CONSTANTS
    Clients = {c1, c2}
    Inums = {1, 2, 3, 4, 5}
    Workloads <- Apart
INVARIANT TreeConsistent
PROPERTIES ImplementsFileSystem Answered
CHECK_DEADLOCK FALSE
