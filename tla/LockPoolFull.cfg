SPECIFICATION Spec
CONSTANTS
    Clients = {1, 2, 3}
    Locks = {11, 12, 13}
    Pool = 3
    BindFails = FALSE
INVARIANT ThreadForRelease
CHECK_DEADLOCK FALSE
