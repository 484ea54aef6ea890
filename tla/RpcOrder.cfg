CONSTANTS
    MaxXid = 5
    MaxConn = 1
    MaxNonce = 1
    Timeouts = FALSE
    Cancels = FALSE
    HalfOpen = FALSE
    Lossy = TRUE
SPECIFICATION Spec
INVARIANT XidRepSound
INVARIANT OnlyDuplicatesForgotten
CHECK_DEADLOCK FALSE
