CONSTANTS
    MaxXid = 2
    MaxConn = 2
    MaxNonce = 1
    Timeouts = FALSE
    Cancels = FALSE
    HalfOpen = TRUE
    Lossy = FALSE
SPECIFICATION FairSpec
PROPERTY CallAnswered
CHECK_DEADLOCK FALSE
