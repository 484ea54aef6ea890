CONSTANTS
    MaxXid = 3
    MaxConn = 2
    MaxNonce = 2
    Timeouts = FALSE
    Cancels = TRUE
    HalfOpen = TRUE
    Lossy = FALSE
SPECIFICATION FairSpec
PROPERTIES CallAnsweredInOrder CancelReturns
CHECK_DEADLOCK FALSE
