CONSTANTS
    MaxXid = 3
    MaxConn = 2
    MaxNonce = 2
    Timeouts = TRUE
    Cancels = TRUE
    HalfOpen = TRUE
    Lossy = FALSE
SPECIFICATION Spec
INVARIANT IInv
INVARIANT AtMostOnce
INVARIANT RepliedMeansRan
INVARIANT ReplyKept
PROPERTY ImplementsRpcService
CHECK_DEADLOCK FALSE
