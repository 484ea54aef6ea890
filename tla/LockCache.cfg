CONSTANTS
    Clients = {1, 2, 3}
    Threads = {1, 2, 3, 4, 5}
    Home <- Home221
    SpuriousWakeups = FALSE
SPECIFICATION FairSpec
INVARIANTS
    MutualExclusion
    CacheCoherence
    NoAbort
    UnlockedReads
    RetryFindsWaiter
    IInv
PROPERTIES
    QueueOrder
    ReleaseOnlyRevoked
    AcquireReturnsEventually
    FirstClientServed
    LockMoves
    ImplementsLockService
