SPECIFICATION MCSpec
CONSTANTS
    Producers = {p1, p2, p3, p4}
    Consumers = {c1, c2, c3}
    NonBlocking = {p4}
    max_ = 2
    MaxXid = 5
    MaxLength = 6
    BYTE = 4
    DEFAULT_RPC_SZ = 26
    Rpcs = {"create", "put", "get", "getattr", "remove", "acquire", "release", "revoke", "retry", "bind", "demo", "others"}
    Words = {0, 77, 255}
    Rets = {0, 3}
    Users = {u1, u2, u3}
    Dests = {d1, d2}
    Deletes = FALSE
    MaxInfos = 3
    Main = m1
    Runners = {t1, t2, t3, t4}
    Rounds = 2
    MaxJobs = 2
    Workers = 4
    Clients = {1, 2, 3}
    Lids = {11, 12}
    Pool = 2
    BindFails = FALSE
INVARIANTS
    FifoSafe
    ListsExact
    MessagesArrive
    EntriesLive SafebindKeeps
    GrantedOnce
    OneOwner StopsOnlyFull
PROPERTIES EnqReturns HandleDone TesterEnds
CHECK_DEADLOCK FALSE
