CONSTANTS
    BLOCK_NUM = 24
    BPB = 8
    INODE_NUM = 5
    NDIRECT = 1
    NINDIRECT = 4
    IdSpace = 16
    Types = {2}
    Ids = {2, 19, 5}
    Sizes = {0, 4, 9}
    Junk = {11}
    MaxFiles = 3
    MaxPuts = 3
    Threads = {t1, t2}
    ThreadInodes = 3
    Blocks = {1, 2, 3, 4}
    MaxBlocks = 2
SPECIFICATION MCSpec
INVARIANTS
    BlocksOwned
    OnlyRacesDamage
PROPERTY ImplementsExtentStore
CHECK_DEADLOCK FALSE
