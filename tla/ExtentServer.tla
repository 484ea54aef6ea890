---------------------------- MODULE ExtentServer ----------------------------
(***************************************************************************)
(* The extent server: the five RPCs of extent_server.cc on the state of    *)
(* InodeManager, one at a time.  (ExtentThreads runs them side by side.)   *)
(***************************************************************************)
EXTENDS InodeManager

CONSTANTS
    IdSpace,     \* 2^31: the handlers keep 31 bits of an extentid_t
    Types,       \* the types given to create
    Ids,         \* the extentid_ts that clients ask for
    Sizes,       \* the sizes of the contents they put
    Junk,        \* the words that an uninitialised buffer may hold
    MaxFiles,    \* bound: extents that exist at the same time
    MaxPuts      \* bound: calls of put

ASSUME SizesAssumption == Sizes # {} /\ Sizes \subseteq 0 .. MaxFileSize

\* Words and numbers are unsigned; yfs_client creates with types other than 0.
ASSUME IdsAssumption ==
    /\ IdSpace \in Nat \ {0}
    /\ Ids \subseteq Nat
    /\ \A id \in Ids : id % IdSpace # INODE_NUM - 1
    /\ Junk \subseteq Nat
    /\ Types \subseteq Nat \ {0}

\* Neither the inode table nor the disk overflows.
ASSUME RoomAssumption ==
    /\ MaxFiles \in 1 .. INODE_NUM - 2
    /\ \E m \in BlockNums :
           /\ \A n \in Sizes : AllBlocks(BLOCKS(n)) <= m
           /\ Cardinality(Reserved) + MaxFiles * m <= BLOCK_NUM

VARIABLES
    im,      \* the inode_manager
    alive,   \* has the server not crashed?
    reply,   \* what the last RPC answered
    puts     \* calls of put so far

vars == <<im, alive, reply, puts>>

\* The contents a client puts: every word tells its file and its place.
Content(id, n) == [w \in 1 .. n |-> BLOCK_NUM + 100 * id + w]
Data == {Content(id, n) : id \in Ids, n \in Sizes}

\* The inums that clients use.  The block of the last inode is also the first
\* data block, IBLOCK(INODE_NUM - 1) \notin Reserved: no client gets as far as
\* that inode.
Inums == 1 .. INODE_NUM - 2
Live  == {i \in Inums : Exists(im, i)}

Init ==
    /\ im = format
    /\ alive = TRUE
    /\ reply = <<>>
    /\ puts = 0

create(type) ==
    /\ alive
    /\ Cardinality(Live) < MaxFiles
    /\ im' = alloc_inode(im, type)
    /\ reply' = <<"create", NewInum(im)>>
    /\ UNCHANGED <<alive, puts>>

put(id, data, junk) ==
    /\ alive
    /\ puts < MaxPuts
    /\ puts' = puts + 1
    /\ Exists(im, id % IdSpace)
    /\ im' = write_file(im, id % IdSpace, data, junk)
    /\ reply' = <<"put", id>>
    /\ UNCHANGED alive

\* write_file uses the NULL that get_inode returned.
put_crashes(id) ==
    /\ alive
    /\ ~ Exists(im, id % IdSpace)
    /\ alive' = FALSE
    /\ UNCHANGED <<im, reply, puts>>

get(id) ==
    /\ alive
    /\ im' = touch_inode(im, id % IdSpace)
    /\ reply' = <<"get", id, read_file(im, id % IdSpace)>>
    /\ UNCHANGED <<alive, puts>>

getattr(id) ==
    /\ alive
    /\ LET a == attr(im, id % IdSpace) IN reply' = <<"getattr", id, a.type, a.size>>
    /\ UNCHANGED <<im, alive, puts>>

remove(id) ==
    /\ alive
    /\ im' = remove_file(im, id % IdSpace)
    /\ reply' = <<"remove", id>>
    /\ UNCHANGED <<alive, puts>>

Next ==
    \/ \E type \in Types : create(type)
    \/ \E id \in Ids :
           \/ put_crashes(id) \/ get(id) \/ getattr(id) \/ remove(id)
           \/ \E n \in Sizes, junk \in Junk : put(id, Content(id, n), junk)

Spec == Init /\ [][Next]_vars

-----------------------------------------------------------------------------

\* The blocks of the live inodes: direct, index and indirect blocks are never
\* shared, within a file or by two files, nor taken from the superblock, the
\* bitmap or the inode table ("Allocate a free disk block.",
\* inode_manager.cc:36).
BlocksDisjoint ==
    /\ \A i \in Live : LET inode == get_inode(im, i) IN
        /\ FileBlocks(im, inode) \subseteq BlockNums \ Reserved
        /\ Cardinality(FileBlocks(im, inode)) = AllBlocks(BLOCKS(inode.size))
    /\ \A i, j \in Live : i # j =>
           FileBlocks(im, get_inode(im, i)) \cap FileBlocks(im, get_inode(im, j)) = {}

\* The bitmap says exactly what is in use: no put or remove leaks a block or
\* clears the bit of one that a file still has.
BitmapExact ==
    im.used = Reserved \cup UNION {FileBlocks(im, get_inode(im, i)) : i \in Live}

\* Every block has one owner, and the bitmap knows.
BlocksOwned == BlocksDisjoint /\ BitmapExact

Store == INSTANCE ExtentStore WITH
    extents <- [i \in Inums |->
                   [type |-> get_inode(im, i).type, data |-> read_file(im, i)]]

\* The bitmap, the inodes and the index blocks together implement a map from
\* inums to contents: what is read is what was put last, and no other file
\* changes, however the blocks were freed and allocated in between.
ImplementsExtentStore == Store!Spec

=============================================================================
