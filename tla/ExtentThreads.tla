---------------------------- MODULE ExtentThreads ----------------------------
(***************************************************************************)
(* The RPCs of the extent server, run side by side by its dispatch         *)
(* threads.  inode_manager has no mutex: an action is one disk::read_block *)
(* or write_block, and what a thread has read may be old when it writes.   *)
(*                                                                         *)
(* A file is a sequence of data blocks; the index block of a large file is *)
(* one more block and is not told apart from them.  The bitmap is in one   *)
(* block, and the disk is large enough (EnoughBlocks); where RPCs that     *)
(* raced have lost blocks, a thread that finds none free stops.            *)
(* A yfs_client holds the lock of the inum it gets or puts, so no two such *)
(* RPCs are about one inum; the remove of unlink holds the lock of the     *)
(* directory only.                                                         *)
(***************************************************************************)
EXTENDS Integers, FiniteSets, Sequences

CONSTANTS
    Threads,
    INODE_NUM,    \* the inums are 1 to INODE_NUM - 1
    Blocks,       \* the numbers of the data blocks
    MaxBlocks     \* bound: blocks of a file

Inums == 1 .. INODE_NUM - 1
Free  == [type |-> 0, blocks |-> <<>>]

\* The disk has room for every file.
EnoughBlocks == Blocks \subseteq Nat /\ Cardinality(Blocks) >= (INODE_NUM - 1) * MaxBlocks

\* Mutant: two inodes in a block.
TwoPerBlock(i) == {j \in Inums : (j + 1) \div 2 = (i + 1) \div 2}

\* The inodes in the block that holds inode i: IPB is 1.
InodeBlock(i) == {i}

VARIABLES
    inodes,  \* the inode table
    used,    \* the bits set in the bitmap
    disk,    \* the data in each block
    th,      \* each thread's RPC, its next disk access, and its locals: the copies of
             \* the inode, of the bitmap and of the inode's block, the loop index k,
             \* the number n of blocks to write, and what was read
    file,    \* history: the contents of each inum after its last put
    grants,  \* history: the creates that answered an inum since it was removed
    raced    \* history: did RPCs run side by side that must not?

vars == <<inodes, used, disk, th, file, grants, raced>>

Idle == [op |-> "none", inum |-> 1, pc |-> "idle", ino |-> Free, k |-> 0, n |-> 0,
         bits |-> {}, inos |-> [i \in Inums |-> Free], seen |-> <<>>]

Init ==
    /\ inodes = [i \in Inums |-> IF i = 1 THEN [type |-> 1, blocks |-> <<>>] ELSE Free]
    /\ used = {}
    /\ disk = [b \in Blocks |-> <<>>]
    /\ th = [t \in Threads |-> Idle]
    /\ file = [i \in Inums |-> <<>>]
    /\ grants = [i \in Inums |-> IF i = 1 THEN 1 ELSE 0]
    /\ raced = FALSE

Goes(t, r)  == th' = [th EXCEPT ![t] = r]
Returns(t)  == th' = [th EXCEPT ![t] = Idle]
At(t, pc)   == th[t].pc = pc

Running(ops) == {t \in Threads : th[t].op \in ops}

\* Does the client of another RPC hold the lock that keeps o away from inum i?
Locked(i, o) ==
    \E t \in Running(IF o = "remove" THEN {"remove"} ELSE {"put", "get"}) : th[t].inum = i

\* The RPCs that do harm side by side, which nothing keeps apart: two creates, two
\* of put and remove, and a get of what is being removed.
Races(o, i) ==
    \E t \in Threads :
        \/ o = "create" /\ th[t].op = "create"
        \/ o \in {"put", "remove"} /\ th[t].op \in {"put", "remove"}
        \/ o = "get" /\ th[t].op = "remove" /\ th[t].inum = i
        \/ o = "remove" /\ th[t].op = "get" /\ th[t].inum = i

\* A request is dispatched: a create while there are free inodes, or an RPC
\* about an inum that the client knows to exist.
Dispatch(t, o, i) ==
    /\ th[t] = Idle
    /\ IF o = "create" THEN i = 1 /\ \E j \in Inums : inodes[j] = Free
       ELSE grants[i] > 0 /\ ~ Locked(i, o)
    /\ o = "remove" => i # 1
    /\ th' = [th EXCEPT ![t] = [Idle EXCEPT !.op = o, !.inum = i,
                 !.pc = IF o = "create" THEN "scan" ELSE "get_inode"]]
    /\ raced' = (raced \/ Races(o, i))
    /\ UNCHANGED <<inodes, used, disk, file, grants>>

-----------------------------------------------------------------------------

\* alloc_inode reads inode after inode until one is free (1 if there is none),
Scan(t) ==
    /\ At(t, "scan")
    /\ LET i == th[t].inum
       IN  IF inodes[i].type = 0
           THEN Goes(t, [th[t] EXCEPT !.pc = "claim", !.ino = inodes[i]])
           ELSE IF i + 1 \in Inums THEN Goes(t, [th[t] EXCEPT !.inum = i + 1])
           ELSE Returns(t)
    /\ UNCHANGED <<inodes, used, disk, file, grants>>

\* and writes it back with its type.
Claim(t) ==
    /\ At(t, "claim")
    /\ inodes' = [inodes EXCEPT ![th[t].inum] = [th[t].ino EXCEPT !.type = 2]]
    /\ grants' = [grants EXCEPT ![th[t].inum] = @ + 1]
    /\ file' = [file EXCEPT ![th[t].inum] = <<>>]
    /\ Returns(t)
    /\ UNCHANGED <<used, disk>>

\* A loop over len blocks goes on with its next disk access, or is over.
Loop(access, k, len, over) == IF k < len THEN access ELSE over

\* The blocks are freed: remove_file frees the inode, write_file allocates.
Freed(o, n) == IF o = "remove" THEN "free_inode" ELSE Loop("alloc_read", 0, n, "put_read")

\* get_inode: when it answers NULL, read_file and remove_file return, write_file crashes.
GetInode(t, n) ==
    /\ At(t, "get_inode")
    /\ LET inode == inodes[th[t].inum]
           len   == Len(inode.blocks)
       IN  IF inode # Free
           THEN Goes(t, [th[t] EXCEPT !.ino = inode, !.n = IF th[t].op = "put" THEN n ELSE 0,
                    !.pc = IF th[t].op = "get" THEN Loop("read", 0, len, "put_read")
                           ELSE Loop("free_read", 0, len, Freed(th[t].op, n))])
           ELSE IF th[t].op = "put" THEN Goes(t, [th[t] EXCEPT !.pc = "crashed"])
           ELSE Returns(t)
    /\ UNCHANGED <<inodes, used, disk, file, grants>>

\* free_block reads the bitmap, clears a bit of the copy,
FreeRead(t) ==
    /\ At(t, "free_read")
    /\ LET k == th[t].k + 1
       IN  Goes(t, [th[t] EXCEPT !.pc = "free_write", !.k = k,
                                 !.bits = used \ {th[t].ino.blocks[k]}])
    /\ UNCHANGED <<inodes, used, disk, file, grants>>

\* and writes the copy back.
FreeWrite(t) ==
    /\ At(t, "free_write")
    /\ used' = th[t].bits
    /\ Goes(t, IF th[t].k < Len(th[t].ino.blocks) THEN [th[t] EXCEPT !.pc = "free_read"]
               ELSE [th[t] EXCEPT !.pc = Freed(th[t].op, th[t].n), !.k = 0,
                                  !.ino = [th[t].ino EXCEPT !.blocks = <<>>]])
    /\ UNCHANGED <<inodes, disk, file, grants>>

\* alloc_block reads the bitmap, sets the first bit of the copy that is clear,
AllocRead(t) ==
    /\ At(t, "alloc_read")
    /\ \E b \in Blocks \ used :
           /\ \A c \in Blocks \ used : b <= c
           /\ Goes(t, [th[t] EXCEPT !.pc = "alloc_write", !.bits = used \cup {b},
                                    !.ino = [th[t].ino EXCEPT !.blocks = Append(@, b)]])
    /\ UNCHANGED <<inodes, used, disk, file, grants>>

\* and writes the copy back.
AllocWrite(t) ==
    /\ At(t, "alloc_write")
    /\ used' = th[t].bits
    /\ Goes(t, [th[t] EXCEPT !.pc = Loop("alloc_read", Len(th[t].ino.blocks), th[t].n, "write")])
    /\ UNCHANGED <<inodes, disk, file, grants>>

\* The contents that a put of n blocks writes: they tell inum, size and place.
Content(i, n) == [j \in 1 .. n |-> <<i, n, j>>]

WriteBlock(t) ==
    /\ At(t, "write")
    /\ LET k == th[t].k + 1 IN
        /\ disk' = [disk EXCEPT ![th[t].ino.blocks[k]] = Content(th[t].inum, th[t].n)[k]]
        /\ Goes(t, [th[t] EXCEPT !.k = k, !.pc = Loop("write", k, th[t].n, "put_read")])
    /\ UNCHANGED <<inodes, used, file, grants>>

ReadBlock(t) ==
    /\ At(t, "read")
    /\ LET k == th[t].k + 1
       IN  Goes(t, [th[t] EXCEPT !.k = k, !.seen = Append(@, disk[th[t].ino.blocks[k]]),
                        !.pc = Loop("read", k, Len(th[t].ino.blocks), "put_read")])
    /\ UNCHANGED <<inodes, used, disk, file, grants>>

\* free_inode gets the inode again (NULL crashes it), and clears its copy.
FreeInode(t) ==
    /\ At(t, "free_inode")
    /\ Goes(t, IF inodes[th[t].inum] = Free THEN [th[t] EXCEPT !.pc = "crashed"]
               ELSE [th[t] EXCEPT !.pc = "put_read", !.ino = Free])
    /\ UNCHANGED <<inodes, used, disk, file, grants>>

\* put_inode reads the block of the inode, and writes it back with the copy in
\* its place: at the end of put (new blocks), get (new times) and remove.
PutRead(t) ==
    /\ At(t, "put_read")
    /\ Goes(t, [th[t] EXCEPT !.pc = "put_write",
            !.inos = [j \in Inums |-> IF j \in InodeBlock(th[t].inum) THEN inodes[j] ELSE Free]])
    /\ UNCHANGED <<inodes, used, disk, file, grants>>

PutWrite(t) ==
    /\ At(t, "put_write")
    /\ LET i == th[t].inum IN
        /\ inodes' = [j \in Inums |-> IF j = i THEN th[t].ino
                                     ELSE IF j \in InodeBlock(i) THEN th[t].inos[j] ELSE inodes[j]]
        /\ file' = IF th[t].op = "put" THEN [file EXCEPT ![i] = Content(i, th[t].n)] ELSE file
        /\ grants' = IF th[t].op = "remove" THEN [grants EXCEPT ![i] = 0] ELSE grants
    /\ Returns(t)
    /\ UNCHANGED <<used, disk>>

Access(t) ==
    \/ Scan(t) \/ Claim(t)
    \/ \E n \in 0 .. MaxBlocks : GetInode(t, n)
    \/ FreeRead(t) \/ FreeWrite(t) \/ AllocRead(t) \/ AllocWrite(t)
    \/ WriteBlock(t) \/ ReadBlock(t)
    \/ FreeInode(t) \/ PutRead(t) \/ PutWrite(t)

\* A crash of one thread ends them all.
Next == (\A t \in Threads : ~ At(t, "crashed")) /\ \E t \in Threads :
    \/ Access(t) /\ UNCHANGED raced
    \/ \E o \in {"create", "put", "get", "remove"}, i \in Inums : Dispatch(t, o, i)

Spec == Init /\ [][Next]_vars

-----------------------------------------------------------------------------

Live == {i \in Inums : inodes[i] # Free}
BlocksOf(i) == {inodes[i].blocks[j] : j \in DOMAIN inodes[i].blocks}
Writing(i) == \E t \in Threads : th[t].op \in {"put", "remove"} /\ th[t].inum = i

\* A get answers the contents of the last put.
GetReadsLastPut ==
    \A t \in Threads : th[t].op = "get" /\ At(t, "put_write") =>
        th[t].seen = file[th[t].inum]

\* The blocks of a file that nobody is writing are marked in the bitmap, a removed
\* file does not come back, and no put finds its inode gone.
FilesIntact ==
    /\ \A i \in Live :
          /\ grants[i] > 0 \/ Writing(i)
          /\ Writing(i) \/ BlocksOf(i) \subseteq used
    /\ \A t \in Threads : ~ At(t, "crashed")

\* "Allocate a free disk block." (inode_manager.cc:36): two files that nobody
\* is writing have no block in common.
BlocksUnique ==
    \A i, j \in Live : i # j /\ ~ Writing(i) /\ ~ Writing(j) =>
        BlocksOf(i) \cap BlocksOf(j) = {}

\* "Create a new file. Return its inum." (inode_manager.cc:121): an inum is
\* answered once, until its file is removed.
InumsUnique == \A i \in Inums : grants[i] <= 1

\* inode_manager has no mutex, and the RPCs of Races do undo each other's writes.
\* No others do: until two such RPCs have overlapped, gets read what was last put,
\* and blocks, inums and files are in order, whichever disk accesses of a create, of
\* gets, and of a put or a remove come between each other.
OnlyRacesDamage ==
    raced \/ (GetReadsLastPut /\ FilesIntact /\ BlocksUnique /\ InumsUnique)

=============================================================================
