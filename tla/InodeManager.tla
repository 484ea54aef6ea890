----------------------------- MODULE InodeManager -----------------------------
(***************************************************************************)
(* inode_manager.cc: the disk, its block bitmap, its inode table and the   *)
(* files on it, as operators on a state fs = [used, disk].                 *)
(*                                                                         *)
(* A block is a sequence of NINDIRECT words of four bytes, whatever it     *)
(* holds: an inode, an index of block numbers, or data (sizes of files are *)
(* in words, too).  Blocks 2 to BBLOCK(BLOCK_NUM - 1), the bitmap, are     *)
(* represented by fs.used, the numbers of the blocks whose bit is set.     *)
(* The times of an inode are left out.                                     *)
(***************************************************************************)
EXTENDS Integers, FiniteSets, Sequences, FiniteSetsExt, Functions

CONSTANTS
    BLOCK_NUM,   \* 32768 blocks
    BPB,         \* 4096 bits in a block of the bitmap
    INODE_NUM,   \* 1024
    NDIRECT,     \* 32 direct blocks of a file
    NINDIRECT    \* 128 words in a block

ASSUME LayoutAssumption ==
    /\ {BLOCK_NUM, BPB, INODE_NUM, NDIRECT, NINDIRECT} \subseteq Nat \ {0}
    /\ NDIRECT + 3 <= NINDIRECT                      \* an inode fits a block
    /\ BLOCK_NUM % BPB = 0
    /\ BLOCK_NUM \div BPB + INODE_NUM + 2 < BLOCK_NUM

BLOCK_SIZE == NINDIRECT
IPB        == 1
BBLOCK(b)  == b \div BPB + 2
IBLOCK(i)  == BLOCK_NUM \div BPB + i \div IPB + 3
BLOCKS(n)  == (n + BLOCK_SIZE - 1) \div BLOCK_SIZE

\* The largest file an index block has room for; write_file does not test it.
MaxFileSize == (NDIRECT + NINDIRECT) * BLOCK_SIZE

BlockNums == 0 .. BLOCK_NUM - 1
ZeroBlock == [w \in 1 .. BLOCK_SIZE |-> 0]

-----------------------------------------------------------------------------
(* The block layer.                                                        *)

\* disk::read_block and write_block ignore a number that is out of range.
write_block(disk, b, block) ==
    IF b \in BlockNums THEN [disk EXCEPT ![b] = block] ELSE disk

\* The blocks that the constructor of block_manager allocates.
Reserved == 0 .. (BLOCK_NUM \div BPB + INODE_NUM \div IPB + 2) - 1

\* k calls of alloc_block: the bitmap is scanned from the start, and the
\* answer is 0 once no bit is clear.
Free(fs) == BlockNums \ fs.used
alloc_blocks(fs, k) ==
    [j \in 1 .. k |->
        IF j > Cardinality(Free(fs)) THEN 0
        ELSE CHOOSE b \in Free(fs) : Cardinality({c \in Free(fs) : c < b}) = j - 1]

MarkUsed(fs, blocks) == [fs EXCEPT !.used = @ \cup Range(blocks)]

\* free_block of every block of a set: the first blocks are never freed.
free_blocks(fs, blocks) ==
    [fs EXCEPT !.used = @ \ {b \in blocks : b > BBLOCK(BLOCK_NUM)}]

-----------------------------------------------------------------------------
(* The inode layer.                                                        *)

InodeAt(block) ==
    [type |-> block[1], size |-> block[2],
     blocks |-> [j \in 1 .. NDIRECT + 1 |-> block[j + 2]]]

NULL == InodeAt(ZeroBlock)

\* get_inode: NULL for a number out of range and for a free inode.
get_inode(fs, inum) ==
    IF inum \in 0 .. INODE_NUM - 1 THEN InodeAt(fs.disk[IBLOCK(inum)]) ELSE NULL
Exists(fs, inum) == get_inode(fs, inum).type # 0

\* getattr: of an inode that does not exist, the zeros of the caller's memset.
attr(fs, inum) ==
    LET inode == get_inode(fs, inum) IN [type |-> inode.type, size |-> inode.size]

\* put_inode overlays the inode on the block that holds it.
Overlay(inode, block) ==
    [w \in 1 .. BLOCK_SIZE |->
        IF w = 1 THEN inode.type
        ELSE IF w = 2 THEN inode.size
        ELSE IF w <= NDIRECT + 3 THEN inode.blocks[w - 2] ELSE block[w]]
put_inode(fs, inum, inode) ==
    [fs EXCEPT !.disk = write_block(fs.disk, IBLOCK(inum),
                                    Overlay(inode, fs.disk[IBLOCK(inum)]))]

\* The inum that alloc_inode answers: 1 when no inode is free.
FreeInodes(fs) == {i \in 1 .. INODE_NUM - 1 : ~ Exists(fs, i)}
NewInum(fs) ==
    IF FreeInodes(fs) = {} THEN 1
    ELSE CHOOSE i \in FreeInodes(fs) : \A j \in FreeInodes(fs) : i <= j
alloc_inode(fs, type) ==
    IF FreeInodes(fs) = {} THEN fs
    ELSE [fs EXCEPT !.disk[IBLOCK(NewInum(fs))][1] = type]

\* The data blocks of an inode, in the order of the file.
DataBlocks(fs, inode) ==
    [j \in 1 .. BLOCKS(inode.size) |->
        IF j <= NDIRECT THEN inode.blocks[j]
        ELSE fs.disk[inode.blocks[NDIRECT + 1]][j - NDIRECT]]

\* All the blocks of an inode: those that write_file and remove_file free.
FileBlocks(fs, inode) ==
    Range(DataBlocks(fs, inode)) \cup
        {inode.blocks[NDIRECT + 1] : n \in {BLOCKS(inode.size)} \ 0 .. NDIRECT}

\* What read_file copies out; the inode is written back with new times.
Contents(fs, inode) ==
    LET blocks == DataBlocks(fs, inode)
    IN  [w \in 1 .. inode.size |->
            fs.disk[blocks[(w - 1) \div BLOCK_SIZE + 1]][((w - 1) % BLOCK_SIZE) + 1]]
read_file(fs, inum) ==
    IF Exists(fs, inum) THEN Contents(fs, get_inode(fs, inum)) ELSE <<>>
touch_inode(fs, inum) ==
    IF Exists(fs, inum) THEN put_inode(fs, inum, get_inode(fs, inum)) ELSE fs

\* The j-th block of the data that write_file writes.  The rest of the last
\* one is what the stack held, here the word junk.
Chunk(data, j, junk) ==
    [w \in 1 .. BLOCK_SIZE |->
        LET at == (j - 1) * BLOCK_SIZE + w
        IN  IF at <= Len(data) THEN data[at] ELSE junk]

\* Mutant: the indirect blocks are filled from the start of the data again.
write_restarts(disk, blocks, data, first, junk) ==
    [b \in BlockNums |->
        LET at == {j \in DOMAIN blocks : blocks[j] = b}
        IN  IF at = {} THEN disk[b] ELSE Chunk(data, Max(at), junk)]

\* Block blocks[j] gets chunk first + j.  Of two equal numbers (0, from a full
\* disk) the later one is written last.
write_blocks(disk, blocks, data, first, junk) ==
    [b \in BlockNums |->
        LET at == {j \in DOMAIN blocks : blocks[j] = b}
        IN  IF at = {} THEN disk[b] ELSE Chunk(data, first + Max(at), junk)]

\* The blocks that a file of n data blocks needs: more than NDIRECT need an index.
AllBlocks(n) == IF n > NDIRECT THEN n + 1 ELSE n

\* The numbers in an inode and in its index block, once write_file has got new
\* blocks (direct, index, indirect).  Numbers in the inode that are not needed
\* keep their value.
Numbers(inode, got) ==
    [j \in 1 .. NDIRECT + 1 |-> IF j <= Len(got) THEN got[j] ELSE inode.blocks[j]]
Index(got) ==
    [w \in 1 .. NINDIRECT |->
        IF NDIRECT + 1 + w <= Len(got) THEN got[NDIRECT + 1 + w] ELSE 0]

\* The index is written, then the direct blocks, then those that the index
\* names, which is read back.
WriteData(disk, nums, index, data, junk) ==
    LET n   == BLOCKS(Len(data))
        big == n > NDIRECT
        d1  == IF big THEN write_block(disk, nums[NDIRECT + 1], index) ELSE disk
        d2  == write_blocks(d1, [j \in 1 .. (IF big THEN NDIRECT ELSE n) |-> nums[j]],
                            data, 0, junk)
    IN  IF big
        THEN write_blocks(d2, [w \in 1 .. n - NDIRECT |-> d2[nums[NDIRECT + 1]][w]],
                          data, NDIRECT, junk)
        ELSE d2

\* write_file on an inode that exists: all old blocks are freed, new ones are
\* allocated and written, then the inode.
write_file(fs, inum, data, junk) ==
    LET inode == get_inode(fs, inum)
        fs1   == free_blocks(fs, FileBlocks(fs, inode))
        got   == alloc_blocks(fs1, AllBlocks(BLOCKS(Len(data))))
        nums  == Numbers(inode, got)
        fs2   == [MarkUsed(fs1, got) EXCEPT
                     !.disk = WriteData(fs.disk, nums, Index(got), data, junk)]
    IN  put_inode(fs2, inum, [inode EXCEPT !.size = Len(data), !.blocks = nums])

\* Mutant: the index block is not freed.
remove_data(fs, inum) ==
    IF Exists(fs, inum)
    THEN put_inode(free_blocks(fs, Range(DataBlocks(fs, get_inode(fs, inum)))), inum, NULL)
    ELSE fs

\* remove_file frees the blocks, then free_inode clears the inode.
remove_file(fs, inum) ==
    IF Exists(fs, inum)
    THEN put_inode(free_blocks(fs, FileBlocks(fs, get_inode(fs, inum))), inum, NULL)
    ELSE fs

\* The constructors: a formatted disk whose first inode is the root directory.
T_DIR  == 1
T_FILE == 2
format ==
    alloc_inode([used |-> Reserved, disk |-> [b \in BlockNums |-> ZeroBlock]], T_DIR)

=============================================================================
