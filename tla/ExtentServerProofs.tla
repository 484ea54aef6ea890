------------------------- MODULE ExtentServerProofs -------------------------
(***************************************************************************)
(* The extent server, an RPC at a time, for every size of the disk, of     *)
(* blocks and of inodes: the blocks have one owner each, and files read    *)
(* back what was put.                                                      *)
(***************************************************************************)
EXTENDS ExtentServer, FiniteSetTheorems, SequenceTheorems, TLAPS

Block    == [1 .. NINDIRECT -> Nat]
Disk     == [BlockNums -> Block]
Manager  == [used : SUBSET BlockNums, disk : Disk]
Inode    == [type : Nat, size : Nat, blocks : [1 .. NDIRECT + 1 -> Nat]]
Unmarked == BlockNums \ Reserved

\* The blocks of the file with inum i, and the files there are.
Owned(fs, i) == FileBlocks(fs, get_inode(fs, i))
LiveIn(fs)   == {i \in Inums : Exists(fs, i)}

\* The sizes that files have.
FileSizes == Sizes \cup {0}

\* The inode of each inum: the first one is of no file, a free one is empty.
InodesSane(fs) ==
    /\ get_inode(fs, 0).type = 0 /\ get_inode(fs, 0).size = 0
    /\ \A i \in Inums :
        /\ get_inode(fs, i).size \in FileSizes
        /\ get_inode(fs, i).type = 0 => get_inode(fs, i).size = 0

\* Every block has one owner, and the bitmap knows.  (A free inode has no blocks.)
BlocksSane(fs) ==
    /\ \A i \in Inums :
        /\ Owned(fs, i) \subseteq Unmarked
        /\ Cardinality(Owned(fs, i)) = AllBlocks(BLOCKS(get_inode(fs, i).size))
    /\ \A i, j \in Inums : i # j => Owned(fs, i) \cap Owned(fs, j) = {}
    /\ fs.used = Reserved \cup UNION {Owned(fs, i) : i \in Inums}

Sane(fs) ==
    /\ fs \in Manager
    /\ InodesSane(fs)
    /\ BlocksSane(fs)
    /\ Cardinality(LiveIn(fs)) <= MaxFiles

-----------------------------------------------------------------------------
(* Numbers.                                                                *)

LEMMA Quotient ==
    ASSUME NEW n \in Nat, NEW b \in Nat \ {0}
    PROVE  n \div b \in Nat /\ n % b \in 0 .. b - 1
BY SMT

\* The blocks of n words are enough for each of them,
LEMMA BlockOfWord ==
    ASSUME NEW n \in Nat, NEW b \in Nat \ {0}, NEW w \in 1 .. n
    PROVE  (w - 1) \div b + 1 \in 1 .. (n + b - 1) \div b
BY SMT

\* and where a word is in its block tells which one it is.
LEMMA WordOfBlock ==
    ASSUME NEW w \in Nat \ {0}, NEW b \in Nat \ {0}
    PROVE  /\ ((w - 1) % b) + 1 \in 1 .. b
           /\ (((w - 1) \div b + 1) - 1) * b + (((w - 1) % b) + 1) = w
BY SMT

LEMMA BlocksFit ==
    ASSUME NEW k \in Nat, NEW n \in Nat, NEW b \in Nat \ {0}, n <= k * b
    PROVE  (n + b - 1) \div b \in 0 .. k
BY SMT

LEMMA Sizing ==
    /\ BLOCK_NUM \in Nat \ {0} /\ BPB \in Nat \ {0} /\ INODE_NUM \in Nat \ {0}
    /\ NDIRECT \in Nat \ {0} /\ NINDIRECT \in Nat \ {0} /\ NDIRECT + 3 <= NINDIRECT
    /\ BLOCK_NUM \div BPB \in Nat
    /\ BLOCK_NUM \div BPB + INODE_NUM + 2 < BLOCK_NUM
    /\ INODE_NUM > 2
<1>1. /\ BLOCK_NUM \in Nat \ {0} /\ BPB \in Nat \ {0} /\ INODE_NUM \in Nat \ {0}
      /\ NDIRECT \in Nat \ {0} /\ NINDIRECT \in Nat \ {0} /\ NDIRECT + 3 <= NINDIRECT
      /\ BLOCK_NUM \div BPB + INODE_NUM + 2 < BLOCK_NUM
  BY LayoutAssumption
<1>2. BLOCK_NUM \div BPB \in Nat
  BY <1>1, Quotient
<1>3. INODE_NUM > 2
  BY <1>1, RoomAssumption
<1> QED
  BY <1>1, <1>2, <1>3

\* There is room for the root directory.
LEMMA RootFits == T_DIR = 1 /\ T_DIR \in Nat \ {0} /\ Cardinality({}) < MaxFiles
BY FS_EmptySet, RoomAssumption, Sizing DEF T_DIR

LEMMA Layout ==
    /\ Reserved \subseteq BlockNums
    /\ IsFiniteSet(BlockNums) /\ Cardinality(BlockNums) = BLOCK_NUM
    /\ \A b \in Unmarked : b > BBLOCK(BLOCK_NUM)
    /\ \A i \in 0 .. INODE_NUM - 1 : IBLOCK(i) \in BlockNums
    /\ \A i \in 0 .. INODE_NUM - 2 : IBLOCK(i) \in Reserved
    /\ \A i, j \in 0 .. INODE_NUM - 1 : IBLOCK(i) = IBLOCK(j) => i = j
<1> DEFINE q == BLOCK_NUM \div BPB
<1>1. q \in Nat /\ q + INODE_NUM + 2 < BLOCK_NUM /\ INODE_NUM \in Nat /\ BLOCK_NUM \in Nat
  BY Sizing
<1>2. Reserved = 0 .. q + INODE_NUM + 1 /\ BlockNums = 0 .. BLOCK_NUM - 1
  BY <1>1 DEF Reserved, BlockNums, IPB
<1>3. BBLOCK(BLOCK_NUM) = q + 2 /\ \A i \in 0 .. INODE_NUM - 1 : IBLOCK(i) = q + i + 3
  BY <1>1 DEF BBLOCK, IBLOCK, IPB
<1>4. IsFiniteSet(BlockNums) /\ Cardinality(BlockNums) = BLOCK_NUM
  BY <1>1, <1>2, FS_Interval
<1> HIDE DEF q
<1>5. Reserved \subseteq BlockNums
  BY <1>1, <1>2
<1>6. \A b \in Unmarked : b > BBLOCK(BLOCK_NUM)
  BY <1>1, <1>2, <1>3, Sizing DEF Unmarked
<1>7. \A i \in 0 .. INODE_NUM - 1 : IBLOCK(i) \in BlockNums
  BY <1>1, <1>2, <1>3
<1>8. \A i \in 0 .. INODE_NUM - 2 : IBLOCK(i) \in Reserved
  BY <1>1, <1>2, <1>3
<1>9. \A i, j \in 0 .. INODE_NUM - 1 : IBLOCK(i) = IBLOCK(j) => i = j
  BY <1>1, <1>3
<1> QED
  BY <1>4, <1>5, <1>6, <1>7, <1>8, <1>9

\* The inums of clients, and the first inode, which is no file's.
LEMMA InumRange ==
    /\ Inums \subseteq 0 .. INODE_NUM - 2
    /\ 0 .. INODE_NUM - 2 \subseteq 0 .. INODE_NUM - 1
    /\ 0 .. INODE_NUM - 2 = Inums \cup {0}
    /\ 0 \notin Inums
BY Sizing DEF Inums

\* How many blocks a file has.
LEMMA Length ==
    ASSUME NEW s \in FileSizes
    PROVE  /\ s \in Nat
           /\ BLOCKS(s) \in 0 .. NDIRECT + NINDIRECT
           /\ AllBlocks(BLOCKS(s)) \in Nat
           /\ s = 0 => BLOCKS(s) = 0 /\ AllBlocks(BLOCKS(s)) = 0
<1>1. NDIRECT \in Nat \ {0} /\ NINDIRECT \in Nat \ {0}
  BY Sizing
<1>2. s \in Nat /\ s <= (NDIRECT + NINDIRECT) * NINDIRECT
  BY <1>1, SizesAssumption DEF FileSizes, MaxFileSize, BLOCK_SIZE
<1>3. BLOCKS(s) \in 0 .. NDIRECT + NINDIRECT
  BY <1>1, <1>2, BlocksFit DEF BLOCKS, BLOCK_SIZE
<1>4. s = 0 => BLOCKS(s) = 0
  BY <1>1, BlocksFit DEF BLOCKS, BLOCK_SIZE
<1> QED
  BY <1>1, <1>2, <1>3, <1>4 DEF AllBlocks

-----------------------------------------------------------------------------
(* Inodes.                                                                 *)

LEMMA Fields ==
    ASSUME NEW b
    PROVE  InodeAt(b).type = b[1] /\ InodeAt(b).size = b[2]
BY Zenon DEF InodeAt

LEMMA InodeTyped ==
    ASSUME NEW b \in Block
    PROVE  InodeAt(b) \in Inode
<1>1. \A w \in 1 .. NDIRECT + 3 : b[w] \in Nat
  BY Sizing DEF Block
<1>2. b[1] \in Nat /\ b[2] \in Nat /\ \A j \in 1 .. NDIRECT + 1 : b[j + 2] \in Nat
  BY <1>1, Sizing
<1> QED
  BY <1>2, Zenon DEF InodeAt, Inode

LEMMA GetInode ==
    ASSUME NEW fs \in Manager, NEW i \in 0 .. INODE_NUM - 1
    PROVE  /\ get_inode(fs, i) = InodeAt(fs.disk[IBLOCK(i)])
           /\ get_inode(fs, i) \in Inode
           /\ fs.disk[IBLOCK(i)] \in Block
<1>1. get_inode(fs, i) = InodeAt(fs.disk[IBLOCK(i)])
  BY Zenon DEF get_inode
<1>2. fs.disk[IBLOCK(i)] \in Block
  BY Layout, Zenon DEF Manager, Disk
<1> QED
  BY <1>1, <1>2, InodeTyped, Zenon

LEMMA OverlayIs ==
    ASSUME NEW r \in Inode, NEW b \in Block
    PROVE  /\ Overlay(r, b) \in Block
           /\ InodeAt(Overlay(r, b)) = r
<1> DEFINE o == Overlay(r, b)
<1>1. /\ NDIRECT \in Nat /\ NINDIRECT \in Nat /\ NDIRECT + 3 <= NINDIRECT
      /\ r.type \in Nat /\ r.size \in Nat /\ r.blocks \in [1 .. NDIRECT + 1 -> Nat]
  BY Sizing DEF Inode
<1>2. \A w \in 1 .. NINDIRECT : b[w] \in Nat
  BY Zenon DEF Block
<1>3. \A w \in 1 .. NINDIRECT :
          w # 1 /\ w # 2 /\ w <= NDIRECT + 3 => w - 2 \in 1 .. NDIRECT + 1
  BY <1>1
<1>4. \A w \in 1 .. NINDIRECT :
          (IF w = 1 THEN r.type ELSE IF w = 2 THEN r.size
           ELSE IF w <= NDIRECT + 3 THEN r.blocks[w - 2] ELSE b[w]) \in Nat
  BY <1>1, <1>2, <1>3, Zenon
<1>5. o \in Block
  BY <1>4, Zenon DEF Overlay, Block, BLOCK_SIZE
<1>6. 1 \in 1 .. NINDIRECT /\ 2 \in 1 .. NINDIRECT
  BY <1>1
<1>7. o[1] = r.type /\ o[2] = r.size
  BY <1>6 DEF Overlay, BLOCK_SIZE
<1>8. \A j \in 1 .. NDIRECT + 1 : o[j + 2] = r.blocks[j]
  <2> TAKE j \in 1 .. NDIRECT + 1
  <2>1. j + 2 \in 1 .. NINDIRECT /\ j + 2 # 1 /\ j + 2 # 2 /\ j + 2 <= NDIRECT + 3
        /\ (j + 2) - 2 = j
    BY <1>1
  <2> QED
    BY <2>1, Zenon DEF Overlay, BLOCK_SIZE
<1> HIDE DEF o
<1>9. [j \in 1 .. NDIRECT + 1 |-> o[j + 2]] = r.blocks
  BY <1>1, <1>8, Zenon
<1>10. r = [type |-> r.type, size |-> r.size, blocks |-> r.blocks]
  BY Zenon DEF Inode
<1>11. InodeAt(o) = r
  BY <1>7, <1>9, <1>10, Zenon DEF InodeAt
<1> QED
  BY <1>5, <1>11, Zenon DEF o

\* put_inode changes the block of its inode, to what get_inode then reads.
LEMMA PutInode ==
    ASSUME NEW fs \in Manager, NEW i \in 0 .. INODE_NUM - 1, NEW r \in Inode
    PROVE  LET gs == put_inode(fs, i, r)
           IN  /\ gs \in Manager
               /\ gs.used = fs.used
               /\ get_inode(gs, i) = r
               /\ \A b \in BlockNums : b # IBLOCK(i) => gs.disk[b] = fs.disk[b]
<1> DEFINE o  == Overlay(r, fs.disk[IBLOCK(i)])
           gs == [fs EXCEPT !.disk = [fs.disk EXCEPT ![IBLOCK(i)] = o]]
<1>1. IBLOCK(i) \in BlockNums
  BY Layout, Zenon
<1>2. put_inode(fs, i, r) = gs
  BY <1>1, Zenon DEF put_inode, write_block
<1>3. o \in Block /\ InodeAt(o) = r
  BY GetInode, OverlayIs, Zenon
<1> HIDE DEF o
<1>4. gs.used = fs.used /\ gs.disk = [fs.disk EXCEPT ![IBLOCK(i)] = o]
  BY Zenon DEF Manager
<1>5. gs \in Manager
  BY <1>3, Zenon DEF Manager, Disk
<1> HIDE DEF gs
<1>6. gs.disk[IBLOCK(i)] = o /\ \A b \in BlockNums : b # IBLOCK(i) => gs.disk[b] = fs.disk[b]
  BY <1>1, <1>4, Zenon DEF Manager, Disk
<1>7. get_inode(gs, i) = r
  BY <1>3, <1>5, <1>6, GetInode, Zenon
<1> QED
  BY <1>2, <1>4, <1>5, <1>6, <1>7, Zenon

\* To write back an inode that was read changes nothing.
LEMMA TouchIs ==
    ASSUME NEW fs \in Manager, NEW i
    PROVE  touch_inode(fs, i) = fs
<1>1. CASE ~ Exists(fs, i)
  BY <1>1, Zenon DEF touch_inode
<1>2. CASE Exists(fs, i)
  <2>1. i \in 0 .. INODE_NUM - 1
    <3>1. 1 \in 1 .. BLOCK_SIZE
      BY Sizing DEF BLOCK_SIZE
    <3>2. NULL.type = 0
      BY <3>1, Zenon DEF NULL, InodeAt, ZeroBlock
    <3> QED
      BY <1>2, <3>2, Zenon DEF Exists, get_inode
  <2> DEFINE b == fs.disk[IBLOCK(i)]
             r == get_inode(fs, i)
  <2>2. b \in Block /\ r = InodeAt(b) /\ IBLOCK(i) \in BlockNums
    BY <2>1, GetInode, Layout, Zenon
  <2>3. Overlay(r, b) = b
    <3> HIDE DEF b, r
    <3>1. \A w \in 1 .. NINDIRECT :
              w # 1 /\ w # 2 /\ w <= NDIRECT + 3 =>
                  w - 2 \in 1 .. NDIRECT + 1 /\ (w - 2) + 2 = w
      BY Sizing
    <3>2. r.type = b[1] /\ r.size = b[2] /\ \A j \in 1 .. NDIRECT + 1 : r.blocks[j] = b[j + 2]
      BY <2>2, Zenon DEF InodeAt
    <3>3. \A w \in 1 .. NINDIRECT :
              b[w] = IF w = 1 THEN r.type ELSE IF w = 2 THEN r.size
                     ELSE IF w <= NDIRECT + 3 THEN r.blocks[w - 2] ELSE b[w]
      BY <3>1, <3>2, Zenon
    <3> QED
      BY <2>2, <3>3, Zenon DEF Overlay, BLOCK_SIZE, Block
  <2>4. write_block(fs.disk, IBLOCK(i), b) = fs.disk
    BY <2>2, Zenon DEF write_block, Manager, Disk
  <2>5. put_inode(fs, i, r) = [fs EXCEPT !.disk = fs.disk]
    BY <2>3, <2>4, Zenon DEF put_inode
  <2>6. [fs EXCEPT !.disk = fs.disk] = fs
    BY Zenon DEF Manager
  <2> QED
    BY <1>2, <2>5, <2>6, Zenon DEF touch_inode
<1> QED
  BY <1>1, <1>2

-----------------------------------------------------------------------------
(* What a file is.                                                         *)

\* The numbers of the data blocks of an inode are in it and in its index block.
LEMMA FileOf ==
    ASSUME NEW fs \in Manager, NEW r \in Inode, r.size \in FileSizes
    PROVE  /\ DOMAIN DataBlocks(fs, r) = 1 .. BLOCKS(r.size)
           /\ \A j \in 1 .. BLOCKS(r.size) : DataBlocks(fs, r)[j] \in FileBlocks(fs, r)
           /\ BLOCKS(r.size) > NDIRECT => r.blocks[NDIRECT + 1] \in FileBlocks(fs, r)
           /\ BLOCKS(r.size) = 0 => FileBlocks(fs, r) = {}
<1> DEFINE n == BLOCKS(r.size)
<1>1. n \in 0 .. NDIRECT + NINDIRECT /\ NDIRECT \in Nat \ {0}
  BY Length, Sizing
<1>2. DOMAIN DataBlocks(fs, r) = 1 .. n
  BY Zenon DEF DataBlocks
<1>3. \A j \in 1 .. n : DataBlocks(fs, r)[j] \in FileBlocks(fs, r)
  BY <1>2, Zenon DEF FileBlocks, Range
<1>4. n > NDIRECT => n \in {n} \ 0 .. NDIRECT
  BY <1>1
<1>5. n > NDIRECT => r.blocks[NDIRECT + 1] \in FileBlocks(fs, r)
  BY <1>4, Zenon DEF FileBlocks
<1>6. n = 0 => 1 .. n = {} /\ {n} \ 0 .. NDIRECT = {}
  BY <1>1
<1>7. n = 0 => FileBlocks(fs, r) = {}
  BY <1>2, <1>6, Zenon DEF FileBlocks, Range
<1> QED
  BY <1>2, <1>3, <1>5, <1>7, Zenon

\* A file stays as it is when neither its inode nor one of its blocks changes.
LEMMA Untouched ==
    ASSUME NEW fs \in Manager, NEW gs \in Manager, NEW i \in 0 .. INODE_NUM - 1,
           get_inode(fs, i).size \in FileSizes,
           gs.disk[IBLOCK(i)] = fs.disk[IBLOCK(i)],
           \A b \in Owned(fs, i) : gs.disk[b] = fs.disk[b]
    PROVE  /\ get_inode(gs, i) = get_inode(fs, i)
           /\ Exists(gs, i) <=> Exists(fs, i)
           /\ Owned(gs, i) = Owned(fs, i)
           /\ read_file(gs, i) = read_file(fs, i)
<1> DEFINE r == get_inode(fs, i)
           n == BLOCKS(r.size)
<1>1. get_inode(gs, i) = r /\ r \in Inode
  BY GetInode, Zenon
<1>2. /\ \A j \in 1 .. n : DataBlocks(fs, r)[j] \in Owned(fs, i)
      /\ n > NDIRECT => r.blocks[NDIRECT + 1] \in Owned(fs, i)
  BY <1>1, FileOf, Zenon DEF Owned
<1>3. \A j \in 1 .. n : ~ (j <= NDIRECT) => n > NDIRECT
  BY Length, Sizing
<1> DEFINE Num(d, j) == IF j <= NDIRECT THEN r.blocks[j]
                        ELSE d[r.blocks[NDIRECT + 1]][j - NDIRECT]
<1>4. \A j \in 1 .. n : Num(gs.disk, j) = Num(fs.disk, j)
  BY <1>2, <1>3, Zenon
<1>5. DataBlocks(gs, r) = DataBlocks(fs, r)
  <2>1. DataBlocks(gs, r) = [j \in 1 .. n |-> Num(gs.disk, j)]
    BY Zenon DEF DataBlocks
  <2>2. DataBlocks(fs, r) = [j \in 1 .. n |-> Num(fs.disk, j)]
    BY Zenon DEF DataBlocks
  <2> HIDE DEF Num
  <2> QED
    BY <1>4, <2>1, <2>2, Zenon
<1>6. Owned(gs, i) = Owned(fs, i)
  BY <1>1, <1>5, Zenon DEF Owned, FileBlocks
<1>7. Contents(gs, r) = Contents(fs, r)
  <2> DEFINE bs == DataBlocks(fs, r)
  <2>1. \A w \in 1 .. r.size : (w - 1) \div BLOCK_SIZE + 1 \in 1 .. n
    BY Length, BlockOfWord, Sizing DEF BLOCKS, BLOCK_SIZE
  <2>2. \A w \in 1 .. r.size : gs.disk[bs[(w - 1) \div BLOCK_SIZE + 1]]
                                  = fs.disk[bs[(w - 1) \div BLOCK_SIZE + 1]]
    BY <1>2, <2>1, Zenon
  <2> QED
    BY <1>5, <2>2, Zenon DEF Contents
<1> QED
  BY <1>1, <1>6, <1>7, Zenon DEF Exists, read_file

\* What read_file returns has the length of the file.
LEMMA ReadLength ==
    ASSUME NEW fs \in Manager, NEW i \in Inums, InodesSane(fs)
    PROVE  /\ DOMAIN read_file(fs, i) = 1 .. get_inode(fs, i).size
           /\ Len(read_file(fs, i)) = get_inode(fs, i).size
           /\ get_inode(fs, i).size = 0 => read_file(fs, i) = <<>>
<1>1. get_inode(fs, i).size \in Nat
  BY Length, Zenon DEF InodesSane
<1>2. CASE ~ Exists(fs, i)
  <2>1. read_file(fs, i) = <<>> /\ get_inode(fs, i).size = 0
    BY <1>2, Zenon DEF Exists, read_file, InodesSane
  <2> QED
    BY <2>1
<1>3. CASE Exists(fs, i)
  <2> DEFINE s == get_inode(fs, i).size
             c == read_file(fs, i)
  <2>1. DOMAIN c = 1 .. s
    BY <1>3, Zenon DEF read_file, Contents
  <2>2. c = [w \in 1 .. s |-> c[w]]
    BY <1>3, Zenon DEF read_file, Contents
  <2> HIDE DEF c, s
  <2>3. s \in Nat
    BY <1>1 DEF s
  <2>4. Len(c) = s
    BY <2>2, <2>3
  <2>5. s = 0 => c = <<>>
    BY <2>2, <2>3
  <2> QED
    BY <2>1, <2>4, <2>5 DEF c, s
<1> QED
  BY <1>2, <1>3

-----------------------------------------------------------------------------
(* Free blocks.                                                            *)

\* A nonempty set of naturals has a first element.
LEMMA Least ==
    ASSUME NEW S \in SUBSET Nat, S # {}
    PROVE  \E x \in S : \A y \in S : x <= y
<1>1. PICK R : IsWellFoundedOn(R, Nat) /\ \A x, y \in Nat : y < x => <<y, x>> \in R
  <2>1. \A x, y \in Nat : y < x => <<y, x>> \in OpToRel(<, Nat)
    BY Zenon DEF OpToRel
  <2> QED
    BY <2>1, NatLessThanWellFounded, Zenon
<1>2. \E x \in S : \A y \in S : ~ (<<y, x>> \in R)
  BY <1>1, WFMin, Zenon
<1>3. PICK x \in S : \A y \in S : ~ (<<y, x>> \in R)
  BY <1>2, Zenon
<1>4. \A y \in S : ~ (y < x)
  BY <1>1, <1>3, Zenon
<1>5. \A y \in S : x <= y
  BY <1>4
<1> QED
  BY <1>5, Zenon

LEMMA FiniteBelow ==
    ASSUME NEW n \in Nat, NEW S \in SUBSET (0 .. n - 1)
    PROVE  IsFiniteSet(S) /\ Cardinality(S) \in Nat
<1>1. 0 \in Int /\ n - 1 \in Int
  OBVIOUS
<1>2. IsFiniteSet(0 .. n - 1)
  BY <1>1, FS_Interval, Zenon
<1> QED
  BY <1>2, FS_Subset, FS_CardinalityType, Zenon

\* A finite set of naturals has a j-th element.
LEMMA Nth ==
    ASSUME NEW n \in Nat, NEW S \in SUBSET (0 .. n - 1), NEW j \in 1 .. Cardinality(S)
    PROVE  \E b \in S : Cardinality({c \in S : c < b}) = j - 1
<1> DEFINE Below(m) == {c \in S : c < m}
           Enough   == {m \in Nat : Cardinality(Below(m)) >= j}
<1> HIDE DEF Below, Enough
<1>1. IsFiniteSet(S) /\ Cardinality(S) \in Nat
  BY FiniteBelow, Zenon
<1>2. \A c \in S : c \in Nat /\ c < n
  OBVIOUS
<1>3. j \in Nat /\ j # 0 /\ j <= Cardinality(S)
  BY <1>1
<1>4. \A m : Below(m) \in SUBSET S /\ \A c : c \in Below(m) <=> c \in S /\ c < m
  BY Zenon DEF Below
<1>5. \A m \in Nat : IsFiniteSet(Below(m)) /\ Cardinality(Below(m)) \in Nat
  BY <1>1, <1>4, FS_Subset, FS_CardinalityType, Zenon
<1>6. n \in Enough
  <2>1. Below(n) = S
    BY <1>2, <1>4, Zenon
  <2> QED
    BY <1>3, <1>1, <2>1 DEF Enough
<1>7. PICK m \in Enough : \A l \in Enough : m <= l
  <2>1. Enough \in SUBSET Nat /\ Enough # {}
    BY <1>6, Zenon DEF Enough
  <2> QED
    BY <2>1, Least, Zenon
<1>8. m \in Nat /\ Cardinality(Below(m)) >= j
  BY <1>7, Zenon DEF Enough
<1>9. m # 0
  <2>0. \A c \in Nat : ~ (c < 0)
    OBVIOUS
  <2>1. Below(0) = {}
    BY <1>2, <1>4, <2>0, Zenon
  <2>2. Cardinality(Below(0)) = 0
    BY <2>1, FS_EmptySet, Zenon
  <2> QED
    BY <1>3, <1>8, <2>2
<1> DEFINE b == m - 1
<1>10. b \in Nat /\ ~ (Cardinality(Below(b)) >= j)
  <2>1. b \in Nat /\ ~ (m <= b)
    BY <1>8, <1>9
  <2>2. b \notin Enough
    BY <1>7, <2>1, Zenon
  <2> QED
    BY <2>1, <2>2, Zenon DEF Enough
<1> HIDE DEF b
<1>11. \A c \in Nat : (c < m <=> c < b \/ c = b) /\ ~ (b < b)
  BY <1>8, <1>9 DEF b
<1>12. b \in S
  <2> SUFFICES ASSUME b \notin S PROVE FALSE
    OBVIOUS
  <2>1. Below(m) = Below(b)
    BY <1>2, <1>4, <1>11, Zenon
  <2> QED
    BY <1>10, <1>8, <2>1, Zenon
<1>13. Below(m) = Below(b) \cup {b} /\ b \notin Below(b)
  BY <1>2, <1>4, <1>10, <1>11, <1>12, Zenon
<1>14. Cardinality(Below(m)) = Cardinality(Below(b)) + 1
  BY <1>5, <1>10, <1>13, FS_AddElement, Zenon
<1>15. Cardinality(Below(b)) = j - 1
  <2>1. Cardinality(Below(b)) \in Nat
    BY <1>5, <1>10, Zenon
  <2> QED
    BY <1>10, <1>3, <1>8, <1>14, <2>1
<1> QED
  BY <1>12, <1>15, Zenon DEF Below

\* Calls of alloc_block return different blocks that were free.
LEMMA AllocIs ==
    ASSUME NEW fs \in Manager, NEW k \in Nat, k <= Cardinality(Free(fs))
    PROVE  LET got == alloc_blocks(fs, k)
           IN  /\ got \in [1 .. k -> Free(fs)]
               /\ \A j, l \in 1 .. k : got[j] = got[l] => j = l
<1> DEFINE F == Free(fs)
           Nr(j) == CHOOSE b \in F : Cardinality({c \in F : c < b}) = j - 1
<1>1. F \in SUBSET (0 .. BLOCK_NUM - 1) /\ BLOCK_NUM \in Nat
  BY Sizing, Zenon DEF Free, BlockNums
<1>6. alloc_blocks(fs, k) = [j \in 1 .. k |-> IF j > Cardinality(F) THEN 0 ELSE Nr(j)]
  BY Zenon DEF alloc_blocks
<1>0. k <= Cardinality(F)
  OBVIOUS
<1> HIDE DEF F
<1>2. IsFiniteSet(F) /\ Cardinality(F) \in Nat
  BY <1>1, FiniteBelow, Zenon
<1>3. \A j \in 1 .. k : j \in 1 .. Cardinality(F) /\ ~ (j > Cardinality(F))
  BY <1>0, <1>2
<1>4. \A j \in 1 .. k : \E b \in F : Cardinality({c \in F : c < b}) = j - 1
  BY <1>1, <1>3, Nth, Zenon
<1>5. \A j \in 1 .. k : Nr(j) \in F /\ Cardinality({c \in F : c < Nr(j)}) = j - 1
  BY <1>4, Zenon
<1> HIDE DEF Nr
<1>7. \A j, l \in 1 .. k : Nr(j) = Nr(l) => j - 1 = l - 1
  BY <1>5, Zenon
<1>8. \A j, l \in 1 .. k : j - 1 = l - 1 => j = l
  OBVIOUS
<1> DEFINE got == alloc_blocks(fs, k)
<1>9. got = [j \in 1 .. k |-> Nr(j)]
  BY <1>3, <1>6, Zenon
<1> HIDE DEF got
<1>10. got \in [1 .. k -> F]
  BY <1>5, <1>9, Zenon
<1>11. \A j, l \in 1 .. k : got[j] = got[l] => j = l
  BY <1>7, <1>8, <1>9, Zenon
<1> QED
  BY <1>10, <1>11, Zenon DEF F, got

LEMMA UnionLess ==
    ASSUME NEW S, NEW T, IsFiniteSet(S), IsFiniteSet(T)
    PROVE  IsFiniteSet(S \cup T) /\ Cardinality(S \cup T) <= Cardinality(S) + Cardinality(T)
<1>1. IsFiniteSet(S \cup T) /\ Cardinality(S \cup T) =
          Cardinality(S) + Cardinality(T) - Cardinality(S \cap T)
  BY FS_Union, Zenon
<1>2. Cardinality(S) \in Nat /\ Cardinality(T) \in Nat /\ Cardinality(S \cap T) \in Nat
  BY FS_CardinalityType, FS_Intersection, Zenon
<1> QED
  BY <1>1, <1>2

\* So many sets, none larger than m, have no more than so many times m elements.
Bounded(S, F, m) == IsFiniteSet(S) /\ \A x \in S : IsFiniteSet(F[x]) /\ Cardinality(F[x]) <= m
All(S, F)        == UNION {F[x] : x \in S}

LEMMA UnionBound ==
    ASSUME NEW m \in Nat
    PROVE  \A S, F : Bounded(S, F, m) =>
               IsFiniteSet(All(S, F)) /\ Cardinality(All(S, F)) <= Cardinality(S) * m
<1> DEFINE Good(S, F) == IsFiniteSet(All(S, F)) /\ Cardinality(All(S, F)) <= Cardinality(S) * m
           Bad == {k \in Nat : \E S, F : Bounded(S, F, m) /\ Cardinality(S) = k /\ ~ Good(S, F)}
<1> HIDE DEF Good
<1>1. SUFFICES ASSUME NEW S0, NEW F0, Bounded(S0, F0, m), ~ Good(S0, F0) PROVE FALSE
  BY Zenon DEF Good
<1>2. Cardinality(S0) \in Bad
  BY <1>1, FS_CardinalityType, Zenon DEF Bounded
<1>3. Bad \in SUBSET Nat /\ Bad # {}
  BY <1>2, Zenon
<1>4. PICK k \in Bad : \A l \in Bad : k <= l
  <2> HIDE DEF Bad
  <2> QED
    BY <1>3, Least, Zenon
<1>5. PICK S, F : k \in Nat /\ Bounded(S, F, m) /\ Cardinality(S) = k /\ ~ Good(S, F)
  BY <1>4, Zenon
<1>6. S # {}
  <2> SUFFICES ASSUME S = {} PROVE FALSE
    OBVIOUS
  <2>1. All(S, F) = {}
    BY Zenon DEF All
  <2>2. IsFiniteSet(All(S, F)) /\ Cardinality(All(S, F)) = 0 /\ Cardinality(S) = 0
    BY <2>1, FS_EmptySet, Zenon
  <2>3. 0 <= 0 * m
    OBVIOUS
  <2> QED
    BY <1>5, <2>2, <2>3, Zenon DEF Good
<1>7. PICK x : x \in S
  BY <1>6, Zenon
<1> DEFINE T == S \ {x}
<1>8. IsFiniteSet(T) /\ Cardinality(T) = k - 1 /\ Cardinality(T) \in Nat
  BY <1>5, <1>7, FS_RemoveElement, FS_CardinalityType, Zenon DEF Bounded
<1>9. Bounded(T, F, m)
  BY <1>5, <1>8, Zenon DEF Bounded
<1>10. Good(T, F)
  <2>1. ~ (k <= k - 1)
    BY <1>5
  <2>2. k - 1 \notin Bad
    BY <1>4, <2>1, Zenon
  <2> QED
    BY <1>8, <1>9, <2>2, Zenon
<1>11. All(S, F) = All(T, F) \cup F[x]
  BY <1>7, Zenon DEF All
<1>12. IsFiniteSet(F[x]) /\ Cardinality(F[x]) <= m /\ Cardinality(F[x]) \in Nat
  BY <1>5, <1>7, FS_CardinalityType, Zenon DEF Bounded
<1>13. IsFiniteSet(All(T, F)) /\ Cardinality(All(T, F)) <= (k - 1) * m
       /\ Cardinality(All(T, F)) \in Nat
  BY <1>8, <1>10, FS_CardinalityType, Zenon DEF Good
<1>14. IsFiniteSet(All(S, F)) /\ Cardinality(All(S, F)) <= Cardinality(All(T, F)) + Cardinality(F[x])
       /\ Cardinality(All(S, F)) \in Nat
  BY <1>11, <1>12, <1>13, UnionLess, FS_CardinalityType, Zenon
<1>15. (k - 1) * m + m = k * m
  BY <1>5
<1>16. (k - 1) * m \in Int /\ k * m \in Int
  BY <1>5
<1>17. Cardinality(All(S, F)) <= k * m
  BY <1>12, <1>13, <1>14, <1>15, <1>16
<1> QED
  BY <1>5, <1>14, <1>17, Zenon DEF Good

\* After the blocks of one file are freed, there is room for any other.
LEMMA Room ==
    ASSUME NEW fs, Sane(fs), NEW i \in LiveIn(fs), NEW s \in FileSizes
    PROVE  AllBlocks(BLOCKS(s)) <= Cardinality(BlockNums \ (fs.used \ Owned(fs, i)))
<1>1. PICK m \in BlockNums : /\ \A n \in Sizes : AllBlocks(BLOCKS(n)) <= m
                             /\ Cardinality(Reserved) + MaxFiles * m <= BLOCK_NUM
  BY RoomAssumption, Zenon
<1>2. m \in Nat /\ BLOCK_NUM \in Nat /\ MaxFiles \in Nat \ {0}
  BY RoomAssumption, Sizing DEF BlockNums
<1>3. \A n \in FileSizes : AllBlocks(BLOCKS(n)) <= m
  <2>1. 0 \in FileSizes
    BY Zenon DEF FileSizes
  <2>2. AllBlocks(BLOCKS(0)) <= m
    BY <1>2, <2>1, Length
  <2> QED
    BY <1>1, <2>2, Zenon DEF FileSizes
<1> DEFINE L == LiveIn(fs) \ {i}
           F == [j \in Inums |-> Owned(fs, j)]
           U == fs.used \ Owned(fs, i)
<1>4. fs \in Manager /\ InodesSane(fs) /\ BlocksSane(fs) /\ Cardinality(LiveIn(fs)) <= MaxFiles
  BY Zenon DEF Sane
<1>5. \A j \in Inums : Owned(fs, j) \subseteq BlockNums /\ IsFiniteSet(Owned(fs, j))
                        /\ Cardinality(Owned(fs, j)) <= m
  <2> TAKE j \in Inums
  <2>1. Owned(fs, j) \in SUBSET BlockNums
    BY <1>4, Zenon DEF BlocksSane, Unmarked
  <2>2. Cardinality(Owned(fs, j)) = AllBlocks(BLOCKS(get_inode(fs, j).size))
    BY <1>4, Zenon DEF BlocksSane
  <2>3. get_inode(fs, j).size \in FileSizes
    BY <1>4, Zenon DEF InodesSane
  <2> QED
    BY <1>3, <2>1, <2>2, <2>3, Layout, FS_Subset, Zenon
<1>6. IsFiniteSet(LiveIn(fs)) /\ Cardinality(LiveIn(fs)) \in Nat
  <2>1. IsFiniteSet(Inums)
    BY Sizing, FS_Interval DEF Inums
  <2>2. LiveIn(fs) \in SUBSET Inums
    BY Zenon DEF LiveIn
  <2> QED
    BY <2>1, <2>2, FS_Subset, FS_CardinalityType, Zenon
<1>7. IsFiniteSet(L) /\ Cardinality(L) = Cardinality(LiveIn(fs)) - 1 /\ Cardinality(L) \in Nat
  BY <1>6, FS_RemoveElement, FS_CardinalityType, Zenon
<1>8. Bounded(L, F, m)
  BY <1>5, <1>7, Zenon DEF Bounded, LiveIn
<1>9. U \subseteq Reserved \cup All(L, F)
  <2>1. \A j \in Inums : ~ Exists(fs, j) => Owned(fs, j) = {}
    <3>1. \A j \in Inums : get_inode(fs, j) \in Inode /\ get_inode(fs, j).size \in FileSizes
      BY <1>4, GetInode, InumRange, Zenon DEF InodesSane
    <3>2. \A j \in Inums : ~ Exists(fs, j) => BLOCKS(get_inode(fs, j).size) = 0
      BY <1>4, <3>1, Length, Zenon DEF InodesSane, Exists
    <3> QED
      BY <1>4, <3>1, <3>2, FileOf, Zenon DEF Owned
  <2>2. fs.used = Reserved \cup UNION {Owned(fs, j) : j \in Inums}
    BY <1>4, Zenon DEF BlocksSane
  <2> SUFFICES ASSUME NEW b \in U, b \notin Reserved PROVE b \in All(L, F)
    BY Zenon
  <2>3. PICK j \in Inums : b \in Owned(fs, j)
    BY <2>2, Zenon
  <2>4. j \in L
    BY <2>1, <2>3, Zenon DEF LiveIn
  <2> QED
    BY <2>3, <2>4, Zenon DEF All
<1> HIDE DEF L, F
<1>10. IsFiniteSet(All(L, F)) /\ Cardinality(All(L, F)) <= Cardinality(L) * m
       /\ Cardinality(All(L, F)) \in Nat
  BY <1>2, <1>8, UnionBound, FS_CardinalityType, Zenon
<1>11. IsFiniteSet(Reserved) /\ Cardinality(Reserved) \in Nat
  BY Layout, FS_Subset, FS_CardinalityType, Zenon
<1>12. IsFiniteSet(Reserved \cup All(L, F))
       /\ Cardinality(Reserved \cup All(L, F)) <= Cardinality(Reserved) + Cardinality(All(L, F))
       /\ Cardinality(Reserved \cup All(L, F)) \in Nat
  BY <1>10, <1>11, UnionLess, FS_CardinalityType, Zenon
<1> HIDE DEF U
<1>13. Cardinality(U) <= Cardinality(Reserved \cup All(L, F)) /\ Cardinality(U) \in Nat
       /\ IsFiniteSet(U)
  BY <1>9, <1>12, FS_Subset, FS_CardinalityType, Zenon
<1>14. U \subseteq BlockNums
  BY <1>4, Zenon DEF U, Manager
<1>15. Cardinality(BlockNums \ U) = BLOCK_NUM - Cardinality(U)
  <2>1. BlockNums \cap U = U
    BY <1>14, Zenon
  <2> QED
    BY <2>1, Layout, FS_Difference, Zenon
<1>16. Cardinality(L) * m <= (MaxFiles - 1) * m
  BY <1>2, <1>4, <1>6, <1>7
<1>17. (MaxFiles - 1) * m + m = MaxFiles * m /\ (MaxFiles - 1) * m \in Int
       /\ Cardinality(L) * m \in Int /\ MaxFiles * m \in Int
  BY <1>2, <1>7
<1>18. m <= BLOCK_NUM - Cardinality(U)
  BY <1>1, <1>2, <1>10, <1>11, <1>12, <1>13, <1>16, <1>17
<1>19. AllBlocks(BLOCKS(s)) <= BLOCK_NUM - Cardinality(U)
  BY <1>2, <1>3, <1>13, <1>18, Length
<1> QED
  BY <1>15, <1>19, Zenon DEF U

-----------------------------------------------------------------------------
(* A step that changes one file.                                           *)

\* From fs to gs nothing changes but file i, which gets blocks that were no file's.
Leaves(fs, gs, i) ==
    /\ \A j \in (0 .. INODE_NUM - 2) \ {i} : gs.disk[IBLOCK(j)] = fs.disk[IBLOCK(j)]
    /\ \A j \in Inums \ {i} : \A b \in Owned(fs, j) : gs.disk[b] = fs.disk[b]
Gets(fs, gs, i) ==
    /\ get_inode(gs, i).size \in FileSizes
    /\ get_inode(gs, i).type = 0 => get_inode(gs, i).size = 0
    /\ Owned(gs, i) \subseteq Unmarked
    /\ Cardinality(Owned(gs, i)) = AllBlocks(BLOCKS(get_inode(gs, i).size))
    /\ \A j \in Inums \ {i} : Owned(gs, i) \cap Owned(fs, j) = {}
    /\ gs.used = (fs.used \ Owned(fs, i)) \cup Owned(gs, i)

LEMMA OthersSame ==
    ASSUME NEW fs, NEW gs \in Manager, Sane(fs), NEW i \in Inums, Leaves(fs, gs, i)
    PROVE  /\ \A j \in Inums \ {i} :
                 /\ get_inode(gs, j) = get_inode(fs, j)
                 /\ Exists(gs, j) <=> Exists(fs, j)
                 /\ Owned(gs, j) = Owned(fs, j)
                 /\ read_file(gs, j) = read_file(fs, j)
           /\ get_inode(gs, 0) = get_inode(fs, 0)
<1>1. fs \in Manager /\ InodesSane(fs)
  BY Zenon DEF Sane
<1>2. \A j \in Inums : j \in 0 .. INODE_NUM - 2 /\ j \in 0 .. INODE_NUM - 1
  BY InumRange, Zenon
<1>3. ASSUME NEW j \in Inums \ {i}
      PROVE  /\ get_inode(gs, j) = get_inode(fs, j)
             /\ Exists(gs, j) <=> Exists(fs, j)
             /\ Owned(gs, j) = Owned(fs, j)
             /\ read_file(gs, j) = read_file(fs, j)
  <2>1. get_inode(fs, j).size \in FileSizes
    BY <1>1, Zenon DEF InodesSane
  <2>2. gs.disk[IBLOCK(j)] = fs.disk[IBLOCK(j)] /\ \A b \in Owned(fs, j) : gs.disk[b] = fs.disk[b]
    BY <1>2, Zenon DEF Leaves
  <2> QED
    BY <1>1, <1>2, <2>1, <2>2, Untouched, Zenon
<1>4. get_inode(gs, 0) = get_inode(fs, 0)
  <2>1. 0 \in (0 .. INODE_NUM - 2) \ {i} /\ 0 \in 0 .. INODE_NUM - 1
    BY InumRange, Zenon
  <2>2. gs.disk[IBLOCK(0)] = fs.disk[IBLOCK(0)]
    BY <2>1, Zenon DEF Leaves
  <2> QED
    BY <1>1, <2>1, <2>2, GetInode, Zenon
<1> QED
  BY <1>3, <1>4, Zenon

LEMMA OneFile ==
    ASSUME NEW fs, NEW gs \in Manager, Sane(fs), NEW i \in Inums, Leaves(fs, gs, i),
           Gets(fs, gs, i), Cardinality(LiveIn(gs)) <= MaxFiles
    PROVE  Sane(gs)
<1>1. fs \in Manager /\ InodesSane(fs) /\ BlocksSane(fs)
  BY Zenon DEF Sane
<1>2. /\ \A j \in Inums \ {i} : get_inode(gs, j) = get_inode(fs, j) /\ Owned(gs, j) = Owned(fs, j)
      /\ get_inode(gs, 0) = get_inode(fs, 0)
  BY OthersSame, Zenon
<1>3. InodesSane(gs)
  BY <1>1, <1>2, Zenon DEF InodesSane, Gets
<1>4. \A j \in Inums : /\ Owned(gs, j) \subseteq Unmarked
                       /\ Cardinality(Owned(gs, j)) = AllBlocks(BLOCKS(get_inode(gs, j).size))
  BY <1>1, <1>2, Zenon DEF BlocksSane, Gets
<1>5. \A j, l \in Inums : j # l => Owned(gs, j) \cap Owned(gs, l) = {}
  <2>1. \A j \in Inums \ {i} : Owned(gs, i) \cap Owned(gs, j) = {}
    BY <1>2, Zenon DEF Gets
  <2>2. \A j, l \in Inums \ {i} : j # l => Owned(gs, j) \cap Owned(gs, l) = {}
    BY <1>1, <1>2, Zenon DEF BlocksSane
  <2> TAKE j, l \in Inums
  <2> QED
    BY <2>1, <2>2, Zenon
<1>6. gs.used = Reserved \cup UNION {Owned(gs, j) : j \in Inums}
  <2>1. gs.used = (fs.used \ Owned(fs, i)) \cup Owned(gs, i)
    BY Zenon DEF Gets
  <2>2. fs.used = Reserved \cup UNION {Owned(fs, j) : j \in Inums}
    BY <1>1, Zenon DEF BlocksSane
  <2>3. Owned(fs, i) \cap Reserved = {}
    BY <1>1, Zenon DEF BlocksSane, Unmarked
  <2>4. \A j \in Inums \ {i} : Owned(fs, i) \cap Owned(fs, j) = {}
    BY <1>1, Zenon DEF BlocksSane
  <2>5. ASSUME NEW b \in gs.used PROVE b \in Reserved \cup UNION {Owned(gs, j) : j \in Inums}
    BY <1>2, <2>1, <2>2, <2>5, Zenon
  <2>6. ASSUME NEW b \in Reserved \cup UNION {Owned(gs, j) : j \in Inums} PROVE b \in gs.used
    <3>1. CASE b \in Reserved
      BY <2>1, <2>2, <2>3, <3>1, Zenon
    <3>2. CASE b \in Owned(gs, i)
      BY <2>1, <3>2, Zenon
    <3>3. CASE \E j \in Inums \ {i} : b \in Owned(gs, j)
      <4>1. PICK j \in Inums \ {i} : b \in Owned(fs, j)
        BY <1>2, <3>3, Zenon
      <4> QED
        BY <2>1, <2>2, <2>4, <4>1, Zenon
    <3> QED
      BY <2>6, <3>1, <3>2, <3>3, Zenon
  <2> QED
    BY <2>5, <2>6, Zenon
<1> QED
  BY <1>3, <1>4, <1>5, <1>6, Zenon DEF Sane, BlocksSane

\* The files there are, when file i was there before, after or both.
LEMMA LiveAfter ==
    ASSUME NEW fs, NEW gs \in Manager, Sane(fs), NEW i \in Inums, Leaves(fs, gs, i)
    PROVE  /\ Exists(fs, i) => LiveIn(gs) \subseteq LiveIn(fs)
           /\ LiveIn(gs) \subseteq LiveIn(fs) \cup {i}
<1>1. \A j \in Inums \ {i} : Exists(gs, j) <=> Exists(fs, j)
  BY OthersSame, Zenon
<1> QED
  BY <1>1, Zenon DEF LiveIn

LEMMA LiveFinite ==
    ASSUME NEW fs
    PROVE  IsFiniteSet(LiveIn(fs)) /\ Cardinality(LiveIn(fs)) \in Nat
<1>1. IsFiniteSet(Inums)
  BY Sizing, FS_Interval DEF Inums
<1>2. LiveIn(fs) \in SUBSET Inums
  BY Zenon DEF LiveIn
<1> QED
  BY <1>1, <1>2, FS_Subset, FS_CardinalityType, Zenon

-----------------------------------------------------------------------------
(* The operations.                                                         *)

LEMMA NullIs == NULL \in Inode /\ NULL.type = 0 /\ NULL.size = 0 /\ ZeroBlock \in Block
<1>1. 1 \in 1 .. BLOCK_SIZE /\ 2 \in 1 .. BLOCK_SIZE
  BY Sizing DEF BLOCK_SIZE
<1>2. ZeroBlock \in Block
  BY Zenon DEF ZeroBlock, Block, BLOCK_SIZE
<1>3. NULL.type = 0 /\ NULL.size = 0
  BY <1>1, Zenon DEF NULL, InodeAt, ZeroBlock
<1> QED
  BY <1>2, <1>3, InodeTyped, Zenon DEF NULL

\* An empty file has no blocks.
LEMMA EmptyFile ==
    ASSUME NEW fs \in Manager, NEW i \in Inums, get_inode(fs, i).size = 0
    PROVE  /\ Owned(fs, i) = {}
           /\ Cardinality(Owned(fs, i)) = AllBlocks(BLOCKS(get_inode(fs, i).size))
<1>1. get_inode(fs, i) \in Inode /\ get_inode(fs, i).size \in FileSizes
  BY InumRange, GetInode, Zenon DEF FileSizes
<1>2. BLOCKS(get_inode(fs, i).size) = 0 /\ AllBlocks(BLOCKS(get_inode(fs, i).size)) = 0
  BY <1>1, Length, Zenon
<1> QED
  BY <1>1, <1>2, FileOf, FS_EmptySet, Zenon DEF Owned

\* An inode is written after blocks that are of no other file.
LEMMA PutLeaves ==
    ASSUME NEW fs, Sane(fs), NEW gs \in Manager, NEW i \in Inums, NEW r \in Inode,
           \A b \in Reserved : gs.disk[b] = fs.disk[b],
           \A j \in Inums \ {i} : \A b \in Owned(fs, j) : gs.disk[b] = fs.disk[b]
    PROVE  Leaves(fs, put_inode(gs, i, r), i)
<1>1. i \in 0 .. INODE_NUM - 2 /\ i \in 0 .. INODE_NUM - 1
  BY InumRange, Zenon
<1> DEFINE hs == put_inode(gs, i, r)
<1>2. \A b \in BlockNums : b # IBLOCK(i) => hs.disk[b] = gs.disk[b]
  BY <1>1, PutInode, Zenon
<1> HIDE DEF hs
<1>3. ASSUME NEW j \in (0 .. INODE_NUM - 2) \ {i} PROVE hs.disk[IBLOCK(j)] = fs.disk[IBLOCK(j)]
  <2>1. IBLOCK(j) \in Reserved /\ IBLOCK(j) \in BlockNums /\ IBLOCK(j) # IBLOCK(i)
    BY <1>1, Layout, InumRange, Zenon
  <2> QED
    BY <1>2, <2>1, Zenon
<1>4. ASSUME NEW j \in Inums \ {i}, NEW b \in Owned(fs, j) PROVE hs.disk[b] = fs.disk[b]
  <2>1. b \in BlockNums /\ b \notin Reserved
    BY Zenon DEF Sane, BlocksSane, Unmarked
  <2>2. b # IBLOCK(i)
    BY <1>1, <2>1, Layout, Zenon
  <2> QED
    BY <1>2, <2>1, <2>2, Zenon
<1> QED
  BY <1>3, <1>4, Zenon DEF Leaves, hs

LEMMA FreeIs ==
    ASSUME NEW fs \in Manager, NEW B \in SUBSET Unmarked
    PROVE  LET gs == free_blocks(fs, B)
           IN  gs \in Manager /\ gs.used = fs.used \ B /\ gs.disk = fs.disk
<1>1. {b \in B : b > BBLOCK(BLOCK_NUM)} = B
  BY Layout, Zenon
<1>2. free_blocks(fs, B) = [fs EXCEPT !.used = fs.used \ B]
  BY <1>1, Zenon DEF free_blocks
<1> DEFINE gs == [fs EXCEPT !.used = fs.used \ B]
<1>3. gs.used = fs.used \ B /\ gs.disk = fs.disk /\ gs \in Manager
  BY Zenon DEF Manager
<1> QED
  BY <1>2, <1>3, Zenon

\* remove_file frees the blocks of the file and clears its inode.
LEMMA RemoveIs ==
    ASSUME NEW fs, Sane(fs), NEW i \in Inums, Exists(fs, i)
    PROVE  LET gs == remove_file(fs, i)
           IN  Sane(gs) /\ Leaves(fs, gs, i) /\ get_inode(gs, i) = NULL
<1> DEFINE f1 == free_blocks(fs, Owned(fs, i))
           gs == put_inode(f1, i, NULL)
<1>1. remove_file(fs, i) = gs
  BY Zenon DEF remove_file, Owned
<1>2. fs \in Manager /\ Owned(fs, i) \in SUBSET Unmarked /\ i \in 0 .. INODE_NUM - 1
  BY InumRange, Zenon DEF Sane, BlocksSane
<1>3. f1 \in Manager /\ f1.used = fs.used \ Owned(fs, i) /\ f1.disk = fs.disk
  BY <1>2, FreeIs, Zenon
<1> HIDE DEF f1
<1>4. gs \in Manager /\ gs.used = f1.used /\ get_inode(gs, i) = NULL
  BY <1>2, <1>3, NullIs, PutInode, Zenon
<1>5. Leaves(fs, gs, i)
  BY <1>3, NullIs, PutLeaves, Zenon
<1> HIDE DEF gs
<1>6. get_inode(gs, i).size = 0
  BY <1>4, NullIs, Zenon
<1>7. Owned(gs, i) = {} /\ Cardinality(Owned(gs, i)) = AllBlocks(BLOCKS(get_inode(gs, i).size))
  BY <1>4, <1>6, EmptyFile, Zenon
<1>8. Gets(fs, gs, i)
  BY <1>3, <1>4, <1>6, <1>7, Zenon DEF Gets, FileSizes
<1>9. Cardinality(LiveIn(gs)) <= MaxFiles
  <2>1. LiveIn(gs) \in SUBSET LiveIn(fs)
    BY <1>4, <1>5, LiveAfter, Zenon
  <2>2. Cardinality(LiveIn(gs)) <= Cardinality(LiveIn(fs)) /\ Cardinality(LiveIn(gs)) \in Nat
        /\ Cardinality(LiveIn(fs)) \in Nat /\ Cardinality(LiveIn(fs)) <= MaxFiles
    BY <2>1, LiveFinite, FS_Subset, Zenon DEF Sane
  <2> QED
    BY <2>2, RoomAssumption, Sizing
<1> QED
  BY <1>1, <1>4, <1>5, <1>8, <1>9, OneFile, Zenon

\* While there are fewer files than MaxFiles, alloc_inode finds a free inode.
LEMMA NewInumIs ==
    ASSUME NEW fs \in Manager, Cardinality(LiveIn(fs)) < MaxFiles
    PROVE  FreeInodes(fs) # {} /\ NewInum(fs) \in Inums /\ ~ Exists(fs, NewInum(fs))
<1> DEFINE F == FreeInodes(fs)
<1>1. Inums = 1 .. INODE_NUM - 2 /\ INODE_NUM \in Nat /\ INODE_NUM > 2
      /\ MaxFiles \in 1 .. INODE_NUM - 2
  BY Sizing, RoomAssumption DEF Inums
<1>2. Cardinality(Inums) = INODE_NUM - 2
  BY <1>1, FS_Interval
<1>3. LiveIn(fs) # Inums
  BY <1>1, <1>2, LiveFinite
<1>4. PICK i \in Inums : ~ Exists(fs, i)
  BY <1>3, Zenon DEF LiveIn
<1>5. i \in F /\ F \in SUBSET Nat
  BY <1>1, <1>4 DEF FreeInodes
<1>6. PICK x \in F : \A y \in F : x <= y
  <2> HIDE DEF F
  <2> QED
    BY <1>5, Least, Zenon
<1>7. NewInum(fs) \in F /\ \A y \in F : NewInum(fs) <= y
  <2>1. F # {}
    BY <1>5, Zenon
  <2>2. NewInum(fs) = CHOOSE z \in F : \A y \in F : z <= y
    BY <2>1, Zenon DEF NewInum
  <2> HIDE DEF F
  <2> QED
    BY <1>6, <2>2, Zenon
<1>8. NewInum(fs) <= i /\ NewInum(fs) \in 1 .. INODE_NUM - 1 /\ ~ Exists(fs, NewInum(fs))
  BY <1>5, <1>7, Zenon DEF FreeInodes
<1>9. NewInum(fs) \in Inums
  BY <1>1, <1>8
<1> QED
  BY <1>5, <1>8, <1>9, Zenon

\* alloc_inode makes an empty file.
LEMMA AllocInodeIs ==
    ASSUME NEW fs, Sane(fs), Cardinality(LiveIn(fs)) < MaxFiles, NEW type \in Nat \ {0}
    PROVE  LET gs == alloc_inode(fs, type)
               i  == NewInum(fs)
           IN  /\ i \in Inums /\ ~ Exists(fs, i)
               /\ Sane(gs) /\ Leaves(fs, gs, i)
               /\ get_inode(gs, i).type = type /\ get_inode(gs, i).size = 0
<1> DEFINE i  == NewInum(fs)
           b  == fs.disk[IBLOCK(i)]
           c  == [b EXCEPT ![1] = type]
           gs == [fs EXCEPT !.disk = [fs.disk EXCEPT ![IBLOCK(i)] = c]]
<1>1. fs \in Manager /\ InodesSane(fs)
  BY Zenon DEF Sane
<1>2. i \in Inums /\ ~ Exists(fs, i) /\ FreeInodes(fs) # {}
  BY <1>1, NewInumIs, Zenon
<1>3. alloc_inode(fs, type) = gs
  BY <1>2, Zenon DEF alloc_inode
<1> HIDE DEF i
<1>4. i \in 0 .. INODE_NUM - 1 /\ i \in 0 .. INODE_NUM - 2
  BY <1>2, InumRange, Zenon
<1>5. IBLOCK(i) \in BlockNums /\ IBLOCK(i) \in Reserved /\ b \in Block
      /\ get_inode(fs, i) = InodeAt(b)
  BY <1>1, <1>4, Layout, GetInode, Zenon
<1> HIDE DEF b
<1>6. get_inode(fs, i).size = 0
  BY <1>1, <1>2, Zenon DEF InodesSane, Exists
<1>7. b[2] = 0
  BY <1>5, <1>6, Fields, Zenon
<1>8. c \in Block /\ c[1] = type /\ c[2] = 0
  <2>1. 1 \in 1 .. NINDIRECT /\ 2 \in 1 .. NINDIRECT /\ 1 # 2 /\ type \in Nat
    BY Sizing
  <2> QED
    BY <1>5, <1>7, <2>1, Zenon DEF Block
<1> HIDE DEF c
<1>9. gs.used = fs.used /\ gs.disk = [fs.disk EXCEPT ![IBLOCK(i)] = c] /\ gs \in Manager
  BY <1>1, <1>8, Zenon DEF Manager, Disk
<1> HIDE DEF gs
<1>10. gs.disk[IBLOCK(i)] = c /\ \A x \in BlockNums : x # IBLOCK(i) => gs.disk[x] = fs.disk[x]
  BY <1>1, <1>5, <1>9, Zenon DEF Manager, Disk
<1>11. get_inode(gs, i).type = type /\ get_inode(gs, i).size = 0
  <2>1. get_inode(gs, i) = InodeAt(c)
    BY <1>4, <1>9, <1>10, GetInode, Zenon
  <2> QED
    BY <1>8, <2>1, Fields, Zenon
<1>12. Leaves(fs, gs, i)
  <2>1. ASSUME NEW j \in (0 .. INODE_NUM - 2) \ {i}
        PROVE  gs.disk[IBLOCK(j)] = fs.disk[IBLOCK(j)]
    BY <1>4, <1>10, Layout, InumRange, Zenon
  <2>2. ASSUME NEW j \in Inums \ {i}, NEW x \in Owned(fs, j)
        PROVE  gs.disk[x] = fs.disk[x]
    BY <1>5, <1>10, Zenon DEF Sane, BlocksSane, Unmarked
  <2> QED
    BY <2>1, <2>2, Zenon DEF Leaves
<1>13. Owned(gs, i) = {} /\ Cardinality(Owned(gs, i)) = AllBlocks(BLOCKS(get_inode(gs, i).size))
  BY <1>2, <1>9, <1>11, EmptyFile, Zenon
<1>14. Owned(fs, i) = {}
  BY <1>1, <1>2, <1>6, EmptyFile, Zenon
<1>15. Gets(fs, gs, i)
  BY <1>9, <1>11, <1>13, <1>14, Zenon DEF Gets, FileSizes
<1>16. Cardinality(LiveIn(gs)) <= MaxFiles
  <2>1. LiveIn(gs) \in SUBSET (LiveIn(fs) \cup {i})
    BY <1>2, <1>9, <1>12, LiveAfter, Zenon
  <2>2. IsFiniteSet(LiveIn(fs) \cup {i})
        /\ Cardinality(LiveIn(fs) \cup {i}) = Cardinality(LiveIn(fs)) + 1
    <3>1. i \notin LiveIn(fs)
      BY <1>2, Zenon DEF LiveIn
    <3> QED
      BY <3>1, LiveFinite, FS_AddElement, Zenon
  <2>3. Cardinality(LiveIn(gs)) <= Cardinality(LiveIn(fs) \cup {i})
    BY <2>1, <2>2, FS_Subset, Zenon
  <2>4. Cardinality(LiveIn(gs)) \in Nat /\ Cardinality(LiveIn(fs)) \in Nat
    BY LiveFinite, Zenon
  <2> QED
    BY <2>2, <2>3, <2>4, RoomAssumption, Sizing
<1>17. Sane(gs)
  BY <1>2, <1>9, <1>12, <1>15, <1>16, OneFile, Zenon
<1> QED
  BY <1>2, <1>3, <1>11, <1>12, <1>17, Zenon DEF i

\* The blank disk.
LEMMA BlankIs ==
    LET fs == [used |-> Reserved, disk |-> [b \in BlockNums |-> ZeroBlock]]
    IN  /\ Sane(fs)
        /\ LiveIn(fs) = {}
        /\ \A i \in Inums : ~ Exists(fs, i) /\ get_inode(fs, i).size = 0
<1> DEFINE fs == [used |-> Reserved, disk |-> [b \in BlockNums |-> ZeroBlock]]
<1>1. fs \in Manager /\ fs.used = Reserved /\ \A b \in BlockNums : fs.disk[b] = ZeroBlock
  BY NullIs, Layout, Zenon DEF Manager, Disk
<1> HIDE DEF fs
<1>2. \A i \in 0 .. INODE_NUM - 1 : get_inode(fs, i) = NULL
  BY <1>1, Layout, GetInode, Zenon DEF NULL
<1>3. \A i \in 0 .. INODE_NUM - 1 : get_inode(fs, i).type = 0 /\ get_inode(fs, i).size = 0
  BY <1>2, NullIs, Zenon
<1>4. 0 \in 0 .. INODE_NUM - 1 /\ \A i \in Inums : i \in 0 .. INODE_NUM - 1
  BY InumRange, Zenon
<1>5. InodesSane(fs)
  BY <1>3, <1>4, Zenon DEF InodesSane, FileSizes
<1>6. \A i \in Inums : Owned(fs, i) = {}
          /\ Cardinality(Owned(fs, i)) = AllBlocks(BLOCKS(get_inode(fs, i).size))
  BY <1>1, <1>3, <1>4, EmptyFile, Zenon
<1>7. BlocksSane(fs)
  BY <1>1, <1>6, Zenon DEF BlocksSane
<1>8. \A i \in Inums : ~ Exists(fs, i) /\ get_inode(fs, i).size = 0
  BY <1>3, <1>4, Zenon DEF Exists
<1>9. LiveIn(fs) = {}
  BY <1>8, Zenon DEF LiveIn
<1>10. Cardinality(LiveIn(fs)) <= MaxFiles
  <2>1. Cardinality(LiveIn(fs)) = 0
    BY <1>9, FS_EmptySet, Zenon
  <2> QED
    BY <2>1, RoomAssumption, Sizing
<1> QED
  BY <1>1, <1>5, <1>7, <1>8, <1>9, <1>10, Zenon DEF Sane, fs

-----------------------------------------------------------------------------
(* write_file.                                                             *)

LEMMA ChunkIs ==
    ASSUME NEW data \in Seq(Nat), NEW j \in Nat \ {0}, NEW junk \in Nat
    PROVE  Chunk(data, j, junk) \in Block
<1> DEFINE At(w) == (j - 1) * NINDIRECT + w
<1>1. \A w \in 1 .. NINDIRECT : At(w) \in Nat \ {0}
  <2>1. (j - 1) * NINDIRECT \in Nat
    BY Sizing
  <2> QED
    BY <2>1
<1> HIDE DEF At
<1>2. \A w \in 1 .. NINDIRECT : At(w) <= Len(data) => data[At(w)] \in Nat
  BY <1>1
<1> QED
  BY <1>2, Zenon DEF Chunk, Block, BLOCK_SIZE, At

Distinct(f, k) == \A j, l \in 1 .. k : f[j] = f[l] => j = l

\* Each of the blocks gets its chunk, and the others keep what they hold.
Filled(disk, d, blocks, k, data, first, junk) ==
    /\ d \in Disk
    /\ \A j \in 1 .. k : d[blocks[j]] = Chunk(data, first + j, junk)
    /\ \A b \in BlockNums : (\A j \in 1 .. k : blocks[j] # b) => d[b] = disk[b]

LEMMA WriteBlocksIs ==
    ASSUME NEW disk \in Disk, NEW k \in Nat, NEW blocks \in [1 .. k -> BlockNums],
           Distinct(blocks, k), NEW data \in Seq(Nat), NEW first \in Nat, NEW junk \in Nat
    PROVE  Filled(disk, write_blocks(disk, blocks, data, first, junk), blocks, k,
                  data, first, junk)
<1> DEFINE At(b) == {j \in 1 .. k : blocks[j] = b}
           V(b)  == IF At(b) = {} THEN disk[b] ELSE Chunk(data, first + Max(At(b)), junk)
           d     == write_blocks(disk, blocks, data, first, junk)
<1>1. DOMAIN blocks = 1 .. k
  BY Zenon
<1>2. d = [b \in BlockNums |-> V(b)]
  BY <1>1, Zenon DEF write_blocks
<1>3. \A j \in 1 .. k : blocks[j] \in BlockNums /\ At(blocks[j]) = {j}
  BY Zenon DEF Distinct
<1>4. \A j \in 1 .. k : Max({j}) = j
  <2>1. \A j \in 1 .. k : j >= j
    OBVIOUS
  <2> QED
    BY <2>1, Zenon DEF Max
<1>5. \A j \in 1 .. k : V(blocks[j]) = Chunk(data, first + j, junk)
  BY <1>3, <1>4, Zenon
<1>6. \A b \in BlockNums : (\A j \in 1 .. k : blocks[j] # b) => V(b) = disk[b]
  BY Zenon
<1>7. \A j \in 1 .. k : Chunk(data, first + j, junk) \in Block
  <2>1. \A j \in 1 .. k : first + j \in Nat \ {0}
    OBVIOUS
  <2> QED
    BY <2>1, ChunkIs, Zenon
<1> HIDE DEF V, d
<1>8. \A b \in BlockNums : V(b) \in Block
  <2>1. \A b \in BlockNums : disk[b] \in Block
    BY Zenon DEF Disk
  <2> TAKE b \in BlockNums
  <2>2. CASE \A j \in 1 .. k : blocks[j] # b
    BY <1>6, <2>1, <2>2, Zenon
  <2>3. CASE \E j \in 1 .. k : blocks[j] = b
    BY <1>5, <1>7, <2>3, Zenon
  <2> QED
    BY <2>2, <2>3, Zenon
<1>9. d \in Disk
  BY <1>2, <1>8, Zenon DEF Disk
<1>10. \A j \in 1 .. k : d[blocks[j]] = Chunk(data, first + j, junk)
  BY <1>2, <1>3, <1>5, Zenon
<1>11. \A b \in BlockNums : (\A j \in 1 .. k : blocks[j] # b) => d[b] = disk[b]
  BY <1>2, <1>6, Zenon
<1> QED
  BY <1>9, <1>10, <1>11, Zenon DEF Filled, d

\* The number of the j-th data block among those that write_file got.
NumberOf(got, j) == IF j <= NDIRECT THEN got[j] ELSE got[j + 1]

\* write_file has got the blocks that n data blocks need.
Got(got, n) ==
    /\ n \in 0 .. NDIRECT + NINDIRECT
    /\ got \in [1 .. AllBlocks(n) -> BlockNums]
    /\ Distinct(got, AllBlocks(n))

LEMMA GotIs ==
    ASSUME NEW got, NEW n, Got(got, n)
    PROVE  /\ n \in Nat /\ AllBlocks(n) \in Nat /\ Len(got) = AllBlocks(n)
           /\ n > NDIRECT => AllBlocks(n) = n + 1 /\ NDIRECT + 1 \in 1 .. AllBlocks(n)
           /\ ~ (n > NDIRECT) => AllBlocks(n) = n
           /\ \A j \in 1 .. n : j \in 1 .. AllBlocks(n) /\ j + 1 \in 1 .. n + 1
<1>1. n \in 0 .. NDIRECT + NINDIRECT /\ NDIRECT \in Nat \ {0} /\ NINDIRECT \in Nat
  BY Sizing DEF Got
<1>2. n \in Nat /\ AllBlocks(n) \in Nat
  BY <1>1 DEF AllBlocks
<1>3. /\ n > NDIRECT => AllBlocks(n) = n + 1 /\ NDIRECT + 1 \in 1 .. AllBlocks(n)
      /\ ~ (n > NDIRECT) => AllBlocks(n) = n
      /\ \A j \in 1 .. n : j \in 1 .. AllBlocks(n) /\ j + 1 \in 1 .. n + 1
  BY <1>1 DEF AllBlocks
<1>4. got \in [1 .. AllBlocks(n) -> BlockNums]
  BY Zenon DEF Got
<1>5. Len(got) = AllBlocks(n)
  BY <1>2, <1>4
<1> QED
  BY <1>2, <1>3, <1>5, Zenon

LEMMA IndexIs ==
    ASSUME NEW got, NEW n, Got(got, n)
    PROVE  /\ Index(got) \in Block
           /\ n > NDIRECT => \A w \in 1 .. n - NDIRECT : Index(got)[w] = got[NDIRECT + 1 + w]
<1> DEFINE k == AllBlocks(n)
           V(w) == IF NDIRECT + 1 + w <= k THEN got[NDIRECT + 1 + w] ELSE 0
<1>1. k \in Nat /\ Len(got) = k /\ NDIRECT \in Nat /\ NINDIRECT \in Nat
  BY GotIs, Sizing
<1>2. Index(got) = [w \in 1 .. NINDIRECT |-> V(w)]
  BY <1>1, Zenon DEF Index
<1>3. \A j \in 1 .. k : got[j] \in Nat
  <2>1. \A b \in BlockNums : b \in Nat
    BY Sizing DEF BlockNums
  <2> QED
    BY <2>1, Zenon DEF Got
<1>4. \A w \in 1 .. NINDIRECT : NDIRECT + 1 + w <= k => NDIRECT + 1 + w \in 1 .. k
  <2> HIDE DEF k
  <2> QED
    BY <1>1
<1>5. \A w \in 1 .. NINDIRECT : V(w) \in Nat
  <2> HIDE DEF k
  <2> QED
    BY <1>3, <1>4, Zenon
<1>6. n > NDIRECT => \A w \in 1 .. n - NDIRECT : w \in 1 .. NINDIRECT /\ NDIRECT + 1 + w <= k
  <2>1. n \in 0 .. NDIRECT + NINDIRECT /\ (n > NDIRECT => k = n + 1)
    BY GotIs, Zenon DEF Got
  <2> HIDE DEF k
  <2> QED
    BY <1>1, <2>1
<1> HIDE DEF k
<1>7. Index(got) \in Block
  BY <1>2, <1>5, Zenon DEF Block
<1>8. n > NDIRECT => \A w \in 1 .. n - NDIRECT : Index(got)[w] = got[NDIRECT + 1 + w]
  BY <1>2, <1>6, Zenon
<1> QED
  BY <1>7, <1>8, Zenon

\* What WriteData leaves on the disk: the index, each chunk in its block, and
\* the other blocks as they were.
Written(disk, d, got, data, junk) ==
    LET n == BLOCKS(Len(data)) IN
    /\ d \in Disk
    /\ \A b \in BlockNums : (\A j \in 1 .. AllBlocks(n) : got[j] # b) => d[b] = disk[b]
    /\ n > NDIRECT => d[got[NDIRECT + 1]] = Index(got)
    /\ \A j \in 1 .. n : d[NumberOf(got, j)] = Chunk(data, j, junk)

\* Direct blocks only.
LEMMA WriteSmall ==
    ASSUME NEW disk \in Disk, NEW r \in Inode, NEW data \in Seq(Nat), NEW junk \in Nat, NEW got,
           Got(got, BLOCKS(Len(data))), ~ (BLOCKS(Len(data)) > NDIRECT)
    PROVE  Written(disk, WriteData(disk, Numbers(r, got), Index(got), data, junk), got, data, junk)
<1> DEFINE n    == BLOCKS(Len(data))
           nums == Numbers(r, got)
           A    == [j \in 1 .. n |-> nums[j]]
           d    == write_blocks(disk, A, data, 0, junk)
<1>1. WriteData(disk, nums, Index(got), data, junk) = d
  BY Zenon DEF WriteData
<1>2. n \in Nat /\ AllBlocks(n) = n /\ Len(got) = n /\ got \in [1 .. n -> BlockNums]
      /\ Distinct(got, n)
  BY GotIs, Zenon DEF Got
<1> HIDE DEF n
<1>3. \A j \in 1 .. n : j \in 1 .. NDIRECT + 1 /\ j <= n /\ j <= NDIRECT /\ 0 + j = j
  BY <1>2, Sizing DEF n
<1>4. A = got
  <2>1. \A j \in 1 .. n : nums[j] = got[j]
    BY <1>2, <1>3, Zenon DEF Numbers
  <2> HIDE DEF nums
  <2> QED
    BY <1>2, <2>1, Zenon
<1> HIDE DEF A, nums
<1>5. 0 \in Nat
  OBVIOUS
<1>6. /\ d \in Disk
      /\ \A j \in 1 .. n : d[got[j]] = Chunk(data, 0 + j, junk)
      /\ \A b \in BlockNums : (\A j \in 1 .. n : got[j] # b) => d[b] = disk[b]
  <2>1. Filled(disk, write_blocks(disk, got, data, 0, junk), got, n, data, 0, junk)
    BY <1>2, <1>5, WriteBlocksIs, Zenon
  <2> QED
    BY <1>4, <2>1, Zenon DEF Filled
<1> HIDE DEF d
<1>7. \A j \in 1 .. n : d[NumberOf(got, j)] = Chunk(data, j, junk)
  BY <1>3, <1>6, Zenon DEF NumberOf
<1>8. ~ (n > NDIRECT)
  BY Zenon DEF n
<1>9. Written(disk, d, got, data, junk)
  BY <1>2, <1>6, <1>7, <1>8, Zenon DEF Written, n
<1> QED
  BY <1>1, <1>9, Zenon DEF nums

\* Direct blocks, and an index with the rest.
LEMMA WriteLarge ==
    ASSUME NEW disk \in Disk, NEW r \in Inode, NEW data \in Seq(Nat), NEW junk \in Nat, NEW got,
           Got(got, BLOCKS(Len(data))), BLOCKS(Len(data)) > NDIRECT
    PROVE  Written(disk, WriteData(disk, Numbers(r, got), Index(got), data, junk), got, data, junk)
<1> DEFINE n    == BLOCKS(Len(data))
           nums == Numbers(r, got)
           x    == nums[NDIRECT + 1]
           d1   == write_block(disk, x, Index(got))
           A    == [j \in 1 .. NDIRECT |-> nums[j]]
           d2   == write_blocks(d1, A, data, 0, junk)
           C    == [w \in 1 .. n - NDIRECT |-> d2[x][w]]
           d    == write_blocks(d2, C, data, NDIRECT, junk)
<1>1. WriteData(disk, nums, Index(got), data, junk) = d
  BY Zenon DEF WriteData
<1>2. n \in Nat /\ AllBlocks(n) = n + 1 /\ Len(got) = n + 1 /\ got \in [1 .. n + 1 -> BlockNums]
      /\ Distinct(got, n + 1)
  BY GotIs, Zenon DEF Got
<1>3. /\ Index(got) \in Block
      /\ \A w \in 1 .. n - NDIRECT : Index(got)[w] = got[NDIRECT + 1 + w]
  BY IndexIs, Zenon
<1>4. n > NDIRECT
  BY Zenon DEF n
<1> HIDE DEF n
<1>5. NDIRECT \in Nat /\ 0 \in Nat /\ n - NDIRECT \in Nat /\ NDIRECT + 1 \in 1 .. NDIRECT + 1
  BY <1>2, <1>4, Sizing
<1>6. \A j \in 1 .. NDIRECT + 1 : j \in 1 .. n + 1 /\ j <= n + 1
  BY <1>2, <1>4, <1>5
<1>7. \A j \in 1 .. NDIRECT : j \in 1 .. NDIRECT + 1 /\ j # NDIRECT + 1 /\ 0 + j = j
  BY <1>5
<1>8. \A w \in 1 .. n - NDIRECT :
          NDIRECT + 1 + w \in 1 .. n + 1 /\ ~ (NDIRECT + 1 + w \in 1 .. NDIRECT + 1)
  BY <1>2, <1>4, <1>5
<1>9. \A w, v \in 1 .. n - NDIRECT : NDIRECT + 1 + w = NDIRECT + 1 + v => w = v
  BY <1>2, <1>5
<1>10. \A j \in 1 .. NDIRECT + 1 : nums[j] = got[j]
  BY <1>2, <1>6, Zenon DEF Numbers
<1> HIDE DEF nums
<1>11. x = got[NDIRECT + 1] /\ x \in BlockNums
  BY <1>2, <1>5, <1>10, <1>6, Zenon
<1> HIDE DEF x
<1>12. d1 \in Disk /\ d1[x] = Index(got) /\ \A b \in BlockNums : b # x => d1[b] = disk[b]
  BY <1>3, <1>11, Zenon DEF write_block, Disk
<1> HIDE DEF d1
<1>13. A \in [1 .. NDIRECT -> BlockNums] /\ \A j \in 1 .. NDIRECT : A[j] = got[j]
  BY <1>2, <1>10, <1>6, <1>7, Zenon
<1> HIDE DEF A
<1>14. Distinct(A, NDIRECT) /\ \A j \in 1 .. NDIRECT : A[j] # x
  <2>1. Distinct(A, NDIRECT)
    BY <1>2, <1>13, <1>6, <1>7, Zenon DEF Distinct
  <2>2. \A j \in 1 .. NDIRECT : A[j] # x
    BY <1>2, <1>5, <1>11, <1>13, <1>6, <1>7, Zenon DEF Distinct
  <2> QED
    BY <2>1, <2>2, Zenon
<1>15. /\ d2 \in Disk
       /\ \A j \in 1 .. NDIRECT : d2[A[j]] = Chunk(data, 0 + j, junk)
       /\ \A b \in BlockNums : (\A j \in 1 .. NDIRECT : A[j] # b) => d2[b] = d1[b]
  <2>1. Filled(d1, d2, A, NDIRECT, data, 0, junk)
    BY <1>5, <1>12, <1>13, <1>14, WriteBlocksIs, Zenon
  <2> QED
    BY <2>1, Zenon DEF Filled
<1>16. d2[x] = Index(got)
  BY <1>11, <1>12, <1>14, <1>15, Zenon
<1> HIDE DEF d2
<1>17. C \in [1 .. n - NDIRECT -> BlockNums] /\ \A w \in 1 .. n - NDIRECT : C[w] = got[NDIRECT + 1 + w]
  BY <1>2, <1>3, <1>16, <1>8, Zenon
<1> HIDE DEF C
<1>18. Distinct(C, n - NDIRECT)
  <2> SUFFICES ASSUME NEW w \in 1 .. n - NDIRECT, NEW v \in 1 .. n - NDIRECT, C[w] = C[v]
               PROVE  w = v
    BY Zenon DEF Distinct
  <2>1. got[NDIRECT + 1 + w] = got[NDIRECT + 1 + v]
    BY <1>17, Zenon
  <2>2. NDIRECT + 1 + w \in 1 .. n + 1 /\ NDIRECT + 1 + v \in 1 .. n + 1
    BY <1>8, Zenon
  <2>3. NDIRECT + 1 + w = NDIRECT + 1 + v
    BY <1>2, <2>1, <2>2, Zenon DEF Distinct
  <2> QED
    BY <1>9, <2>3, Zenon
<1>19. \A w \in 1 .. n - NDIRECT : \A j \in 1 .. NDIRECT + 1 : C[w] # got[j]
  <2> SUFFICES ASSUME NEW w \in 1 .. n - NDIRECT, NEW j \in 1 .. NDIRECT + 1, C[w] = got[j]
               PROVE  FALSE
    BY Zenon
  <2>1. got[NDIRECT + 1 + w] = got[j]
    BY <1>17, Zenon
  <2>2. NDIRECT + 1 + w \in 1 .. n + 1 /\ j \in 1 .. n + 1
    BY <1>6, <1>8, Zenon
  <2>3. NDIRECT + 1 + w = j
    BY <1>2, <2>1, <2>2, Zenon DEF Distinct
  <2> QED
    BY <1>8, <2>3, Zenon
<1>20. /\ d \in Disk
       /\ \A w \in 1 .. n - NDIRECT : d[C[w]] = Chunk(data, NDIRECT + w, junk)
       /\ \A b \in BlockNums : (\A w \in 1 .. n - NDIRECT : C[w] # b) => d[b] = d2[b]
  <2>1. Filled(d2, d, C, n - NDIRECT, data, NDIRECT, junk)
    BY <1>5, <1>15, <1>17, <1>18, WriteBlocksIs, Zenon
  <2> QED
    BY <2>1, Zenon DEF Filled
<1> HIDE DEF d
<1>21. d[got[NDIRECT + 1]] = Index(got)
  <2>1. \A w \in 1 .. n - NDIRECT : C[w] # x
    BY <1>5, <1>11, <1>19, Zenon
  <2> QED
    BY <1>11, <1>16, <1>20, <2>1, Zenon
<1>22. ASSUME NEW j \in 1 .. n PROVE d[NumberOf(got, j)] = Chunk(data, j, junk)
  <2>1. CASE j <= NDIRECT
    <3>1. j \in 1 .. NDIRECT
      BY <1>2, <1>5, <2>1
    <3>2. got[j] \in BlockNums /\ A[j] = got[j] /\ j \in 1 .. NDIRECT + 1 /\ 0 + j = j
      BY <1>2, <1>13, <1>6, <1>7, <3>1, Zenon
    <3>3. d[got[j]] = d2[got[j]]
      BY <1>19, <1>20, <3>2, Zenon
    <3>4. d2[got[j]] = Chunk(data, j, junk)
      BY <1>15, <3>1, <3>2, Zenon
    <3> QED
      BY <2>1, <3>3, <3>4, Zenon DEF NumberOf
  <2>2. CASE ~ (j <= NDIRECT)
    <3> DEFINE w == j - NDIRECT
    <3>1. w \in 1 .. n - NDIRECT /\ j = NDIRECT + w /\ j + 1 = NDIRECT + 1 + w
      BY <1>2, <1>5, <2>2
    <3> HIDE DEF w
    <3>2. C[w] = got[j + 1]
      BY <1>17, <3>1, Zenon
    <3> QED
      BY <1>20, <2>2, <3>1, <3>2, Zenon DEF NumberOf
  <2> QED
    BY <2>1, <2>2, Zenon
<1>23. ASSUME NEW b \in BlockNums, \A j \in 1 .. n + 1 : got[j] # b PROVE d[b] = disk[b]
  <2>1. b # x
    BY <1>5, <1>11, <1>23, <1>6, Zenon
  <2>2. \A j \in 1 .. NDIRECT : A[j] # b
    BY <1>13, <1>23, <1>6, <1>7, Zenon
  <2>3. \A w \in 1 .. n - NDIRECT : C[w] # b
    BY <1>17, <1>23, <1>8, Zenon
  <2> QED
    BY <1>12, <1>15, <1>20, <2>1, <2>2, <2>3, Zenon
<1>24. Written(disk, d, got, data, junk)
  BY <1>2, <1>20, <1>21, <1>22, <1>23, Zenon DEF Written, n
<1> QED
  BY <1>1, <1>24, Zenon DEF nums

LEMMA WriteDataIs ==
    ASSUME NEW disk \in Disk, NEW r \in Inode, NEW data \in Seq(Nat), NEW junk \in Nat, NEW got,
           Got(got, BLOCKS(Len(data)))
    PROVE  Written(disk, WriteData(disk, Numbers(r, got), Index(got), data, junk), got, data, junk)
BY WriteSmall, WriteLarge, Zenon

\* The inode that write_file leaves.
NewInode(r, got, data) == [r EXCEPT !.size = Len(data), !.blocks = Numbers(r, got)]

LEMMA NewInodeIs ==
    ASSUME NEW r \in Inode, NEW data \in Seq(Nat), NEW got, Got(got, BLOCKS(Len(data)))
    PROVE  LET n == BLOCKS(Len(data))
               q == NewInode(r, got, data)
           IN  /\ q \in Inode /\ q.type = r.type /\ q.size = Len(data)
               /\ \A j \in 1 .. NDIRECT + 1 : j <= AllBlocks(n) => q.blocks[j] = got[j]
<1> DEFINE n == BLOCKS(Len(data))
           q == NewInode(r, got, data)
<1>1. Len(got) = AllBlocks(n) /\ AllBlocks(n) \in Nat
  BY GotIs, Zenon
<1>2. \A j \in 1 .. AllBlocks(n) : got[j] \in Nat
  <2>1. \A b \in BlockNums : b \in Nat
    BY Sizing DEF BlockNums
  <2> QED
    BY <2>1, Zenon DEF Got
<1>3. \A j \in 1 .. NDIRECT + 1 : j <= AllBlocks(n) => j \in 1 .. AllBlocks(n)
  <2> HIDE DEF n
  <2> QED
    BY <1>1, Sizing
<1>4. \A j \in 1 .. NDIRECT + 1 : r.blocks[j] \in Nat
  BY Zenon DEF Inode
<1>5. Numbers(r, got) \in [1 .. NDIRECT + 1 -> Nat]
      /\ \A j \in 1 .. NDIRECT + 1 : j <= AllBlocks(n) => Numbers(r, got)[j] = got[j]
  BY <1>1, <1>2, <1>3, <1>4, Zenon DEF Numbers
<1>6. Len(data) \in Nat
  OBVIOUS
<1>7. q \in Inode /\ q.type = r.type /\ q.size = Len(data) /\ q.blocks = Numbers(r, got)
  BY <1>5, <1>6, Zenon DEF NewInode, Inode
<1> HIDE DEF q
<1> QED
  BY <1>5, <1>7, Zenon DEF q

Indexed(gs, got, n) == n > NDIRECT => gs.disk[got[NDIRECT + 1]] = Index(got)

\* On a disk with the index in its block, the file has the blocks that were got.
LEMMA NewBlocks ==
    ASSUME NEW gs \in Manager, NEW r \in Inode, NEW data \in Seq(Nat), NEW got, NEW n,
           n = BLOCKS(Len(data)), Got(got, n), Indexed(gs, got, n)
    PROVE  LET q == NewInode(r, got, data)
           IN  /\ \A j \in 1 .. n : DataBlocks(gs, q)[j] = NumberOf(got, j)
               /\ FileBlocks(gs, q) = {got[j] : j \in 1 .. AllBlocks(n)}
<1> DEFINE k == AllBlocks(n)
           q == NewInode(r, got, data)
           D == DataBlocks(gs, q)
<1>1. /\ q.size = Len(data)
      /\ \A j \in 1 .. NDIRECT + 1 : j <= k => q.blocks[j] = got[j]
  BY NewInodeIs, Zenon
<1> HIDE DEF q
<1>2. D = [j \in 1 .. n |-> IF j <= NDIRECT THEN q.blocks[j]
                             ELSE gs.disk[q.blocks[NDIRECT + 1]][j - NDIRECT]]
  BY <1>1, Zenon DEF DataBlocks
<1>3. /\ n \in Nat /\ k \in Nat
      /\ n > NDIRECT => k = n + 1
      /\ ~ (n > NDIRECT) => k = n
      /\ NDIRECT \in Nat
      /\ n > NDIRECT => gs.disk[got[NDIRECT + 1]] = Index(got)
  BY GotIs, Sizing, Zenon DEF Indexed
<1>4. n > NDIRECT => \A w \in 1 .. n - NDIRECT : Index(got)[w] = got[NDIRECT + 1 + w]
  BY IndexIs, Zenon
<1>5. FileBlocks(gs, q) = {D[j] : j \in 1 .. n} \cup {q.blocks[NDIRECT + 1] : m \in {n} \ 0 .. NDIRECT}
  <2>1. DOMAIN D = 1 .. n
    BY <1>2, Zenon
  <2> QED
    BY <1>1, <2>1, Zenon DEF FileBlocks, Range
<1> HIDE DEF k, D
<1>6. ASSUME NEW j \in 1 .. n PROVE D[j] = NumberOf(got, j)
  <2>1. CASE j <= NDIRECT
    <3>1. j \in 1 .. NDIRECT + 1 /\ j <= k
      BY <1>3, <2>1
    <3> QED
      BY <1>1, <1>2, <2>1, <3>1, Zenon DEF NumberOf
  <2>2. CASE ~ (j <= NDIRECT)
    <3>1. n > NDIRECT /\ j - NDIRECT \in 1 .. n - NDIRECT /\ NDIRECT + 1 + (j - NDIRECT) = j + 1
          /\ NDIRECT + 1 \in 1 .. NDIRECT + 1 /\ NDIRECT + 1 <= k
      BY <1>3, <2>2
    <3>2. q.blocks[NDIRECT + 1] = got[NDIRECT + 1]
      BY <1>1, <3>1, Zenon
    <3>3. Index(got)[j - NDIRECT] = got[j + 1]
      BY <1>4, <3>1, Zenon
    <3> QED
      BY <1>2, <1>3, <2>2, <3>1, <3>2, <3>3, Zenon DEF NumberOf
  <2> QED
    BY <2>1, <2>2, Zenon
<1>7. ASSUME NEW j \in 1 .. n PROVE NumberOf(got, j) \in {got[l] : l \in 1 .. k}
  <2>1. j <= NDIRECT => j \in 1 .. k
    BY <1>3
  <2>2. ~ (j <= NDIRECT) => j + 1 \in 1 .. k
    BY <1>3
  <2> QED
    BY <2>1, <2>2, Zenon DEF NumberOf
<1>8. ASSUME NEW m \in {n} \ 0 .. NDIRECT PROVE q.blocks[NDIRECT + 1] \in {got[l] : l \in 1 .. k}
  <2>1. NDIRECT + 1 \in 1 .. k /\ NDIRECT + 1 \in 1 .. NDIRECT + 1 /\ NDIRECT + 1 <= k
    BY <1>3, <1>8
  <2> QED
    BY <1>1, <2>1, Zenon
<1>9. ASSUME NEW l \in 1 .. k PROVE got[l] \in FileBlocks(gs, q)
  <2>1. CASE l <= NDIRECT
    <3>1. l \in 1 .. n
      BY <1>3, <2>1
    <3> QED
      BY <1>5, <1>6, <2>1, <3>1, Zenon DEF NumberOf
  <2>2. CASE l = NDIRECT + 1
    <3>1. n \in {n} \ 0 .. NDIRECT /\ l \in 1 .. NDIRECT + 1 /\ l <= k
      BY <1>3, <2>2
    <3> QED
      BY <1>1, <1>5, <2>2, <3>1, Zenon
  <2>3. CASE l > NDIRECT + 1
    <3>1. l - 1 \in 1 .. n /\ ~ (l - 1 <= NDIRECT) /\ (l - 1) + 1 = l
      BY <1>3, <2>3
    <3> QED
      BY <1>5, <1>6, <3>1, Zenon DEF NumberOf
  <2> QED
    BY <1>3, <2>1, <2>2, <2>3
<1>10. FileBlocks(gs, q) = {got[l] : l \in 1 .. k}
  <2>1. \A b \in FileBlocks(gs, q) : b \in {got[l] : l \in 1 .. k}
    <3>1. \A b \in {D[j] : j \in 1 .. n} : b \in {got[l] : l \in 1 .. k}
      BY <1>6, <1>7, Zenon
    <3>2. \A b \in {q.blocks[NDIRECT + 1] : m \in {n} \ 0 .. NDIRECT} : b \in {got[l] : l \in 1 .. k}
      BY <1>8, Zenon
    <3> QED
      BY <1>5, <3>1, <3>2, Zenon
  <2>2. \A b \in {got[l] : l \in 1 .. k} : b \in FileBlocks(gs, q)
    BY <1>9, Zenon
  <2> QED
    BY <2>1, <2>2, Zenon
<1> QED
  BY <1>6, <1>10, Zenon DEF k, q, D

\* Different numbers are as many as they are.
LEMMA CountGot ==
    ASSUME NEW got, NEW n, Got(got, n)
    PROVE  Cardinality({got[j] : j \in 1 .. AllBlocks(n)}) = AllBlocks(n)
<1> DEFINE k == AllBlocks(n)
           S == {got[j] : j \in 1 .. k}
<1>1. k \in Nat /\ got \in [1 .. k -> BlockNums] /\ Distinct(got, k)
  BY GotIs, Zenon DEF Got
<1> HIDE DEF k
<1>2. got \in Bijection(1 .. k, S)
  <2>1. got \in [1 .. k -> S]
    BY <1>1, Zenon
  <2>2. got \in Injection(1 .. k, S)
    BY <1>1, <2>1, Zenon DEF Injection, IsInjective, Distinct
  <2>3. got \in Surjection(1 .. k, S)
    BY <2>1, Zenon DEF Surjection
  <2> QED
    BY <2>2, <2>3, Zenon DEF Bijection
<1>3. ExistsBijection(1 .. k, S)
  BY <1>2, Zenon DEF ExistsBijection
<1>4. Cardinality(S) = k
  BY <1>1, <1>3, FS_CountingElements, Zenon
<1> QED
  BY <1>4, Zenon DEF k

\* read_file puts the chunks together again.
LEMMA ReadsBack ==
    ASSUME NEW gs, NEW q, NEW data \in Seq(Nat), NEW junk, q.size = Len(data),
           \A j \in 1 .. BLOCKS(Len(data)) : gs.disk[DataBlocks(gs, q)[j]] = Chunk(data, j, junk)
    PROVE  Contents(gs, q) = data
<1> DEFINE N(w) == (w - 1) \div BLOCK_SIZE + 1
           W(w) == ((w - 1) % BLOCK_SIZE) + 1
           s    == Len(data)
<1>1. s \in Nat /\ NINDIRECT \in Nat \ {0} /\ data = [w \in 1 .. s |-> data[w]]
  BY Sizing, SMTT(30)
<1>2. \A w \in 1 .. s : N(w) \in 1 .. BLOCKS(s)
  BY <1>1, BlockOfWord DEF BLOCKS, BLOCK_SIZE
<1>3. \A w \in 1 .. s : W(w) \in 1 .. BLOCK_SIZE /\ (N(w) - 1) * BLOCK_SIZE + W(w) = w
  <2>1. \A w \in 1 .. s : w \in Nat \ {0}
    BY <1>1
  <2> QED
    BY <1>1, <2>1, WordOfBlock, Zenon DEF BLOCK_SIZE
<1>4. \A w \in 1 .. s : w <= Len(data)
  BY <1>1
<1>5. Contents(gs, q) = [w \in 1 .. s |-> gs.disk[DataBlocks(gs, q)[N(w)]][W(w)]]
  BY Zenon DEF Contents
<1> HIDE DEF N, W
<1>6. \A w \in 1 .. s : gs.disk[DataBlocks(gs, q)[N(w)]] = Chunk(data, N(w), junk)
  BY <1>2, Zenon
<1>7. \A w \in 1 .. s : Chunk(data, N(w), junk)[W(w)] = data[w]
  BY <1>3, <1>4, Zenon DEF Chunk
<1>8. \A w \in 1 .. s : gs.disk[DataBlocks(gs, q)[N(w)]][W(w)] = data[w]
  BY <1>6, <1>7, Zenon
<1> HIDE DEF s
<1> QED
  BY <1>1, <1>5, <1>8, Zenon

\* write_file replaces the file by one that reads back as what was written.
LEMMA WriteIs ==
    ASSUME NEW fs, Sane(fs), NEW i \in LiveIn(fs), NEW data \in Seq(Nat), Len(data) \in Sizes,
           NEW junk \in Nat
    PROVE  LET gs == write_file(fs, i, data, junk)
           IN  /\ Sane(gs) /\ Leaves(fs, gs, i)
               /\ get_inode(gs, i).type = get_inode(fs, i).type
               /\ read_file(gs, i) = data
<1> DEFINE r   == get_inode(fs, i)
           n   == BLOCKS(Len(data))
           f1  == free_blocks(fs, Owned(fs, i))
           got == alloc_blocks(f1, AllBlocks(n))
           d   == WriteData(fs.disk, Numbers(r, got), Index(got), data, junk)
           f2  == [MarkUsed(f1, got) EXCEPT !.disk = d]
           q   == NewInode(r, got, data)
           gs  == put_inode(f2, i, q)
           G   == {got[j] : j \in 1 .. AllBlocks(n)}
<1>1. write_file(fs, i, data, junk) = gs
  BY Zenon DEF write_file, Owned, NewInode
<1>2. fs \in Manager /\ InodesSane(fs) /\ BlocksSane(fs) /\ i \in Inums /\ Exists(fs, i)
      /\ i \in 0 .. INODE_NUM - 1
  BY InumRange, Zenon DEF Sane, LiveIn
<1>3. r \in Inode /\ r.type # 0
  BY <1>2, GetInode, Zenon DEF Exists
<1>4. Len(data) \in FileSizes
  BY Zenon DEF FileSizes
<1>5. n \in 0 .. NDIRECT + NINDIRECT /\ AllBlocks(n) \in Nat
  BY <1>4, Length, Zenon
<1>6. f1 \in Manager /\ f1.used = fs.used \ Owned(fs, i) /\ f1.disk = fs.disk
  <2>1. Owned(fs, i) \in SUBSET Unmarked
    BY <1>2, Zenon DEF BlocksSane
  <2> QED
    BY <1>2, <2>1, FreeIs, Zenon
<1>7. AllBlocks(n) <= Cardinality(Free(f1))
  BY <1>4, <1>6, Room, Zenon DEF Free
<1> HIDE DEF f1, r, n
<1>8. got \in [1 .. AllBlocks(n) -> Free(f1)] /\ Distinct(got, AllBlocks(n))
  BY <1>5, <1>6, <1>7, AllocIs, Zenon DEF Distinct
<1> HIDE DEF got
<1>9. \A j \in 1 .. AllBlocks(n) : got[j] \in BlockNums /\ got[j] \notin f1.used
  BY <1>8, Zenon DEF Free
<1>10. Got(got, n)
  BY <1>5, <1>8, <1>9, Zenon DEF Got
<1>11. \A b \in G : /\ b \in Unmarked
                     /\ \A j \in Inums \ {i} : b \notin Owned(fs, j)
  <2>1. \A b \in Reserved : b \in f1.used
    BY <1>2, <1>6, Zenon DEF BlocksSane, Unmarked
  <2>2. \A j \in Inums \ {i} : \A b \in Owned(fs, j) : b \in f1.used
    <3> TAKE j \in Inums \ {i}
    <3>1. Owned(fs, j) \subseteq fs.used /\ Owned(fs, i) \cap Owned(fs, j) = {}
      BY <1>2, Zenon DEF BlocksSane
    <3> QED
      BY <1>6, <3>1, Zenon
  <2> QED
    BY <1>9, <2>1, <2>2, Zenon DEF Unmarked
<1>12. Written(fs.disk, d, got, data, junk)
  <2>1. fs.disk \in Disk
    BY <1>2, Zenon DEF Manager
  <2> QED
    BY <1>3, <1>10, <2>1, WriteDataIs, Zenon DEF n
<1> HIDE DEF d
<1>13. /\ d \in Disk
       /\ \A b \in BlockNums : b \notin G => d[b] = fs.disk[b]
       /\ n > NDIRECT => d[got[NDIRECT + 1]] = Index(got)
       /\ \A j \in 1 .. n : d[NumberOf(got, j)] = Chunk(data, j, junk)
  BY <1>12, Zenon DEF Written, n
<1>14. f2 \in Manager /\ f2.used = f1.used \cup G /\ f2.disk = d
  <2>1. Range(got) = G /\ G \subseteq BlockNums
    BY <1>8, <1>9, Zenon DEF Range
  <2> DEFINE m == MarkUsed(f1, got)
  <2>2. m \in Manager /\ m.used = f1.used \cup G
    BY <1>6, <2>1, Zenon DEF MarkUsed, Manager
  <2> HIDE DEF m
  <2>3. [m EXCEPT !.disk = d] \in Manager /\ [m EXCEPT !.disk = d].used = m.used
        /\ [m EXCEPT !.disk = d].disk = d
    BY <1>13, <2>2, Zenon DEF Manager
  <2> QED
    BY <2>2, <2>3, Zenon DEF m
<1> HIDE DEF f2
<1>15. q \in Inode /\ q.type = r.type /\ q.size = Len(data)
  BY <1>3, <1>10, NewInodeIs, Zenon DEF n
<1>16. /\ gs \in Manager /\ gs.used = f2.used /\ get_inode(gs, i) = q
       /\ \A b \in BlockNums : b # IBLOCK(i) => gs.disk[b] = d[b]
  <2> HIDE DEF q
  <2> QED
    BY <1>2, <1>14, <1>15, PutInode, Zenon
<1>17. Leaves(fs, gs, i)
  <2>1. \A b \in Reserved : f2.disk[b] = fs.disk[b]
    BY <1>11, <1>13, <1>14, Layout, Zenon DEF Unmarked
  <2>2. \A j \in Inums \ {i} : \A b \in Owned(fs, j) : f2.disk[b] = fs.disk[b]
    <3> TAKE j \in Inums \ {i}
    <3> TAKE b \in Owned(fs, j)
    <3>1. b \in BlockNums
      BY <1>2, Zenon DEF BlocksSane, Unmarked
    <3>2. b \notin G
      BY <1>11, Zenon
    <3> QED
      BY <1>13, <1>14, <3>1, <3>2, Zenon
  <2> HIDE DEF q
  <2> QED
    BY <1>2, <1>14, <1>15, <2>1, <2>2, PutLeaves, Zenon
<1> HIDE DEF gs
<1>18. \A b \in G : gs.disk[b] = d[b]
  <2>1. \A b \in G : b \in BlockNums /\ b # IBLOCK(i)
    BY <1>2, <1>11, Layout, InumRange, Zenon DEF Unmarked
  <2> QED
    BY <1>16, <2>1, Zenon
<1>19. Indexed(gs, got, n)
  <2>1. n > NDIRECT => got[NDIRECT + 1] \in G
    BY <1>10, GotIs, Zenon
  <2> QED
    BY <1>13, <1>18, <2>1, Zenon DEF Indexed
<1>20. /\ \A j \in 1 .. n : DataBlocks(gs, q)[j] = NumberOf(got, j)
       /\ FileBlocks(gs, q) = G
  <2>1. n = BLOCKS(Len(data)) /\ gs \in Manager
    BY <1>16, Zenon DEF n
  <2> HIDE DEF G
  <2>2. FileBlocks(gs, q) = {got[j] : j \in 1 .. AllBlocks(n)}
    BY <1>3, <1>10, <1>19, <2>1, NewBlocks, SMTT(30)
  <2>3. \A j \in 1 .. n : DataBlocks(gs, q)[j] = NumberOf(got, j)
    BY <1>3, <1>10, <1>19, <2>1, NewBlocks, SMTT(30)
  <2> QED
    BY <2>2, <2>3, Zenon DEF G
<1> HIDE DEF q
<1>21. Owned(gs, i) = G
  BY <1>16, <1>20, Zenon DEF Owned
<1>22. Contents(gs, q) = data
  <2>1. \A j \in 1 .. n : DataBlocks(gs, q)[j] \in G
    <3>1. \A j \in 1 .. n : DataBlocks(gs, q)[j] \in FileBlocks(gs, q)
      BY <1>4, <1>15, <1>16, FileOf, Zenon DEF n
    <3> QED
      BY <1>20, <3>1, Zenon
  <2>2. \A j \in 1 .. n : gs.disk[DataBlocks(gs, q)[j]] = Chunk(data, j, junk)
    BY <1>13, <1>18, <1>20, <2>1, Zenon
  <2> QED
    BY <1>15, <2>2, ReadsBack, Zenon DEF n
<1>23. Gets(fs, gs, i)
  <2>1. Cardinality(Owned(gs, i)) = AllBlocks(BLOCKS(get_inode(gs, i).size))
    <3>1. Cardinality(G) = AllBlocks(n)
      BY <1>10, CountGot, Zenon
    <3>2. get_inode(gs, i).size = Len(data)
      BY <1>15, <1>16, Zenon
    <3> QED
      BY <1>21, <3>1, <3>2, Zenon DEF n
  <2>2. Owned(gs, i) \subseteq Unmarked /\ \A j \in Inums \ {i} : Owned(gs, i) \cap Owned(fs, j) = {}
    BY <1>11, <1>21, Zenon
  <2>3. gs.used = (fs.used \ Owned(fs, i)) \cup Owned(gs, i)
    BY <1>6, <1>14, <1>16, <1>21, Zenon
  <2>4. get_inode(gs, i).size \in FileSizes /\ get_inode(gs, i).type # 0
    BY <1>3, <1>4, <1>15, <1>16, Zenon
  <2> QED
    BY <2>1, <2>2, <2>3, <2>4, Zenon DEF Gets
<1>24. Cardinality(LiveIn(gs)) <= MaxFiles
  <2>1. LiveIn(gs) \in SUBSET LiveIn(fs)
    BY <1>2, <1>16, <1>17, LiveAfter, Zenon
  <2>2. Cardinality(LiveIn(gs)) <= Cardinality(LiveIn(fs)) /\ Cardinality(LiveIn(gs)) \in Nat
        /\ Cardinality(LiveIn(fs)) \in Nat /\ Cardinality(LiveIn(fs)) <= MaxFiles
    BY <2>1, LiveFinite, FS_Subset, Zenon DEF Sane
  <2> QED
    BY <2>2, RoomAssumption, Sizing
<1>25. Sane(gs)
  BY <1>2, <1>16, <1>17, <1>23, <1>24, OneFile, Zenon
<1>26. read_file(gs, i) = data /\ get_inode(gs, i).type = get_inode(fs, i).type
  BY <1>3, <1>15, <1>16, <1>22, Zenon DEF read_file, Exists, r
<1> QED
  BY <1>1, <1>17, <1>25, <1>26, Zenon

-----------------------------------------------------------------------------
(* The extent server.                                                      *)

\* An id that names a file names one of the inums of clients.
LEMMA IdIs ==
    ASSUME Sane(im), NEW id \in Ids
    PROVE  /\ Exists(im, id % IdSpace) => id % IdSpace \in Inums /\ id % IdSpace \in LiveIn(im)
           /\ id % IdSpace \notin Inums => attr(im, id % IdSpace) = [type |-> 0, size |-> 0]
<1> DEFINE x == id % IdSpace
<1>1. x \in Nat /\ x # INODE_NUM - 1
  <2>1. id \in Nat /\ IdSpace \in Nat \ {0} /\ x # INODE_NUM - 1
    BY IdsAssumption, Zenon
  <2> QED
    BY <2>1, Quotient
<1> HIDE DEF x
<1>2. x \in 0 .. INODE_NUM - 1 => x \in Inums \/ x = 0
  BY <1>1, Sizing DEF Inums
<1>3. x \notin Inums => get_inode(im, x).type = 0 /\ get_inode(im, x).size = 0
  <2>1. x \notin 0 .. INODE_NUM - 1 => get_inode(im, x) = NULL
    BY Zenon DEF get_inode
  <2>2. get_inode(im, 0).type = 0 /\ get_inode(im, 0).size = 0
    BY Zenon DEF Sane, InodesSane
  <2> QED
    BY <1>2, <2>1, <2>2, NullIs, Zenon
<1>4. Exists(im, x) => x \in Inums
  BY <1>3, Zenon DEF Exists
<1> QED
  BY <1>3, <1>4, Zenon DEF x, attr, LiveIn

\* What is put is a file of words.
LEMMA ContentIs ==
    ASSUME NEW id \in Ids, NEW n \in Sizes
    PROVE  Content(id, n) \in Seq(Nat) /\ Len(Content(id, n)) = n /\ Content(id, n) \in Data
<1>1. id \in Nat /\ BLOCK_NUM \in Nat /\ n \in Nat
  BY IdsAssumption, Sizing, Length DEF FileSizes
<1>2. \A w \in 1 .. n : BLOCK_NUM + 100 * id + w \in Nat
  BY <1>1
<1>3. Content(id, n) \in [1 .. n -> Nat]
  BY <1>2, Zenon DEF Content
<1>4. Content(id, n) \in Seq(Nat) /\ Len(Content(id, n)) = n
  BY <1>1, <1>3
<1> QED
  BY <1>4 DEF Data

LEMMA InitSane == Init => Sane(im)
<1> DEFINE fs == [used |-> Reserved, disk |-> [b \in BlockNums |-> ZeroBlock]]
<1>1. Sane(fs) /\ LiveIn(fs) = {}
  BY BlankIs, Zenon
<1>2. Cardinality(LiveIn(fs)) < MaxFiles /\ T_DIR \in Nat \ {0}
  BY <1>1, RootFits, Zenon
<1>3. Sane(alloc_inode(fs, T_DIR))
  <2> HIDE DEF fs
  <2> QED
    BY <1>1, <1>2, AllocInodeIs, Zenon
<1> QED
  BY <1>3, Zenon DEF Init, format

LEMMA NextSane == Sane(im) /\ [Next]_vars => Sane(im')
<1> SUFFICES ASSUME Sane(im), [Next]_vars PROVE Sane(im')
  OBVIOUS
<1>0. im \in Manager
  BY Zenon DEF Sane
<1>1. ASSUME NEW type \in Types, create(type) PROVE Sane(im')
  <2>1. type \in Nat \ {0}
    BY IdsAssumption, Zenon
  <2>2. Cardinality(LiveIn(im)) < MaxFiles /\ im' = alloc_inode(im, type)
    BY <1>1, Zenon DEF create, Live, LiveIn
  <2> QED
    BY <2>1, <2>2, AllocInodeIs, Zenon
<1>2. ASSUME NEW id \in Ids, NEW n \in Sizes, NEW junk \in Junk, put(id, Content(id, n), junk)
      PROVE  Sane(im')
  <2>1. id % IdSpace \in LiveIn(im) /\ im' = write_file(im, id % IdSpace, Content(id, n), junk)
    BY <1>2, IdIs, Zenon DEF put
  <2>2. Content(id, n) \in Seq(Nat) /\ Len(Content(id, n)) \in Sizes /\ junk \in Nat
    BY ContentIs, IdsAssumption, Zenon
  <2> QED
    BY <2>1, <2>2, WriteIs, Zenon
<1>3. ASSUME NEW id \in Ids, remove(id) PROVE Sane(im')
  <2>1. im' = remove_file(im, id % IdSpace)
    BY <1>3, Zenon DEF remove
  <2>2. CASE Exists(im, id % IdSpace)
    BY <2>1, <2>2, IdIs, RemoveIs, Zenon
  <2>3. CASE ~ Exists(im, id % IdSpace)
    BY <2>1, <2>3, Zenon DEF remove_file
  <2> QED
    BY <2>2, <2>3, Zenon
<1>4. ASSUME NEW id \in Ids, get(id) \/ getattr(id) \/ put_crashes(id) PROVE Sane(im')
  BY <1>0, <1>4, TouchIs, Zenon DEF get, getattr, put_crashes
<1>5. CASE UNCHANGED vars
  BY <1>5, Zenon DEF vars
<1> QED
  BY <1>1, <1>2, <1>3, <1>4, <1>5, Zenon DEF Next

Inv == Sane(im)

\* However blocks and inodes are freed and used again, the files, the bitmap and
\* the inode table stay as the operations of inode_manager expect them.
THEOREM SaneHolds == Spec => []Inv
<1>1. Init => Inv
  BY InitSane, Zenon DEF Inv
<1>2. Inv /\ [Next]_vars => Inv'
  BY NextSane, Zenon DEF Inv
<1> QED
  BY <1>1, <1>2, PTL DEF Spec

\* Every block has one owner, and the bitmap knows: write_file and remove_file
\* free all the blocks that a file has and no other ones, on disks of every size.
THEOREM BlocksOwnedHolds == Spec => []BlocksOwned
<1>1. Inv => BlocksOwned
  <2> SUFFICES ASSUME Sane(im) PROVE BlocksOwned
    BY Zenon DEF Inv
  <2>1. im \in Manager /\ BlocksSane(im) /\ InodesSane(im)
    BY Zenon DEF Sane
  <2>2. \A i \in Inums : i \notin Live => Owned(im, i) = {}
    BY <2>1, EmptyFile, Zenon DEF Live, Exists, InodesSane
  <2>3. BlocksDisjoint
    BY <2>1, Zenon DEF BlocksDisjoint, BlocksSane, Owned, Live, Unmarked
  <2>4. UNION {Owned(im, i) : i \in Inums} = UNION {Owned(im, i) : i \in Live}
    BY <2>2, Zenon DEF Live
  <2>5. BitmapExact
    BY <2>1, <2>4, Zenon DEF BitmapExact, BlocksSane, Owned
  <2> QED
    BY <2>3, <2>5, Zenon DEF BlocksOwned
<1> QED
  BY <1>1, SaneHolds, PTL

-----------------------------------------------------------------------------
(* What it promises.                                                       *)

File(fs, i) == [type |-> get_inode(fs, i).type, data |-> read_file(fs, i)]
Files(fs)   == [i \in Inums |-> File(fs, i)]

\* A free inode is an absent file, and no other is.
LEMMA AbsentIs ==
    ASSUME NEW fs, Sane(fs), NEW i \in Inums
    PROVE  Files(fs)[i] = Store!Absent <=> ~ Exists(fs, i)
<1>1. Files(fs)[i] = File(fs, i)
  BY Zenon DEF Files
<1>2. ~ Exists(fs, i) => File(fs, i) = Store!Absent
  BY Zenon DEF Exists, read_file, File, Store!Absent
<1>3. File(fs, i) = Store!Absent => get_inode(fs, i).type = 0
  <2>1. File(fs, i).type = get_inode(fs, i).type
    BY Zenon DEF File
  <2>2. Store!Absent.type = 0
    BY Zenon DEF Store!Absent
  <2> QED
    BY <2>1, <2>2, Zenon
<1> QED
  BY <1>1, <1>2, <1>3, Zenon DEF Exists

\* A step that changes one file changes one entry of the map.
LEMMA FilesAfter ==
    ASSUME NEW fs, Sane(fs), NEW gs \in Manager, NEW i \in Inums, Leaves(fs, gs, i)
    PROVE  Files(gs) = [Files(fs) EXCEPT ![i] = File(gs, i)]
<1>1. \A j \in Inums \ {i} : File(gs, j) = File(fs, j)
  BY OthersSame, Zenon DEF File
<1>2. Files(fs) = [j \in Inums |-> File(fs, j)] /\ Files(gs) = [j \in Inums |-> File(gs, j)]
  BY Zenon DEF Files
<1>3. [Files(fs) EXCEPT ![i] = File(gs, i)] = [j \in Inums |-> IF j = i THEN File(gs, i) ELSE File(fs, j)]
  BY <1>2, Zenon
<1> QED
  BY <1>1, <1>2, <1>3, Zenon

LEMMA CreateStores ==
    ASSUME Sane(im), NEW type \in Types, create(type)
    PROVE  Store!create(type)
<1> DEFINE i == NewInum(im)
<1>1. type \in Nat \ {0} /\ Cardinality(LiveIn(im)) < MaxFiles /\ im' = alloc_inode(im, type)
      /\ reply' = <<"create", i>> /\ UNCHANGED alive
  BY IdsAssumption, Zenon DEF create, Live, LiveIn
<1>2. /\ i \in Inums /\ ~ Exists(im, i)
      /\ Sane(im') /\ Leaves(im, im', i)
      /\ get_inode(im', i).type = type /\ get_inode(im', i).size = 0
  BY <1>1, AllocInodeIs, Zenon
<1> HIDE DEF i
<1>3. read_file(im', i) = <<>>
  BY <1>2, ReadLength, Zenon DEF Sane
<1>4. Files(im') = [Files(im) EXCEPT ![i] = [type |-> type, data |-> <<>>]]
  <2>1. File(im', i) = [type |-> type, data |-> <<>>]
    BY <1>2, <1>3, Zenon DEF File
  <2>2. im' \in Manager
    BY <1>2, Zenon DEF Sane
  <2>3. Files(im') = [Files(im) EXCEPT ![i] = File(im', i)]
    BY <1>2, <2>2, FilesAfter
  <2> QED
    BY <2>1, <2>3, Zenon
<1>5. Files(im)[i] = Store!Absent
  BY <1>2, AbsentIs, Zenon
<1> QED
  BY <1>1, <1>2, <1>4, <1>5, Zenon DEF Store!create, Files, File

\* The file that an id names.
LEMMA ExtentIs ==
    ASSUME Sane(im), NEW id \in Ids
    PROVE  /\ Exists(im, id % IdSpace) <=> Store!Extent(id) # Store!Absent
           /\ Store!Extent(id).data = read_file(im, id % IdSpace)
           /\ Store!Extent(id).type = attr(im, id % IdSpace).type
           /\ Len(Store!Extent(id).data) = attr(im, id % IdSpace).size
<1> DEFINE x == id % IdSpace
<1>1. Exists(im, x) => x \in Inums
  BY IdIs, Zenon
<1>2. CASE x \in Inums
  <2>1. Store!Extent(id) = File(im, x) /\ Files(im)[x] = File(im, x)
    BY <1>2, Zenon DEF Store!Extent, File, Files
  <2>2. Exists(im, x) <=> File(im, x) # Store!Absent
    BY <1>2, <2>1, AbsentIs, Zenon
  <2>3. File(im, x).data = read_file(im, x) /\ File(im, x).type = get_inode(im, x).type
    BY Zenon DEF File
  <2>4. Len(read_file(im, x)) = get_inode(im, x).size
    BY <1>2, ReadLength, Zenon DEF Sane
  <2>5. attr(im, x).type = get_inode(im, x).type /\ attr(im, x).size = get_inode(im, x).size
    BY Zenon DEF attr
  <2> QED
    BY <2>1, <2>2, <2>3, <2>4, <2>5, Zenon
<1>3. CASE x \notin Inums
  <2>1. Store!Extent(id) = Store!Absent
    BY <1>3, Zenon DEF Store!Extent
  <2>2. Store!Absent.type = 0 /\ Store!Absent.data = <<>>
    BY Zenon DEF Store!Absent
  <2>3. ~ Exists(im, x) /\ read_file(im, x) = <<>>
    BY <1>1, <1>3, Zenon DEF read_file
  <2>4. attr(im, x) = [type |-> 0, size |-> 0]
    BY <1>3, IdIs, Zenon
  <2>5. attr(im, x).type = 0 /\ attr(im, x).size = 0
    BY <2>4
  <2>6. Len(<<>>) = 0
    OBVIOUS
  <2> QED
    BY <2>1, <2>2, <2>3, <2>5, <2>6, Zenon
<1> QED
  BY <1>2, <1>3, Zenon

LEMMA PutStores ==
    ASSUME Sane(im), NEW id \in Ids, NEW n \in Sizes, NEW junk \in Junk,
           put(id, Content(id, n), junk)
    PROVE  Store!put(id, Content(id, n))
<1> DEFINE x == id % IdSpace
           c == Content(id, n)
<1>1. x \in LiveIn(im) /\ x \in Inums /\ im' = write_file(im, x, c, junk) /\ reply' = <<"put", id>>
      /\ UNCHANGED alive /\ Store!Extent(id) # Store!Absent
  BY IdIs, ExtentIs, Zenon DEF put
<1>2. c \in Seq(Nat) /\ Len(c) \in Sizes /\ junk \in Nat
  BY ContentIs, IdsAssumption, Zenon
<1> HIDE DEF c
<1>3. /\ Sane(im') /\ Leaves(im, im', x)
      /\ get_inode(im', x).type = get_inode(im, x).type
      /\ read_file(im', x) = c
  BY <1>1, <1>2, WriteIs, Zenon
<1>4. Files(im') = [Files(im) EXCEPT ![x] = File(im', x)]
  <2>1. im' \in Manager
    BY <1>3, Zenon DEF Sane
  <2> QED
    BY <1>1, <1>3, <2>1, FilesAfter, Zenon
<1>5. File(im', x) = [File(im, x) EXCEPT !.data = c]
  <2>1. File(im', x) = [type |-> get_inode(im, x).type, data |-> c]
    BY <1>3, Zenon DEF File
  <2> QED
    BY <2>1 DEF File
<1>6. Files(im)[x] = File(im, x)
  BY <1>1, Zenon DEF Files
<1>7. Files(im') = [Files(im) EXCEPT ![x].data = c]
  BY <1>4, <1>5, <1>6, Zenon
<1> QED
  BY <1>1, <1>7, Zenon DEF Store!put, Files, File, c

LEMMA RemoveStores ==
    ASSUME Sane(im), NEW id \in Ids, remove(id)
    PROVE  Store!remove(id)
<1> DEFINE x == id % IdSpace
<1>1. im' = remove_file(im, x) /\ reply' = <<"remove", id>> /\ UNCHANGED alive
  BY Zenon DEF remove
<1> DEFINE After == [i \in Inums |-> IF i = x THEN Store!Absent ELSE Files(im)[i]]
<1>2. Files(im') = After
  <2>1. CASE Exists(im, x)
    <3>1. x \in Inums
      BY <2>1, IdIs, Zenon
    <3>2. Sane(im') /\ Leaves(im, im', x) /\ get_inode(im', x) = NULL
      BY <1>1, <2>1, <3>1, RemoveIs, Zenon
    <3>3. ~ Exists(im', x) /\ im' \in Manager
      BY <3>2, NullIs, Zenon DEF Exists, Sane
    <3>4. Files(im')[x] = Store!Absent
      BY <3>1, <3>2, <3>3, AbsentIs, Zenon
    <3>5. Files(im') = [Files(im) EXCEPT ![x] = File(im', x)]
      BY <3>1, <3>2, <3>3, FilesAfter
    <3>6. Files(im')[x] = File(im', x)
      BY <3>1, Zenon DEF Files
    <3>7. DOMAIN Files(im) = Inums /\ Files(im) = [i \in Inums |-> Files(im)[i]]
      BY Zenon DEF Files
    <3>8. [Files(im) EXCEPT ![x] = Store!Absent] = After
      BY <3>7, Zenon
    <3> QED
      BY <3>4, <3>5, <3>6, <3>8, Zenon
  <2>2. CASE ~ Exists(im, x)
    <3>1. im' = im
      BY <1>1, <2>2, Zenon DEF remove_file
    <3>2. x \in Inums => Files(im)[x] = Store!Absent
      BY <2>2, AbsentIs, Zenon
    <3>3. Files(im) = [i \in Inums |-> Files(im)[i]]
      BY Zenon DEF Files
    <3>4. \A i \in Inums : Files(im)[i] = IF i = x THEN Store!Absent ELSE Files(im)[i]
      BY <3>2, Zenon
    <3>5. Files(im) = After
      BY <3>3, <3>4, Zenon
    <3> QED
      BY <3>1, <3>5, Zenon
  <2> QED
    BY <2>1, <2>2, Zenon
<1> QED
  BY <1>1, <1>2, Zenon DEF Store!remove, Files, File

\* What get reads is the extent, and the time of access that it writes is no
\* part of it.
LEMMA ReadsStore ==
    ASSUME Sane(im), NEW id \in Ids
    PROVE  /\ get(id) => Store!get(id)
           /\ getattr(id) => Store!getattr(id)
           /\ put_crashes(id) => \A data : Store!put(id, data)
<1>1. touch_inode(im, id % IdSpace) = im
  BY TouchIs, Zenon DEF Sane
<1>2. get(id) => Store!get(id)
  BY <1>1, ExtentIs, Zenon DEF get, Store!get
<1>3. getattr(id) => Store!getattr(id)
  BY ExtentIs, Zenon DEF getattr, Store!getattr
<1>4. put_crashes(id) => \A data : Store!put(id, data)
  BY ExtentIs, Zenon DEF put_crashes, Store!put
<1> QED
  BY <1>2, <1>3, <1>4, Zenon

LEMMA InitStores == Init => Store!Init
<1> SUFFICES ASSUME Init PROVE Store!Init
  OBVIOUS
<1> DEFINE fs == [used |-> Reserved, disk |-> [b \in BlockNums |-> ZeroBlock]]
           i == NewInum(fs)
<1>1. Sane(fs) /\ LiveIn(fs) = {}
  BY BlankIs, Zenon
<1>2. Cardinality(LiveIn(fs)) < MaxFiles /\ T_DIR \in Nat \ {0} /\ T_DIR = 1
  BY <1>1, RootFits, Zenon
<1>3. im = alloc_inode(fs, T_DIR) /\ alive = TRUE /\ reply = <<>>
  BY Zenon DEF Init, format
<1> HIDE DEF fs
<1>4. /\ i \in Inums /\ Sane(im) /\ Leaves(fs, im, i)
      /\ get_inode(im, i).type = 1 /\ get_inode(im, i).size = 0
  BY <1>1, <1>2, <1>3, AllocInodeIs, Zenon
<1> HIDE DEF i
<1>5. File(im, i) = [type |-> 1, data |-> <<>>]
  BY <1>4, ReadLength, Zenon DEF File, Sane
<1>6. \A j \in Inums \ {i} : File(im, j) = Store!Absent
  <2> SUFFICES ASSUME NEW j \in Inums \ {i} PROVE File(im, j) = Store!Absent
    OBVIOUS
  <2>1. ~ Exists(fs, j)
    BY <1>1, Zenon DEF LiveIn
  <2>2. File(fs, j) = Store!Absent
    BY <1>1, <2>1, AbsentIs, Zenon DEF Files
  <2>3. im \in Manager
    BY <1>4, Zenon DEF Sane
  <2>4. File(im, j) = File(fs, j)
    BY <1>1, <1>4, <2>3, OthersSame, Zenon DEF File
  <2> QED
    BY <2>2, <2>4, Zenon
<1>7. Files(im) = [j \in Inums |-> IF j = i THEN [type |-> 1, data |-> <<>>] ELSE Store!Absent]
  BY <1>5, <1>6, Zenon DEF Files
<1> QED
  BY <1>3, <1>4, <1>7, Zenon DEF Store!Init, Files, File

LEMMA NextStores == Sane(im) /\ [Next]_vars => [Store!Next]_Store!vars
<1> SUFFICES ASSUME Sane(im), [Next]_vars PROVE Store!Next \/ UNCHANGED Store!vars
  BY Zenon
<1>1. CASE UNCHANGED vars
  BY <1>1, Zenon DEF vars, Store!vars
<1>2. ASSUME NEW type \in Types, create(type) PROVE Store!Next
  <2>1. Store!create(type) /\ alive
    BY <1>2, CreateStores, Zenon DEF create
  <2> QED
    BY <2>1, Zenon DEF Store!Next
<1>3. ASSUME NEW id \in Ids, NEW n \in Sizes, NEW junk \in Junk, put(id, Content(id, n), junk)
      PROVE  Store!Next
  <2>1. Store!put(id, Content(id, n)) /\ alive /\ Content(id, n) \in Data
    BY <1>3, PutStores, ContentIs, Zenon DEF put
  <2> QED
    BY <2>1, Zenon DEF Store!Next
<1>4. ASSUME NEW id \in Ids, remove(id) PROVE Store!Next
  <2>1. Store!remove(id) /\ alive
    BY <1>4, RemoveStores, Zenon DEF remove
  <2> QED
    BY <2>1, Zenon DEF Store!Next
<1>5. ASSUME NEW id \in Ids, get(id) PROVE Store!Next
  <2>1. Store!get(id) /\ alive
    BY <1>5, ReadsStore, Zenon DEF get
  <2> QED
    BY <2>1, Zenon DEF Store!Next
<1>6. ASSUME NEW id \in Ids, getattr(id) PROVE Store!Next
  <2>1. Store!getattr(id) /\ alive
    BY <1>6, ReadsStore, Zenon DEF getattr
  <2> QED
    BY <2>1, Zenon DEF Store!Next
<1>7. ASSUME NEW id \in Ids, put_crashes(id) PROVE Store!Next
  <2>1. PICK n \in Sizes : TRUE
    BY SizesAssumption, Zenon
  <2>2. Store!put(id, Content(id, n)) /\ alive /\ Content(id, n) \in Data
    BY <1>7, ReadsStore, ContentIs, Zenon DEF put_crashes
  <2> QED
    BY <2>2, Zenon DEF Store!Next
<1> QED
  BY <1>1, <1>2, <1>3, <1>4, <1>5, <1>6, <1>7, Zenon DEF Next

\* The bitmap, the inode table and the index blocks implement a map from inums
\* to contents: write_file frees, allocates and indexes blocks, remove_file frees
\* them, and still every get answers what was put last and no other extent is
\* touched, on disks and for files of every size that fits.
THEOREM StoreImplemented == Spec => ImplementsExtentStore
<1>1. Init => Store!Init
  BY InitStores, Zenon
<1>2. Inv /\ [Next]_vars => [Store!Next]_Store!vars
  BY NextStores, Zenon DEF Inv
<1> QED
  BY <1>1, <1>2, SaneHolds, PTL DEF Spec, ImplementsExtentStore, Store!Spec

=============================================================================
