------------------------ MODULE ExtentThreadsProofs ------------------------
(***************************************************************************)
(* The RPCs of the extent server side by side, for any number of threads,  *)
(* inums and blocks: as long as no two RPCs have raced, a create, a put or *)
(* a remove, and gets of other inums run side by side, and none of them    *)
(* undoes what another one did.                                            *)
(***************************************************************************)
EXTENDS PartThreads, SequenceTheorems, TLAPS

Inode == [type : 0 .. 2, blocks : Seq(Blocks)]
Words == Seq(Nat)
Ops   == {"none", "create", "put", "get", "remove"}
PCs   == {"idle", "scan", "claim", "get_inode", "free_read", "free_write", "alloc_read",
          "alloc_write", "write", "read", "free_inode", "put_read", "put_write"}
Local == [op : Ops, inum : Side!Inums, pc : PCs, ino : Inode, k : Nat, n : Nat,
          bits : SUBSET Blocks, inos : [Side!Inums -> Inode], seen : Seq(Words)]

Types ==
    /\ inodes \in [Side!Inums -> Inode]
    /\ used \in SUBSET Blocks
    /\ disk \in [Blocks -> Words]
    /\ th \in [Threads -> Local]
    /\ file \in [Side!Inums -> Seq(Words)]
    /\ grants \in [Side!Inums -> Nat]

Rewrites == {"put", "remove"}
Uses    == {"put", "get", "remove"}

\* The blocks that an inode has.
Held(ino) == {ino.blocks[j] : j \in DOMAIN ino.blocks}

\* Where each RPC can be.
PlacesOf(o) ==
    CASE o = "none"   -> {"idle"}
      [] o = "create" -> {"scan", "claim"}
      [] o = "get"    -> {"get_inode", "read", "put_read", "put_write"}
      [] o = "put"    -> {"get_inode", "free_read", "free_write", "alloc_read", "alloc_write",
                          "write", "put_read", "put_write"}
      [] o = "remove" -> {"get_inode", "free_read", "free_write", "free_inode",
                          "put_read", "put_write"}

Places == \A t \in Threads : th[t].pc \in PlacesOf(th[t].op)

\* An inum was answered once if there is a file, and else not at all.
GrantOf(ino, g) == /\ ino.type = 0 => ino = Side!Free
                   /\ ino = Side!Free => g = 0
                   /\ ino # Side!Free => g = 1
GrantedOnce == \A i \in Side!Inums : GrantOf(inodes[i], grants[i])

\* There is one create at a time, one put or remove at a time, and one RPC at a time
\* that uses an inum, which exists.
OneCreate == \A t, u \in Threads : th[t].op = "create" /\ th[u].op = "create" => t = u
OneWrite  == \A t, u \in Threads : th[t].op \in Rewrites /\ th[u].op \in Rewrites => t = u
OneUse    == \A t, u \in Threads :
                th[t].op \in Uses /\ th[u].op \in Uses /\ th[t].inum = th[u].inum => t = u
UsesLive  == \A t \in Threads : th[t].op \in Uses => inodes[th[t].inum] # Side!Free

\* The inode that a create has found is still free.
CreateOf(r, tab) == r.op = "create" /\ r.pc = "claim" => tab[r.inum] = Side!Free /\ r.ino = Side!Free
Creates == \A t \in Threads : CreateOf(th[t], inodes)

\* A get past get_inode has the inode, and has read the first k blocks of the file.
GetOf(r, tab, f) ==
    r.op = "get" =>
        /\ Len(r.seen) = r.k
        /\ r.pc = "get_inode" => r.k = 0
        /\ r.pc # "get_inode" =>
            /\ r.ino = tab[r.inum]
            /\ r.k <= Len(r.ino.blocks)
            /\ r.pc = "read" => r.k < Len(r.ino.blocks)
            /\ r.pc # "read" => r.k = Len(r.ino.blocks)
        /\ \A j \in 1 .. r.k : r.seen[j] = f[r.inum][j]
Gets == \A t \in Threads : GetOf(th[t], inodes, file)

\* A put or a remove that frees blocks has the inode that the table has,
FreeOf(r, tab) ==
    /\ r.op \in {"put", "remove"} /\ r.pc = "get_inode" => r.k = 0
    /\ r.pc \in {"free_read", "free_write"} => r.ino = tab[r.inum]
    /\ r.pc = "free_read" => r.k < Len(r.ino.blocks)
    /\ r.pc = "free_write" => r.k \in 1 .. Len(r.ino.blocks)
    /\ r.op = "remove" /\ r.pc \in {"put_read", "put_write"} => r.ino = Side!Free
Frees == \A t \in Threads : FreeOf(th[t], inodes)

\* its copy of the bitmap has the blocks of the other files,
BitsOf(r, tab) ==
    r.pc \in {"free_write", "alloc_write"} =>
        \A i \in Side!Inums \ {r.inum} : Held(tab[i]) \subseteq r.bits
BitsKeep == \A t \in Threads : BitsOf(th[t], inodes)

\* and a put has allocated blocks that are of no other file, and marked them.
Allocates == {"alloc_read", "alloc_write", "write"}
AllocOf(r, tab, u) ==
    r.op = "put" /\ r.pc \in Allocates \cup {"put_read", "put_write"} =>
        /\ r.ino.type # 0
        /\ \A i \in Side!Inums \ {r.inum} : Held(tab[i]) \cap Held(r.ino) = {}
        /\ IF r.pc = "alloc_write" THEN Held(r.ino) \subseteq r.bits ELSE Held(r.ino) \subseteq u
        /\ \A j, l \in 1 .. Len(r.ino.blocks) : r.ino.blocks[j] = r.ino.blocks[l] => j = l
        /\ r.pc = "alloc_read" => r.k = 0 /\ Len(r.ino.blocks) < r.n
        /\ r.pc = "alloc_write" => r.k = 0 /\ Len(r.ino.blocks) \in 1 .. r.n
        /\ r.pc = "write" => r.k < r.n
        /\ r.pc \in {"write", "put_read", "put_write"} => Len(r.ino.blocks) = r.n
        /\ r.pc \in {"put_read", "put_write"} => r.k = r.n
Allocs == \A t \in Threads : AllocOf(th[t], inodes, used)

\* A put has written the first k blocks.
WriteOf(r, d) ==
    r.op = "put" /\ r.pc \in Allocates \cup {"put_read", "put_write"} =>
        \A j \in 1 .. r.k : d[r.ino.blocks[j]] = Side!Content(r.inum, r.n)[j]
Writes == \A t \in Threads : WriteOf(th[t], disk)

\* No two files share a block.  A file that nobody writes has its blocks marked,
\* and they hold what was last put.
Disjoint == \A i, j \in Side!Inums : i # j => Held(inodes[i]) \cap Held(inodes[j]) = {}
Marked   == \A i \in Side!Inums : ~ Side!Writing(i) => Held(inodes[i]) \subseteq used
Contents ==
    \A i \in Side!Inums : inodes[i] # Side!Free /\ ~ Side!Writing(i) =>
        /\ Len(file[i]) = Len(inodes[i].blocks)
        /\ \A j \in 1 .. Len(file[i]) : disk[inodes[i].blocks[j]] = file[i][j]

Inv ==
    /\ Types /\ Places /\ GrantedOnce
    /\ OneCreate /\ OneWrite /\ OneUse /\ UsesLive
    /\ Creates /\ Gets /\ Frees /\ BitsKeep /\ Allocs /\ Writes
    /\ Disjoint /\ Marked /\ Contents

-----------------------------------------------------------------------------

\* A step of t gives it the locals r.
Moves(t, r) ==
    /\ th' \in [Threads -> Local]
    /\ th'[t] = r
    /\ \A u \in Threads \ {t} : th'[u] = th[u]

LEMMA GoesMoves ==
    ASSUME Types, NEW t \in Threads, NEW r \in Local, th' = [th EXCEPT ![t] = r]
    PROVE  Moves(t, r)
BY Zenon DEF Types, Moves

\* A thread that has nothing to do.
LEMMA IdleLocal == \E r \in Local : r = Side!Idle /\ r.op = "none" /\ r.pc = "idle"
<1>1. 1 \in Side!Inums
  BY DiskAssumption DEF Side!Inums
<1>2. Side!Free \in Inode
  BY DEF Side!Free, Inode
<1>3. Side!Idle \in Local
  BY <1>1, <1>2 DEF Side!Idle, Local, Ops, PCs, Words
<1>4. Side!Idle.op = "none" /\ Side!Idle.pc = "idle"
  BY Zenon DEF Side!Idle
<1> QED
  BY <1>3, <1>4, Zenon

\* What must hold of the locals of a thread.
Sound(r) ==
    /\ r.pc \in PlacesOf(r.op)
    /\ CreateOf(r, inodes) /\ GetOf(r, inodes, file) /\ FreeOf(r, inodes)
    /\ BitsOf(r, inodes) /\ AllocOf(r, inodes, used) /\ WriteOf(r, disk)

\* What must hold of a thread t with locals r, and the other threads.
Alone(t, r) ==
    /\ r.op = "create" => \A u \in Threads \ {t} : th[u].op # "create"
    /\ r.op \in Rewrites => \A u \in Threads \ {t} : th[u].op \notin Rewrites
    /\ r.op \in Uses => \A u \in Threads \ {t} : th[u].op \in Uses => th[u].inum # r.inum
    /\ r.op \in Uses => inodes[r.inum] # Side!Free

\* A file that t writes is still being written.
StillWrites(t, r) ==
    th[t].op \in {"put", "remove"} => r.op \in {"put", "remove"} /\ r.inum = th[t].inum

LEMMA StillWriting ==
    ASSUME NEW t \in Threads, NEW r \in Local, Moves(t, r), StillWrites(t, r),
           NEW i \in Side!Inums
    PROVE  Side!Writing(i) => Side!Writing(i)'
BY Zenon DEF Moves, StillWrites, Side!Writing

\* A step that only changes the locals of its thread.
LEMMA LocalStep ==
    ASSUME Inv, NEW t \in Threads, NEW r \in Local, Moves(t, r),
           UNCHANGED <<inodes, used, disk, file, grants>>,
           Sound(r), Alone(t, r), StillWrites(t, r)
    PROVE  Inv'
<1>1. Types'
  BY Zenon DEF Inv, Types, Moves
<1>2. Places'
  BY Zenon DEF Inv, Places, Moves, Sound
<1>3. GrantedOnce'
  BY Zenon DEF Inv, GrantedOnce
<1>4. OneCreate' /\ OneWrite'
  BY Zenon DEF Inv, OneCreate, OneWrite, Moves, Alone
<1>5. OneUse'
  BY Zenon DEF Inv, OneUse, Moves, Alone
<1>6. UsesLive'
  BY Zenon DEF Inv, UsesLive, Moves, Alone
<1>7. Creates'
  BY Zenon DEF Inv, Creates, Moves, Sound
<1>8. Gets'
  BY Zenon DEF Inv, Gets, Moves, Sound
<1>9. Frees'
  BY Zenon DEF Inv, Frees, Moves, Sound
<1>10. BitsKeep'
  BY Zenon DEF Inv, BitsKeep, Moves, Sound
<1>11. Allocs'
  BY Zenon DEF Inv, Allocs, Moves, Sound
<1>12. Writes'
  BY Zenon DEF Inv, Writes, Moves, Sound
<1>13. Disjoint'
  BY Zenon DEF Inv, Disjoint
<1>14. Marked'
  BY StillWriting, Zenon DEF Inv, Marked
<1>15. Contents'
  BY StillWriting, Zenon DEF Inv, Contents
<1> QED
  BY <1>1, <1>2, <1>3, <1>4, <1>5, <1>6, <1>7, <1>8, <1>9, <1>10, <1>11, <1>12, <1>13, <1>14,
     <1>15, Zenon DEF Inv

\* The RPC that a place belongs to.
LEMMA PlaceOps ==
    ASSUME NEW r \in Local, r.pc \in PlacesOf(r.op)
    PROVE  /\ r.pc \in {"scan", "claim"} => r.op = "create"
           /\ r.pc = "get_inode" => r.op \in Uses
           /\ r.pc \in {"free_read", "free_write"} => r.op \in {"put", "remove"}
           /\ r.pc \in Allocates => r.op = "put"
           /\ r.pc = "read" => r.op = "get"
           /\ r.pc = "free_inode" => r.op = "remove"
           /\ r.pc \in {"put_read", "put_write"} => r.op \in Uses
           /\ r.op = "none" => r.pc = "idle"
<1>1. r.op \in Ops
  BY Zenon DEF Local
<1>2. CASE r.op = "none"
  BY <1>2, Zenon DEF PlacesOf, Uses, Allocates
<1>3. CASE r.op = "create"
  BY <1>3, Zenon DEF PlacesOf, Uses, Allocates
<1>4. CASE r.op = "get"
  BY <1>4, Zenon DEF PlacesOf, Uses, Allocates
<1>5. CASE r.op = "put"
  BY <1>5, Zenon DEF PlacesOf, Uses, Allocates
<1>6. CASE r.op = "remove"
  BY <1>6, Zenon DEF PlacesOf, Uses, Allocates
<1> QED
  BY <1>1, <1>2, <1>3, <1>4, <1>5, <1>6, Zenon DEF Ops

\* The threads beside a put or a remove.
LEMMA OthersElsewhere ==
    ASSUME Inv, NEW t \in Threads, th[t].op \in Rewrites, NEW u \in Threads \ {t}
    PROVE  /\ th[u].op \in {"none", "create", "get"}
           /\ th[u].pc \notin {"free_read", "free_write"} \cup Allocates
<1>1. th[u] \in Local /\ th[u].pc \in PlacesOf(th[u].op) /\ th[u].op \notin Rewrites
  BY Zenon DEF Inv, Types, Places, OneWrite
<1>2. th[u].op \in {"none", "create", "get"}
  BY <1>1, Zenon DEF Local, Ops, Rewrites
<1> QED
  BY <1>1, <1>2, PlaceOps, Zenon DEF Allocates

\* A step that writes the bitmap or a block.
LEMMA DiskStep ==
    ASSUME Inv, NEW t \in Threads, NEW r \in Local, Moves(t, r),
           UNCHANGED <<inodes, file, grants>>,
           used' \in SUBSET Blocks, disk' \in [Blocks -> Words],
           th[t].op \in {"put", "remove"}, r.op = th[t].op, r.inum = th[t].inum,
           r.pc \in PlacesOf(r.op), FreeOf(r, inodes), BitsOf(r, inodes),
           AllocOf(r, inodes, used'), WriteOf(r, disk'),
           \A i \in Side!Inums : i # r.inum => Held(inodes[i]) \subseteq used',
           \A b \in Blocks : (\A i \in Side!Inums : i # r.inum => b \notin Held(inodes[i]))
                              \/ disk'[b] = disk[b]
    PROVE  Inv'
<1> DEFINE others == \A u \in Threads \ {t} :
              /\ th'[u] = th[u] /\ th[u].op \in {"none", "create", "get"}
              /\ th[u].pc \notin {"free_read", "free_write"} \cup Allocates
<1>0. others /\ th'[t] = r /\ r.op \in {"put", "remove"}
  BY OthersElsewhere, Zenon DEF Moves, Rewrites
<1>1. Types'
  BY Zenon DEF Inv, Types, Moves
<1>2. Places'
  BY Zenon DEF Inv, Places, Moves
<1>3. GrantedOnce'
  BY Zenon DEF Inv, GrantedOnce
<1>a. \A u \in Threads : th'[u].op = th[u].op /\ th'[u].inum = th[u].inum
  BY <1>0, Zenon
<1>4. OneCreate' /\ OneWrite'
  BY <1>a, Zenon DEF Inv, OneCreate, OneWrite
<1>5. OneUse'
  BY <1>a, Zenon DEF Inv, OneUse
<1>6. UsesLive'
  BY <1>a, Zenon DEF Inv, UsesLive
<1>7. Creates'
  BY <1>0, Zenon DEF Inv, Creates, CreateOf
<1>8. Gets'
  <2>1. GetOf(r, inodes, file)
    BY <1>0, Zenon DEF GetOf
  <2> QED
    BY <1>0, <2>1, Zenon DEF Inv, Gets
<1>9. Frees'
  BY <1>0, Zenon DEF Inv, Frees
<1>10. BitsKeep'
  BY <1>0, Zenon DEF Inv, BitsKeep
<1>11. Allocs'
  <2>1. \A u \in Threads \ {t} : AllocOf(th[u], inodes, used')
    BY <1>0, Zenon DEF AllocOf
  <2> QED
    BY <1>0, <2>1, Zenon DEF Allocs
<1>12. Writes'
  <2>1. \A u \in Threads \ {t} : WriteOf(th[u], disk')
    BY <1>0, Zenon DEF WriteOf
  <2> QED
    BY <1>0, <2>1, Zenon DEF Writes
<1>13. Disjoint'
  BY Zenon DEF Inv, Disjoint
<1>14. \A i \in Side!Inums : Side!Writing(i)' <=> i = r.inum
  BY <1>0, Zenon DEF Side!Writing
<1>15. Marked'
  BY <1>14, Zenon DEF Marked
<1>16. Contents'
  <2>1. SUFFICES ASSUME NEW i \in Side!Inums, inodes[i] # Side!Free, i # r.inum
                 PROVE  /\ Len(file[i]) = Len(inodes[i].blocks)
                        /\ \A j \in 1 .. Len(file[i]) : disk'[inodes[i].blocks[j]] = file[i][j]
    BY <1>14, Zenon DEF Contents
  <2>2. ~ Side!Writing(i)
    BY <1>0, <2>1, Zenon DEF Side!Writing
  <2>3. /\ Len(file[i]) = Len(inodes[i].blocks)
        /\ \A j \in 1 .. Len(file[i]) : disk[inodes[i].blocks[j]] = file[i][j]
    BY <2>1, <2>2, Zenon DEF Inv, Contents
  <2>4. \A j \in 1 .. Len(inodes[i].blocks) : /\ inodes[i].blocks[j] \in Held(inodes[i])
                                             /\ inodes[i].blocks[j] \in Blocks
    <3>1. inodes[i].blocks \in Seq(Blocks)
      BY Zenon DEF Inv, Types, Inode
    <3> QED
      BY <3>1 DEF Held
  <2> QED
    BY <2>1, <2>3, <2>4, Zenon
<1> QED
  BY <1>1, <1>2, <1>3, <1>4, <1>5, <1>6, <1>7, <1>8, <1>9, <1>10, <1>11, <1>12, <1>13, <1>15,
     <1>16, Zenon DEF Inv

\* The types of a thread's locals.
LEMMA InvTypes ==
    ASSUME Inv, NEW t \in Threads
    PROVE  /\ th[t] \in Local /\ th[t].op \in Ops /\ th[t].pc \in PCs /\ th[t].inum \in Side!Inums
           /\ th[t].ino \in Inode /\ th[t].k \in Nat /\ th[t].n \in Nat /\ th[t].bits \in SUBSET Blocks
           /\ th[t].inos \in [Side!Inums -> Inode] /\ th[t].seen \in Seq(Words)
           /\ th[t].pc \in PlacesOf(th[t].op)
           /\ \A i \in Side!Inums : inodes[i] \in Inode /\ inodes[i].blocks \in Seq(Blocks)
           /\ th[t].ino.blocks \in Seq(Blocks)
           /\ Types
<1>1. th[t] \in Local /\ th[t].pc \in PlacesOf(th[t].op) /\ \A i \in Side!Inums : inodes[i] \in Inode
  BY Zenon DEF Inv, Types, Places
<1>2. \A x \in Inode : x.blocks \in Seq(Blocks)
  BY Zenon DEF Inode
<1>3. /\ th[t].op \in Ops /\ th[t].pc \in PCs /\ th[t].inum \in Side!Inums
      /\ th[t].ino \in Inode /\ th[t].k \in Nat /\ th[t].n \in Nat /\ th[t].bits \in SUBSET Blocks
      /\ th[t].inos \in [Side!Inums -> Inode] /\ th[t].seen \in Seq(Words)
  BY <1>1, Zenon DEF Local
<1> QED
  BY <1>1, <1>2, <1>3, Zenon DEF Inv

\* The inode i that t writes at the end of a create, a put or a remove, and which
\* no other thread uses or creates; beside a put or a remove it is empty,
Ends(t, i) ==
    /\ th[t].inum = i
    /\ \A u \in Threads \ {t} : th[u].op \in Uses => th[u].inum # i
    /\ \A u \in Threads \ {t} : th[u].pc = "claim" => th[u].inum # i
    /\ Held(inodes'[i]) = {} \/ \A u \in Threads \ {t} : th[u].op \notin Rewrites

\* its file, which holds the data in its blocks,
Stored(y, f) == y # Side!Free => /\ Len(f) = Len(y.blocks)
                                 /\ \A j \in 1 .. Len(f) : disk[y.blocks[j]] = f[j]

\* and the rest of the table.
Table(i) ==
    /\ inodes' \in [Side!Inums -> Inode]
    /\ file' \in [Side!Inums -> Seq(Words)]
    /\ grants' \in [Side!Inums -> Nat]
    /\ \A j \in Side!Inums \ {i} : inodes'[j] = inodes[j] /\ file'[j] = file[j] /\ grants'[j] = grants[j]
    /\ GrantOf(inodes'[i], grants'[i])
    /\ \A j \in Side!Inums \ {i} : Held(inodes[j]) \cap Held(inodes'[i]) = {}
    /\ Held(inodes'[i]) \subseteq used
    /\ Stored(inodes'[i], file'[i])

\* A step that writes an inode.
LEMMA TableStep ==
    ASSUME Inv, NEW t \in Threads, NEW i \in Side!Inums, Side!Returns(t),
           UNCHANGED <<used, disk>>, Ends(t, i), Table(i)
    PROVE  Inv'
<1>0. PICK r \in Local : r = Side!Idle /\ r.op = "none" /\ r.pc = "idle"
  BY IdleLocal, Zenon
<1>1. Moves(t, r)
  BY <1>0, GoesMoves, Zenon DEF Inv, Side!Returns
<1>2. \A u \in Threads \ {t} :
          /\ th'[u] = th[u] /\ th[u].inum \in Side!Inums
          /\ th[u].op \in Uses \/ th[u].pc = "claim" =>
                /\ inodes'[th[u].inum] = inodes[th[u].inum]
                /\ file'[th[u].inum] = file[th[u].inum]
  <2>1. \A u \in Threads : th[u].inum \in Side!Inums
    BY InvTypes, Zenon
  <2> QED
    BY <1>1, <2>1, Zenon DEF Moves, Ends, Table
<1>3. \A u \in Threads \ {t} :
          /\ th[u].pc \in {"free_read", "free_write"} => th[u].op \in Uses
          /\ th[u].op = "get" => th[u].op \in Uses
          /\ th[u].op \in Rewrites \/ th[u].pc \in {"free_write", "alloc_write"} => Held(inodes'[i]) = {}
  <2>1. \A u \in Threads : th[u] \in Local /\ th[u].pc \in PlacesOf(th[u].op)
    BY InvTypes, Zenon
  <2>2. \A u \in Threads : /\ th[u].pc \in {"free_read", "free_write"} => th[u].op \in Uses
                           /\ th[u].pc \in {"free_write", "alloc_write"} => th[u].op \in Rewrites
    BY <2>1, PlaceOps, Zenon DEF Uses, Rewrites, Allocates
  <2> QED
    BY <2>2, Zenon DEF Ends, Uses
<1>4. \A u \in Threads : th'[u].op # "none" => u \in Threads \ {t}
  BY <1>0, <1>1, Zenon DEF Moves
<1>5. Types'
  BY <1>1, Zenon DEF Inv, Types, Moves, Table
<1>6. Places'
  <2>1. r.pc \in PlacesOf(r.op)
    BY <1>0, Zenon DEF PlacesOf
  <2> QED
    BY <1>1, <2>1, Zenon DEF Inv, Places, Moves
<1>7. GrantedOnce'
  BY Zenon DEF Inv, GrantedOnce, Table
<1>8. OneCreate' /\ OneWrite'
  <2>1. \A u \in Threads : th'[u].op = "create" \/ th'[u].op \in Rewrites => th'[u] = th[u]
    BY <1>2, <1>4, Zenon DEF Rewrites
  <2> QED
    BY <2>1, Zenon DEF Inv, OneCreate, OneWrite
<1>9. OneUse'
  <2>1. \A u \in Threads : th'[u].op \in Uses => th'[u] = th[u]
    BY <1>2, <1>4, Zenon DEF Uses
  <2> QED
    BY <2>1, Zenon DEF Inv, OneUse
<1>10. UsesLive'
  <2> SUFFICES ASSUME NEW u \in Threads, th'[u].op \in Uses PROVE inodes'[th'[u].inum] # Side!Free
    BY Zenon DEF UsesLive
  <2>1. u \in Threads \ {t}
    BY <1>4, Zenon DEF Uses
  <2>2. th'[u] = th[u] /\ th[u].op \in Uses /\ inodes'[th[u].inum] = inodes[th[u].inum]
    BY <1>2, <2>1, Zenon
  <2>3. inodes[th[u].inum] # Side!Free
    BY <2>2, Zenon DEF Inv, UsesLive
  <2> QED
    BY <2>2, <2>3, Zenon
<1>a. CreateOf(r, inodes') /\ GetOf(r, inodes', file') /\ FreeOf(r, inodes')
      /\ BitsOf(r, inodes') /\ AllocOf(r, inodes', used') /\ WriteOf(r, disk')
  BY <1>0, Zenon DEF CreateOf, GetOf, FreeOf, BitsOf, AllocOf, WriteOf
<1>11. Creates'
  <2>1. \A u \in Threads \ {t} : CreateOf(th[u], inodes')
    BY <1>2, Zenon DEF Inv, Creates, CreateOf
  <2> QED
    BY <1>1, <1>a, <2>1, Zenon DEF Creates, Moves
<1>12. Gets'
  <2>1. \A u \in Threads \ {t} : GetOf(th[u], inodes', file')
    <3> SUFFICES ASSUME NEW u \in Threads \ {t}, th[u].op = "get" PROVE GetOf(th[u], inodes', file')
      BY Zenon DEF GetOf
    <3>1. inodes'[th[u].inum] = inodes[th[u].inum] /\ file'[th[u].inum] = file[th[u].inum]
      BY <1>2, <1>3, Zenon
    <3>2. GetOf(th[u], inodes, file)
      BY Zenon DEF Inv, Gets
    <3> QED
      BY <3>1, <3>2, Zenon DEF GetOf
  <2> QED
    BY <1>1, <1>a, <2>1, Zenon DEF Gets, Moves
<1>13. Frees' /\ BitsKeep'
  <2>1. \A u \in Threads \ {t} : FreeOf(th[u], inodes')
    <3> SUFFICES ASSUME NEW u \in Threads \ {t} PROVE FreeOf(th[u], inodes')
      BY Zenon
    <3>1. FreeOf(th[u], inodes)
      BY Zenon DEF Inv, Frees
    <3>2. th[u].pc \in {"free_read", "free_write"} => inodes'[th[u].inum] = inodes[th[u].inum]
      BY <1>2, <1>3, Zenon
    <3> QED
      BY <3>1, <3>2, Zenon DEF FreeOf
  <2>2. \A u \in Threads \ {t} : BitsOf(th[u], inodes')
    <3> SUFFICES ASSUME NEW u \in Threads \ {t}, th[u].pc \in {"free_write", "alloc_write"},
                        NEW j \in Side!Inums \ {th[u].inum}
                 PROVE  Held(inodes'[j]) \subseteq th[u].bits
      BY Zenon DEF BitsOf
    <3>1. Held(inodes[j]) \subseteq th[u].bits
      BY Zenon DEF Inv, BitsKeep, BitsOf
    <3>2. Held(inodes'[i]) = {}
      BY <1>3, Zenon
    <3> QED
      BY <3>1, <3>2, Zenon DEF Table
  <2> QED
    BY <1>1, <1>a, <2>1, <2>2, Zenon DEF Frees, BitsKeep, Moves
<1>14. Allocs' /\ Writes'
  <2>1. \A u \in Threads \ {t} : AllocOf(th[u], inodes', used')
    <3> SUFFICES ASSUME NEW u \in Threads \ {t}, th[u].op = "put" PROVE AllocOf(th[u], inodes', used')
      BY Zenon DEF AllocOf
    <3>1. AllocOf(th[u], inodes, used)
      BY Zenon DEF Inv, Allocs
    <3>2. Held(inodes'[i]) = {}
      BY <1>3, Zenon DEF Rewrites
    <3>3. (\A j \in Side!Inums \ {th[u].inum} : Held(inodes[j]) \cap Held(th[u].ino) = {})
             => \A j \in Side!Inums \ {th[u].inum} : Held(inodes'[j]) \cap Held(th[u].ino) = {}
      BY <3>2, Zenon DEF Table
    <3> QED
      BY <3>1, <3>3, Zenon DEF AllocOf
  <2>2. \A u \in Threads \ {t} : WriteOf(th[u], disk')
    BY Zenon DEF Inv, Writes
  <2> QED
    BY <1>1, <1>a, <2>1, <2>2, Zenon DEF Allocs, Writes, Moves
<1>15. Disjoint'
  <2>1. SUFFICES ASSUME NEW j \in Side!Inums, NEW k \in Side!Inums, j # k
                 PROVE  Held(inodes'[j]) \cap Held(inodes'[k]) = {}
    BY Zenon DEF Disjoint
  <2>2. CASE j # i /\ k # i
    BY <2>1, <2>2, Zenon DEF Inv, Disjoint, Table
  <2>3. CASE j = i
    BY <2>1, <2>3, Zenon DEF Table
  <2>4. CASE k = i
    BY <2>1, <2>4, Zenon DEF Table
  <2> QED
    BY <2>2, <2>3, <2>4, Zenon
<1>16. \A j \in Side!Inums \ {i} : Side!Writing(j) => Side!Writing(j)'
  BY <1>1, Zenon DEF Moves, Side!Writing, Ends
<1>17. Marked'
  BY <1>16, Zenon DEF Inv, Marked, Table
<1>18. Contents'
  <2>1. \A j \in Side!Inums \ {i} : Side!Writing(j) \/ Stored(inodes[j], file[j])
    BY Zenon DEF Inv, Contents, Stored
  <2>2. \A j \in Side!Inums : Side!Writing(j)' \/ Stored(inodes'[j], file'[j])
    BY <1>16, <2>1, Zenon DEF Table
  <2> QED
    BY <2>2, Zenon DEF Contents, Stored
<1> QED
  BY <1>5, <1>6, <1>7, <1>8, <1>9, <1>10, <1>11, <1>12, <1>13, <1>14, <1>15, <1>17, <1>18, Zenon DEF Inv

-----------------------------------------------------------------------------

LEMMA PCNames ==
    /\ "claim" \in PCs /\ "get_inode" \in PCs /\ "free_read" \in PCs /\ "free_write" \in PCs
    /\ "alloc_read" \in PCs /\ "alloc_write" \in PCs /\ "write" \in PCs /\ "read" \in PCs
    /\ "free_inode" \in PCs /\ "put_read" \in PCs /\ "put_write" \in PCs /\ "scan" \in PCs
BY Zenon DEF PCs

\* A step of an RPC leaves it alone with what it was alone with.
LEMMA SameCall ==
    ASSUME Inv, NEW t \in Threads, NEW r \in Local, r.op = th[t].op, r.inum = th[t].inum
    PROVE  Alone(t, r) /\ StillWrites(t, r)
<1>1. StillWrites(t, r)
  BY Zenon DEF StillWrites
<1>2. Alone(t, r)
  BY Zenon DEF Inv, OneCreate, OneWrite, OneUse, UsesLive, Alone
<1> QED
  BY <1>1, <1>2, Zenon

\* A thread that has returned.
LEMMA ReturnStep ==
    ASSUME Inv, NEW t \in Threads, Side!Returns(t), th[t].op \notin {"put", "remove"},
           UNCHANGED <<inodes, used, disk, file, grants>>
    PROVE  Inv'
<1>1. PICK r \in Local : r = Side!Idle /\ r.op = "none" /\ r.pc = "idle"
  BY IdleLocal, Zenon
<1>2. Moves(t, r)
  BY <1>1, GoesMoves, Zenon DEF Inv, Side!Returns
<1>3. r.pc \in PlacesOf(r.op)
  BY <1>1, Zenon DEF PlacesOf
<1>4. Sound(r)
  BY <1>1, <1>3, Zenon DEF Sound, CreateOf, GetOf, FreeOf, BitsOf, AllocOf, WriteOf
<1>5. Alone(t, r) /\ StillWrites(t, r)
  BY <1>1, Zenon DEF Alone, StillWrites, Rewrites, Uses
<1> QED
  BY <1>2, <1>4, <1>5, LocalStep, Zenon

LEMMA ScanStep ==
    ASSUME Inv, NEW t \in Threads, Side!Scan(t)
    PROVE  Inv'
<1> DEFINE x == th[t]
<1>1. /\ x.pc = "scan" /\ x.op = "create"
      /\ UNCHANGED <<inodes, used, disk, file, grants>>
      /\ x \in Local /\ x.inum \in Side!Inums /\ inodes[x.inum] \in Inode /\ Types
  BY InvTypes, PlaceOps, Zenon DEF Side!Scan, Side!At
<1>2. CASE inodes[x.inum].type = 0
  <2>1. inodes[x.inum] = Side!Free
    BY <1>1, <1>2, Zenon DEF Inv, GrantedOnce, GrantOf
  <2> DEFINE r == [x EXCEPT !.pc = "claim", !.ino = inodes[x.inum]]
  <2>2. r \in Local /\ r.pc = "claim" /\ r.ino = inodes[x.inum] /\ r.op = x.op /\ r.inum = x.inum
    BY <1>1, PCNames, Zenon DEF Local
  <2>a. Side!Goes(t, r)
    BY <1>2, Zenon DEF Side!Scan
  <2> HIDE DEF r
  <2>3. Moves(t, r)
    BY <1>1, <2>2, <2>a, GoesMoves, Zenon DEF Side!Goes
  <2>4. r.pc \in PlacesOf(r.op)
    BY <1>1, <2>2, Zenon DEF PlacesOf
  <2>5. Sound(r)
    BY <1>1, <2>1, <2>2, <2>4, Zenon DEF Sound, CreateOf, GetOf, FreeOf, BitsOf, AllocOf, WriteOf
  <2> QED
    BY <1>1, <2>2, <2>3, <2>5, SameCall, LocalStep, Zenon
<1>3. CASE inodes[x.inum].type # 0 /\ x.inum + 1 \in Side!Inums
  <2> DEFINE r == [x EXCEPT !.inum = x.inum + 1]
  <2>2. r \in Local /\ r.inum = x.inum + 1 /\ r.op = x.op /\ r.pc = x.pc
    BY <1>1, <1>3, Zenon DEF Local
  <2>a. Side!Goes(t, r)
    BY <1>3, Zenon DEF Side!Scan
  <2> HIDE DEF r
  <2>3. Moves(t, r)
    BY <1>1, <2>2, <2>a, GoesMoves, Zenon DEF Side!Goes
  <2>4. Sound(r)
    BY <1>1, <2>2, InvTypes, Zenon DEF Sound, CreateOf, GetOf, FreeOf, BitsOf, AllocOf, WriteOf
  <2>5. Alone(t, r) /\ StillWrites(t, r)
    BY <1>1, <2>2, Zenon DEF Inv, OneCreate, Alone, StillWrites, Rewrites, Uses
  <2> QED
    BY <1>1, <2>2, <2>3, <2>4, <2>5, LocalStep, Zenon
<1>4. CASE inodes[x.inum].type # 0 /\ x.inum + 1 \notin Side!Inums
  <2>1. Side!Returns(t)
    BY <1>4, Zenon DEF Side!Scan
  <2> QED
    BY <1>1, <2>1, ReturnStep, Zenon
<1> QED
  BY <1>2, <1>3, <1>4, Zenon

\* A create claims the inode that it found free.
LEMMA ClaimStep ==
    ASSUME Inv, NEW t \in Threads, Side!Claim(t)
    PROVE  Inv'
<1> DEFINE x == th[t]
<1>1. /\ x.pc = "claim" /\ x.op = "create"
      /\ x \in Local /\ x.inum \in Side!Inums /\ Types
  BY InvTypes, PlaceOps, Zenon DEF Side!Claim, Side!At
<1>2. inodes[x.inum] = Side!Free /\ x.ino = Side!Free
  BY <1>1, Zenon DEF Inv, Creates, CreateOf
<1>3. grants[x.inum] = 0
  BY <1>1, <1>2, Zenon DEF Inv, GrantedOnce, GrantOf
<1>4. PICK y \in Inode : y = [x.ino EXCEPT !.type = 2] /\ y.type = 2 /\ y.blocks = <<>>
  <2>1. [type |-> 2, blocks |-> <<>>] \in Inode
    BY DEF Inode
  <2>2. [x.ino EXCEPT !.type = 2] = [type |-> 2, blocks |-> <<>>]
    BY <1>2 DEF Side!Free
  <2> QED
    BY <2>1, <2>2, Zenon
<1>6. Side!Returns(t)
  BY Zenon DEF Side!Claim
<1>7. /\ inodes' = [inodes EXCEPT ![x.inum] = y] /\ grants' = [grants EXCEPT ![x.inum] = @ + 1]
      /\ file' = [file EXCEPT ![x.inum] = <<>>] /\ UNCHANGED <<used, disk>>
  BY <1>4, Zenon DEF Side!Claim
<1>8. /\ inodes' \in [Side!Inums -> Inode] /\ file' \in [Side!Inums -> Seq(Words)]
      /\ grants' \in [Side!Inums -> Nat]
      /\ inodes'[x.inum] = y /\ file'[x.inum] = <<>> /\ grants'[x.inum] = 1
  BY <1>1, <1>3, <1>7 DEF Types
<1>9. \A j \in Side!Inums \ {x.inum} :
          inodes'[j] = inodes[j] /\ file'[j] = file[j] /\ grants'[j] = grants[j]
  BY <1>1, <1>7, Zenon DEF Types
<1>10. /\ \A u \in Threads \ {t} : th[u].op \in Uses => th[u].inum # x.inum
       /\ \A u \in Threads \ {t} : th[u].pc # "claim"
  <2>1. \A u \in Threads : th[u].pc = "claim" => th[u].op = "create"
    BY InvTypes, PlaceOps, Zenon
  <2> QED
    BY <1>1, <1>2, <2>1, Zenon DEF Inv, UsesLive, OneCreate
<1>11. Held(y) = {}
  BY <1>4 DEF Held
<1>12. Len(<<>>) = 0 /\ 1 .. 0 = {} /\ 2 # 0
  OBVIOUS
<1>13. /\ GrantOf(inodes'[x.inum], grants'[x.inum])
       /\ \A j \in Side!Inums \ {x.inum} : Held(inodes[j]) \cap Held(inodes'[x.inum]) = {}
       /\ Held(inodes'[x.inum]) \subseteq used
       /\ Stored(inodes'[x.inum], file'[x.inum])
  <2>1. Side!Free.type = 0
    BY Zenon DEF Side!Free
  <2>2. GrantOf(y, 1)
    BY <1>4, <1>12, <2>1, Zenon DEF GrantOf
  <2>3. Stored(y, <<>>)
    BY <1>4, <1>12, Zenon DEF Stored
  <2> QED
    BY <1>8, <1>11, <2>2, <2>3, Zenon
<1>14. Ends(t, x.inum)
  BY <1>8, <1>10, <1>11, Zenon DEF Ends
<1>15. Table(x.inum)
  BY <1>8, <1>9, <1>13, Zenon DEF Table
<1> QED
  BY <1>1, <1>6, <1>7, <1>14, <1>15, TableStep, Zenon

\* A new RPC that races with none.
LEMMA DispatchStep ==
    ASSUME Inv, NEW t \in Threads, NEW i \in Side!Inums,
           NEW o \in {"create", "put", "get", "remove"}, Side!Dispatch(t, o, i), ~ Side!Races(o, i)
    PROVE  Inv'
<1> DEFINE r == [Side!Idle EXCEPT !.op = o, !.inum = i,
                                  !.pc = IF o = "create" THEN "scan" ELSE "get_inode"]
<1>1. /\ th[t] = Side!Idle /\ Side!Goes(t, r) /\ Types
      /\ UNCHANGED <<inodes, used, disk, file, grants>>
  BY InvTypes, Zenon DEF Side!Dispatch, Side!Goes
<1>2. PICK y \in Local : y = Side!Idle /\ y.k = 0 /\ y.seen = <<>> /\ y.op = "none"
  <2>1. Side!Idle.k = 0 /\ Side!Idle.seen = <<>>
    BY Zenon DEF Side!Idle
  <2> QED
    BY <2>1, IdleLocal, Zenon
<1>3. PICK p \in PCs : p = IF o = "create" THEN "scan" ELSE "get_inode"
  BY PCNames, Zenon
<1>4. o \in Ops
  BY Zenon DEF Ops
<1>5. r \in Local /\ r.op = o /\ r.inum = i /\ r.pc = p /\ r.k = 0 /\ r.seen = <<>>
  <2>1. r = [y EXCEPT !.op = o, !.inum = i, !.pc = p]
    BY <1>2, <1>3, Zenon
  <2>2. LET z == [y EXCEPT !.op = o, !.inum = i, !.pc = p]
        IN  z \in Local /\ z.op = o /\ z.inum = i /\ z.pc = p /\ z.k = y.k /\ z.seen = y.seen
    BY <1>4, Zenon DEF Local
  <2> QED
    BY <1>2, <2>1, <2>2, Zenon
<1> HIDE DEF r
<1>6. Moves(t, r)
  BY <1>1, <1>5, GoesMoves, Zenon DEF Side!Goes
<1>7. r.pc \in PlacesOf(r.op)
  BY <1>3, <1>5, Zenon DEF PlacesOf
<1>8. Sound(r)
  <2>1. r.pc \in {"scan", "get_inode"} /\ Len(r.seen) = 0
    BY <1>3, <1>5, Zenon
  <2>2. 1 .. 0 = {}
    OBVIOUS
  <2>3. GetOf(r, inodes, file)
    BY <1>5, <1>7, <2>1, <2>2, PlaceOps, Zenon DEF GetOf
  <2>4. FreeOf(r, inodes)
    BY <1>5, <2>1, Zenon DEF FreeOf
  <2>5. CreateOf(r, inodes) /\ BitsOf(r, inodes) /\ AllocOf(r, inodes, used) /\ WriteOf(r, disk)
    BY <2>1, Zenon DEF CreateOf, BitsOf, AllocOf, WriteOf, Allocates
  <2> QED
    BY <1>7, <2>3, <2>4, <2>5, Zenon DEF Sound
<1>9. /\ r.op = "create" => \A u \in Threads \ {t} : th[u].op # "create"
      /\ r.op \in Rewrites => \A u \in Threads \ {t} : th[u].op \notin Rewrites
  BY <1>5, Zenon DEF Side!Races, Rewrites
<1>10. r.op \in Uses => /\ \A u \in Threads \ {t} : th[u].op \in Uses => th[u].inum # r.inum
                        /\ inodes[r.inum] # Side!Free
  <2>1. SUFFICES ASSUME o # "create"
                 PROVE  /\ \A u \in Threads : th[u].op \in Uses => th[u].inum # i
                        /\ inodes[i] # Side!Free
    BY <1>5, Zenon DEF Uses
  <2>2. grants[i] > 0 /\ ~ Side!Locked(i, o)
    BY <2>1, Zenon DEF Side!Dispatch
  <2>3. grants[i] # 0
    BY <2>2
  <2>4. inodes[i] # Side!Free
    BY <2>3, Zenon DEF Inv, GrantedOnce, GrantOf
  <2>5. o # "remove" => \A u \in Threads : th[u].op \in {"put", "get"} => th[u].inum # i
    BY <2>2, Zenon DEF Side!Locked, Side!Running
  <2>6. CASE o = "put"
    BY <2>4, <2>5, <2>6, Zenon DEF Side!Races, Uses
  <2>7. CASE o = "get"
    BY <2>4, <2>5, <2>7, Zenon DEF Side!Races, Uses
  <2>8. CASE o = "remove"
    BY <2>4, <2>8, Zenon DEF Side!Races, Uses
  <2> QED
    BY <2>1, <2>4, <2>6, <2>7, <2>8, Zenon
<1>11. Alone(t, r) /\ StillWrites(t, r)
  BY <1>1, <1>2, <1>9, <1>10, Zenon DEF Alone, StillWrites
<1> QED
  BY <1>1, <1>5, <1>6, <1>8, <1>11, LocalStep, Zenon

\* get_inode, by the RPC that has the inum to itself.
LEMMA GetInodeStep ==
    ASSUME Inv, NEW t \in Threads, NEW n \in 0 .. MaxBlocks, Side!GetInode(t, n)
    PROVE  Inv'
<1> DEFINE x == th[t]
           y == inodes[x.inum]
           m == IF x.op = "put" THEN n ELSE 0
           p == IF x.op = "get" THEN Side!Loop("read", 0, Len(y.blocks), "put_read")
                ELSE Side!Loop("free_read", 0, Len(y.blocks), Side!Freed(x.op, n))
           r == [x EXCEPT !.ino = y, !.n = m, !.pc = p]
<1>1. /\ x.pc = "get_inode" /\ x.op \in Uses
      /\ UNCHANGED <<inodes, used, disk, file, grants>>
      /\ x \in Local /\ x.inum \in Side!Inums /\ y \in Inode /\ y.blocks \in Seq(Blocks) /\ Types
  BY InvTypes, PlaceOps, Zenon DEF Side!GetInode, Side!At
<1>2. y # Side!Free
  BY <1>1, Zenon DEF Inv, UsesLive
<1>3. Side!Goes(t, r)
  BY <1>2, Zenon DEF Side!GetInode
<1>4. n \in Nat /\ m \in Nat
  BY DiskAssumption
<1>5. y.type # 0
  BY <1>1, <1>2, Zenon DEF Inv, GrantedOnce, GrantOf
<1>6. /\ x.op = "get" => p = IF 0 < Len(y.blocks) THEN "read" ELSE "put_read"
      /\ x.op = "remove" => p = IF 0 < Len(y.blocks) THEN "free_read" ELSE "free_inode"
      /\ x.op = "put" => p = IF 0 < Len(y.blocks) THEN "free_read"
                             ELSE IF 0 < m THEN "alloc_read" ELSE "put_read"
  BY Zenon DEF Side!Loop, Side!Freed
<1>7. p \in PCs /\ p \in PlacesOf(x.op)
  BY <1>1, <1>6, Zenon DEF PCs, PlacesOf, Uses
<1>8. r \in Local /\ r.ino = y /\ r.n = m /\ r.pc = p /\ r.op = x.op /\ r.inum = x.inum
      /\ r.k = x.k /\ r.seen = x.seen
  <2> HIDE DEF p, m, y
  <2> QED
    BY <1>1, <1>4, <1>7, Zenon DEF Local
<1> HIDE DEF r, p, m
<1>9. Moves(t, r)
  BY <1>1, <1>3, <1>8, GoesMoves, Zenon DEF Side!Goes
<1>10. r.k = 0 /\ (r.op = "get" => Len(r.seen) = 0)
  <2>1. x.op = "get" => x.k = 0 /\ Len(x.seen) = 0
    BY <1>1, Zenon DEF Inv, Gets, GetOf
  <2>2. x.op \in {"put", "remove"} => x.k = 0
    BY <1>1, Zenon DEF Inv, Frees, FreeOf
  <2> QED
    BY <1>1, <1>8, <2>1, <2>2, Zenon DEF Uses
<1>11. GetOf(r, inodes, file)
  <2>1. SUFFICES ASSUME r.op = "get" PROVE GetOf(r, inodes, file)
    BY Zenon DEF GetOf
  <2>2. Len(y.blocks) \in Nat /\ (0 < Len(y.blocks) \/ Len(y.blocks) = 0)
    BY <1>1
  <2> QED
    BY <1>6, <1>8, <1>10, <2>1, <2>2 DEF GetOf
<1>12. FreeOf(r, inodes)
  BY <1>1, <1>6, <1>8, <1>10 DEF FreeOf, Uses
<1>13. CreateOf(r, inodes) /\ BitsOf(r, inodes)
  BY <1>1, <1>6, <1>8, Zenon DEF CreateOf, BitsOf, Uses
<1>14. AllocOf(r, inodes, used) /\ WriteOf(r, disk)
  <2>1. SUFFICES ASSUME r.op = "put", p \in Allocates \cup {"put_read", "put_write"}
                 PROVE  AllocOf(r, inodes, used) /\ WriteOf(r, disk)
    BY <1>8, Zenon DEF AllocOf, WriteOf
  <2>2. ~ 0 < Len(y.blocks) /\ p = IF 0 < m THEN "alloc_read" ELSE "put_read"
    BY <1>6, <1>8, <2>1 DEF Allocates
  <2>3. Len(y.blocks) = 0 /\ y.blocks = <<>> /\ Held(y) = {}
    BY <1>1, <2>2 DEF Held
  <2>4. WriteOf(r, disk)
    BY <1>10 DEF WriteOf
  <2>5. AllocOf(r, inodes, used)
    BY <1>4, <1>5, <1>8, <1>10, <2>2, <2>3 DEF AllocOf
  <2> QED
    BY <2>4, <2>5, Zenon
<1>15. Sound(r)
  BY <1>7, <1>8, <1>11, <1>12, <1>13, <1>14, Zenon DEF Sound
<1> QED
  BY <1>1, <1>8, <1>9, <1>15, SameCall, LocalStep, Zenon

\* The RPC that reads the bitmap is the only one that writes it, so the blocks
\* of the other files are marked.
LEMMA OthersMarked ==
    ASSUME Inv, NEW t \in Threads, th[t].op \in Rewrites, NEW i \in Side!Inums, i # th[t].inum
    PROVE  Held(inodes[i]) \subseteq used
<1>1. ~ Side!Writing(i)
  BY Zenon DEF Inv, OneWrite, Rewrites, Side!Writing
<1> QED
  BY <1>1, Zenon DEF Inv, Marked

\* A sequence with one more element.
LEMMA Appended ==
    ASSUME NEW S, NEW s \in Seq(S), NEW b \in S
    PROVE  /\ Append(s, b) \in Seq(S) /\ Len(s) \in Nat /\ Len(Append(s, b)) = Len(s) + 1
           /\ \A j \in 1 .. Len(Append(s, b)) : j \in 1 .. Len(s) \/ j = Len(s) + 1
           /\ Append(s, b)[Len(s) + 1] = b
           /\ \A j \in 1 .. Len(s) : Append(s, b)[j] = s[j]
OBVIOUS

\* The block after the first k of n.
LEMMA NextBlock ==
    ASSUME NEW k \in Nat, NEW n \in Nat, k < n
    PROVE  k + 1 \in 1 .. n /\ k + 1 \in Nat
OBVIOUS

\* A block of a file is one that its inode holds.
LEMMA HeldBlock ==
    ASSUME NEW y \in Inode, NEW j \in 1 .. Len(y.blocks)
    PROVE  y.blocks[j] \in Held(y) /\ y.blocks[j] \in Blocks
<1>1. y.blocks \in Seq(Blocks)
  BY Zenon DEF Inode
<1> QED
  BY <1>1 DEF Held

LEMMA FreeReadStep ==
    ASSUME Inv, NEW t \in Threads, Side!FreeRead(t)
    PROVE  Inv'
<1> DEFINE x == th[t]
           k == x.k + 1
           w == used \ {x.ino.blocks[k]}
           r == [x EXCEPT !.pc = "free_write", !.k = k, !.bits = w]
<1>1. /\ x.pc = "free_read" /\ x.op \in {"put", "remove"} /\ Side!Goes(t, r)
      /\ UNCHANGED <<inodes, used, disk, file, grants>>
      /\ x \in Local /\ x.inum \in Side!Inums /\ x.ino \in Inode /\ x.k \in Nat
      /\ x.ino.blocks \in Seq(Blocks) /\ Types
  BY InvTypes, PlaceOps, Zenon DEF Side!FreeRead, Side!At
<1>2. x.ino = inodes[x.inum] /\ x.k < Len(x.ino.blocks)
  BY <1>1, Zenon DEF Inv, Frees, FreeOf
<1>3. k \in 1 .. Len(x.ino.blocks) /\ k \in Nat
  BY <1>1, <1>2, NextBlock, LenProperties, Zenon
<1>4. w \in SUBSET Blocks
  BY <1>1, Zenon DEF Types
<1>5. /\ r \in Local /\ r.pc = "free_write" /\ r.k = k /\ r.bits = w
      /\ r.op = x.op /\ r.inum = x.inum /\ r.ino = x.ino
  <2> HIDE DEF k, w
  <2> QED
    BY <1>1, <1>3, <1>4, PCNames, Zenon DEF Local
<1> HIDE DEF r
<1>6. Moves(t, r)
  BY <1>1, <1>5, GoesMoves, Zenon DEF Side!Goes
<1>7. r.pc \in PlacesOf(r.op)
  BY <1>1, <1>5, Zenon DEF PlacesOf
<1>8. BitsOf(r, inodes)
  <2>1. SUFFICES ASSUME NEW i \in Side!Inums, i # x.inum PROVE Held(inodes[i]) \subseteq w
    BY <1>5, Zenon DEF BitsOf
  <2>2. Held(inodes[i]) \subseteq used
    BY <1>1, <2>1, OthersMarked, Zenon DEF Rewrites
  <2>3. x.ino.blocks[k] \in Held(inodes[x.inum])
    BY <1>1, <1>2, <1>3, HeldBlock, Zenon
  <2>4. Held(inodes[i]) \cap Held(inodes[x.inum]) = {}
    BY <1>1, <2>1, Zenon DEF Inv, Disjoint
  <2> QED
    BY <2>2, <2>3, <2>4, Zenon
<1>9. FreeOf(r, inodes)
  BY <1>2, <1>3, <1>5, Zenon DEF FreeOf
<1>10. CreateOf(r, inodes) /\ GetOf(r, inodes, file) /\ AllocOf(r, inodes, used) /\ WriteOf(r, disk)
  BY <1>1, <1>5, Zenon DEF CreateOf, GetOf, AllocOf, WriteOf, Allocates
<1>11. Sound(r)
  BY <1>7, <1>8, <1>9, <1>10, Zenon DEF Sound
<1> QED
  BY <1>1, <1>5, <1>6, <1>11, SameCall, LocalStep, Zenon

\* A get reads a block of a file that nobody writes.
LEMMA ReadBlockStep ==
    ASSUME Inv, NEW t \in Threads, Side!ReadBlock(t)
    PROVE  Inv'
<1> DEFINE x == th[t]
           k == x.k + 1
           d == disk[x.ino.blocks[k]]
           v == Append(x.seen, d)
           p == Side!Loop("read", k, Len(x.ino.blocks), "put_read")
           r == [x EXCEPT !.k = k, !.seen = v, !.pc = p]
<1>1. /\ x.pc = "read" /\ x.op = "get" /\ Side!Goes(t, r)
      /\ UNCHANGED <<inodes, used, disk, file, grants>>
      /\ x \in Local /\ x.inum \in Side!Inums /\ x.ino \in Inode /\ x.k \in Nat
      /\ x.ino.blocks \in Seq(Blocks) /\ x.seen \in Seq(Words) /\ Types
  BY InvTypes, PlaceOps, Zenon DEF Side!ReadBlock, Side!At
<1>2. /\ x.ino = inodes[x.inum] /\ x.k < Len(x.ino.blocks) /\ Len(x.seen) = x.k
      /\ \A j \in 1 .. x.k : x.seen[j] = file[x.inum][j]
  BY <1>1, Zenon DEF Inv, Gets, GetOf
<1>3. k \in 1 .. Len(x.ino.blocks) /\ k \in Nat
  BY <1>1, <1>2, NextBlock, LenProperties, Zenon
<1>4. d \in Words /\ d = file[x.inum][k]
  <2>1. x.ino.blocks[k] \in Blocks
    BY <1>1, <1>3, HeldBlock, Zenon
  <2>2. ~ Side!Writing(x.inum)
    BY <1>1, Zenon DEF Inv, OneUse, Uses, Side!Writing
  <2>3. inodes[x.inum] # Side!Free
    BY <1>1, Zenon DEF Inv, UsesLive, Uses
  <2>4. /\ Len(file[x.inum]) = Len(inodes[x.inum].blocks)
        /\ \A j \in 1 .. Len(file[x.inum]) : disk[inodes[x.inum].blocks[j]] = file[x.inum][j]
    BY <1>1, <2>2, <2>3, Zenon DEF Inv, Contents
  <2>5. disk[inodes[x.inum].blocks[k]] = file[x.inum][k]
    BY <1>2, <1>3, <2>4, Zenon
  <2> QED
    BY <1>1, <1>2, <2>1, <2>5, Zenon DEF Types
<1>5. v \in Seq(Words) /\ Len(v) = k /\ \A j \in 1 .. k : v[j] = file[x.inum][j]
  <2> HIDE DEF d
  <2>1. v \in Seq(Words) /\ Len(v) = k /\ v[k] = d /\ \A j \in 1 .. x.k : v[j] = x.seen[j]
    <3>1. /\ v \in Seq(Words) /\ Len(v) = Len(x.seen) + 1 /\ v[Len(x.seen) + 1] = d
          /\ \A j \in 1 .. Len(x.seen) : v[j] = x.seen[j]
      <4>1. x.seen \in Seq(Words) /\ d \in Words
        BY <1>1, <1>4, Zenon
      <4> QED
        BY <4>1, Appended
    <3>2. Len(x.seen) = x.k
      BY <1>2, Zenon
    <3> QED
      BY <3>1, <3>2, Zenon
  <2>2. \A j \in 1 .. k : j \in 1 .. x.k \/ j = k
    BY <1>1
  <2> QED
    BY <1>2, <1>4, <2>1, <2>2, Zenon
<1>6. p = IF k < Len(x.ino.blocks) THEN "read" ELSE "put_read"
  BY Zenon DEF Side!Loop
<1>7. p \in PCs /\ p \in PlacesOf("get")
  BY <1>6, Zenon DEF PCs, PlacesOf
<1>8. /\ r \in Local /\ r.k = k /\ r.seen = v /\ r.pc = p
      /\ r.op = x.op /\ r.inum = x.inum /\ r.ino = x.ino
  <2> HIDE DEF k, v, p
  <2> QED
    BY <1>1, <1>3, <1>5, <1>7, Zenon DEF Local
<1> HIDE DEF r, v, p
<1>9. Moves(t, r)
  BY <1>1, <1>8, GoesMoves, Zenon DEF Side!Goes
<1>10. GetOf(r, inodes, file)
  <2>1. Len(x.ino.blocks) \in Nat
    BY <1>1
  <2> QED
    BY <1>2, <1>3, <1>5, <1>6, <1>8, <2>1 DEF GetOf
<1>11. Sound(r)
  BY <1>1, <1>6, <1>7, <1>8, <1>10
     DEF Sound, CreateOf, FreeOf, BitsOf, AllocOf, WriteOf
<1> QED
  BY <1>1, <1>8, <1>9, <1>11, SameCall, LocalStep, Zenon

LEMMA FreeInodeStep ==
    ASSUME Inv, NEW t \in Threads, Side!FreeInode(t)
    PROVE  Inv'
<1> DEFINE x == th[t]
           r == [x EXCEPT !.pc = "put_read", !.ino = Side!Free]
<1>0. /\ x.pc = "free_inode" /\ x.op = "remove"
      /\ UNCHANGED <<inodes, used, disk, file, grants>>
      /\ x \in Local /\ Types
  BY InvTypes, PlaceOps, Zenon DEF Side!FreeInode, Side!At
<1>a. inodes[x.inum] # Side!Free
  BY <1>0, Zenon DEF Inv, UsesLive, Uses
<1>1. /\ x.pc = "free_inode" /\ x.op = "remove" /\ Side!Goes(t, r)
      /\ UNCHANGED <<inodes, used, disk, file, grants>>
      /\ x \in Local /\ Types
  BY <1>0, <1>a, Zenon DEF Side!FreeInode
<1>2. Side!Free \in Inode
  BY DEF Side!Free, Inode
<1>3. /\ r \in Local /\ r.pc = "put_read" /\ r.ino = Side!Free
      /\ r.op = x.op /\ r.inum = x.inum
  BY <1>1, <1>2, PCNames, Zenon DEF Local
<1> HIDE DEF r
<1>4. Moves(t, r)
  BY <1>1, <1>3, GoesMoves, Zenon DEF Side!Goes
<1>5. r.pc \in PlacesOf(r.op)
  BY <1>1, <1>3 DEF PlacesOf
<1>6. Sound(r)
  BY <1>1, <1>3, <1>5, Zenon DEF Sound, CreateOf, GetOf, FreeOf, BitsOf, AllocOf, WriteOf
<1> QED
  BY <1>1, <1>3, <1>4, <1>6, SameCall, LocalStep, Zenon

LEMMA PutReadStep ==
    ASSUME Inv, NEW t \in Threads, Side!PutRead(t)
    PROVE  Inv'
<1> DEFINE x == th[t]
           z == [j \in Side!Inums |-> IF j \in Side!InodeBlock(x.inum) THEN inodes[j] ELSE Side!Free]
           r == [x EXCEPT !.pc = "put_write", !.inos = z]
<1>1. /\ x.pc = "put_read" /\ x.op \in Uses /\ Side!Goes(t, r)
      /\ UNCHANGED <<inodes, used, disk, file, grants>>
      /\ x \in Local /\ Types /\ x.pc \in PlacesOf(x.op)
  BY InvTypes, PlaceOps, Zenon DEF Side!PutRead, Side!At
<1>2. Side!Free \in Inode
  BY DEF Side!Free, Inode
<1>3. z \in [Side!Inums -> Inode]
  BY <1>1, <1>2, Zenon DEF Types
<1>4. /\ r \in Local /\ r.pc = "put_write" /\ r.op = x.op /\ r.inum = x.inum /\ r.ino = x.ino
      /\ r.k = x.k /\ r.n = x.n /\ r.bits = x.bits /\ r.seen = x.seen
  <2> HIDE DEF z
  <2> QED
    BY <1>1, <1>3, PCNames, Zenon DEF Local
<1> HIDE DEF r, z
<1>5. Moves(t, r)
  BY <1>1, <1>4, GoesMoves, Zenon DEF Side!Goes
<1>6. r.pc \in PlacesOf(r.op)
  BY <1>1, <1>4, Zenon DEF PlacesOf, Uses
<1>7. GetOf(r, inodes, file)
  <2>1. GetOf(x, inodes, file)
    BY Zenon DEF Inv, Gets
  <2> QED
    BY <1>1, <1>4, <2>1, Zenon DEF GetOf
<1>8. FreeOf(r, inodes)
  <2>1. FreeOf(x, inodes)
    BY Zenon DEF Inv, Frees
  <2> QED
    BY <1>1, <1>4, <2>1, Zenon DEF FreeOf
<1>9. AllocOf(r, inodes, used)
  <2>1. AllocOf(x, inodes, used)
    BY Zenon DEF Inv, Allocs
  <2> QED
    BY <1>1, <1>4, <2>1 DEF AllocOf
<1>10. WriteOf(r, disk)
  <2>1. WriteOf(x, disk)
    BY Zenon DEF Inv, Writes
  <2> QED
    BY <1>1, <1>4, <2>1, Zenon DEF WriteOf
<1>11. CreateOf(r, inodes) /\ BitsOf(r, inodes)
  BY <1>4, Zenon DEF CreateOf, BitsOf
<1>12. Sound(r)
  BY <1>6, <1>7, <1>8, <1>9, <1>10, <1>11, Zenon DEF Sound
<1> QED
  BY <1>1, <1>4, <1>5, <1>12, SameCall, LocalStep, Zenon

\* An inode with one more block.
LEMMA OneMore ==
    ASSUME NEW y \in Inode, NEW b \in Blocks
    PROVE  LET z == [y EXCEPT !.blocks = Append(y.blocks, b)] IN
           /\ z \in Inode /\ z.type = y.type /\ z.blocks = Append(y.blocks, b)
           /\ Held(z) = Held(y) \cup {b}
<1> DEFINE z == [y EXCEPT !.blocks = Append(y.blocks, b)]
<1>1. y.blocks \in Seq(Blocks)
  BY Zenon DEF Inode
<1>2. Append(y.blocks, b) \in Seq(Blocks)
  BY <1>1
<1>3. z \in Inode /\ z.type = y.type /\ z.blocks = Append(y.blocks, b)
  BY <1>2, Zenon DEF Inode
<1> HIDE DEF z
<1>4. Held(z) = Held(y) \cup {b}
  <2>1. Held(z) = {Append(y.blocks, b)[j] : j \in DOMAIN Append(y.blocks, b)}
    BY <1>3, Zenon DEF Held
  <2>2. DOMAIN Append(y.blocks, b) = DOMAIN y.blocks \cup {Len(y.blocks) + 1}
    BY <1>1
  <2>3. /\ Append(y.blocks, b)[Len(y.blocks) + 1] = b
        /\ \A j \in DOMAIN y.blocks : Append(y.blocks, b)[j] = y.blocks[j]
    BY <1>1
  <2> QED
    BY <2>1, <2>2, <2>3, Zenon DEF Held
<1> QED
  BY <1>3, <1>4, Zenon DEF z

\* A put takes a block that is not marked, so no other file has it.
LEMMA AllocReadStep ==
    ASSUME Inv, NEW t \in Threads, Side!AllocRead(t)
    PROVE  Inv'
<1> DEFINE x == th[t]
<1>1. PICK b \in Blocks \ used :
          /\ \A c \in Blocks \ used : b <= c
          /\ Side!Goes(t, [x EXCEPT !.pc = "alloc_write", !.bits = used \cup {b},
                                    !.ino = [x.ino EXCEPT !.blocks = Append(@, b)]])
  BY Zenon DEF Side!AllocRead
<1> DEFINE w == used \cup {b}
           y == [x.ino EXCEPT !.blocks = Append(x.ino.blocks, b)]
           r == [x EXCEPT !.pc = "alloc_write", !.bits = w, !.ino = y]
<1>2. /\ x.pc = "alloc_read" /\ x.op = "put" /\ Side!Goes(t, r)
      /\ UNCHANGED <<inodes, used, disk, file, grants>>
      /\ x \in Local /\ x.inum \in Side!Inums /\ x.ino \in Inode /\ x.n \in Nat
      /\ x.ino.blocks \in Seq(Blocks) /\ Types
  <2>1. x.pc = "alloc_read" /\ UNCHANGED <<inodes, used, disk, file, grants>>
    BY Zenon DEF Side!AllocRead, Side!At
  <2>2. Side!Goes(t, r)
    BY <1>1, Zenon
  <2> HIDE DEF r
  <2> QED
    BY <2>1, <2>2, InvTypes, PlaceOps, Zenon DEF Allocates
<1>3. /\ y \in Inode /\ y.type = x.ino.type /\ y.blocks = Append(x.ino.blocks, b)
      /\ Held(y) = Held(x.ino) \cup {b}
  BY <1>2, OneMore, Zenon
<1> HIDE DEF y
<1>4. w \in SUBSET Blocks
  BY <1>2, Zenon DEF Types
<1>5. /\ r \in Local /\ r.pc = "alloc_write" /\ r.bits = w /\ r.ino = y
      /\ r.op = x.op /\ r.inum = x.inum /\ r.k = x.k /\ r.n = x.n
  <2> HIDE DEF w
  <2> QED
    BY <1>2, <1>3, <1>4, PCNames, Zenon DEF Local
<1> HIDE DEF r
<1>6. Moves(t, r)
  BY <1>2, <1>5, GoesMoves, Zenon DEF Side!Goes
<1>7. r.pc \in PlacesOf(r.op)
  BY <1>2, <1>5, Zenon DEF PlacesOf
<1>8. /\ x.ino.type # 0 /\ Held(x.ino) \subseteq used /\ x.k = 0 /\ Len(x.ino.blocks) < x.n
      /\ \A i \in Side!Inums \ {x.inum} : Held(inodes[i]) \cap Held(x.ino) = {}
      /\ \A j, l \in 1 .. Len(x.ino.blocks) : x.ino.blocks[j] = x.ino.blocks[l] => j = l
  <2>1. AllocOf(x, inodes, used)
    BY Zenon DEF Inv, Allocs
  <2> QED
    BY <1>2, <2>1, Zenon DEF AllocOf, Allocates
<1>9. \A i \in Side!Inums \ {x.inum} : Held(inodes[i]) \subseteq used
  BY <1>2, OthersMarked, Zenon DEF Rewrites
<1>10. BitsOf(r, inodes)
  BY <1>5, <1>9, Zenon DEF BitsOf
<1>11. AllocOf(r, inodes, used)
  <2>1. \A i \in Side!Inums \ {x.inum} : Held(inodes[i]) \cap Held(y) = {}
    <3>1. SUFFICES ASSUME NEW i \in Side!Inums \ {x.inum} PROVE Held(inodes[i]) \cap Held(y) = {}
      BY Zenon
    <3>2. b \notin Held(inodes[i]) /\ Held(inodes[i]) \cap Held(x.ino) = {}
      BY <1>8, <1>9, Zenon
    <3> QED
      BY <1>3, <3>2, Zenon
  <2>2. Held(y) \subseteq w
    BY <1>3, <1>8, Zenon
  <2>3. \A j, l \in 1 .. Len(y.blocks) : y.blocks[j] = y.blocks[l] => j = l
    <3>1. \A j \in 1 .. Len(x.ino.blocks) : x.ino.blocks[j] # b
      BY <1>1, <1>2, <1>8, HeldBlock, Zenon
    <3>2. /\ \A j \in 1 .. Len(y.blocks) : j \in 1 .. Len(x.ino.blocks) \/ j = Len(x.ino.blocks) + 1
          /\ y.blocks[Len(x.ino.blocks) + 1] = b
          /\ \A j \in 1 .. Len(x.ino.blocks) : y.blocks[j] = x.ino.blocks[j]
      <4>1. x.ino.blocks \in Seq(Blocks) /\ y.blocks = Append(x.ino.blocks, b)
        BY <1>2, <1>3, Zenon
      <4> QED
        BY <4>1, Appended
    <3>3. SUFFICES ASSUME NEW j \in 1 .. Len(y.blocks), NEW l \in 1 .. Len(y.blocks),
                          y.blocks[j] = y.blocks[l]
                   PROVE  j = l
      BY Zenon
    <3>4. CASE j \in 1 .. Len(x.ino.blocks) /\ l \in 1 .. Len(x.ino.blocks)
      BY <1>8, <3>2, <3>3, <3>4, Zenon
    <3>5. CASE j = Len(x.ino.blocks) + 1
      BY <3>1, <3>2, <3>3, <3>5, Zenon
    <3>6. CASE l = Len(x.ino.blocks) + 1
      BY <3>1, <3>2, <3>3, <3>6, Zenon
    <3> QED
      BY <3>2, <3>4, <3>5, <3>6, Zenon
  <2>4. Len(y.blocks) \in 1 .. x.n
    <3>1. Len(y.blocks) = Len(x.ino.blocks) + 1 /\ Len(x.ino.blocks) \in Nat
      <4>1. x.ino.blocks \in Seq(Blocks) /\ y.blocks = Append(x.ino.blocks, b)
        BY <1>2, <1>3, Zenon
      <4> QED
        BY <4>1, Appended
    <3>2. Len(x.ino.blocks) < x.n /\ x.n \in Nat
      BY <1>2, <1>8, Zenon
    <3> QED
      BY <3>1, <3>2, NextBlock, Zenon
  <2> QED
    BY <1>3, <1>5, <1>8, <2>1, <2>2, <2>3, <2>4, Zenon DEF AllocOf
<1>12. WriteOf(r, disk)
  BY <1>5, <1>8 DEF WriteOf
<1>13. FreeOf(r, inodes) /\ CreateOf(r, inodes) /\ GetOf(r, inodes, file)
  BY <1>2, <1>5, Zenon DEF FreeOf, CreateOf, GetOf
<1>14. Sound(r)
  BY <1>7, <1>10, <1>11, <1>12, <1>13, Zenon DEF Sound
<1> QED
  BY <1>2, <1>5, <1>6, <1>14, SameCall, LocalStep, Zenon

\* free_block writes the bitmap back.
LEMMA FreeWriteStep ==
    ASSUME Inv, NEW t \in Threads, Side!FreeWrite(t)
    PROVE  Inv'
<1> DEFINE x == th[t]
<1>1. /\ x.pc = "free_write" /\ x.op \in {"put", "remove"}
      /\ UNCHANGED <<inodes, disk, file, grants>> /\ used' = x.bits
      /\ x \in Local /\ x.inum \in Side!Inums /\ x.ino \in Inode /\ x.k \in Nat /\ x.n \in Nat
      /\ x.ino.blocks \in Seq(Blocks) /\ x.bits \in SUBSET Blocks /\ Types
  BY InvTypes, PlaceOps, Zenon DEF Side!FreeWrite, Side!At
<1>2. x.ino = inodes[x.inum]
  BY <1>1, Zenon DEF Inv, Frees, FreeOf
<1>3. \A i \in Side!Inums : i # x.inum => Held(inodes[i]) \subseteq used'
  BY <1>1, Zenon DEF Inv, BitsKeep, BitsOf
<1>4. disk' \in [Blocks -> Words] /\ used' \in SUBSET Blocks /\ \A b \in Blocks : disk'[b] = disk[b]
  BY <1>1, Zenon DEF Types
<1>5. CASE x.k < Len(x.ino.blocks)
  <2> DEFINE r == [x EXCEPT !.pc = "free_read"]
  <2>1. r \in Local /\ r.pc = "free_read" /\ r.op = x.op /\ r.inum = x.inum /\ r.ino = x.ino /\ r.k = x.k
    BY <1>1, PCNames, Zenon DEF Local
  <2>2. Side!Goes(t, r)
    BY <1>5, Zenon DEF Side!FreeWrite
  <2> HIDE DEF r
  <2>3. Moves(t, r)
    BY <1>1, <2>1, <2>2, GoesMoves, Zenon DEF Side!Goes
  <2>4. r.pc \in PlacesOf(r.op)
    BY <1>1, <2>1 DEF PlacesOf
  <2>5. FreeOf(r, inodes)
    BY <1>2, <1>5, <2>1, Zenon DEF FreeOf
  <2>6. BitsOf(r, inodes) /\ AllocOf(r, inodes, used') /\ WriteOf(r, disk')
    BY <2>1, Zenon DEF BitsOf, AllocOf, WriteOf, Allocates
  <2> QED
    BY <1>1, <1>3, <1>4, <2>1, <2>3, <2>4, <2>5, <2>6, DiskStep, Zenon
<1>6. CASE ~ x.k < Len(x.ino.blocks)
  <2> DEFINE p == Side!Freed(x.op, x.n)
             y == [x.ino EXCEPT !.blocks = <<>>]
             r == [x EXCEPT !.pc = p, !.k = 0, !.ino = y]
  <2>1. /\ x.op = "remove" => p = "free_inode"
        /\ x.op = "put" => p = IF 0 < x.n THEN "alloc_read" ELSE "put_read"
    BY Zenon DEF Side!Freed, Side!Loop
  <2>2. p \in PCs /\ p \in PlacesOf(x.op)
    BY <1>1, <2>1, Zenon DEF PCs, PlacesOf
  <2>3. y \in Inode /\ y.type = x.ino.type /\ y.blocks = <<>>
    <3>1. <<>> \in Seq(Blocks)
      OBVIOUS
    <3> QED
      BY <1>1, <3>1, Zenon DEF Inode
  <2>4. Side!Goes(t, r)
    BY <1>6, Zenon DEF Side!FreeWrite
  <2>5. /\ r \in Local /\ r.pc = p /\ r.k = 0 /\ r.ino = y
        /\ r.op = x.op /\ r.inum = x.inum /\ r.n = x.n
    <3> HIDE DEF p, y
    <3> QED
      BY <1>1, <2>2, <2>3, Zenon DEF Local
  <2> HIDE DEF r, p, y
  <2>6. Moves(t, r)
    BY <1>1, <2>4, <2>5, GoesMoves, Zenon DEF Side!Goes
  <2>7. FreeOf(r, inodes) /\ BitsOf(r, inodes)
    BY <1>1, <2>1, <2>5 DEF FreeOf, BitsOf
  <2>8. WriteOf(r, disk')
    BY <2>5 DEF WriteOf
  <2>9. AllocOf(r, inodes, used')
    <3>1. SUFFICES ASSUME x.op = "put" PROVE AllocOf(r, inodes, used')
      BY <2>5, Zenon DEF AllocOf
    <3>2. x.ino.type # 0
      <4>1. x.ino # Side!Free
        BY <1>1, <1>2, Zenon DEF Inv, UsesLive, Uses
      <4> QED
        BY <1>1, <1>2, <4>1, Zenon DEF Inv, GrantedOnce, GrantOf
    <3>3. Held(y) = {} /\ Len(y.blocks) = 0
      BY <2>3 DEF Held
    <3>4. p = IF 0 < x.n THEN "alloc_read" ELSE "put_read"
      BY <2>1, <3>1, Zenon
    <3> QED
      BY <1>1, <2>3, <2>5, <3>2, <3>3, <3>4 DEF AllocOf
  <2> QED
    BY <1>1, <1>3, <1>4, <2>2, <2>5, <2>6, <2>7, <2>8, <2>9, DiskStep, Zenon
<1> QED
  BY <1>5, <1>6, Zenon

\* alloc_block writes the bitmap back.
LEMMA AllocWriteStep ==
    ASSUME Inv, NEW t \in Threads, Side!AllocWrite(t)
    PROVE  Inv'
<1> DEFINE x == th[t]
           p == Side!Loop("alloc_read", Len(x.ino.blocks), x.n, "write")
           r == [x EXCEPT !.pc = p]
<1>1. /\ x.pc = "alloc_write" /\ x.op = "put" /\ Side!Goes(t, r)
      /\ UNCHANGED <<inodes, disk, file, grants>> /\ used' = x.bits
      /\ x \in Local /\ x.inum \in Side!Inums /\ x.ino \in Inode /\ x.n \in Nat
      /\ x.ino.blocks \in Seq(Blocks) /\ x.bits \in SUBSET Blocks /\ Types
  BY InvTypes, PlaceOps, Zenon DEF Side!AllocWrite, Side!At, Allocates
<1>2. p = IF Len(x.ino.blocks) < x.n THEN "alloc_read" ELSE "write"
  BY Zenon DEF Side!Loop
<1>3. p \in PCs /\ p \in PlacesOf("put")
  BY <1>2 DEF PCs, PlacesOf
<1>4. /\ r \in Local /\ r.pc = p /\ r.op = x.op /\ r.inum = x.inum /\ r.ino = x.ino
      /\ r.k = x.k /\ r.n = x.n
  <2> HIDE DEF p
  <2> QED
    BY <1>1, <1>3, Zenon DEF Local
<1> HIDE DEF r, p
<1>5. Moves(t, r)
  BY <1>1, <1>4, GoesMoves, Zenon DEF Side!Goes
<1>6. \A i \in Side!Inums : i # x.inum => Held(inodes[i]) \subseteq used'
  BY <1>1, Zenon DEF Inv, BitsKeep, BitsOf
<1>7. disk' \in [Blocks -> Words] /\ used' \in SUBSET Blocks /\ \A b \in Blocks : disk'[b] = disk[b]
  BY <1>1, Zenon DEF Types
<1>8. /\ x.ino.type # 0 /\ Held(x.ino) \subseteq x.bits /\ x.k = 0
      /\ Len(x.ino.blocks) \in 1 .. x.n
      /\ \A i \in Side!Inums \ {x.inum} : Held(inodes[i]) \cap Held(x.ino) = {}
      /\ \A j, l \in 1 .. Len(x.ino.blocks) : x.ino.blocks[j] = x.ino.blocks[l] => j = l
  <2>1. AllocOf(x, inodes, used)
    BY Zenon DEF Inv, Allocs
  <2> QED
    BY <1>1, <2>1 DEF AllocOf, Allocates
<1>9. AllocOf(r, inodes, used')
  BY <1>1, <1>2, <1>4, <1>8 DEF AllocOf
<1>10. WriteOf(r, disk')
  BY <1>4, <1>8 DEF WriteOf
<1>11. FreeOf(r, inodes) /\ BitsOf(r, inodes)
  BY <1>1, <1>2, <1>4 DEF FreeOf, BitsOf
<1> QED
  BY <1>1, <1>3, <1>4, <1>5, <1>6, <1>7, <1>9, <1>10, <1>11, DiskStep, Zenon

\* A put writes one of its new blocks.
LEMMA WriteBlockStep ==
    ASSUME Inv, NEW t \in Threads, Side!WriteBlock(t)
    PROVE  Inv'
<1> DEFINE x == th[t]
           k == x.k + 1
           b == x.ino.blocks[k]
           c == Side!Content(x.inum, x.n)[k]
           p == Side!Loop("write", k, x.n, "put_read")
           r == [x EXCEPT !.k = k, !.pc = p]
<1>1. /\ x.pc = "write" /\ x.op = "put" /\ Side!Goes(t, r)
      /\ UNCHANGED <<inodes, used, file, grants>> /\ disk' = [disk EXCEPT ![b] = c]
      /\ x \in Local /\ x.inum \in Side!Inums /\ x.ino \in Inode /\ x.n \in Nat /\ x.k \in Nat
      /\ x.ino.blocks \in Seq(Blocks) /\ Types
  BY InvTypes, PlaceOps, Zenon DEF Side!WriteBlock, Side!At, Allocates
<1>2. /\ x.ino.type # 0 /\ Held(x.ino) \subseteq used /\ x.k < x.n /\ Len(x.ino.blocks) = x.n
      /\ \A i \in Side!Inums \ {x.inum} : Held(inodes[i]) \cap Held(x.ino) = {}
      /\ \A j, l \in 1 .. Len(x.ino.blocks) : x.ino.blocks[j] = x.ino.blocks[l] => j = l
  <2>1. AllocOf(x, inodes, used)
    BY Zenon DEF Inv, Allocs
  <2> QED
    BY <1>1, <2>1, Zenon DEF AllocOf, Allocates
<1>3. k \in 1 .. x.n /\ k \in Nat
  BY <1>1, <1>2, NextBlock, Zenon
<1>4. b \in Held(x.ino) /\ b \in Blocks
  BY <1>1, <1>2, <1>3, HeldBlock, Zenon
<1>5. c \in Words
  <2>1. c = <<x.inum, x.n, k>>
    BY <1>3, Zenon DEF Side!Content
  <2>2. x.inum \in Nat
    BY <1>1, DiskAssumption DEF Side!Inums
  <2> QED
    BY <1>1, <1>3, <2>1, <2>2 DEF Words
<1> HIDE DEF b, c
<1>6. disk' \in [Blocks -> Words] /\ disk'[b] = c /\ \A a \in Blocks \ {b} : disk'[a] = disk[a]
  BY <1>1, <1>4, <1>5, Zenon DEF Types
<1>7. p = IF k < x.n THEN "write" ELSE "put_read"
  BY Zenon DEF Side!Loop
<1>8. p \in PCs /\ p \in PlacesOf("put")
  BY <1>7, Zenon DEF PCs, PlacesOf
<1>9. /\ r \in Local /\ r.k = k /\ r.pc = p /\ r.op = x.op /\ r.inum = x.inum /\ r.ino = x.ino
      /\ r.n = x.n
  <2> HIDE DEF p, k
  <2> QED
    BY <1>1, <1>3, <1>8, Zenon DEF Local
<1> HIDE DEF r, p
<1>10. Moves(t, r)
  BY <1>1, <1>9, GoesMoves, Zenon DEF Side!Goes
<1>11. \A i \in Side!Inums : i # x.inum => b \notin Held(inodes[i])
  BY <1>2, <1>4, Zenon
<1>12. \A i \in Side!Inums : i # x.inum => Held(inodes[i]) \subseteq used'
  BY <1>1, OthersMarked, Zenon DEF Rewrites
<1>13. AllocOf(r, inodes, used')
  BY <1>1, <1>2, <1>3, <1>7, <1>9 DEF AllocOf
<1>14. WriteOf(r, disk')
  <2>1. SUFFICES ASSUME NEW j \in 1 .. k
                 PROVE  disk'[x.ino.blocks[j]] = Side!Content(x.inum, x.n)[j]
    BY <1>9, Zenon DEF WriteOf
  <2>2. CASE j = k
    BY <1>6, <2>2, Zenon DEF b, c
  <2>3. CASE j # k
    <3>1. j \in 1 .. x.k /\ j \in 1 .. Len(x.ino.blocks) /\ k \in 1 .. Len(x.ino.blocks)
      <4>1. x.k < x.n /\ x.k \in Nat /\ x.n \in Nat /\ Len(x.ino.blocks) = x.n
        BY <1>1, <1>2, Zenon
      <4> QED
        BY <2>3, <4>1
    <3>2. x.ino.blocks[j] # b
      BY <1>2, <2>3, <3>1, Zenon DEF b
    <3>3. x.ino.blocks[j] \in Blocks
      BY <1>1, <3>1, HeldBlock, Zenon
    <3>4. disk[x.ino.blocks[j]] = Side!Content(x.inum, x.n)[j]
      BY <1>1, <3>1, Zenon DEF Inv, Writes, WriteOf, Allocates
    <3> QED
      BY <1>6, <3>2, <3>3, <3>4, Zenon
  <2> QED
    BY <2>2, <2>3, Zenon
<1>15. FreeOf(r, inodes) /\ BitsOf(r, inodes)
  BY <1>1, <1>7, <1>9 DEF FreeOf, BitsOf
<1>16. used' \in SUBSET Blocks
  BY <1>1, Zenon DEF Types
<1>17. \A a \in Blocks : \/ \A i \in Side!Inums : i # r.inum => a \notin Held(inodes[i])
                         \/ disk'[a] = disk[a]
  BY <1>6, <1>9, <1>11, Zenon
<1> QED
  BY <1>1, <1>6, <1>8, <1>9, <1>10, <1>12, <1>13, <1>14, <1>15, <1>16, <1>17, DiskStep, Zenon

\* put_inode writes one inode, and no other.
LEMMA PutWriteStep ==
    ASSUME Inv, NEW t \in Threads, Side!PutWrite(t)
    PROVE  Inv'
<1> DEFINE x == th[t]
           c == Side!Content(x.inum, x.n)
<1>1. /\ x.pc = "put_write" /\ x.op \in Uses /\ Side!Returns(t) /\ UNCHANGED <<used, disk>>
      /\ x \in Local /\ x.inum \in Side!Inums /\ x.ino \in Inode /\ x.n \in Nat
      /\ x.ino.blocks \in Seq(Blocks) /\ Types
  BY InvTypes, PlaceOps, Zenon DEF Side!PutWrite, Side!At
<1>2. /\ inodes' \in [Side!Inums -> Inode] /\ inodes'[x.inum] = x.ino
      /\ \A j \in Side!Inums \ {x.inum} : inodes'[j] = inodes[j]
  <2>1. inodes' = [j \in Side!Inums |-> IF j = x.inum THEN x.ino
                      ELSE IF j \in {x.inum} THEN x.inos[j] ELSE inodes[j]]
    BY Zenon DEF Side!PutWrite, Side!InodeBlock
  <2>2. \A j \in Side!Inums : inodes'[j] = IF j = x.inum THEN x.ino ELSE inodes[j]
    BY <2>1, Zenon
  <2>3. inodes' = [j \in Side!Inums |-> IF j = x.inum THEN x.ino ELSE inodes[j]]
    BY <2>1, Zenon
  <2>4. inodes' \in [Side!Inums -> Inode]
    BY <1>1, <2>3, Zenon DEF Types
  <2> QED
    BY <1>1, <2>2, <2>4, Zenon
<1>3. /\ file' = IF x.op = "put" THEN [file EXCEPT ![x.inum] = c] ELSE file
      /\ grants' = IF x.op = "remove" THEN [grants EXCEPT ![x.inum] = 0] ELSE grants
  BY Zenon DEF Side!PutWrite
<1>6. CASE x.op = "get"
  <2>1. x.ino = inodes[x.inum]
    BY <1>1, <1>6, Zenon DEF Inv, Gets, GetOf
  <2>2. \A j \in Side!Inums : inodes'[j] = inodes[j]
    BY <1>2, <2>1, Zenon
  <2>3. inodes' = inodes
    BY <1>1, <1>2, <2>2 DEF Types
  <2>4. file' = file /\ grants' = grants
    BY <1>3, <1>6, Zenon
  <2> QED
    BY <1>1, <1>6, <2>3, <2>4, ReturnStep, Zenon
<1>7. ASSUME x.op \in Rewrites PROVE Ends(t, x.inum)
  <2>1. \A u \in Threads \ {t} : th[u].op \in Uses => th[u].inum # x.inum
    BY <1>1, Zenon DEF Inv, OneUse
  <2>2. inodes[x.inum] # Side!Free
    BY <1>1, Zenon DEF Inv, UsesLive
  <2>3. \A u \in Threads : th[u].pc = "claim" => inodes[th[u].inum] = Side!Free
    <3>1. \A u \in Threads : th[u].pc = "claim" => th[u].op = "create"
      BY InvTypes, PlaceOps, Zenon
    <3> QED
      BY <3>1, Zenon DEF Inv, Creates, CreateOf
  <2>4. \A u \in Threads \ {t} : th[u].op \notin Rewrites
    BY <1>7, Zenon DEF Inv, OneWrite
  <2> QED
    BY <2>1, <2>2, <2>3, <2>4, Zenon DEF Ends
<1>8. CASE x.op = "put"
  <2>1. /\ x.ino.type # 0 /\ Held(x.ino) \subseteq used /\ Len(x.ino.blocks) = x.n /\ x.k = x.n
        /\ \A i \in Side!Inums \ {x.inum} : Held(inodes[i]) \cap Held(x.ino) = {}
    <3>1. AllocOf(x, inodes, used)
      BY Zenon DEF Inv, Allocs
    <3> QED
      BY <1>1, <1>8, <3>1 DEF AllocOf
  <2>2. \A j \in 1 .. x.n : disk[x.ino.blocks[j]] = c[j]
    BY <1>1, <1>8, <2>1, Zenon DEF Inv, Writes, WriteOf
  <2>3. c \in Seq(Words) /\ Len(c) = x.n
    <3>1. x.inum \in Nat
      BY <1>1, DiskAssumption DEF Side!Inums
    <3>2. \A j \in 1 .. x.n : <<x.inum, x.n, j>> \in Words
      BY <1>1, <3>1 DEF Words
    <3>3. c = [j \in 1 .. x.n |-> <<x.inum, x.n, j>>]
      BY Zenon DEF Side!Content
    <3> QED
      BY <1>1, <3>2, <3>3
  <2> HIDE DEF c
  <2>4. file' = [file EXCEPT ![x.inum] = c] /\ grants' = grants
    BY <1>3, <1>8, Zenon
  <2>5. /\ file' \in [Side!Inums -> Seq(Words)] /\ grants' \in [Side!Inums -> Nat] /\ file'[x.inum] = c
        /\ \A j \in Side!Inums \ {x.inum} : file'[j] = file[j] /\ grants'[j] = grants[j]
    BY <1>1, <2>3, <2>4, Zenon DEF Types
  <2>6. grants'[x.inum] = 1
    <3>1. inodes[x.inum] # Side!Free
      BY <1>1, Zenon DEF Inv, UsesLive
    <3> QED
      BY <1>1, <2>4, <3>1, Zenon DEF Inv, GrantedOnce, GrantOf
  <2>7. Ends(t, x.inum)
    BY <1>7, <1>8, Zenon DEF Rewrites
  <2>8. GrantOf(x.ino, 1)
    BY <2>1 DEF GrantOf, Side!Free
  <2>9. Stored(x.ino, c)
    BY <2>1, <2>2, <2>3, Zenon DEF Stored
  <2>10. Table(x.inum)
    BY <1>2, <2>1, <2>5, <2>6, <2>8, <2>9, Zenon DEF Table
  <2> QED
    BY <1>1, <2>7, <2>10, TableStep, Zenon
<1>9. CASE x.op = "remove"
  <2>1. x.ino = Side!Free
    BY <1>1, <1>9, Zenon DEF Inv, Frees, FreeOf
  <2>2. Held(x.ino) = {}
    BY <2>1 DEF Held, Side!Free
  <2>3. file' = file /\ grants' = [grants EXCEPT ![x.inum] = 0]
    BY <1>3, <1>9, Zenon
  <2>4. /\ file' \in [Side!Inums -> Seq(Words)] /\ grants' \in [Side!Inums -> Nat] /\ grants'[x.inum] = 0
        /\ \A j \in Side!Inums \ {x.inum} : file'[j] = file[j] /\ grants'[j] = grants[j]
    BY <1>1, <2>3, Zenon DEF Types
  <2>5. Ends(t, x.inum)
    BY <1>7, <1>9, Zenon DEF Rewrites
  <2>6. GrantOf(x.ino, 0) /\ Stored(x.ino, file'[x.inum])
    <3>1. 0 # 1
      OBVIOUS
    <3> QED
      BY <2>1, <3>1, Zenon DEF GrantOf, Stored
  <2>7. Table(x.inum)
    BY <1>2, <2>2, <2>4, <2>6, Zenon DEF Table
  <2> QED
    BY <1>1, <2>5, <2>7, TableStep, Zenon
<1> QED
  BY <1>1, <1>6, <1>8, <1>9, Zenon DEF Uses

-----------------------------------------------------------------------------

LEMMA InitInv ==
    ASSUME Side!Init
    PROVE  Inv
<1>1. PICK r \in Local : r = Side!Idle /\ r.op = "none" /\ r.pc = "idle"
  BY IdleLocal, Zenon
<1>2. \A t \in Threads : th[t] = r
  BY <1>1, Zenon DEF Side!Init
<1> DEFINE root == [type |-> 1, blocks |-> <<>>]
<1>3. root \in Inode /\ Side!Free \in Inode
  BY DEF Inode, Side!Free
<1>4. root # Side!Free /\ root.type = 1 /\ Side!Free.type = 0 /\ Held(root) = {} /\ Held(Side!Free) = {}
      /\ Len(root.blocks) = 0
  BY DEF Side!Free, Held
<1> HIDE DEF root
<1>5. /\ inodes = [i \in Side!Inums |-> IF i = 1 THEN root ELSE Side!Free]
      /\ grants = [i \in Side!Inums |-> IF i = 1 THEN 1 ELSE 0]
      /\ file = [i \in Side!Inums |-> <<>>] /\ used = {} /\ disk = [b \in Blocks |-> <<>>]
      /\ th = [t \in Threads |-> Side!Idle]
  BY Zenon DEF Side!Init, root
<1>6. \A i \in Side!Inums : /\ \/ inodes[i] = root /\ grants[i] = 1
                               \/ inodes[i] = Side!Free /\ grants[i] = 0
                            /\ file[i] = <<>>
  BY <1>5, Zenon
<1>7. \A i \in Side!Inums : Held(inodes[i]) = {}
  BY <1>4, <1>6, Zenon
<1>8. Types
  <2>1. inodes \in [Side!Inums -> Inode]
    BY <1>3, <1>5, Zenon
  <2>2. th \in [Threads -> Local]
    BY <1>1, <1>5, Zenon
  <2>3. <<>> \in Words /\ <<>> \in Seq(Words) /\ 1 \in Nat /\ 0 \in Nat
    BY DEF Words
  <2> QED
    BY <1>5, <2>1, <2>2, <2>3, Zenon DEF Types
<1>9. r.pc \in PlacesOf(r.op)
  BY <1>1, Zenon DEF PlacesOf
<1>10. Places /\ OneCreate /\ OneWrite /\ OneUse /\ UsesLive
  BY <1>1, <1>2, <1>9, Zenon DEF Places, OneCreate, OneWrite, OneUse, UsesLive, Rewrites, Uses
<1>11. GrantedOnce
  <2>1. GrantOf(root, 1) /\ GrantOf(Side!Free, 0)
    BY <1>4 DEF GrantOf
  <2> QED
    BY <1>6, <2>1, Zenon DEF GrantedOnce
<1>12. Creates /\ Gets /\ Frees /\ BitsKeep /\ Allocs /\ Writes
  <2>1. /\ CreateOf(r, inodes) /\ GetOf(r, inodes, file) /\ FreeOf(r, inodes)
        /\ BitsOf(r, inodes) /\ AllocOf(r, inodes, used) /\ WriteOf(r, disk)
    BY <1>1, Zenon DEF CreateOf, GetOf, FreeOf, BitsOf, AllocOf, WriteOf
  <2> QED
    BY <1>2, <2>1, Zenon DEF Creates, Gets, Frees, BitsKeep, Allocs, Writes
<1>13. Disjoint /\ Marked
  BY <1>7, Zenon DEF Disjoint, Marked
<1>14. Contents
  <2>1. Len(<<>>) = 0 /\ 1 .. 0 = {}
    OBVIOUS
  <2> QED
    BY <1>4, <1>6, <2>1, Zenon DEF Contents
<1> QED
  BY <1>8, <1>10, <1>11, <1>12, <1>13, <1>14, Zenon DEF Inv

\* A step of no thread.
LEMMA StutterInv ==
    ASSUME Inv, UNCHANGED Side!vars
    PROVE  Inv'
<1>1. inodes' = inodes /\ used' = used /\ disk' = disk /\ th' = th /\ file' = file /\ grants' = grants
  BY Zenon DEF Side!vars
<1>2. Types' /\ Places' /\ GrantedOnce' /\ OneCreate' /\ OneWrite' /\ OneUse' /\ UsesLive'
  BY <1>1, Zenon DEF Inv, Types, Places, GrantedOnce, OneCreate, OneWrite, OneUse, UsesLive
<1>3. Creates' /\ Gets' /\ Frees' /\ BitsKeep' /\ Allocs' /\ Writes'
  BY <1>1, Zenon DEF Inv, Creates, Gets, Frees, BitsKeep, Allocs, Writes
<1>4. Disjoint' /\ Marked' /\ Contents'
  BY <1>1, Zenon DEF Inv, Disjoint, Marked, Contents, Side!Writing
<1> QED
  BY <1>2, <1>3, <1>4, Zenon DEF Inv

\* Every disk access of every RPC keeps the invariant, and so does a new RPC,
\* unless it races.
LEMMA NextInv ==
    ASSUME raced \/ Inv, [Side!Next]_(Side!vars)
    PROVE  raced' \/ Inv'
<1>1. CASE UNCHANGED Side!vars
  <2>1. raced' = raced
    BY <1>1, Zenon DEF Side!vars
  <2> QED
    BY <1>1, <2>1, StutterInv, Zenon
<1>2. ASSUME NEW t \in Threads, Side!Access(t), raced' = raced PROVE raced' \/ Inv'
  <2>1. CASE raced
    BY <1>2, <2>1, Zenon
  <2>2. ASSUME Inv PROVE Inv'
    BY <1>2, <2>2, ScanStep, ClaimStep, GetInodeStep, FreeReadStep, FreeWriteStep, AllocReadStep,
       AllocWriteStep, WriteBlockStep, ReadBlockStep, FreeInodeStep, PutReadStep, PutWriteStep, Zenon
       DEF Side!Access
  <2> QED
    BY <2>1, <2>2, Zenon
<1>3. ASSUME NEW t \in Threads, NEW o \in {"create", "put", "get", "remove"}, NEW i \in Side!Inums,
             Side!Dispatch(t, o, i)
      PROVE  raced' \/ Inv'
  <2>1. raced' = (raced \/ Side!Races(o, i))
    BY <1>3, Zenon DEF Side!Dispatch
  <2>2. CASE raced \/ Side!Races(o, i)
    BY <2>1, <2>2, Zenon
  <2>3. CASE ~ raced /\ ~ Side!Races(o, i)
    BY <1>3, <2>3, DispatchStep, Zenon
  <2> QED
    BY <2>2, <2>3, Zenon
<1> QED
  BY <1>1, <1>2, <1>3, Zenon DEF Side!Next

\* The RPCs of the extent server, a disk access at a time, for any number of threads,
\* of inums and of blocks: the invariant holds until RPCs race.
THEOREM ThreadsInvariant == Side!Spec => [](raced \/ Inv)
<1>1. Side!Init => raced \/ Inv
  BY InitInv, Zenon
<1>2. (raced \/ Inv) /\ [Side!Next]_(Side!vars) => (raced \/ Inv)'
  BY NextInv, Zenon
<1> QED
  BY <1>1, <1>2, PTL DEF Side!Spec

\* inode_manager has no mutex.  All the same, as long as no two creates, no two of put
\* and remove, and no get and remove of an inum have overlapped: a get reads the
\* contents of the last put, although every read_file writes the inode back that it
\* read at its start (inode_manager.cc:266); the blocks of a file that nobody writes are
\* marked and of no other file; no removed file comes back; no put finds its inode
\* gone; and no inum is answered twice.
THEOREM OnlyRacesDoHarm == Side!Spec => []OnlyRacesDamage
<1>1. ASSUME Inv PROVE Side!GetReadsLastPut
  <2>1. SUFFICES ASSUME NEW t \in Threads, th[t].op = "get", th[t].pc = "put_write"
                 PROVE  th[t].seen = file[th[t].inum]
    BY Zenon DEF Side!GetReadsLastPut, Side!At
  <2> DEFINE x == th[t]
  <2>2. x.inum \in Side!Inums /\ x.seen \in Seq(Words) /\ Types
    BY <1>1, InvTypes, Zenon
  <2>3. /\ Len(x.seen) = x.k /\ x.k = Len(x.ino.blocks) /\ x.ino = inodes[x.inum]
        /\ \A j \in 1 .. x.k : x.seen[j] = file[x.inum][j]
    BY <1>1, <2>1, Zenon DEF Inv, Gets, GetOf
  <2>4. ~ Side!Writing(x.inum)
    BY <1>1, <2>1, Zenon DEF Inv, OneUse, Uses, Side!Writing
  <2>5. inodes[x.inum] # Side!Free
    BY <1>1, <2>1, Zenon DEF Inv, UsesLive, Uses
  <2>6. Len(file[x.inum]) = Len(inodes[x.inum].blocks)
    BY <1>1, <2>2, <2>4, <2>5, Zenon DEF Inv, Contents
  <2>7. file[x.inum] \in Seq(Words)
    BY <2>2, Zenon DEF Types
  <2>8. Len(x.seen) = Len(file[x.inum]) /\ \A j \in 1 .. Len(x.seen) : x.seen[j] = file[x.inum][j]
    BY <2>3, <2>6, Zenon
  <2> QED
    BY <2>2, <2>7, <2>8, SeqEqual, Zenon
<1>2. ASSUME Inv PROVE Side!FilesIntact /\ Side!BlocksUnique /\ Side!InumsUnique
  <2>1. \A i \in Side!Inums : Side!BlocksOf(i) = Held(inodes[i])
    BY Zenon DEF Side!BlocksOf, Held
  <2>2. \A i \in Side!Inums : grants[i] = 0 \/ grants[i] = 1
    BY <1>2, Zenon DEF Inv, GrantedOnce, GrantOf
  <2>3. \A i \in Side!Live : i \in Side!Inums /\ grants[i] = 1
    BY <1>2, Zenon DEF Inv, GrantedOnce, GrantOf, Side!Live
  <2>4. Side!FilesIntact
    <3>1. 1 > 0
      OBVIOUS
    <3>2. \A t \in Threads : ~ Side!At(t, "crashed")
      <4>1. \A t \in Threads : th[t].pc \in PCs
        BY <1>2, InvTypes, Zenon
      <4> QED
        BY <4>1, Zenon DEF PCs, Side!At
    <3> QED
      BY <1>2, <2>1, <2>3, <3>1, <3>2, Zenon DEF Side!FilesIntact, Inv, Marked
  <2>5. Side!BlocksUnique
    BY <1>2, <2>1, <2>3, Zenon DEF Side!BlocksUnique, Inv, Disjoint
  <2>6. Side!InumsUnique
    BY <2>2 DEF Side!InumsUnique
  <2> QED
    BY <2>4, <2>5, <2>6, Zenon
<1>3. raced \/ Inv => OnlyRacesDamage
  BY <1>1, <1>2, Zenon DEF OnlyRacesDamage, Side!OnlyRacesDamage
<1> QED
  BY <1>3, ThreadsInvariant, PTL

=============================================================================
