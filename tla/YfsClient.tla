----------------------------- MODULE YfsClient -----------------------------
(***************************************************************************)
(* The yfs_client processes: the handlers of fuse.cc and the operations of *)
(* yfs_client.cc on one extent server.  Every process serves one request   *)
(* of its kernel at a time; a step is one extent RPC (ExtentStore).  The   *)
(* first RPC under a lock comes with the acquire, the last one with the    *)
(* release (LockService), so who holds a lock follows from the pcs.        *)
(***************************************************************************)
EXTENDS Integers, Sequences, FiniteSets, FiniteSetsExt, Functions, TLC

CONSTANTS
    Clients,
    Inums,       \* 1 .. n, with an inode for every create
    Workloads    \* the workloads: the ops that the kernels ask for, the names they
                 \* give to files and to directories (a name is a number: that of an
                 \* inum if it is a numeral), the offsets of writes and the sizes of
                 \* setattr, and the bounds on the requests and on the RPCs that fail

VARIABLES
    ext,     \* the extents
    alive,   \* has the extent server not crashed?
    cl,      \* the request that each yfs_client serves
    kern,    \* what the kernel above it knows (external)
    ops,     \* requests so far
    load,    \* the workload
    faults,  \* extent RPCs that have failed so far
    broken   \* history: the inums whose entries a failed RPC has put in doubt

vars == <<ext, alive, cl, kern, ops, load, faults, broken>>

T_DIR == 1
T_FILE == 2
T_SYMLINK == 3

Names == UNION {w.files \cup w.dirs : w \in Workloads}
Sizes == UNION {w.sizes : w \in Workloads}

Absent == [type |-> 0, data |-> <<>>]
Target == <<7>>

\* The content of a directory is the text name/inum/name/inum/...: here the
\* sequence of the words between its slashes.
\* A numeral is represented by its number; n2i of any other word is 0.
filename(inum) == inum
n2i(word) == IF word \in Inums THEN word ELSE 0
readdir(buf) == [k \in 1 .. Len(buf) \div 2 |->
                    [name |-> buf[2 * k - 1], inum |-> n2i(buf[2 * k])]]

\* The inum of the first entry with the name, 0 if not found.
lookup(buf, name) ==
    LET found == {k \in DOMAIN readdir(buf) : readdir(buf)[k].name = name}
    IN  IF found = {} THEN 0 ELSE readdir(buf)[Min(found)].inum

add_entry(buf, name, inum) == buf \o <<name, filename(inum)>>

\* buf.find(ent): the first place where the two words of the entry follow each
\* other, whether the first of them is the name of an entry or an inum.
FindEntry(buf, name, inum) ==
    {p \in 1 .. Len(buf) - 1 : buf[p] = name /\ buf[p + 1] = filename(inum)}

remove_entry(buf, p) == SubSeq(buf, 1, p - 1) \o SubSeq(buf, p + 2, Len(buf))

Zeros(n) == [p \in 1 .. n |-> 0]
resize(buf, size) == IF size <= Len(buf) THEN SubSeq(buf, 1, size)
                     ELSE buf \o Zeros(size - Len(buf))

\* Mutant: an offset beyond the end does not make the file grow first.
WriteNoGrow(buf, off) ==
    LET at == IF off > Len(buf) THEN Len(buf) ELSE off
    IN  SubSeq(buf, 1, at) \o <<1>> \o SubSeq(buf, at + 2, Len(buf))

\* A write of one byte (1) at an offset.
write(buf, off) ==
    LET grown == IF off > Len(buf) THEN resize(buf, off) ELSE buf
    IN  SubSeq(grown, 1, off) \o <<1>> \o SubSeq(grown, off + 2, Len(grown))

-----------------------------------------------------------------------------

Idle == [pc |-> "idle", op |-> "none", dir |-> 0, name |-> 0, ino |-> 0,
         arg |-> 0, type |-> 0, buf |-> <<>>]

NoEntry == [dir |-> 0, name |-> 0, ino |-> 0, mode |-> 0]

Init ==
    /\ ext = [i \in Inums |-> IF i = 1 THEN [type |-> T_DIR, data |-> <<>>] ELSE Absent]
    /\ alive = TRUE
    /\ cl = [c \in Clients |-> Idle]
    /\ kern = [c \in Clients |-> [entry |-> NoEntry, cwd |-> 0, open |-> 0]]
    /\ ops = 0
    /\ load \in Workloads
    /\ faults = 0
    /\ broken = {}

Goes(c, changes) ==
    /\ cl' = [cl EXCEPT ![c] = changes @@ @]
    /\ UNCHANGED <<kern, ops, load>>

Reply(c, learns) ==
    /\ cl' = [cl EXCEPT ![c] = Idle]
    /\ kern' = [kern EXCEPT ![c] = learns @@ [@ EXCEPT !.entry = NoEntry]]
    /\ UNCHANGED <<ops, load>>

Creates == {"create", "mknod", "mkdir", "symlink"}
CreateType(op) == CASE op \in {"create", "mknod"} -> T_FILE
                    [] op = "mkdir"              -> T_DIR
                    [] op = "symlink"            -> T_SYMLINK

\* Mutant: the lock of the directory is released when the name is looked up.
HoldsToFind(c, i) ==
    \/ cl[c].dir = i /\ cl[c].pc = "find"
    \/ cl[c].ino = i /\ cl[c].pc = "put_file"

\* Mutant: the attributes are fetched before the lock is released.
HoldsToStat(c, i) ==
    \/ cl[c].dir = i /\ cl[c].pc \in {"find", "new", "link", "remove", "get", "put", "gone"}
    \/ cl[c].ino = i /\ cl[c].pc \in {"put_file", "isfile"}

\* The lock of an inum is held from the first RPC of the operation to its last.
Holds(c, i) ==
    \/ cl[c].dir = i /\ cl[c].pc \in {"find", "new", "link", "remove", "get", "put", "gone"}
    \/ cl[c].ino = i /\ cl[c].pc = "put_file"

acquired(i) == \A c \in Clients : ~ Holds(c, i)

At(c, pc) == alive /\ cl[c].pc = pc

\* ec->put: a put to an inode that does not exist crashes the server.
put(i, data) ==
    IF ext[i] = Absent
    THEN alive' = FALSE /\ UNCHANGED ext
    ELSE ext' = [ext EXCEPT ![i].data = data] /\ UNCHANGED alive

-----------------------------------------------------------------------------
(* The kernel.  Timeouts are 0: every system call looks its name up again. *)

FirstPc(op) ==
    CASE op \in Creates \cup {"lookup", "unlink"}   -> "isdir"
      [] op \in {"write", "setattr"}                -> "get_file"
      [] op = "getattr"                             -> "isfile"
      [] OTHER                                      -> op

\* What the kernel may ask for, given the last lookup and the open file.
Asks(c, op, name, arg) ==
    LET k == kern[c]
        req(dir, n, ino, a) ==
            [pc |-> FirstPc(op), op |-> op, dir |-> dir, name |-> n, ino |-> ino,
             arg |-> a, type |-> 0, buf |-> <<>>]
    IN  CASE op = "lookup"  -> IF k.cwd # 0 THEN {req(k.cwd, name, 0, 0)} ELSE {}
          [] op \in Creates -> IF k.entry.name = name /\ k.entry.ino = 0
                                  /\ name \in IF op = "mkdir" THEN load.dirs ELSE load.files
                               THEN {req(k.entry.dir, name, 0, 0)} ELSE {}
          [] op = "unlink"  -> IF k.entry.name = name /\ k.entry.ino # 0
                                  /\ k.entry.mode # T_DIR
                               THEN {req(k.entry.dir, name, 0, 0)} ELSE {}
          [] op = "getattr"  -> IF k.entry.ino # 0 THEN {req(0, 0, k.entry.ino, 0)} ELSE {}
          [] op = "readdir"  -> IF k.entry.mode = T_DIR THEN {req(k.entry.ino, 0, 0, 0)} ELSE {}
          [] op = "readlink" -> IF k.entry.mode = T_SYMLINK THEN {req(0, 0, k.entry.ino, 0)} ELSE {}
          [] op \in {"read", "write", "setattr"} ->
                                IF k.open # 0 THEN {req(0, 0, k.open, arg)} ELSE {}
          [] OTHER -> {}

Request(c, op, name, arg) ==
    /\ alive
    /\ cl[c] = Idle
    /\ ops < load.max
    /\ \E r \in Asks(c, op, name, arg) : cl' = [cl EXCEPT ![c] = r]
    /\ ops' = ops + 1
    /\ UNCHANGED <<ext, alive, kern, load>>

\* Open (which asks the server for nothing), or change to, what was looked up.
Enter(c) ==
    /\ alive
    /\ cl[c] = Idle
    /\ LET e == kern[c].entry IN
        /\ \/ e.mode = T_FILE /\ "write" \in load.ops /\ kern' = [kern EXCEPT ![c].open = e.ino, ![c].entry = NoEntry]
           \/ e.mode = T_DIR  /\ kern' = [kern EXCEPT ![c].cwd  = e.ino, ![c].entry = NoEntry]
    /\ UNCHANGED <<ext, alive, cl, ops, load>>

-----------------------------------------------------------------------------
(* Operations on a directory: lookup, create, mkdir, symlink, unlink.      *)

\* How the operation goes on with what _lookup found: the lookup of fuse.cc with
\* getattr or ENOENT,
LookupFound(c, ino) ==
    /\ cl[c].op = "lookup"
    /\ IF ino = 0
       THEN Reply(c, [entry |-> [dir |-> cl[c].dir, name |-> cl[c].name, ino |-> 0, mode |-> 0]])
       ELSE Goes(c, [pc |-> "isfile", ino |-> ino])

\* unlink with ec->remove or NOENT,
UnlinkFound(c, ino) ==
    /\ cl[c].op = "unlink"
    /\ IF ino = 0 THEN Reply(c, <<>>) ELSE Goes(c, [pc |-> "remove", ino |-> ino])

\* and create, mkdir and symlink with EXIST or ec->create.
CreateFound(c, ino) ==
    /\ cl[c].op \in Creates
    /\ IF ino = 0 THEN Goes(c, [pc |-> "new"]) ELSE Reply(c, <<>>)

Looked(c, ino) == LookupFound(c, ino) \/ UnlinkFound(c, ino) \/ CreateFound(c, ino)

LookupIsdir(c) ==
    /\ At(c, "isdir")
    /\ acquired(cl[c].dir)
    /\ IF ext[cl[c].dir].type = T_DIR THEN Goes(c, [pc |-> "find"]) ELSE Looked(c, 0)
    /\ UNCHANGED <<ext, alive>>

LookupFind(c) ==
    /\ At(c, "find")
    /\ Looked(c, lookup(ext[cl[c].dir].data, cl[c].name))
    /\ UNCHANGED <<ext, alive>>

\* ec->create: the first inode that is free.
NewInum == Min({i \in Inums : ext[i] = Absent})
create(type) == ext' = [ext EXCEPT ![NewInum].type = type]

Created(c, ino) ==
    Goes(c, [pc |-> IF cl[c].op = "symlink" THEN "link" ELSE "get", ino |-> ino])

CreateNew(c) ==
    /\ At(c, "new")
    /\ create(CreateType(cl[c].op))
    /\ Created(c, NewInum)
    /\ UNCHANGED alive

SymlinkPut(c) ==
    /\ At(c, "link")
    /\ put(cl[c].ino, Target)
    /\ Goes(c, [pc |-> "get"])

UnlinkRemove(c) ==
    /\ At(c, "remove")
    /\ ext' = [ext EXCEPT ![cl[c].ino] = Absent]
    /\ Goes(c, [pc |-> "get"])
    /\ UNCHANGED alive

ParentGet(c) ==
    /\ At(c, "get")
    /\ Goes(c, [pc |-> "put", buf |-> ext[cl[c].dir].data])
    /\ UNCHANGED <<ext, alive>>

CreatePut(c) ==
    /\ At(c, "put") /\ cl[c].op \in Creates
    /\ put(cl[c].dir, add_entry(cl[c].buf, cl[c].name, cl[c].ino))
    /\ Goes(c, [pc |-> "isfile", buf |-> <<>>])

\* If unlink does not find its entry, replace throws: the yfs_client is gone, and
\* its lock with it.
UnlinkPut(c) ==
    LET r == cl[c]
        at == FindEntry(r.buf, r.name, r.ino)
    IN  /\ At(c, "put") /\ r.op = "unlink"
        /\ IF at = {}
           THEN Goes(c, [pc |-> "gone"]) /\ UNCHANGED <<ext, alive>>
           ELSE put(r.dir, remove_entry(r.buf, Min(at))) /\ Reply(c, <<>>)

-----------------------------------------------------------------------------
(* The getattr of fuse.cc, after a lookup, a create or a setattr too: two  *)
(* or three operations, each with the lock of the inode for itself.  (The  *)
(* isfile in its printf is one more that changes nothing.)                 *)

Isfile(c) ==
    /\ At(c, "isfile")
    /\ acquired(cl[c].ino)
    /\ Goes(c, IF ext[cl[c].ino].type = T_FILE
               THEN [pc |-> "getfile", type |-> T_FILE] ELSE [pc |-> "stat_isdir"])
    /\ UNCHANGED <<ext, alive>>

Isdir(c) ==
    /\ At(c, "stat_isdir")
    /\ acquired(cl[c].ino)
    /\ Goes(c, IF ext[cl[c].ino].type = T_DIR
               THEN [pc |-> "getdir", type |-> T_DIR] ELSE [pc |-> "getfile", type |-> T_SYMLINK])
    /\ UNCHANGED <<ext, alive>>

ReplyEntry(c) ==
    /\ cl[c].op \in {"lookup", "mknod", "mkdir", "symlink"}
    /\ Reply(c, [entry |-> [dir |-> cl[c].dir, name |-> cl[c].name,
                            ino |-> cl[c].ino, mode |-> cl[c].type]])

\* What create answers is opened.
ReplyCreate(c) ==
    /\ cl[c].op = "create"
    /\ Reply(c, IF cl[c].type = T_FILE /\ "write" \in load.ops THEN [open |-> cl[c].ino] ELSE <<>>)

ReplyAttr(c) ==
    /\ cl[c].op \in {"getattr", "setattr"}
    /\ Reply(c, <<>>)

\* The mode of the reply is that of the branch getattr is in.
getattr(c, pc) ==
    /\ At(c, pc)
    /\ acquired(cl[c].ino)
    /\ ReplyEntry(c) \/ ReplyCreate(c) \/ ReplyAttr(c)
    /\ UNCHANGED <<ext, alive>>

Getfile(c) == getattr(c, "getfile")
Getdir(c) == getattr(c, "getdir")

-----------------------------------------------------------------------------
(* Operations on a file, and the listing of a directory.                   *)

FileGet(c) ==
    /\ At(c, "get_file")
    /\ acquired(cl[c].ino)
    /\ Goes(c, [pc |-> "put_file", buf |-> ext[cl[c].ino].data, type |-> ext[cl[c].ino].type])
    /\ UNCHANGED <<ext, alive>>

WritePut(c) ==
    /\ At(c, "put_file") /\ cl[c].op = "write"
    /\ put(cl[c].ino, write(cl[c].buf, cl[c].arg))
    /\ Reply(c, <<>>)

\* Also when only the times are to be set, with the size that the request holds.
SetattrPut(c) ==
    /\ At(c, "put_file") /\ cl[c].op = "setattr"
    /\ put(cl[c].ino, resize(cl[c].buf, cl[c].arg))
    /\ Goes(c, [pc |-> "isfile", buf |-> <<>>])

\* One RPC under the lock.
Read(c) ==
    /\ At(c, "read")
    /\ acquired(cl[c].ino)
    /\ Reply(c, <<>>)
    /\ UNCHANGED <<ext, alive>>

Readlink(c) ==
    /\ At(c, "readlink")
    /\ acquired(cl[c].ino)
    /\ Reply(c, <<>>)
    /\ UNCHANGED <<ext, alive>>

\* isdir and readdir take the lock one after the other.
ReaddirIsdir(c) ==
    /\ At(c, "readdir")
    /\ acquired(cl[c].dir)
    /\ IF ext[cl[c].dir].type = T_DIR THEN Goes(c, [pc |-> "entries"]) ELSE Reply(c, <<>>)
    /\ UNCHANGED <<ext, alive>>

Readdir(c) ==
    /\ At(c, "entries")
    /\ acquired(cl[c].dir)
    /\ Reply(c, <<>>)
    /\ UNCHANGED <<ext, alive>>

\* A mount: the constructor of yfs_client puts an empty root, without its lock;
\* the runs mount every client before the first request.
Mount(c) ==
    /\ alive
    /\ kern[c].cwd = 0
    /\ ops = 0
    /\ put(1, <<>>)
    /\ kern' = [kern EXCEPT ![c].cwd = 1]
    /\ UNCHANGED <<cl, ops, load>>

-----------------------------------------------------------------------------
(* Extent RPCs that fail: rpcc::call gives up, and the server has run the  *)
(* call or never does.  (That it runs the call later, when the client has  *)
(* released the lock, is left out.)  Where the status is ignored, or the   *)
(* kernel learns as much from an error, a call that the server has run     *)
(* goes on as one that succeeds, and is not repeated here; so do read,     *)
(* readlink and readdir when their only RPC fails, and the put of a mount. *)

Fails(harmed) ==
    /\ faults < load.faults
    /\ faults' = faults + 1
    /\ broken' = broken \cup harmed

\* _isdir and _readdir fail: _lookup has not found the name, and create goes on.
LookupFails(c) ==
    /\ \/ At(c, "isdir") /\ acquired(cl[c].dir)
       \/ At(c, "find")
    /\ Looked(c, 0)
    /\ Fails({})
    /\ UNCHANGED <<ext, alive>>

\* The status of ec->create is ignored, and ino_out is what the handler's variable
\* happened to hold (but no directory that the put of symlink would overwrite).
CreateNewFails(c) ==
    /\ At(c, "new")
    /\ create(CreateType(cl[c].op)) \/ UNCHANGED ext
    /\ \E ino \in Inums :
        /\ cl[c].op = "symlink" => ext[ino].type # T_DIR
        /\ Created(c, ino)
        /\ Fails({ino})
    /\ UNCHANGED alive

\* So is that of the put of symlink, and of ec->remove.
IgnoredFails(c) ==
    /\ At(c, "link") \/ At(c, "remove")
    /\ Goes(c, [pc |-> "get"])
    /\ Fails({})
    /\ UNCHANGED <<ext, alive>>

\* The get or the put of the directory fails, and so does the operation; what it
\* did before is not undone.
ParentFails(c) ==
    LET r == cl[c] IN
    /\ \/ At(c, "get") /\ UNCHANGED <<ext, alive>>
       \/ /\ At(c, "put") /\ r.op \in Creates
          /\ put(r.dir, add_entry(r.buf, r.name, r.ino)) \/ UNCHANGED <<ext, alive>>
       \/ /\ At(c, "put") /\ r.op = "unlink"
          /\ FindEntry(r.buf, r.name, r.ino) # {}
          /\ UNCHANGED <<ext, alive>>
    /\ Reply(c, <<>>)
    /\ Fails(IF r.op = "unlink" THEN {r.ino} ELSE {})

\* A write fails with its get or its put; setattr goes on with getattr.
FileFails(c) ==
    /\ \/ At(c, "get_file") /\ acquired(cl[c].ino)
       \/ At(c, "put_file")
    /\ IF cl[c].op = "write" THEN Reply(c, <<>>) ELSE Goes(c, [pc |-> "isfile", buf |-> <<>>])
    /\ Fails({})
    /\ UNCHANGED <<ext, alive>>

\* isfile and isdir answer false; without attributes the kernel gets an error, or
\* a mode of 0, which it takes for one.
StatFails(c) ==
    /\ acquired(cl[c].ino)
    /\ \/ At(c, "isfile") /\ Goes(c, [pc |-> "stat_isdir"])
       \/ At(c, "stat_isdir") /\ Goes(c, [pc |-> "getfile", type |-> T_SYMLINK])
       \/ (At(c, "getfile") \/ At(c, "getdir")) /\ Reply(c, <<>>)
    /\ Fails({})
    /\ UNCHANGED <<ext, alive>>

ReaddirFails(c) ==
    /\ At(c, "readdir")
    /\ acquired(cl[c].dir)
    /\ Reply(c, <<>>)
    /\ Fails({})
    /\ UNCHANGED <<ext, alive>>

Fail(c) ==
    \/ LookupFails(c) \/ CreateNewFails(c) \/ IgnoredFails(c) \/ ParentFails(c)
    \/ FileFails(c) \/ StatFails(c) \/ ReaddirFails(c)

-----------------------------------------------------------------------------

Serve(c) ==
    /\ \/ LookupIsdir(c) \/ LookupFind(c) \/ CreateNew(c) \/ SymlinkPut(c)
       \/ UnlinkRemove(c) \/ ParentGet(c) \/ CreatePut(c) \/ UnlinkPut(c)
       \/ Isfile(c) \/ Isdir(c) \/ Getfile(c) \/ Getdir(c)
       \/ FileGet(c) \/ WritePut(c) \/ SetattrPut(c)
       \/ Read(c) \/ Readlink(c) \/ ReaddirIsdir(c) \/ Readdir(c)
    /\ UNCHANGED <<faults, broken>>

Kernel(c) ==
    /\ \/ Enter(c) \/ Mount(c)
       \/ \E op \in load.ops, name \in load.files \cup load.dirs, arg \in load.sizes :
              Request(c, op, name, arg)
    /\ UNCHANGED <<faults, broken>>

Next == \E c \in Clients : Serve(c) \/ Fail(c) \/ Kernel(c)

Spec == Init /\ [][Next]_vars /\ \A c \in Clients : WF_vars(Serve(c))

-----------------------------------------------------------------------------

\* The entries of the directories, without those that an unlink is about to
\* take out and with those that a create is about to add: the clients that do
\* so hold the lock of the directory.
Entries ==
    LET Being(what) == {<<cl[c].dir, cl[c].name, cl[c].ino>> :
                           c \in {d \in Clients : cl[d].op \in what /\ cl[d].pc \in {"get", "put"}}}
        Stored == UNION {{<<d, e.name, e.inum>> : e \in Range(readdir(ext[d].data))} :
                            d \in {i \in Inums : ext[i].type = T_DIR}}
    IN  (Stored \ Being({"unlink"})) \cup Being(Creates)

Linked == {1} \cup {e[3] : e \in Entries}

\* Every entry names an inode, of which it is the only entry, and every inode but
\* the root has one: a create that loses a race leaves no entry behind, and an
\* unlink that races with creates, which use its inum again, takes out the right
\* one.  An extent RPC that fails may leak inodes, but puts no other entry in doubt
\* than that of an inum that a create did not get, or that an unlink removed and
\* could not take out (yfs_client.cc:419, where the inode goes before its entry).
TreeConsistent ==
    /\ \A e \in Entries : e[3] \notin broken =>
           ext[e[3]] # Absent /\ \A f \in Entries : f[3] = e[3] => f = e
    /\ faults = 0 => \A i \in Inums \ Linked :
           ext[i] # Absent => \E c \in Clients : cl[c].pc = "link" /\ cl[c].ino = i

\* What the users of the mounts see, in the workloads where no RPC fails.
Reliable == load.faults = 0
Tree == INSTANCE FileSystem WITH
    entries <- IF Reliable THEN Entries ELSE {},
    node <- [i \in IF Reliable THEN Linked ELSE {1} |->
                IF ~ Reliable \/ ext[i].type = T_DIR THEN [type |-> T_DIR, data |-> <<>>]
                ELSE ext[i]]

\* "Check that the results are consistent with the operations executing in some
\* order" (Lab-2.html:329): as long as no RPC fails, the get and put of a directory
\* or a file by several clients amount to operations that happen at once, with no
\* entry and no byte lost.
ImplementsFileSystem == Tree!Spec

\* Every request is answered: no path of an operation keeps a lock, whichever of
\* its RPCs fails, and an operation that waits for one lock holds no other.  (Failed
\* RPCs can bring the server down, or a client whose entry is not found, and its
\* locks with it.)
Answered ==
    \A c \in Clients : cl[c].pc # "idle" ~>
        cl[c].pc = "idle" \/ ~ alive \/ (faults > 0 /\ \E d \in Clients : cl[d].pc = "gone")

\* "Concurrent operations to the same file/directory from different yfs_clients
\* occur one at a time" (Lab-2.html:130): the file that a write or a setattr has
\* read is still there when it puts the new content.
OneAtATime == \A c \in Clients : cl[c].pc = "put_file" => ext[cl[c].ino].type = cl[c].type

=============================================================================
