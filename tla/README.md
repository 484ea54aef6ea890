# Verification of the YFS labs

The repository is a small distributed file system. Clients mount it through FUSE;
file data lives in one extent server; a lock server keeps the clients' operations
apart; all of them talk through a home-grown RPC library. This project models these
parts from the code, checks them with TLC on small instances, and proves the safety of
the two lock servers, the RPC library, the handles, the job queue and the extent server
with TLAPS for every number of clients, threads, calls and restarts and every size of the
disk.

## The system and its parts

| Part | Source | Modelled by |
|---|---|---|
| caching lock client and server | `lock_client_cache.cc/.h`, `lock_server_cache.cc/.h` | `LockCache` (one lock, many threads), `LockPool` (many locks, one dispatch pool) |
| what a lock promises | `lock_client.h`, Lab-2.html, Lab3.html | `LockService` |
| RPC client and server end | `rpc/rpc.cc`, `rpc/rpc.h` | `Rpc`, `RpcWindow`, `RpcLists` |
| what a call promises | Lab3.html | `RpcService` |
| marshalling | `rpc/marshall.h`, `rpc/rpc.cc`, `rpc/rpc.h` | `Marshall`, `RpcCodec` |
| job queue of the dispatch pool | `rpc/fifo.h` | `Fifo` |
| handles (cached connections) | `handle.cc/.h` | `HandleMgr` |
| lab 2 lock server, and its tester | `lock_server.cc`, `lock_tester.cc` | `LockServer` |
| inodes and blocks | `inode_manager.cc/.h` | `InodeManager` (operators) |
| extent server | `extent_server.cc`, `extent_client.cc` | `ExtentServer` (an RPC at a time), `ExtentThreads` (a disk access at a time) |
| what the extent server promises | `extent_protocol.h`, its use in `yfs_client.cc` | `ExtentStore` |
| yfs client and FUSE front end | `yfs_client.cc/.h`, `fuse.cc` | `YfsClient` |
| what a shared file system promises | Lab-2.html | `FileSystem` |

How they interact: FUSE turns a request of the kernel into one or more operations of
`yfs_client`. An operation acquires the lock of an inode, calls the extent server and
releases. The lock client asks the lock server only when it has not cached the lock.
The lock server calls back (`revoke`, `retry`) *inside* the handler of the request
that caused it, through a handle that is bound on first use. Every call goes through
`rpcc::call1` and `rpcs::dispatch`, whose jobs wait in a `fifo` for one of six threads.

The components are composed through their abstract specifications. `LockCache`
implements `LockService`, `Rpc` implements `RpcService`, `ExtentServer` implements
`ExtentStore`. `YfsClient` is then written over the locks of `LockService` and the RPCs
of `ExtentStore`, each executed at most once (`RpcService`), and implements `FileSystem` as
long as none fails. One link is weaker than the others: `ExtentStore` is what the server
does with one RPC at a time, and its threads take several. `ExtentThreads` says for which
RPCs that makes a difference, and the locks of `YfsClient` do not keep all of those apart
(two clients may create in two directories at once).

`PROJECT.json` lists each hazard of the code at its line, with the properties that
cover it, and the lines that each definition translates.

## The modules

### LockCache: the caching lock protocol

One lock id; any set of `Clients` and of `Threads`, each thread with a `Home` client.
Different lock ids share only the mutexes, and no mutex is held across an RPC. An
action is one critical section. All RPCs are synchronous, so what a thread has
started is a chain (acquire, revoke, release, retry), one link of which is active:
`pc[t]` says which, also while a handler in another process runs on behalf of `t`.
`revokee[t]` and `retryee[t]` are the clients whose handlers the chain runs.

| Code | Actions |
|---|---|
| `lock_client_cache::acquire` | `AcquireMiss`, `AcquireHit`, `AcquireWhileReleasing`, `AcquireQueued`, `ResumeAfterRelease`, `ResumeTurn` |
| `acquire_server` | `AcquireReturnsOK`, `AcquireReturnsRetry`, `AcquireReturnsLate`, `ResumeRetry` |
| `release` | `ReleaseKeep`, `ReleaseRevoked`, `ReleaseReturns` |
| `revoke_handler` | `RevokeFree`, `RevokeLater`, `RevokeReturns` |
| `retry_handler` | `RetryHandler` |
| `lock_server_cache::acquire` | `GrantFree`, `RefuseOwned`, `GrantRetryer`, `RefuseRetrying`, `SendRevoke` |
| `lock_server_cache::release` | `ServerRelease`, `SendRetry` |

A condition variable is the thread that waits on it; `woken` holds the threads that
left `pthread_cond_wait` and have not retaken the mutex. `stuck` records the two
`return 0` paths that leave the mutex locked. A failed `VERIFY`, or `*waiter.begin()`
and `queue.front()` on nothing, disables the action; `NoAbort` and
`RetryFindsWaiter` show that this does not happen.

### LockPool: several cached locks on one dispatch pool

The same protocol for several locks and clients of one thread each (a `yfs_client`
runs `fuse_session_loop`), with the bound that `LockCache` leaves out: an acquire keeps
a thread of the server's pool until its revoke has returned, a release until its retry
has. With `BindFails`, `call_client` may return `RPCERR`, which its callers ignore.

### Rpc: one rpcc and one rpcs

A call is its xid; an action is one critical section of `call1`, `dispatch` or
`got_pdu`. `requests` and `replies` are the messages under way, each on a numbered
connection; `jobs` are the copies being dispatched, so two copies of one request
run through `dispatch` side by side. `Crash` and `Restart` give the server a new
nonce and empty windows. With `HalfOpen` the two ends of a connection learn of its
loss separately. With `Lossy`, `call1` resends a request that the server should
have forgotten, as under `RPC_LOSSY`. `ran` counts executions per server instance
and is history only.

`RpcWindow` says what the two windows compute, as sets. `RpcLists` models the loops
over `std::list` literally and checks them against those sets, which is why `Rpc` may
use sets. `RpcService` is the promise to a caller: at most one run, and one run before
a reply.

### Marshall and RpcCodec: bytes on the wire

`Marshall` has the buffer with its growth, both headers and the operators `<<` and `>>`
for every type, on bytes of `BYTE` values; `rawbyte` yields a signed char, as in the
code. `RpcCodec` sends the arguments of every RPC of the repository, declared with the
types of the caller, to the handler that is registered for it with its own types, and
the result back. Values stand at the edges of their types.

### Fifo, HandleMgr, LockServer

`Fifo`: an action runs from one wait, or the call, to the next wait or the return;
`Signal` wakes any one waiter, and a wait may end by itself. `HandleMgr`: threads that
do what `call_client` does (`get_handle`, `safebind` twice, `done_handle`) while binds
fail and, in one part of the run, somebody calls `delete_handle`. `LockServer`: the
handlers on a bounded pool under the threads of `lock_tester`, whose tests are
sequences of steps and whose checks set `error`.

### InodeManager, ExtentServer, ExtentThreads

`InodeManager` is the disk with bitmap, inode table, direct and index blocks, as
operators over a state, with every size a constant. The loops of `write_file` are closed
forms: `Numbers` and `Index` are what the inode and the index block hold after its calls
of `alloc_block`, `write_blocks` is the disk after the writes. `ExtentServer` runs the five RPCs
one at a time; a put to an inum that does not exist ends the server, as the null
pointer does. `ExtentThreads` splits the same RPCs into single `read_block` and
`write_block` accesses, since nothing in `inode_manager` is locked: an action changes
the disk or the local copies of a thread. Any thread runs any RPC; the locks of the
clients keep apart what they keep apart (`Locked`: two RPCs on one inum, except that the
remove of an unlink is not made under the lock of the file). `raced` notes whether two RPCs
that harm each other (`Races`) have been under way together. Past that point an RPC may
meet an inode that is free, where the code follows a null pointer: the server has crashed.

### YfsClient: operations as sequences of extent RPCs

A step is one extent RPC. Which locks a client holds follows from where it is. A
directory is the sequence of the words of its text `name/inum/name/inum/`, and `unlink`
cuts its entry out by the search that the code makes. Every handler of `fuse.cc` is
there with the `getattr` calls that follow it. The kernel (`kern`, external) is an
environment that only asks for what a kernel can: it looks a name up before it uses it.

Every extent RPC may also fail (`Fail`): `rpcc::call` gave up, and the server executed the
call or did not. The actions then take the paths of the code: an error reply where a status
is checked (the get and the put of a directory, a write), and on with what there is where it
is ignored (`ec->create`, whose `ino_out` then holds anything, `ec->remove`, the put of a
symlink, `setattr`) or where a failed `isdir` reads as "no directory". `broken` collects the
inums whose entries this puts in doubt. Not modelled is a call that the server executes
later, when the client has given up and released the lock, and a symlink whose `ino_out`
happens to name a directory.

### Composites for the model checker

`MCParts` puts six small components that share no state side by side: `part`, chosen
at first, names the one that moves, and the others rest where nothing of theirs has
to go on. `PartHandles`, `PartTester` and `PartPool` name the properties of three of them,
for the run and for the theorems alike. `MCExtents` puts the two views of the extent
server side by side (`PartThreads` names the properties of `ExtentThreads`). `MCYfsClient` and `MCLockCache` hold workloads and thread
assignments.

## The runs

| Run | Instance | States | Shows |
|---|---|---|---|
| `lock_cache` | 3 clients, 2+2+1 threads | 24,412 | exclusion, coherent caches, no abort, unlocked reads harmless; the inductive invariant; `LockService`; every caller served while two clients ask, the first client always, the lock never stuck |
| `lock_cache_spurious` | 2 clients, 2+1 threads, spurious wake-ups | 350,679 | the server's record stays consistent |
| `lock_cache_spurious_exclusion` | the same | | two threads hold the lock (finding 1) |
| `rpc_order` | 5 calls, 1 connection, lossy resends | 111,529 | no caller is refused and no needed reply forgotten, in any order of dispatch |
| `rpc_faults` | 3 calls, 2 connections, 2 instances, timeouts, cancel, half-open | 526,657 | at most once, a reply means a run, replies kept; the inductive invariant; `RpcService` |
| `rpc_live` | 3 calls, 2 connections, 2 instances, cancel, half-open | 235,471 | calls are answered when the server learns of a loss no later than the client; `cancel` returns |
| `rpc_half_open` | 2 calls, 2 connections, half-open | | a call is never answered (finding 2) |
| `parts` | see below | 216,849 | queue, window lists, wire format, handles, lab 2 server, dispatch pool |
| `extents` | 24 blocks of 4 words, 5 inodes; 2 threads, 3 inums | 396,607 | every block has one owner; contents read back; `ExtentStore`; which RPCs may run side by side |
| `yfs` | 2 mounts, 5 inums, 5 workloads, 3 of them with failing RPCs | 395,623 | the tree stays a tree; `FileSystem`; every request answered, whichever RPC fails |
| `lock_pool_full` | 3 clients, 3 locks, 3 threads | | no thread is left for a release (finding 3) |
| `yfs_unlink_write` | 2 mounts, write and unlink of a file | | a file vanishes under a write (finding 4) |

`parts` in detail:

| Part | Instance | Properties |
|---|---|---|
| queue | 4 producers (one non-blocking), 3 consumers, capacity 2 | `FifoSafe`, `EnqReturns` |
| window lists | 5 xids, lists up to 6 long | `ListsExact` |
| wire format | bytes of 4 values, first capacity 26, 12 RPCs | `MessagesArrive` |
| handles | 3 threads, 2 destinations, failing binds, 3 entries; 2 entries with `delete_handle` | `EntriesLive`, `SafebindKeeps`, `HandleDone` |
| lab 2 server | main and 4 threads of `lock_tester`, 2 rounds, pool of 4 | `GrantedOnce`, `TesterEnds` |
| cached locks | 3 clients, 2 locks, pool of 2; and 1 lock with failing binds | `OneOwner`, `StopsOnlyFull` |

Three of these need a word. `EnqReturns` has producers that offer as often as they like, so
it says what the code gives: a waiting producer gets in unless others offer for ever.
`StopsOnlyFull`: whenever all clients wait and nothing more can happen, all threads of the
pool are in acquires whose revoke waits for a queued release (finding 3); the instance
reaches such states, and nothing else stops it, so no revoke or retry is lost. In `extents`,
`OnlyRacesDamage` says that as long as no two RPCs of `Races` were under way together, gets
read what was last put, files keep their contents, and no block or inum is given out twice.
None of the pairs in `Races` is there in vain: with any of them taken out (two creates; two
of put and remove, also of different inums; a get and a remove of one inum) TLC finds harm
done. For `TreeConsistent` the workloads with failing RPCs were also run with up to two
failures of five requests on directories and one of eight.

Bounds. Two clients with two threads reach every state of `lock_t` on both sides,
with contention inside and between clients; the third adds waiting clients at the
moment of a grant (a second revocation in the same RPC). For the RPC windows three
calls in disorder are needed to have one above, one below and one at the front besides
the bind. Two connections are one loss and a retransmission; two instances are one
restart. The last connection does not break, so that there is always one to be had.
Four producers and a capacity of two have woken, overtaking and non-blocking callers
at the same time. A capacity of 26 bytes beside a header of 24 makes nearly every
message grow its buffer. Files of 0, 4 and 9 words are empty, one block, and one
direct plus two indirect blocks; three puts free and take the index block again.
The bounds (`MaxXid`, `MaxConn`, `MaxNonce`, `MaxLength`, `MaxInfos`, `MaxPuts`, `MaxFiles`,
`Rounds`, `max` and `faults` of a workload) stand in guards. Runs that end when a bound is
reached do not check for deadlock; `lock_cache`, which never ends, does. No symmetry
is used: ids and xids are ordered, and several properties are temporal.

Fairness. `LockCache`: what was called goes on (weak fairness per thread), and a thread
that has the lock releases it, as every operation of `yfs_client.cc` does. `LockPool`: none
(`StopsOnlyFull` is about states in which no step is left). `Rpc`: calling and dispatching threads are scheduled, a live
connection delivers, a dead server is restarted, and the loss of a connection
reaches both ends (TCP reset or the poll manager). Deadlines (`WaitExpired`) are fair
because the wait is timed. `Fifo`: threads run and a consumer comes back for the next
job, as the workers of the pool do; `LockServer`, `HandleMgr`, `YfsClient`: a thread or
process in the middle of an operation goes on. No spurious wake-up is ever assumed.

### Findings

1. `lock_client_cache` waits without a loop. One spurious return from the wait at
   `lock_client_cache.cc:90` gives the lock to two threads. Lab-2.html:311 asks for
   the loop.
2. `rpcs::dispatch` answers on the connection of the request unless it already
   knows it dead (`rpc/rpc.cc:616`). When the client noticed the loss first, its
   retransmission was dropped as INPROGRESS, and nothing sends the reply again.
   Lab3.html:8 promises exactly-once under loss.
3. An acquire that revokes keeps its dispatch thread until the holder's release has
   been handled, which needs another (`lock_server_cache.cc:61`). Six such acquires use
   up the pool of six, and everybody waits for ever.
4. `unlink` removes an inode without its lock (`yfs_client.cc:419`), also between the get
   and the put of a write that holds it. Lab-2.html:130 says that operations on a file
   occur one at a time.

Also seen while modelling. These bound what the passing runs may assume:

* `lock_server_cache.cc:78`: `*waiter.begin()` can starve a client with a later id, hence
  the condition of `AcquireReturnsEventually`.
* `lock_server_cache.cc:102`: a revoke or retry whose bind failed is never sent again.
  `OneOwner` holds all the same; `StopsOnlyFull` is claimed without failing binds only.
* `rpc/rpc.cc:293`: a call that timed out counts as replied to. A new call overtaken by a
  later one can then be refused as FORGOTTEN, which `rpc/rpc.h:272` reserves for
  duplicates (`OnlyDuplicatesForgotten` with `Timeouts`).
* `rpc/rpc.cc:650`: the comment says `<= xid_rep`, the code deletes `< xid_rep`. The code is
  right: the mutant `RememberAbove` follows the comment and fails.
* `lock_client.cc:23`: `stat` calls with two arguments a handler that reads one; the
  `VERIFY` of `rpc.cc:597` ends the server (`RpcCodec` with `"stat"` in `Rpcs`).
* `lock_server.cc:26`: an acquire of a lock that is not in the map leaves it FREE, so it
  is granted twice (`LockServer` with `Warm = FALSE`). `lock_tester.cc:18` speaks of a pool
  of 10 threads; it has 6 (`rpc/rpc.cc:429`).
* `inode_manager.cc:93`: the constructor reserves one block too few, so that the block
  of the last inode is also the first data block (`IdsAssumption` stays away from it).
* `inode_manager.cc:148`, `:60`: a full inode table answers inum 1, a full disk block 0
  (`RoomAssumption` leaves room for every file).
* `extent_server.cc:19`: two creates at the same time can take the same inode, two puts the
  same block, also of different files, and a get beside the remove of an unlink brings the
  file back. Nothing in the clients prevents any of these (`Races` in `ExtentThreads`).
* `yfs_client.cc:425`: a file named by a numeral makes `unlink` cut out the wrong text.
  `:419`: it removes a directory if another client replaced the file by one.
* `fuse.cc:129`: setting only the times also sets the size. `:240`: `create` answers the
  attributes of whatever is there after it released its lock.
* `yfs_client.h:81`: every mount empties the root directory, hence all mounts come first.

## What is proved

Each proof rests on the named assumptions of the module it is about, which TLC evaluates
in the runs, and on those that the theorem itself states.

### The caching locks (`LockCacheServerSteps`, `LockCacheProofs`)

Assumed: client ids are positive naturals of which each nonempty set has a first, and
`Home` maps threads to clients. For all `Clients` and `Threads`:

* `TypeCorrect` and `ServerConsistentHolds`: `Spec => []TypeOK` and
  `Spec => []ServerConsistent`, spurious wake-ups included. The server checks its
  callers, so its record of the lock stays in order even when a client's does not.
* For `SpuriousWakeups = FALSE` (finding 1 shows why this is needed): `Invariance`,
  `Spec => []IInv`, and from it `MutualExclusionHolds`, `CacheCoherenceHolds`,
  `NoAbortHolds`, `UnlockedReadsHold`, `RetryFindsWaiterHolds`, `OneConversationHolds`,
  `MutexUnlockedHolds`, the action properties `QueueOrderHolds` and
  `ReleaseOnlyRevokedHolds`, and `Refinement`: `Spec => LockService!Spec`.

Mutual exclusion is not inductive: a step at one client is safe because of what the
server recorded and which messages are under way. `IInv` adds

* `QueueInv`: only the front of a client's queue is active, so each client acts as one;
* `ClientInv`, `RevokeHandlerInv`: what the front does fixes the client's state;
* `OwnerInv`: the server's `holder` is the owner from the decision to grant until the
  release is handled; this carries exclusion from one client to all;
* `RevocationInv`: a revocation is a single token (revoke under way, then
  `revoke_later`, then release), so a release is never sent twice;
* `RetryInv`: a waiting client is parked in `acquire_server` until its one retry;
* `ServerConsistent`, `MutexUnlocked`.

The proof has one lemma per action (the steps of the server, and the types, in a module
of their own), over frame lemmas that say what a step of one client leaves alone elsewhere.

### The RPC library (`RpcProofs`)

Assumed: the bounds are naturals, and there is at least one server instance. For
every number of calls, connections and restarts, with or without timeouts,
cancellation, half-open connections and lossy resends: `Invariance`, `AtMostOnceHolds`,
`RepliedMeansRanHolds`, `XidRepSoundHolds`, `ReplyKeptHolds`, and `Implements`:
`Spec => RpcService!Spec`.

At-most-once needs to know why the server never answers NEW twice for one xid, though
it forgets. `IInv` consists of

* `CallsInv`: which xids exist, and which of them `calls_` holds;
* `BindInv`: the first call is the bind, and every other carries the nonce it found, so
  another instance refuses it;
* `JobsInv`: a job past the check of duplicates is the only one of its call, and how far
  it is tells whether the handler ran;
* `RanInv`: what has run is remembered or FORGOTTEN, never NEW; replies under way and
  replies received name a run that took place;
* `WindowInv`: the `xid_rep` in a header is below the call's own xid and never ahead of
  the front of the client's window, so what the server drops is not waited for.

Two facts about the windows carry this: remembering a NEW xid makes nothing NEW again
(`RememberKeeps`), and the front moves only over xids that were reported
(`UpdateKeeps`). Each conjunct of `IInv` has a lemma of its own, by cases over the
actions. In the refinement, `StartCall`, `RunHandler` and the return of a call are the
steps `Call`, `Execute`, `ReturnReply` and `Fail` of `RpcService`; all others stutter.

A second part is about calls that do not give up (`Timeouts = FALSE`; with timeouts the
property fails, see above). `OrderInvariance` adds two invariants to `IInv`:

* `AnsweredInv`: the front of the client's window passes only calls that were answered,
  and a refusal under way is for such a call;
* `FrontInv`: until everything is cancelled, the first xid that the server remembers is
  the bind or is not beyond that front.

So what is FORGOTTEN has been answered, and nobody who waits is told
`atmostonce_failure`; `OnlyDuplicatesForgottenHolds` follows. The bind is the hard case:
it carries the nonce 0, so a late copy of it is accepted by a restarted server too.

### The job queue and the lab 2 lock server (`PartsProofs`)

`Fifo`. Assumed: finite, disjoint sets of producers and consumers, and a natural
capacity. `FifoSafeHolds`: the queue never holds more than its capacity, and while a
thread waits there is, for each element or place, another one on its way to it. The
types of `pc` and `size` make it inductive; the argument counts the running threads, and
a step that takes an element or a place away stops one of them.

`LockServer` with `Warm = TRUE` (test1 runs first), for any threads, pool and number of
rounds. `GrantedOnceHolds`: the checks of `lock_tester.cc` never fail. The inductive
invariant is `TesterInv`. During test1 the other threads have not begun, and the counts
follow from how far it is (`InTest1`). Afterwards the lock is in the map, one thread at
most is between its acquire and its release, the state is then LOCKED, and the count
says which check comes next (`InTest3`). `Jobs` is needed because a handler may find the
lock free only after it was queued, waited and woken: an RPC is queued once, and its
thread does nothing else meanwhile.

### Handles (`HandleMgrProofs`)

For any finite set of threads and all destinations:

* `EntriesLiveHolds`, with or without `delete_handle`: the count of an entry is the number
  of its handles, and neither a handle nor the map refers to a freed entry. The
  invariant `HInv` adds `InMap`: the entry of a handle is the one in the map under its
  name, so a destination never has two;
* `SafebindKeepsHolds`, without `delete_handle`: `safebind` does not answer NULL after it
  has answered a client. `BoundStays` is why: only one thread binds an entry at a time,
  and only a bind that failed marks it.

### The cached locks and the dispatch pool (`PoolProofs`)

Assumed: client ids are positive naturals (`ClientIds`). `OneOwnerHolds`, for any number of clients
and locks, any size of the pool, and with or without failing binds: two clients never
own one lock. `OwnersInv` consists of

* `Calls`: what a client's cache says of the lock that its thread is at;
* `Holders`: the server's `holder` is the owner, from its answer until the release;
* `OneRevoke`: a holder is revoked once, by the RPC on its way, by the handler that
  releases, or by the note that its thread finds;
* `OneRelease`: from a release RPC until the client notes that it returned, nothing else
  changes what that client's cache says.

The steps of a client share one lemma (`ClientMove`): each replaces one call and one
entry of a cache, and what it may change there is stated once (`Allowed`).

### The extent server's threads (`ExtentThreadsProofs`)

Assumed: an inum for the root, and a disk with room for every file (`DiskAssumption`). For
any set of threads and any number of inums and blocks: `OnlyRacesDoHarm`,
`Spec => []OnlyRacesDamage`, from `ThreadsInvariant`, `Spec => [](raced \/ Inv)`. Any RPCs may
run side by side; the theorem says which pairs must have met before anything goes wrong.

Nothing in `inode_manager` is locked, so every handler works on copies: of the inode, of
a block of the bitmap, of the numbers of the blocks that it has just taken. The invariant
says which copies are still good. A get has the inode that the table has and has seen the
first `k` blocks of the file (`Gets`); a put or a remove has the old inode while it frees
(`Frees`); a copy of the bitmap has all blocks of the *other* files (`BitsKeep`), which is
less than being equal to the bitmap and is what survives between the read and the write;
a put has allocated blocks that no file has (`Allocs`) and filled the first `k` (`Writes`).
While nothing raced, at most one thread creates (`OneCreate`), at most one puts or removes
(`OneWrite`), and each inum is used by one RPC (`OneUse`), so a create, a put and gets of
other files still mix: they write different blocks (an inode has its own block, `IPB`).
Files at rest are disjoint, marked and hold what was put (`Disjoint`, `Marked`,
`Contents`). Three lemmas carry the steps: one for steps that change locals only, one for
writes to the bitmap or a data block, one for writes to the inode table.

### The extent server and its disk (`ExtentServerProofs`)

Assumed of the constants: the tables fit on the disk and an inode fits into a block
(`LayoutAssumption`), no file is larger than its inode and its index can address
(`SizesAssumption`), clients stay away from the last inode, whose block is also the first
data block (`IdsAssumption`), and neither the disk nor the inode table overflows
(`RoomAssumption`: the largest file times the number of files fits). The last two leave out
what the code gets wrong (see above). Then, for every size of the disk, of blocks, of the
bitmap and of the inode table, and every number of direct and indirect blocks:

* `SaneHolds`: the inductive invariant, below.
* `BlocksOwnedHolds`: no block is shared, and the bitmap is exact.
* `StoreImplemented`: the server implements `ExtentStore`.

The invariant `Sane` is `BlocksOwned` extended to what the operations rely on: a free inode
is empty and so has no blocks (`remove_file` writes it so, and `alloc_inode` sets nothing
but the type); the unused inode 0 stays empty, because `get` and `getattr` may ask for it;
sizes are sizes that were put; there are at most `MaxFiles` files, so that `alloc_block`
finds a clear bit whenever it is called (`Room`). The refinement needs no more: a file is
its inode, its index block and its data blocks, and a step that writes only the inode of
`i` and blocks that `i` owned or nobody did (`Leaves`) changes no other file (`OthersSame`).

What is left is arithmetic and the operators: that `k` calls of `alloc_block` answer `k`
different clear bits (`Nth`, `AllocIs`; the induction is over a number, through the least
element of a set), that the direct and the indirect numbers of the new inode name exactly
these blocks (`NewInodeIs`, `NewBlocks`), that the chunks end up in them although the index
block is read back in between (`WriteSmall`, `WriteLarge`), and that the chunks, cut at
block boundaries with garbage after the end, read back as the data (`ReadsBack`).

### Only model-checked

The inductive invariants of `PartsProofs`, `HandleMgrProofs`, `PoolProofs`,
`ExtentThreadsProofs` and `ExtentServerProofs` were checked on instances like those of
`parts` and `extents` before they were proved; they are not properties of a run, since the
theorems cover them.

All liveness properties and `StopsOnlyFull`, because the prover has no ENABLED. `RpcLists` and the operators of
`Marshall`, which are recursive or fold over data: what they compute needs an induction over
data that the provers cannot make. With them `ListsExact` and `MessagesArrive`.
`YfsClient` (`TreeConsistent`, the refinement of `FileSystem`): its directories are texts
that are searched and cut, and what that leaves of the other entries needs such an induction
too.

## Not modelled

* The poll manager, TCP connections and the thread pool: their code is in `librpc*.a`,
  not in the repository. `Rpc` uses connections, and `LockPool` and `LockServer` the pool,
  as the code in `src/` does.
* Of `rpcc` and `rpcs`: several clients of one server (separate map entries),
  `retrans = false` (no caller uses it), `updatestat`, `set_reachable`, destruction,
  the reference counts of connections and the ownership of buffers.
* Checksums (`RPC_CHECKSUMMING` is not compiled in).
* Files larger than an index block has room for: `write_file` runs over its buffer on
  the stack, and what follows is undefined. Times of inodes.
* Of `fuse.cc`: `statfs`, which answers constants, and the offsets of `readdir`, which
  cut its reply. Of the lock servers: `stat`, which only reads.
* Mounts after the first operation, which empty the root (see above).
* The file system testers (programs that use a mount), the demos (one RPC, whose types
  are in `RpcCodec`) and `gettime.cc`.
