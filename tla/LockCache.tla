------------------------------ MODULE LockCache ------------------------------
(***************************************************************************)
(* The caching lock protocol for one lock id: lock_server_cache on the     *)
(* server, lock_client_cache on every client.  Locks with different ids    *)
(* share no state but the mutexes, which are never held across an RPC.     *)
(*                                                                         *)
(* An action is one critical section of a mutex (server's or client's), or *)
(* one step of an RPC between two of them.  Every RPC is synchronous, so   *)
(* the calls started by a thread form a chain                              *)
(*    acquire -> revoke -> release -> retry      (from acquire_server)     *)
(*    release -> retry                           (from release)            *)
(* of which exactly one link runs at a time: pc[t] says which.  The RPC    *)
(* layer is taken to deliver each call once, with any delay.               *)
(***************************************************************************)
EXTENDS Naturals, Sequences, FiniteSets

CONSTANTS
    Clients,          \* client ids ("127.0.0.1:port"), ordered like the strings
    Threads,          \* application threads of all the clients
    Home,             \* Home[t] is the client thread t runs in
    SpuriousWakeups   \* may pthread_cond_wait return without a signal?

\* std::set<std::string> is ordered: a nonempty set of ids has a first one.
ASSUME ClientsAssumption ==
    /\ Clients \subseteq Nat
    /\ \A S \in SUBSET Clients : S # {} => \E c \in S : \A d \in S : c <= d
ASSUME HomeAssumption == Home \in [Threads -> Clients]
ASSUME SpuriousAssumption == SpuriousWakeups \in BOOLEAN

\* The empty std::string: no client.  Client ids are positive.
NoClient == 0
ASSUME NoClientAssumption == NoClient \notin Clients

ServerStates == {"FREE", "LOCKED", "REVOKING", "RETRYING"}
ClientStates == {"NONE", "ACQUIRING", "FREE", "RELEASING", "LOCKED"}

Waits == {"waitRelease", "waitTurn", "waitRetry"}

PCs == Waits \cup
    { "idle",          \* outside acquire and release
      "holding",       \* acquire returned OK
      "acquire",       \* acquire RPC on its way to the server
      "revoke",        \* its handler left the mutex and owes the holder a revoke
      "revokeSent",    \* revoke RPC on its way to revokee[t]
      "acquireReply",  \* acquire RPC answered ret[t]
      "release",       \* release RPC on its way to the server
      "retry",         \* its handler left the mutex and owes the retryer a retry
      "retrySent",     \* retry RPC on its way to retryee[t]
      "releaseReply" } \* release RPC answered

VARIABLES
    sstate,         \* lock_server_cache: lock_t.state
    holder,         \* lock_t.holder
    retryer,        \* lock_t.retryer
    waiter,         \* lock_t.waiter
    cstate,         \* lock_client_cache: lock_t.state, per client
    revoke_later,   \* lock_t.revoke_later, per client
    retry_earlier,  \* lock_t.retry_earlier, per client
    queue,          \* lock_t.queue, per client; a cond_t is its thread
    stuck,          \* clients whose mutex a returned thread still owns
    pc,             \* where each thread, or the RPC chain it waits for, is
    woken,          \* threads out of pthread_cond_wait, mutex not yet retaken
    ret,            \* status of the acquire RPC of each thread
    revokee,        \* client whose revoke_handler runs in the chain of a thread
    retryee         \* client the chain of a thread sends a retry to

server == <<sstate, holder, retryer, waiter>>
client == <<cstate, revoke_later, retry_earlier, queue, stuck>>
calls  == <<ret, revokee, retryee>>
vars   == <<server, client, pc, woken, calls>>

\* The type of each variable; an RPC that has been sent has an addressee.
TypeOK ==
    /\ sstate \in ServerStates
    /\ holder \in Clients \cup {NoClient}
    /\ retryer \in Clients \cup {NoClient}
    /\ waiter \in SUBSET Clients
    /\ cstate \in [Clients -> ClientStates]
    /\ revoke_later \in [Clients -> BOOLEAN]
    /\ retry_earlier \in [Clients -> BOOLEAN]
    /\ queue \in [Clients -> Seq(Threads)]
    /\ stuck \in SUBSET Clients
    /\ pc \in [Threads -> PCs]
    /\ woken \in SUBSET Threads
    /\ ret \in [Threads -> {"OK", "RETRY"}]
    /\ revokee \in [Threads -> Clients \cup {NoClient}]
    /\ retryee \in [Threads -> Clients \cup {NoClient}]
    /\ \A t \in Threads : pc[t] = "revokeSent" => revokee[t] # NoClient
    /\ \A t \in Threads : pc[t] = "retrySent" => retryee[t] # NoClient

Init ==
    /\ sstate = "FREE"
    /\ holder = NoClient
    /\ retryer = NoClient
    /\ waiter = {}
    /\ cstate = [c \in Clients |-> "NONE"]
    /\ revoke_later = [c \in Clients |-> FALSE]
    /\ retry_earlier = [c \in Clients |-> FALSE]
    /\ queue = [c \in Clients |-> <<>>]
    /\ stuck = {}
    /\ pc = [t \in Threads |-> "idle"]
    /\ woken = {}
    /\ ret = [t \in Threads |-> "OK"]
    /\ revokee = [t \in Threads |-> NoClient]
    /\ retryee = [t \in Threads |-> NoClient]

Goto(t, l) == pc' = [pc EXCEPT ![t] = l]

\* cond_t::signal on the condition of thread t: lost unless t is waiting on it.
Signal(t) == woken' = IF pc[t] \in Waits THEN woken \cup {t} ELSE woken

\* queue.front()->signal() on a queue that has just become q.
SignalFront(q) == IF q = <<>> THEN UNCHANGED woken ELSE Signal(Head(q))

\* mutex.lock() of client c succeeds: no returned thread has kept it.
CanLock(c) == c \notin stuck

-----------------------------------------------------------------------------
(* lock_client_cache::acquire and acquire_server *)

\* Entering acquire_server, or going round its loop: the acquire RPC.
CallAcquire(t) ==
    /\ cstate' = [cstate EXCEPT ![Home[t]] = "ACQUIRING"]
    /\ Goto(t, "acquire")

\* return lock_protocol::OK with state LOCKED and the mutex unlocked.
Obtain(t) ==
    /\ cstate' = [cstate EXCEPT ![Home[t]] = "LOCKED"]
    /\ Goto(t, "holding")

\* "return 0", which is lock_protocol::OK, without mutex.unlock().
ReturnLocked(t) ==
    /\ stuck' = stuck \cup {Home[t]}
    /\ Goto(t, "holding")

\* Mutant: the newcomer goes to the front of the queue.
EnqueueFront(t) ==
    /\ pc[t] = "idle"
    /\ CanLock(Home[t])
    /\ queue' = [queue EXCEPT ![Home[t]] = <<t>> \o @]
    /\ UNCHANGED <<server, revoke_later, retry_earlier, stuck, woken, calls>>

\* Every acquire pushes its condition on the queue.
Enqueue(t) ==
    /\ pc[t] = "idle"
    /\ CanLock(Home[t])
    /\ queue' = [queue EXCEPT ![Home[t]] = Append(@, t)]
    /\ UNCHANGED <<server, revoke_later, retry_earlier, stuck, woken, calls>>

\* First in the queue and the client does not own the lock: ask the server.
AcquireMiss(t) ==
    /\ queue[Home[t]] = <<>> /\ cstate[Home[t]] = "NONE"
    /\ Enqueue(t)
    /\ CallAcquire(t)

\* First in the queue and the lock is cached.
AcquireHit(t) ==
    /\ queue[Home[t]] = <<>> /\ cstate[Home[t]] = "FREE"
    /\ Enqueue(t)
    /\ Obtain(t)

\* First in the queue while the revoke handler gives the lock back.
AcquireWhileReleasing(t) ==
    /\ queue[Home[t]] = <<>> /\ cstate[Home[t]] \notin {"NONE", "FREE"}
    /\ Enqueue(t)
    /\ Goto(t, "waitRelease")
    /\ UNCHANGED cstate

\* Other threads of this client are ahead.
AcquireQueued(t) ==
    /\ queue[Home[t]] # <<>>
    /\ Enqueue(t)
    /\ Goto(t, "waitTurn")
    /\ UNCHANGED cstate

\* A thread that waits at l comes out of pthread_cond_wait, owning the mutex.
Resume(t, l) ==
    /\ pc[t] = l
    /\ t \in woken
    /\ CanLock(Home[t])
    /\ woken' = woken \ {t}
    /\ UNCHANGED <<server, revoke_later, queue, calls>>

ResumeAfterRelease(t) ==
    /\ Resume(t, "waitRelease")
    /\ CallAcquire(t)
    /\ UNCHANGED <<retry_earlier, stuck>>

ResumeTurn(t) ==
    /\ Resume(t, "waitTurn")
    /\ \/ cstate[Home[t]] = "NONE" /\ CallAcquire(t) /\ UNCHANGED stuck
       \/ cstate[Home[t]] \in {"FREE", "LOCKED"} /\ Obtain(t) /\ UNCHANGED stuck
       \/ cstate[Home[t]] \in {"ACQUIRING", "RELEASING"} /\ ReturnLocked(t) /\ UNCHANGED cstate
    /\ UNCHANGED retry_earlier

\* Mutant: retry_earlier is not reset.
TryAgainNoReset(t) ==
    /\ \/ cstate[Home[t]] = "ACQUIRING" /\ CallAcquire(t) /\ UNCHANGED stuck
       \/ cstate[Home[t]] # "ACQUIRING" /\ ReturnLocked(t) /\ UNCHANGED cstate
    /\ UNCHANGED retry_earlier

\* The tail of the loop of acquire_server, after the wait or without it.
TryAgain(t) ==
    /\ retry_earlier' = [retry_earlier EXCEPT ![Home[t]] = FALSE]
    /\ \/ cstate[Home[t]] = "ACQUIRING" /\ CallAcquire(t) /\ UNCHANGED stuck
       \/ cstate[Home[t]] # "ACQUIRING" /\ ReturnLocked(t) /\ UNCHANGED cstate

ResumeRetry(t) ==
    /\ Resume(t, "waitRetry")
    /\ TryAgain(t)

\* The acquire RPC returns and acquire_server retakes the mutex.
AcquireReturns(t, r) ==
    /\ pc[t] = "acquireReply"
    /\ ret[t] = r
    /\ CanLock(Home[t])
    /\ UNCHANGED <<server, revoke_later, queue, woken, calls>>

AcquireReturnsOK(t) ==
    /\ AcquireReturns(t, "OK")
    /\ Obtain(t)
    /\ UNCHANGED <<retry_earlier, stuck>>

\* Mutant: the status of the acquire RPC is not looked at.
AcquireReturnsAnything(t) ==
    /\ AcquireReturns(t, "RETRY")
    /\ ~retry_earlier[Home[t]]
    /\ Obtain(t)
    /\ UNCHANGED <<retry_earlier, stuck>>

\* RETRY, and the retry RPC has not arrived yet: wait for it.
AcquireReturnsRetry(t) ==
    /\ AcquireReturns(t, "RETRY")
    /\ ~retry_earlier[Home[t]]
    /\ Goto(t, "waitRetry")
    /\ UNCHANGED <<cstate, retry_earlier, stuck>>

\* RETRY, and the retry RPC overtook this reply: ask again at once.
AcquireReturnsLate(t) ==
    /\ AcquireReturns(t, "RETRY")
    /\ retry_earlier[Home[t]]
    /\ TryAgain(t)

-----------------------------------------------------------------------------
(* lock_client_cache::release *)

\* Mutant: revoke_later is not reset.
DequeueNoReset(t, st) ==
    LET c    == Home[t]
        rest == Tail(queue[c])
    IN  /\ queue[c] # <<>>
        /\ queue' = [queue EXCEPT ![c] = rest]
        /\ cstate' = [cstate EXCEPT ![c] =
                         IF rest # <<>> /\ ~revoke_later[c] THEN "LOCKED" ELSE st]
        /\ SignalFront(rest)
        /\ Goto(t, "idle")
        /\ UNCHANGED <<server, revoke_later, retry_earlier, stuck, calls>>

\* The dequeueing half of release, in the critical section that ends it:
\* st is the state before it, NONE or FREE; revoke_later decides who is next.
Dequeue(t, st) ==
    LET c    == Home[t]
        rest == Tail(queue[c])
    IN  /\ queue[c] # <<>>
        /\ queue' = [queue EXCEPT ![c] = rest]
        /\ cstate' = [cstate EXCEPT ![c] =
                         IF rest # <<>> /\ ~revoke_later[c] THEN "LOCKED" ELSE st]
        /\ SignalFront(rest)
        /\ revoke_later' = [revoke_later EXCEPT ![c] = FALSE]
        /\ Goto(t, "idle")
        /\ UNCHANGED <<server, retry_earlier, stuck, calls>>

\* No revoke is pending: keep the lock, for the next thread or in the cache.
ReleaseKeep(t) ==
    /\ pc[t] = "holding"
    /\ CanLock(Home[t])
    /\ ~revoke_later[Home[t]]
    /\ Dequeue(t, "FREE")

\* Mutant: every release goes to the server, revoked or not.
ReleaseAlways(t) ==
    /\ pc[t] = "holding"
    /\ CanLock(Home[t])
    /\ cstate' = [cstate EXCEPT ![Home[t]] = "RELEASING"]
    /\ Goto(t, "release")
    /\ UNCHANGED <<server, revoke_later, retry_earlier, queue, stuck, woken, calls>>

\* A revoke came while the lock was in use: send the release RPC.
ReleaseRevoked(t) ==
    /\ pc[t] = "holding"
    /\ CanLock(Home[t])
    /\ revoke_later[Home[t]]
    /\ cstate' = [cstate EXCEPT ![Home[t]] = "RELEASING"]
    /\ Goto(t, "release")
    /\ UNCHANGED <<server, revoke_later, retry_earlier, queue, stuck, woken, calls>>

\* The release RPC of release() returns.
ReleaseReturns(t) ==
    /\ pc[t] = "releaseReply"
    /\ revokee[t] = NoClient
    /\ CanLock(Home[t])
    /\ Dequeue(t, "NONE")

-----------------------------------------------------------------------------
(* lock_client_cache::revoke_handler and retry_handler *)

\* Mutant: the handler gives the lock back whether it is in use or not.
RevokeInUse(t) ==
    /\ pc[t] = "revokeSent"
    /\ CanLock(revokee[t])
    /\ cstate' = [cstate EXCEPT ![revokee[t]] = "RELEASING"]
    /\ Goto(t, "release")
    /\ UNCHANGED <<server, revoke_later, retry_earlier, queue, stuck, woken, calls>>

\* The lock is cached and unused: send the release RPC from the handler.
RevokeFree(t) ==
    /\ pc[t] = "revokeSent"
    /\ CanLock(revokee[t])
    /\ cstate[revokee[t]] = "FREE"
    /\ cstate' = [cstate EXCEPT ![revokee[t]] = "RELEASING"]
    /\ Goto(t, "release")
    /\ UNCHANGED <<server, revoke_later, retry_earlier, queue, stuck, woken, calls>>

\* Mutant: a revoke that finds the lock in use is dropped.
RevokeDropped(t) ==
    /\ pc[t] = "revokeSent"
    /\ CanLock(revokee[t])
    /\ cstate[revokee[t]] # "FREE"
    /\ revokee' = [revokee EXCEPT ![t] = NoClient]
    /\ Goto(t, "acquireReply")
    /\ UNCHANGED <<server, client, woken, ret, retryee>>

\* The lock is in use or still on its way: remember the revoke, and return.
RevokeLater(t) ==
    /\ pc[t] = "revokeSent"
    /\ CanLock(revokee[t])
    /\ cstate[revokee[t]] # "FREE"
    /\ revoke_later' = [revoke_later EXCEPT ![revokee[t]] = TRUE]
    /\ revokee' = [revokee EXCEPT ![t] = NoClient]
    /\ Goto(t, "acquireReply")
    /\ UNCHANGED <<server, cstate, retry_earlier, queue, stuck, woken, ret, retryee>>

\* Mutant: the lock that was given back is marked as cached.
RevokeReturnsCached(t) ==
    LET c == revokee[t]
    IN  /\ pc[t] = "releaseReply"
        /\ c # NoClient
        /\ CanLock(c)
        /\ cstate' = [cstate EXCEPT ![c] = "FREE"]
        /\ SignalFront(queue[c])
        /\ revokee' = [revokee EXCEPT ![t] = NoClient]
        /\ Goto(t, "acquireReply")
        /\ UNCHANGED <<server, revoke_later, retry_earlier, queue, stuck, ret, retryee>>

\* The release RPC of revoke_handler returns; the handler ends, and with it
\* the revoke RPC and the acquire handler that sent it.
RevokeReturns(t) ==
    LET c == revokee[t]
    IN  /\ pc[t] = "releaseReply"
        /\ c # NoClient
        /\ CanLock(c)
        /\ cstate' = [cstate EXCEPT ![c] = "NONE"]
        /\ SignalFront(queue[c])
        /\ revokee' = [revokee EXCEPT ![t] = NoClient]
        /\ Goto(t, "acquireReply")
        /\ UNCHANGED <<server, revoke_later, retry_earlier, queue, stuck, ret, retryee>>

\* queue.front() is not guarded in the code: an empty queue is undefined there.
RetryHandler(t) ==
    LET c == retryee[t]
    IN  /\ pc[t] = "retrySent"
        /\ CanLock(c)
        /\ queue[c] # <<>>
        /\ retry_earlier' = [retry_earlier EXCEPT ![c] = TRUE]
        /\ Signal(Head(queue[c]))
        /\ retryee' = [retryee EXCEPT ![t] = NoClient]
        /\ Goto(t, "releaseReply")
        /\ UNCHANGED <<server, cstate, revoke_later, queue, stuck, ret, revokee>>

-----------------------------------------------------------------------------
(* lock_server_cache::acquire *)

\* The VERIFYs of acquire for client id; a false one aborts the server.
AcquireVerify(id) ==
    /\ sstate \in {"FREE", "LOCKED"} => waiter = {}
    /\ sstate = "REVOKING" => waiter # {}
    /\ sstate \in {"LOCKED", "REVOKING"} => holder \notin {NoClient, id}

\* The acquire handler leaves the mutex with status r: it answers, or first
\* has to revoke the lock from its holder.
LeaveAcquire(t, r, need_revoke) ==
    /\ ret' = [ret EXCEPT ![t] = r]
    /\ Goto(t, IF need_revoke THEN "revoke" ELSE "acquireReply")
    /\ UNCHANGED <<client, woken, revokee, retryee>>

EnterAcquire(t) ==
    /\ pc[t] = "acquire"
    /\ AcquireVerify(Home[t])

GrantFree(t) ==
    /\ EnterAcquire(t)
    /\ sstate = "FREE"
    /\ sstate' = "LOCKED"
    /\ holder' = Home[t]
    /\ LeaveAcquire(t, "OK", FALSE)
    /\ UNCHANGED <<retryer, waiter>>

\* Mutant: every client that has to wait revokes, not only the first.
RefuseOwnedRevokes(t) ==
    /\ EnterAcquire(t)
    /\ sstate \in {"LOCKED", "REVOKING"}
    /\ sstate' = "REVOKING"
    /\ waiter' = waiter \cup {Home[t]}
    /\ LeaveAcquire(t, "RETRY", TRUE)
    /\ UNCHANGED <<holder, retryer>>

\* The lock is owned: this client waits, and the first one to wait revokes.
RefuseOwned(t) ==
    /\ EnterAcquire(t)
    /\ sstate \in {"LOCKED", "REVOKING"}
    /\ sstate' = "REVOKING"
    /\ waiter' = waiter \cup {Home[t]}
    /\ LeaveAcquire(t, "RETRY", sstate = "LOCKED")
    /\ UNCHANGED <<holder, retryer>>

\* Mutant: the holder is not recorded.
GrantRetryerNoHolder(t) ==
    /\ EnterAcquire(t)
    /\ sstate = "RETRYING" /\ retryer = Home[t]
    /\ sstate' = IF waiter # {} THEN "REVOKING" ELSE "LOCKED"
    /\ retryer' = NoClient
    /\ LeaveAcquire(t, "OK", waiter # {})
    /\ UNCHANGED <<holder, waiter>>

\* Mutant: the promise is not withdrawn.
GrantRetryerKept(t) ==
    /\ EnterAcquire(t)
    /\ sstate = "RETRYING" /\ retryer = Home[t]
    /\ sstate' = IF waiter # {} THEN "REVOKING" ELSE "LOCKED"
    /\ holder' = Home[t]
    /\ LeaveAcquire(t, "OK", waiter # {})
    /\ UNCHANGED <<retryer, waiter>>

\* Mutant: clients that already wait are not served by a new revoke.
GrantRetryerNoRevoke(t) ==
    /\ EnterAcquire(t)
    /\ sstate = "RETRYING" /\ retryer = Home[t]
    /\ sstate' = IF waiter # {} THEN "REVOKING" ELSE "LOCKED"
    /\ holder' = Home[t]
    /\ retryer' = NoClient
    /\ LeaveAcquire(t, "OK", FALSE)
    /\ UNCHANGED waiter

\* The client a retry was promised to: grant, and revoke again if others wait.
GrantRetryer(t) ==
    /\ EnterAcquire(t)
    /\ sstate = "RETRYING" /\ retryer = Home[t]
    /\ sstate' = IF waiter # {} THEN "REVOKING" ELSE "LOCKED"
    /\ holder' = Home[t]
    /\ retryer' = NoClient
    /\ LeaveAcquire(t, "OK", waiter # {})
    /\ UNCHANGED waiter

\* Another client while the lock is promised to the retryer.
RefuseRetrying(t) ==
    /\ EnterAcquire(t)
    /\ sstate = "RETRYING" /\ retryer # Home[t]
    /\ waiter' = waiter \cup {Home[t]}
    /\ LeaveAcquire(t, "RETRY", FALSE)
    /\ UNCHANGED <<sstate, holder, retryer>>

\* call_client(lock.holder, revoke): holder is read here, without the mutex.
\* For the empty string safebind fails, and the RPCERR is ignored.
SendRevoke(t) ==
    /\ pc[t] = "revoke"
    /\ revokee' = [revokee EXCEPT ![t] = holder]
    /\ Goto(t, IF holder = NoClient THEN "acquireReply" ELSE "revokeSent")
    /\ UNCHANGED <<server, client, woken, ret, retryee>>

-----------------------------------------------------------------------------
(* lock_server_cache::release *)

\* The client that sent the release RPC of t's chain.
Releaser(t) == IF revokee[t] = NoClient THEN Home[t] ELSE revokee[t]

\* The VERIFYs of release for client id.
ReleaseVerify(id) == sstate = "REVOKING" /\ holder = id

\* *waiter.begin(): the first id in string order; the set must not be empty.
First(S) == CHOOSE c \in S : \A d \in S : c <= d

ServerRelease(t) ==
    /\ pc[t] = "release"
    /\ ReleaseVerify(Releaser(t))
    /\ waiter # {}
    /\ sstate' = "RETRYING"
    /\ retryer' = First(waiter)
    /\ waiter' = waiter \ {First(waiter)}
    /\ holder' = NoClient
    /\ Goto(t, "retry")
    /\ UNCHANGED <<client, woken, calls>>

\* call_client(lock.retryer, retry): retryer is read here, without the mutex.
SendRetry(t) ==
    /\ pc[t] = "retry"
    /\ retryee' = [retryee EXCEPT ![t] = retryer]
    /\ Goto(t, IF retryer = NoClient THEN "releaseReply" ELSE "retrySent")
    /\ UNCHANGED <<server, client, woken, ret, revokee>>

-----------------------------------------------------------------------------
\* pthread_cond_wait returns though nobody signalled.
SpuriousWake(t) ==
    /\ SpuriousWakeups
    /\ pc[t] \in Waits
    /\ woken' = woken \cup {t}
    /\ UNCHANGED <<server, client, pc, calls>>

AcquireCall(t) ==
    \/ AcquireMiss(t) \/ AcquireHit(t) \/ AcquireWhileReleasing(t) \/ AcquireQueued(t)

ReleaseCall(t) == ReleaseKeep(t) \/ ReleaseRevoked(t)

\* What a thread or a chain does by itself once a call has been made.
Progress(t) ==
    \/ ResumeAfterRelease(t) \/ ResumeTurn(t) \/ ResumeRetry(t)
    \/ AcquireReturnsOK(t) \/ AcquireReturnsRetry(t) \/ AcquireReturnsLate(t)
    \/ ReleaseReturns(t)
    \/ RevokeFree(t) \/ RevokeLater(t) \/ RevokeReturns(t) \/ RetryHandler(t)
    \/ GrantFree(t) \/ RefuseOwned(t) \/ GrantRetryer(t) \/ RefuseRetrying(t)
    \/ SendRevoke(t) \/ ServerRelease(t) \/ SendRetry(t)

Next == \E t \in Threads : AcquireCall(t) \/ ReleaseCall(t) \/ Progress(t) \/ SpuriousWake(t)

Spec == Init /\ [][Next]_vars

-----------------------------------------------------------------------------
(* The threads of yfs_client and of the RPC library's pools are scheduled, so
   a step that stays possible is taken; and every acquire in yfs_client.cc is
   followed by its release, so a thread does not hold a lock for ever. *)

Fairness == \A t \in Threads : WF_vars(Progress(t)) /\ WF_vars(ReleaseCall(t))

FairSpec == Spec /\ Fairness

-----------------------------------------------------------------------------
(* Where a thread's chain is *)

\* The chain contains a release RPC that has not returned ...
InRelease(t) == pc[t] \in {"release", "retry", "retrySent", "releaseReply"}
\* ... sent by release() of this thread's own client, or by a revoke_handler.
OwnRelease(t) == InRelease(t) /\ revokee[t] = NoClient
RevokeRelease(t) == InRelease(t) /\ revokee[t] # NoClient

\* The thread is inside acquire_server.
InAcquire(t) ==
    \/ pc[t] \in {"acquire", "revoke", "revokeSent", "acquireReply", "waitRetry"}
    \/ RevokeRelease(t)

\* The server has answered (or decided the answer r to) its last acquire RPC.
Answered(t, r) == InAcquire(t) /\ pc[t] # "acquire" /\ ret[t] = r

-----------------------------------------------------------------------------
(* Safety *)

\* "at any point in time, there is at most one client holding a lock with a
\* given identifier" (Lab-2.html:269), and check_grant of lock_tester.cc: no two
\* threads, of one client or of two, have returned from acquire without release.
MutualExclusion ==
    \A t, u \in Threads : pc[t] = "holding" /\ pc[u] = "holding" => t = u

\* The server owns up to its clients' caches: a client that may hand the lock
\* to a thread without asking (state FREE or LOCKED), or that is about to
\* because OK is on its way, is the server's holder.
CacheCoherence ==
    /\ \A c \in Clients : cstate[c] \in {"FREE", "LOCKED"} => holder = c
    /\ \A t \in Threads : Answered(t, "OK") => holder = Home[t]

\* No VERIFY of lock_server_cache fails, and waiter.begin() is dereferenced
\* only when it exists, whatever order requests reach the server in.
NoAbort ==
    /\ \A t \in Threads : pc[t] = "acquire" => AcquireVerify(Home[t])
    /\ \A t \in Threads : pc[t] = "release" =>
          ReleaseVerify(Releaser(t)) /\ waiter # {}

\* lock.holder is read for the revoke after mutex.unlock(): no request that
\* writes it (a release, or a grant) can reach the server meanwhile, and the
\* client read is still the holder when the revoke arrives.  The same for
\* lock.retryer, which only the retryer's own acquire RPC overwrites.
UnlockedReads ==
    /\ \A t \in Threads : pc[t] = "revoke" =>
          /\ holder # NoClient
          /\ \A u \in Threads : pc[u] # "release"
    /\ \A t \in Threads : pc[t] = "revokeSent" => holder = revokee[t]
    /\ \A t \in Threads : pc[t] = "retry" =>
          /\ retryer # NoClient
          /\ \A u \in Threads : pc[u] = "acquire" => Home[u] # retryer
    /\ \A t \in Threads : pc[t] = "retrySent" => retryer = retryee[t]

\* retry_handler signals queue.front() without looking whether there is one:
\* when a retry arrives the client's first thread is there, in acquire_server,
\* refused by the server and not yet woken by anything else.
RetryFindsWaiter ==
    \A t \in Threads : pc[t] = "retrySent" =>
        LET c == retryee[t]
        IN  /\ queue[c] # <<>>
            /\ Answered(Head(queue[c]), "RETRY")
            /\ Head(queue[c]) \notin woken
            /\ ~retry_earlier[c]

\* "only one thread per client ever needs to be interacting with the server"
\* (Lab3.html:109): a client never has two calls at the server, and one
\* revocation costs one revoke and one release.
OneConversation ==
    /\ \A t, u \in Threads :
          (InAcquire(t) \/ OwnRelease(t)) /\ (InAcquire(u) \/ OwnRelease(u))
             /\ Home[t] = Home[u] => t = u
    /\ \A t, u \in Threads :
          pc[t] \in {"revoke", "revokeSent", "release"}
             /\ pc[u] \in {"revoke", "revokeSent", "release"} => t = u

\* No path of acquire returns with the client's mutex still locked: the two
\* "return 0" of acquire and acquire_server are dead code.
MutexUnlocked == stuck = {}

(* Action properties *)

\* Within a client, threads get the lock in the order in which they called
\* acquire: the one that returns from acquire is the front of the queue.
QueueOrder ==
    [][\A t \in Threads :
         pc[t] # "holding" /\ pc'[t] = "holding" => Head(queue'[Home[t]]) = t]_vars

\* A release RPC is sent only for a lock some other client waits for
\* (Lab3.html:133: "the client should only inform the server of the release if
\* the lock has been revoked"), and never while a thread still has the lock.
ReleaseOnlyRevoked ==
    [][\A t \in Threads :
         pc[t] # "release" /\ pc'[t] = "release" =>
            /\ sstate = "REVOKING" /\ waiter # {}
            /\ \A u \in Threads : pc'[u] # "holding"]_vars

-----------------------------------------------------------------------------
(* Liveness, under FairSpec *)

Wanting(t) == pc[t] \notin {"idle", "holding"} /\ ~OwnRelease(t)

\* No more than two clients use the lock.
AtMostTwoAsk ==
    \E c, d \in Clients : c < d /\ [](\A t \in Threads : Home[t] \notin {c, d} => pc[t] = "idle")

\* Between two clients every acquire returns: no wake-up, revoke or retry is lost
\* and no two sides wait for each other.
AcquireReturnsEventually ==
    AtMostTwoAsk => \A t \in Threads : Wanting(t) ~> pc[t] = "holding"

\* The server picks *waiter.begin(), so among three or more clients only the
\* one with the first id is sure to get its turn.
FirstClientServed ==
    \A t \in Threads : Wanting(t) /\ Home[t] = First(Clients) ~> pc[t] = "holding"

\* Whoever waits, the lock keeps moving: a lock being revoked reaches another
\* client, and a promised lock is taken.
LockMoves ==
    /\ \A c \in Clients : sstate = "REVOKING" /\ holder = c ~> holder # c
    /\ sstate = "RETRYING" ~> sstate \in {"LOCKED", "REVOKING"}

-----------------------------------------------------------------------------
(* The inductive invariant behind the safety properties, for waits that end
   only by a signal (SpuriousWakeups = FALSE) *)

\* The server's record of the lock is consistent in each of its four states;
\* this part holds with spurious wake-ups too: the server checks its callers.
ServerConsistent ==
    /\ holder = NoClient <=> sstate \in {"FREE", "RETRYING"}
    /\ retryer # NoClient <=> sstate = "RETRYING"
    /\ sstate \in {"FREE", "LOCKED"} => waiter = {}
    /\ sstate = "REVOKING" => waiter # {}

\* A client's queue holds its threads that are inside acquire or hold the
\* lock, once each; all but the front one wait for their turn undisturbed.
QueueInv ==
    /\ \A c \in Clients :
          /\ \A i \in 1..Len(queue[c]) : Home[queue[c][i]] = c /\ pc[queue[c][i]] # "idle"
          /\ \A i, j \in 1..Len(queue[c]) : queue[c][i] = queue[c][j] => i = j
          /\ \A i \in 2..Len(queue[c]) : pc[queue[c][i]] = "waitTurn" /\ queue[c][i] \notin woken
    /\ \A t \in Threads : pc[t] \notin {"idle", "waitTurn"} \/ t \in woken =>
          queue[Home[t]] # <<>> /\ Head(queue[Home[t]]) = t
    /\ \A t \in woken : pc[t] \in Waits

\* What the front thread does fixes the client's state.
ClientInv ==
    /\ \A t \in Threads :
          /\ pc[t] = "holding" => cstate[Home[t]] = "LOCKED"
          /\ InAcquire(t) => cstate[Home[t]] = "ACQUIRING"
          /\ OwnRelease(t) => cstate[Home[t]] = "RELEASING" /\ revoke_later[Home[t]]
          /\ pc[t] = "waitTurn" /\ t \in woken => cstate[Home[t]] \in {"NONE", "LOCKED"}
          /\ pc[t] = "waitRelease" =>
                cstate[Home[t]] = IF t \in woken THEN "NONE" ELSE "RELEASING"
    /\ \A c \in Clients :
          /\ queue[c] = <<>> => cstate[c] \in {"NONE", "FREE", "RELEASING"}
          /\ queue[c] # <<>> /\ pc[Head(queue[c])] = "waitTurn" => Head(queue[c]) \in woken

\* A client whose revoke_handler is releasing is in state RELEASING, and at
\* most waits for that handler.
RevokeHandlerInv ==
    /\ \A t \in Threads : revokee[t] # NoClient => InRelease(t) \/ pc[t] = "revokeSent"
    /\ \A t \in Threads : RevokeRelease(t) =>
          /\ cstate[revokee[t]] = "RELEASING"
          /\ ~revoke_later[revokee[t]]
          /\ queue[revokee[t]] # <<>> => pc[Head(queue[revokee[t]])] = "waitRelease"
    /\ \A t, u \in Threads :
          RevokeRelease(t) /\ RevokeRelease(u) /\ revokee[t] = revokee[u] => t = u

\* The server's holder is the client that owns the lock, from the moment it
\* decides the OK to the moment it handles the release.
OwnerInv ==
    /\ \A c \in Clients :
          /\ cstate[c] \in {"FREE", "LOCKED"} => holder = c
          /\ cstate[c] = "NONE" => holder # c
    /\ \A t \in Threads :
          /\ pc[t] = "acquire" => holder # Home[t]
          /\ Answered(t, "OK") => holder = Home[t]
          /\ Answered(t, "RETRY") => holder # Home[t]
          /\ pc[t] = "release" => sstate = "REVOKING" /\ holder = Releaser(t)
          /\ pc[t] \in {"retry", "retrySent", "releaseReply"} => holder # Releaser(t)

\* One revocation has one token: the revoke the server owes or has sent, then
\* the remembered revoke_later, then the release.
Revoking(t) == pc[t] \in {"revoke", "revokeSent", "release"}

RevocationInv ==
    /\ \A t \in Threads :
          /\ pc[t] \in {"revoke", "revokeSent"} => sstate = "REVOKING"
          /\ pc[t] = "revokeSent" => revokee[t] = holder
    /\ \A t, u \in Threads : Revoking(t) /\ Revoking(u) => t = u
    /\ \A c \in Clients : revoke_later[c] /\ cstate[c] # "RELEASING" =>
          /\ sstate = "REVOKING" /\ holder = c
          /\ \A t \in Threads : ~Revoking(t)

\* The first thread of client c was refused and has not been told to retry.
Refused(c) == queue[c] # <<>> /\ Answered(Head(queue[c]), "RETRY")
Parked(c) == Refused(c) /\ Head(queue[c]) \notin woken /\ ~retry_earlier[c]

Retrying(t) == pc[t] \in {"retry", "retrySent"}

\* Waiting clients stay parked until the one retry meant for them arrives.
RetryInv ==
    /\ \A c \in waiter : Parked(c)
    /\ \A t \in Threads :
          /\ Retrying(t) => sstate = "RETRYING" /\ retryer \notin waiter /\ Parked(retryer)
          /\ pc[t] = "retrySent" => retryee[t] = retryer
          /\ pc[t] = "waitRetry" => (t \in woken <=> retry_earlier[Home[t]])
    /\ \A t, u \in Threads : Retrying(t) /\ Retrying(u) => t = u
    /\ \A c \in Clients : retry_earlier[c] =>
          /\ retryer = c /\ c \notin waiter
          /\ Refused(c)
          /\ \A t \in Threads : ~Retrying(t)

\* No thread has left acquire with the mutex.
IInv ==
    /\ TypeOK
    /\ ServerConsistent
    /\ QueueInv
    /\ ClientInv
    /\ RevokeHandlerInv
    /\ OwnerInv
    /\ RevocationInv
    /\ RetryInv
    /\ MutexUnlocked

-----------------------------------------------------------------------------
(* Refinement: the caching protocol implements the plain lock service *)

phase == [t \in Threads |->
    CASE pc[t] \in {"idle", "holding"} -> pc[t]
      [] OwnRelease(t)                 -> "releasing"
      [] OTHER                         -> "acquiring"]

Service == INSTANCE LockService

\* Every behaviour is one of LockService: a lock is granted only while no
\* thread has it.
ImplementsLockService == Service!Spec

=============================================================================
