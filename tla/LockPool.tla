------------------------------ MODULE LockPool ------------------------------
(***************************************************************************)
(* Several locks of the caching lock server, whose handlers share one      *)
(* dispatch pool.  An acquire that revokes a cached lock keeps its thread  *)
(* of the pool until the holder's handler has released the lock, with an   *)
(* RPC that needs a second thread.  A client has one thread, as a          *)
(* yfs_client has (fuse_session_loop); LockCache has the interleavings of  *)
(* threads within a client.                                                *)
(***************************************************************************)
EXTENDS Integers, FiniteSets, FiniteSetsExt

CONSTANTS
    Clients,     \* ids of lock clients, ordered as their id strings
    Locks,
    Pool,        \* threads of the server's dispatch pool (6 in the code)
    BindFails    \* may the bind of call_client fail?

None == 0        \* the empty id string

ClientIds == Clients \subseteq Nat \ {None}

VARIABLES
    lock,        \* the server's lock_pool: state, holder, retryer, waiter
    cache,       \* the clients' lock_pool: state, revoke_later, retry_earlier
    call         \* per client: where its acquire or release is, for which lock,
                 \* what the server will answer, and the clients called back

vars == <<lock, cache, call>>

Idle == [pc |-> "idle", lid |-> None, ret |-> "OK", revokee |-> None, retryee |-> None]

Init ==
    /\ lock = [l \in Locks |-> [state |-> "FREE", holder |-> None, retryer |-> None, waiter |-> {}]]
    /\ cache = [c \in Clients |-> [l \in Locks |->
                  [state |-> "NONE", revoke_later |-> FALSE, retry_earlier |-> FALSE]]]
    /\ call = [c \in Clients |-> Idle]

\* The threads of the pool that work for c: one for an acquire until its revoke
\* has returned, one for a release until its retry has returned.
Threads(c) ==
    CASE call[c].pc \in {"revoke", "revoke_release", "revoked", "release_retry"} -> 1
      [] call[c].pc = "revoke_retry"                                              -> 2
      [] OTHER                                                                    -> 0

Busy == MapThenSumSet(Threads, Clients)

Lid(c) == call[c].lid
At(c, pc) == call[c].pc = pc
Goes(c, pc) == call' = [call EXCEPT ![c].pc = pc]

-----------------------------------------------------------------------------
(* The client: acquire, acquire_server, release                            *)

\* From the cache, or by asking the server.  While a revoke handler of this
\* client releases the lock, acquire waits for it.
Acquire(c, l) ==
    /\ At(c, "idle")
    /\ \/ /\ cache[c][l].state = "FREE"
          /\ cache' = [cache EXCEPT ![c][l].state = "LOCKED"]
          /\ call' = [call EXCEPT ![c].pc = "has", ![c].lid = l]
       \/ /\ cache[c][l].state = "NONE"
          /\ cache' = [cache EXCEPT ![c][l].state = "ACQUIRING"]
          /\ call' = [call EXCEPT ![c].pc = "acquire", ![c].lid = l]
    /\ UNCHANGED lock

\* The acquire RPC returns: OK, or RETRY, after which the thread waits for the
\* retry RPC unless that came first.
AcquireReturns(c) ==
    /\ At(c, "returned")
    /\ \/ /\ call[c].ret = "OK"
          /\ cache' = [cache EXCEPT ![c][Lid(c)].state = "LOCKED"]
          /\ Goes(c, "has")
       \/ /\ call[c].ret = "RETRY"
          /\ cache[c][Lid(c)].retry_earlier
          /\ cache' = [cache EXCEPT ![c][Lid(c)].retry_earlier = FALSE]
          /\ Goes(c, "acquire")
    /\ UNCHANGED lock

\* Mutant: the lock stays in the cache while the release RPC is under way.
release_keeps(c) ==
    /\ At(c, "has")
    /\ cache' = [cache EXCEPT ![c][Lid(c)].state = "FREE"]
    /\ IF cache[c][Lid(c)].revoke_later THEN Goes(c, "release") ELSE call' = [call EXCEPT ![c] = Idle]
    /\ UNCHANGED lock

Release(c) ==
    LET later == cache[c][Lid(c)].revoke_later IN
    /\ At(c, "has")
    /\ cache' = [cache EXCEPT ![c][Lid(c)].state = IF later THEN "RELEASING" ELSE "FREE"]
    /\ IF later THEN Goes(c, "release") ELSE call' = [call EXCEPT ![c] = Idle]
    /\ UNCHANGED lock

\* The release RPC has returned to release.
ReleaseReturns(c) ==
    /\ At(c, "released")
    /\ cache' = [cache EXCEPT ![c][Lid(c)].state = "NONE", ![c][Lid(c)].revoke_later = FALSE]
    /\ call' = [call EXCEPT ![c] = Idle]
    /\ UNCHANGED lock

-----------------------------------------------------------------------------
(* The server: acquire, release                                            *)

\* The lock after c's acquire, the answer, and whether the holder is revoked.
Grant(k, c) ==
    CASE k.state = "FREE" ->
           [k |-> [k EXCEPT !.state = "LOCKED", !.holder = c], ret |-> "OK", revoke |-> FALSE]
      [] k.state = "LOCKED" ->
           [k |-> [k EXCEPT !.state = "REVOKING", !.waiter = {c}], ret |-> "RETRY", revoke |-> TRUE]
      [] k.state = "RETRYING" /\ k.retryer = c ->
           [k |-> [k EXCEPT !.state = IF k.waiter = {} THEN "LOCKED" ELSE "REVOKING",
                            !.holder = c, !.retryer = None],
            ret |-> "OK", revoke |-> k.waiter # {}]
      [] OTHER ->
           [k |-> [k EXCEPT !.waiter = @ \union {c}], ret |-> "RETRY", revoke |-> FALSE]

ServerAcquire(c) ==
    LET g == Grant(lock[Lid(c)], c) IN
    /\ At(c, "acquire")
    /\ Busy < Pool
    /\ lock' = [lock EXCEPT ![Lid(c)] = g.k]
    /\ call' = [call EXCEPT ![c].pc = IF g.revoke THEN "revoke" ELSE "returned",
                            ![c].ret = g.ret, ![c].revokee = g.k.holder]
    /\ UNCHANGED cache

NextRetryer(k) ==
    [k EXCEPT !.state = "RETRYING", !.retryer = Min(k.waiter), !.waiter = @ \ {Min(k.waiter)},
              !.holder = None]

\* A release of c's thread, or of the revoke handler that c's acquire called.
ServerRelease(c) ==
    /\ \/ At(c, "release")
       \/ At(c, "revoke_release")
    /\ Busy < Pool
    /\ lock' = [lock EXCEPT ![Lid(c)] = NextRetryer(@)]
    /\ call' = [call EXCEPT ![c].pc = IF @ = "release" THEN "release_retry" ELSE "revoke_retry",
                            ![c].retryee = lock'[Lid(c)].retryer]
    /\ UNCHANGED cache

-----------------------------------------------------------------------------
(* call_client, and the handlers of the client that is called              *)

\* Mutant: the revoke of a lock that a thread has is not noted for its release.
revoke_forgets(c) ==
    LET h == call[c].revokee IN
    /\ At(c, "revoke")
    /\ IF cache[h][Lid(c)].state = "FREE"
       THEN /\ cache' = [cache EXCEPT ![h][Lid(c)].state = "RELEASING"]
            /\ Goes(c, "revoke_release")
       ELSE Goes(c, "returned") /\ UNCHANGED cache
    /\ UNCHANGED lock

revoke_handler(c) ==
    LET h == call[c].revokee IN
    /\ At(c, "revoke")
    /\ IF cache[h][Lid(c)].state = "FREE"
       THEN /\ cache' = [cache EXCEPT ![h][Lid(c)].state = "RELEASING"]
            /\ Goes(c, "revoke_release")
       ELSE /\ cache' = [cache EXCEPT ![h][Lid(c)].revoke_later = TRUE]
            /\ Goes(c, "returned")
    /\ UNCHANGED lock

\* The release RPC has returned to the handler, and the revoke RPC to acquire.
RevokeReturns(c) ==
    /\ At(c, "revoked")
    /\ cache' = [cache EXCEPT ![call[c].revokee][Lid(c)].state = "NONE"]
    /\ Goes(c, "returned")
    /\ UNCHANGED lock

\* After the retry, the release RPC that sent it returns.
AfterRetry(c) == IF At(c, "release_retry") THEN "released" ELSE "revoked"

retry_handler(c) ==
    /\ \/ At(c, "release_retry")
       \/ At(c, "revoke_retry")
    /\ cache' = [cache EXCEPT ![call[c].retryee][Lid(c)].retry_earlier = TRUE]
    /\ Goes(c, AfterRetry(c))
    /\ UNCHANGED lock

\* safebind fails: the revoke or the retry is not sent, and nobody looks at RPCERR.
call_client_fails(c) ==
    /\ BindFails
    /\ \/ At(c, "revoke") /\ Goes(c, "returned")
       \/ (At(c, "release_retry") \/ At(c, "revoke_retry")) /\ Goes(c, AfterRetry(c))
    /\ UNCHANGED <<lock, cache>>

-----------------------------------------------------------------------------

\* What goes on by itself once an acquire or a release has been called.
Step(c) ==
    \/ AcquireReturns(c) \/ Release(c) \/ ReleaseReturns(c)
    \/ ServerAcquire(c) \/ ServerRelease(c)
    \/ revoke_handler(c) \/ RevokeReturns(c) \/ retry_handler(c) \/ call_client_fails(c)

Next == \E c \in Clients : Step(c) \/ \E l \in Locks : Acquire(c, l)

Spec == Init /\ [][Next]_vars

-----------------------------------------------------------------------------

\* The dispatch pool does not lock up: while a release is queued some thread of
\* the pool is idle, or works on something that ends without a further thread.
ThreadForRelease ==
    (\E c \in Clients : At(c, "release") \/ At(c, "revoke_release")) =>
        \/ Busy < Pool
        \/ \E c \in Clients : call[c].pc \in {"revoke", "revoke_retry", "revoked", "release_retry"}

Stopped == (\E c \in Clients : call[c] # Idle) /\ \A c \in Clients : ~ ENABLED Step(c)

\* Clients that all wait, with no step of client or server that could come, wait
\* for a thread of the pool, and every thread is in an acquire whose revoke waits for
\* a queued release (lock_server_cache.cc:61).  So with fewer such acquires than
\* threads no revoke and no retry is lost between client and server, in whatever
\* order they pass the acquires and releases of several locks.
StopsOnlyFull ==
    Stopped => Cardinality({c \in Clients : At(c, "revoke_release")}) = Pool

\* Two clients never own one lock at the same time, also when revokes and retries
\* are lost.
OneOwner ==
    \A l \in DOMAIN lock, c, d \in DOMAIN cache :
        /\ cache[c][l].state \in {"FREE", "LOCKED"} \/ (At(c, "has") /\ Lid(c) = l)
        /\ cache[d][l].state \in {"FREE", "LOCKED"} \/ (At(d, "has") /\ Lid(d) = l)
        => c = d

PCs == {"idle", "acquire", "returned", "has", "release", "release_retry", "released",
        "revoke", "revoke_release", "revoke_retry", "revoked"}

Types ==
    /\ lock \in [Locks -> [state : {"FREE", "LOCKED", "REVOKING", "RETRYING"},
                           holder : Clients \cup {None}, retryer : Clients \cup {None},
                           waiter : SUBSET Clients]]
    /\ cache \in [Clients -> [Locks ->
                    [state : {"NONE", "FREE", "LOCKED", "ACQUIRING", "RELEASING"},
                     revoke_later : BOOLEAN, retry_earlier : BOOLEAN]]]
    /\ call \in [Clients -> [pc : PCs, lid : Locks \cup {None}, ret : {"OK", "RETRY"},
                             revokee : Clients \cup {None}, retryee : Clients \cup {None}]]
    /\ \A l \in Locks :
          /\ lock[l].state \in {"LOCKED", "REVOKING"} => lock[l].holder \in Clients
          /\ lock[l].state = "REVOKING" => lock[l].waiter # {}

\* What a client's cache says of the lock that its thread is at.
Agrees(x, e) ==
    /\ x.pc = "has" => e.state = "LOCKED"
    /\ x.pc \in {"release", "release_retry", "released"} => e.state = "RELEASING"
    /\ x.pc = "release" => e.revoke_later
    /\ x.pc \in {"acquire", "returned", "revoke", "revoke_release", "revoke_retry", "revoked"} =>
           e.state = "ACQUIRING"

Calls ==
    \A c \in Clients :
        At(c, "idle") \/ (Lid(c) \in Locks /\ Agrees(call[c], cache[c][Lid(c)]))

\* The server knows who owns a lock, from its answer to the release.
Owner(c, l) ==
    \/ cache[c][l].state \in {"FREE", "LOCKED"}
    \/ Lid(c) = l /\ At(c, "release")
    \/ Lid(c) = l /\ call[c].pc \in {"revoke", "returned"} /\ call[c].ret = "OK"

Holders ==
    \A l \in Locks, c \in Clients :
        Owner(c, l) => lock[l].state \in {"LOCKED", "REVOKING"} /\ lock[l].holder = c

\* A holder is revoked once: by the RPC on its way, by the handler that releases,
\* or by the note that its thread will find.
Revokes(d, l) == call[d].pc \in {"revoke", "revoke_release"} /\ Lid(d) = l
Noted(c, l) ==
    /\ cache[c][l].revoke_later
    /\ ~ (Lid(c) = l /\ call[c].pc \in {"release_retry", "released"})

OneRevoke ==
    \A l \in Locks, d \in Clients :
        /\ Revokes(d, l) =>
              /\ lock[l].state = "REVOKING" /\ lock[l].holder = call[d].revokee
              /\ call[d].ret = "OK" => call[d].revokee = d
              /\ \A e \in Clients : ~ Noted(e, l) /\ (Revokes(e, l) => d = e)
        /\ Noted(d, l) => lock[l].state = "REVOKING" /\ lock[l].holder = d

\* From a release RPC until the client notes that it returned, nothing else
\* changes what that client's cache says of the lock.
Handler(c, l) == call[c].pc \in {"revoke_release", "revoke_retry", "revoked"} /\ Lid(c) = l
Releases(c, l) == call[c].pc \in {"release", "release_retry", "released"} /\ Lid(c) = l

OneRelease ==
    \A l \in Locks, c \in Clients :
        /\ Releases(c, l) /\ ~ At(c, "release") => lock[l].holder # c
        /\ Handler(c, l) =>
              /\ call[c].ret = "RETRY" /\ call[c].revokee \in Clients
              /\ cache[call[c].revokee][l].state = "RELEASING"
              /\ \A h \in Clients : Releases(h, l) => h # call[c].revokee
              /\ ~ At(c, "revoke_release") => lock[l].holder # call[c].revokee
              /\ \A d \in Clients : Handler(d, l) /\ call[d].revokee = call[c].revokee => c = d

OwnersInv == Types /\ Calls /\ Holders /\ OneRevoke /\ OneRelease

=============================================================================
