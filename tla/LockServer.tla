----------------------------- MODULE LockServer -----------------------------
(***************************************************************************)
(* The lock server of lab 2 (lock_server.cc), whose acquire handler blocks *)
(* a dispatch thread until the lock is free, under the threads of          *)
(* lock_tester.cc, each with an RPC at a time.  A handler runs under       *)
(* lock_mutex: a step goes from where it takes the mutex to where it waits *)
(* or returns.                                                             *)
(***************************************************************************)
EXTENDS Integers, Sequences, FiniteSets

CONSTANTS
    Main,        \* the main thread of lock_tester, which runs test1
    Threads,     \* the threads that run test2 to test5
    Warm,        \* does test1 run first?  (not if a test number is given)
    Rounds,      \* bound: rounds of a thread (10 in the code)
    Pool,        \* the threads of the dispatch pool
    MaxJobs      \* bound: the capacity of its queue

VARIABLES
    lock_pool,   \* the state of each lock, "none" if not in the map
    at,          \* where each tester thread is in its test
    rpc,         \* what became of its RPC
    jobq,        \* the queue of the dispatch pool
    ct,          \* the counts of check_grant and check_release
    error        \* has the tester called exit(1)?

vars == <<lock_pool, at, rpc, jobq, ct, error>>

Testers == Threads \cup {Main}
Locks == {"a", "b"}

Do(what, lid) == [do |-> what, lid |-> lid]

\* test1 checks after the release, the other tests before it.
test1 == <<
    Do("acquire", "a"), Do("check_grant", "a"), Do("release", "a"), Do("check_release", "a"),
    Do("acquire", "a"), Do("check_grant", "a"), Do("release", "a"), Do("check_release", "a"),
    Do("acquire", "a"), Do("check_grant", "a"), Do("acquire", "b"), Do("check_grant", "b"),
    Do("release", "b"), Do("check_release", "b"), Do("release", "a"), Do("check_release", "a") >>
test2 == <<Do("acquire", "a"), Do("check_grant", "a"), Do("check_release", "a"), Do("release", "a")>>
test3 == [k \in 1 .. Rounds * 4 |-> test2[((k - 1) % 4) + 1]]

Test(t) == IF t # Main THEN test3 ELSE IF Warm THEN test1 ELSE <<>>
Ended(t) == at[t] > Len(Test(t))
Now(t) == Test(t)[at[t]]

Init ==
    /\ lock_pool = [lid \in Locks |-> "none"]
    /\ at = [t \in Testers |-> 1]
    /\ rpc = [t \in Testers |-> "none"]
    /\ jobq = <<>>
    /\ ct = [lid \in Locks |-> 0]
    /\ error = FALSE

\* The waiters on the condition variable of a lock.
Waiting(lid) == {t \in Testers : rpc[t] = "waiting" /\ Now(t).lid = lid}
\* The threads of the pool that are inside a handler.
Busy == {t \in Testers : rpc[t] \in {"waiting", "woken"}}

\* The threads of a test are created when the one before has ended.
Runs(t) == ~ error /\ ~ Ended(t) /\ (t # Main => Ended(Main))

check_grant(t) ==
    /\ Runs(t) /\ Now(t).do = "check_grant"
    /\ error' = (ct[Now(t).lid] # 0)
    /\ ct' = [ct EXCEPT ![Now(t).lid] = @ + 1]
    /\ at' = [at EXCEPT ![t] = @ + 1]
    /\ UNCHANGED <<lock_pool, rpc, jobq>>

check_release(t) ==
    /\ Runs(t) /\ Now(t).do = "check_release"
    /\ error' = (ct[Now(t).lid] # 1)
    /\ ct' = [ct EXCEPT ![Now(t).lid] = @ - 1]
    /\ at' = [at EXCEPT ![t] = @ + 1]
    /\ UNCHANGED <<lock_pool, rpc, jobq>>

\* lock_client: the request arrives, and got_pdu adds the job to the queue unless
\* that is full; the connection then offers it again.
Call(t) ==
    /\ Runs(t) /\ Now(t).do \in {"acquire", "release"} /\ rpc[t] = "none"
    /\ Len(jobq) < MaxJobs
    /\ jobq' = Append(jobq, t)
    /\ rpc' = [rpc EXCEPT ![t] = "queued"]
    /\ UNCHANGED <<lock_pool, at, ct, error>>

Returns(t) ==
    /\ rpc' = [rpc EXCEPT ![t] = "none"]
    /\ at' = [at EXCEPT ![t] = @ + 1]
    /\ UNCHANGED <<ct, error>>

\* takeJob: an idle thread of the pool takes the job in front.
TakesJob(t, do) ==
    /\ ~ error
    /\ Cardinality(Busy) < Pool
    /\ jobq # <<>> /\ Head(jobq) = t /\ Now(t).do = do
    /\ jobq' = Tail(jobq)

\* Mutant: a new lock is given to nobody and yet answered OK.
acquire_new_only(t) ==
    /\ TakesJob(t, "acquire")
    /\ lock_pool' = [lock_pool EXCEPT ![Now(t).lid] = "FREE"]
    /\ Returns(t)

\* A lock that is not in the map is added, in the state FREE of its constructor.
acquire(t) ==
    /\ TakesJob(t, "acquire")
    /\ LET lid == Now(t).lid IN
        \/ /\ lock_pool[lid] = "none"
           /\ lock_pool' = [lock_pool EXCEPT ![lid] = "FREE"]
           /\ Returns(t)
        \/ /\ lock_pool[lid] = "FREE"
           /\ lock_pool' = [lock_pool EXCEPT ![lid] = "LOCKED"]
           /\ Returns(t)
        \/ /\ lock_pool[lid] = "LOCKED"
           /\ rpc' = [rpc EXCEPT ![t] = "waiting"]
           /\ UNCHANGED <<lock_pool, at, ct, error>>

\* The wait returns, signalled or not: the loop looks at the state again.
acquire_again(t) ==
    /\ ~ error
    /\ rpc[t] = "woken"
    /\ LET lid == Now(t).lid IN
        IF lock_pool[lid] = "LOCKED"
        THEN /\ rpc' = [rpc EXCEPT ![t] = "waiting"]
             /\ UNCHANGED <<lock_pool, at, ct, error>>
        ELSE lock_pool' = [lock_pool EXCEPT ![lid] = "LOCKED"] /\ Returns(t)
    /\ UNCHANGED jobq

\* Mutant: the waiters are not signalled.
release_silently(t) ==
    /\ TakesJob(t, "release")
    /\ lock_pool' = [lock_pool EXCEPT ![Now(t).lid] = "FREE"]
    /\ Returns(t)

\* release (of a lock in the map: the others are answered NOENT, and the VERIFY
\* of lock_client fails) frees the lock and signals one waiter.
release(t) ==
    /\ TakesJob(t, "release")
    /\ LET lid == Now(t).lid IN
        /\ lock_pool' = [lock_pool EXCEPT ![lid] = "FREE"]
        /\ at' = [at EXCEPT ![t] = @ + 1]
        /\ \/ /\ Waiting(lid) = {}
              /\ rpc' = [rpc EXCEPT ![t] = "none"]
           \/ \E u \in Waiting(lid) : rpc' = [rpc EXCEPT ![t] = "none", ![u] = "woken"]
    /\ UNCHANGED <<ct, error>>

Spurious(t) ==
    /\ ~ error
    /\ rpc[t] = "waiting"
    /\ rpc' = [rpc EXCEPT ![t] = "woken"]
    /\ UNCHANGED <<lock_pool, at, jobq, ct, error>>

\* The tester exits, with exit(1) or after its tests.
Exits == (~ error => \A t \in Testers : Ended(t)) /\ UNCHANGED vars

Step(t) ==
    check_grant(t) \/ check_release(t) \/ Call(t) \/ acquire(t) \/ acquire_again(t) \/ release(t)

Next == (\E t \in Testers : Step(t) \/ Spurious(t)) \/ Exits

\* The threads of the tester and of the pool run; no wait ends by itself.
Fairness == \A t \in Testers : WF_vars(Step(t))

Spec == Init /\ [][Next]_vars /\ Fairness

-----------------------------------------------------------------------------

\* "The lock server must grant the lock to one client at a time" (Lab-2.html:297):
\* check_grant never finds that the server granted a lock twice, and check_release
\* never finds one that is not held.
GrantedOnce == ~ error

\* The tester ends: no acquire waits for ever for a lock that was released.
TesterEnds == []<>(\A t \in Testers : Ended(t))

Types ==
    /\ lock_pool \in [Locks -> {"none", "FREE", "LOCKED"}]
    /\ at \in [Testers -> Nat \ {0}]
    /\ rpc \in [Testers -> {"none", "queued", "waiting", "woken"}]
    /\ jobq \in Seq(Testers)
    /\ ct \in [Locks -> Nat]

\* An RPC is queued once, or in the handler of acquire, and its thread waits for it.
Jobs ==
    /\ \A i \in 1 .. Len(jobq) :
          rpc[jobq[i]] = "queued" /\ \A j \in 1 .. Len(jobq) : jobq[i] = jobq[j] => i = j
    /\ \A t \in Testers : rpc[t] # "none" =>
          /\ ~ Ended(t) /\ (t # Main => Ended(Main))
          /\ Now(t).do \in (IF rpc[t] = "queued" THEN {"acquire", "release"} ELSE {"acquire"})

\* Where a thread of test2 to test5 is in its round.
Place(t) == ((at[t] - 1) % 4) + 1

\* While test1 runs nobody else has begun, and the count follows its checks.
InTest1 ==
    LET k == at[Main] IN
    /\ k <= 16
    /\ \A t \in Threads \ {Main} : at[t] = 1
    /\ ct["a"] = IF k \in {3, 4, 7, 8, 11, 12, 13, 14, 15, 16} THEN 1 ELSE 0
    /\ ct["b"] = IF k \in {13, 14} THEN 1 ELSE 0
    /\ k # 1 => lock_pool["a"] # "none"

\* Then the lock is in the map: one thread at most is between its acquire and its
\* release, the state says so, and the count says whether it is between the checks.
InTest3 ==
    /\ at[Main] = 17
    /\ lock_pool["a"] # "none"
    /\ \A t \in Threads \ {Main} :
          /\ at[t] <= Rounds * 4 + 1
          /\ Place(t) # 1 => lock_pool["a"] = "LOCKED" /\ ct["a"] = IF Place(t) = 3 THEN 1 ELSE 0
          /\ \A u \in Threads \ {Main} : Place(t) # 1 /\ Place(u) # 1 => t = u
    /\ (\A t \in Threads \ {Main} : Place(t) = 1) => ct["a"] = 0

TesterInv == Types /\ Jobs /\ ~ error /\ (InTest1 \/ InTest3)

=============================================================================
