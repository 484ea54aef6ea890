----------------------------- MODULE PartsProofs -----------------------------
(***************************************************************************)
(* The smaller components, for every value of their constants.             *)
(*                                                                         *)
(* Fifo: the job queue keeps its capacity and no wake-up is lost.  Both    *)
(* follow from one count: whoever leaves the running threads of a side     *)
(* takes one element or one place along, or wakes another.                 *)
(*                                                                         *)
(* LockServer: between a thread's acquire and its release the state of the *)
(* lock is LOCKED, once test1 has put the lock into the map.               *)
(***************************************************************************)
EXTENDS Fifo, PartTester, FiniteSetTheorems, TLAPS

-----------------------------------------------------------------------------
(* Fifo                                                                    *)

\* What makes FifoSafe inductive: where a thread can be.
FifoTypes ==
    /\ size \in Nat
    /\ pc \in [All -> {"out", "calls", "waits", "woken"}]

FifoInv == FifoTypes /\ WithinCapacity /\ NobodyOverslept

\* One more thread runs on a side: it was called or woken.
LEMMA OneMore ==
    ASSUME NEW S \in {Producers, Consumers}, NEW t \in S, ~ Runs(t),
           Running(S)' = Running(S) \cup {t}
    PROVE  /\ Cardinality(Running(S)) \in Nat
           /\ Cardinality(Running(S))' = Cardinality(Running(S)) + 1
<1>1. IsFiniteSet(S) /\ Running(S) \in SUBSET S /\ t \notin Running(S)
  BY ThreadsAssumption, Zenon DEF Running
<1>2. IsFiniteSet(Running(S))
  BY <1>1, FS_Subset, Zenon
<1> QED
  BY <1>1, <1>2, FS_AddElement, FS_CardinalityType, Zenon

\* One thread less runs: it returned or waits.
LEMMA OneLess ==
    ASSUME NEW S \in {Producers, Consumers}, NEW t \in S, Runs(t),
           Running(S)' = Running(S) \ {t}
    PROVE  /\ Cardinality(Running(S)) \in Nat
           /\ Cardinality(Running(S))' = Cardinality(Running(S)) - 1
           /\ Cardinality(Running(S))' \in Nat
<1>1. IsFiniteSet(S) /\ Running(S) \in SUBSET S /\ t \in Running(S)
  BY ThreadsAssumption, Zenon DEF Running
<1>2. IsFiniteSet(Running(S)) /\ IsFiniteSet(Running(S) \ {t})
  BY <1>1, FS_Subset, FS_RemoveElement, Zenon
<1> QED
  BY <1>1, <1>2, FS_RemoveElement, FS_CardinalityType, Zenon

\* The running threads of a side can be counted.
LEMMA CountType ==
    ASSUME NEW S \in {Producers, Consumers}
    PROVE  Cardinality(Running(S)) \in Nat
<1>1. IsFiniteSet(S) /\ Running(S) \in SUBSET S
  BY ThreadsAssumption, Zenon DEF Running
<1> QED
  BY <1>1, FS_Subset, FS_CardinalityType, Zenon

\* A thread of one side that starts to run changes nothing for the other side.
LEMMA Starts ==
    ASSUME FifoInv, NEW t \in All, NEW l \in {"calls", "woken"}, ~ Runs(t),
           pc' = [pc EXCEPT ![t] = l], UNCHANGED size
    PROVE  FifoInv'
<1>1. FifoTypes'
  BY Zenon DEF FifoInv, FifoTypes
<1>2. WithinCapacity'
  BY Zenon DEF FifoInv, WithinCapacity
<1>3. ASSUME NEW S \in {Producers, Consumers}
      PROVE  waiters(S)' # {} =>
                /\ waiters(S) # {}
                /\ Cardinality(Running(S))' >= Cardinality(Running(S))
  <2>1. waiters(S)' \subseteq waiters(S)
    BY Zenon DEF FifoInv, FifoTypes, waiters, All
  <2>2. CASE t \in S
    <3>1. Running(S)' = Running(S) \cup {t}
      BY <2>2, Zenon DEF FifoInv, FifoTypes, Running, Runs, All
    <3> QED
      BY <2>1, <2>2, <3>1, OneMore
  <2>3. CASE t \notin S
    <3>1. Running(S)' = Running(S)
      BY <2>3, Zenon DEF FifoInv, FifoTypes, Running, Runs, All
    <3> QED
      BY <2>1, <3>1, CountType
  <2> QED
    BY <2>2, <2>3, Zenon
<1>4. NobodyOverslept'
  <2>1. /\ Cardinality(Running(Consumers)) \in Nat
        /\ Cardinality(Running(Producers)) \in Nat
        /\ size \in Nat /\ max_ \in Nat
    BY CountType, CapacityAssumption, Zenon DEF FifoInv, FifoTypes
  <2>2. /\ Cardinality(Running(Consumers))' \in Nat
        /\ Cardinality(Running(Producers))' \in Nat
    BY FS_Subset, FS_CardinalityType, ThreadsAssumption, Zenon DEF Running
  <2> QED
    BY <1>3, <2>1, <2>2 DEF FifoInv, NobodyOverslept
<1> QED
  BY <1>1, <1>2, <1>4, Zenon DEF FifoInv

\* A thread t of the side S stops running, and when others of the side T wait one
\* of them is woken.
LEMMA Signals ==
    ASSUME FifoInv, NEW S \in {Producers, Consumers}, NEW T \in {Producers, Consumers},
           S \cap T = {}, NEW t \in S, Runs(t), Signal(t, T)
    PROVE  /\ pc' \in [All -> {"out", "calls", "waits", "woken"}]
           /\ waiters(S)' = waiters(S)
           /\ Cardinality(Running(S)) \in Nat
           /\ Cardinality(Running(S))' = Cardinality(Running(S)) - 1
           /\ waiters(T)' # {} =>
                 /\ waiters(T) # {}
                 /\ Cardinality(Running(T)) \in Nat
                 /\ Cardinality(Running(T))' = Cardinality(Running(T)) + 1
<1>1. CASE waiters(T) = {}
  <2>1. pc' = [pc EXCEPT ![t] = "out"]
    BY <1>1, Zenon DEF Signal
  <2>2. /\ pc' \in [All -> {"out", "calls", "waits", "woken"}]
        /\ waiters(S)' = waiters(S)
        /\ Running(S)' = Running(S) \ {t}
        /\ waiters(T)' = {}
    BY <1>1, <2>1, Zenon DEF FifoInv, FifoTypes, waiters, Running, Runs, All
  <2> QED
    BY <2>2, OneLess, Zenon
<1>2. CASE waiters(T) # {}
  <2>1. PICK u \in waiters(T) : pc' = [pc EXCEPT ![t] = "out", ![u] = "woken"]
    BY <1>2, Zenon DEF Signal
  <2>2. u \in T /\ u # t /\ ~ Runs(u)
    BY Zenon DEF waiters, Runs
  <2>3. /\ pc' \in [All -> {"out", "calls", "waits", "woken"}]
        /\ waiters(S)' = waiters(S)
        /\ Running(S)' = Running(S) \ {t}
        /\ Running(T)' = Running(T) \cup {u}
    BY <2>1, <2>2, Zenon DEF FifoInv, FifoTypes, waiters, Running, Runs, All
  <2> QED
    BY <1>2, <2>2, <2>3, OneLess, OneMore, Zenon
<1> QED
  BY <1>1, <1>2, Zenon

\* enq puts one element in and wakes a consumer, or waits for a place (fifo.h).
LEMMA EnqKeeps ==
    ASSUME FifoInv, NEW p \in Producers, enq(p)
    PROVE  FifoInv'
<1> USE ThreadsAssumption, CapacityAssumption
<1>1. CASE HasSpace
  <2>1. Signal(p, Consumers) /\ size' = size + 1 /\ Runs(p)
    BY <1>1, Zenon DEF enq
  <2>2. /\ pc' \in [All -> {"out", "calls", "waits", "woken"}]
        /\ waiters(Producers)' = waiters(Producers)
        /\ Cardinality(Running(Producers)) \in Nat
        /\ Cardinality(Running(Producers))' = Cardinality(Running(Producers)) - 1
        /\ waiters(Consumers)' # {} =>
             /\ waiters(Consumers) # {}
             /\ Cardinality(Running(Consumers)) \in Nat
             /\ Cardinality(Running(Consumers))' = Cardinality(Running(Consumers)) + 1
    BY <2>1, Signals, Zenon
  <2>3. FifoTypes' /\ WithinCapacity'
    BY <1>1, <2>1, <2>2 DEF FifoInv, FifoTypes, WithinCapacity, HasSpace
  <2>4. NobodyOverslept'
    BY <2>1, <2>2 DEF FifoInv, FifoTypes, NobodyOverslept
  <2> QED
    BY <2>3, <2>4, Zenon DEF FifoInv
<1>2. CASE ~ HasSpace
  <2>1. PICK l \in {"out", "waits"} : pc' = [pc EXCEPT ![p] = l]
    BY <1>2, Zenon DEF enq
  <2>2. size' = size /\ Runs(p)
    BY <1>2, Zenon DEF enq
  <2>3. FifoTypes' /\ WithinCapacity'
    BY <2>1, <2>2, Zenon DEF FifoInv, FifoTypes, WithinCapacity
  <2>4. /\ waiters(Consumers)' = waiters(Consumers)
        /\ Running(Consumers)' = Running(Consumers)
        /\ Running(Producers)' = Running(Producers) \ {p}
    BY <2>1, <2>2, Zenon DEF FifoInv, FifoTypes, waiters, Running, Runs, All
  <2>5. /\ Cardinality(Running(Producers))' \in Nat
        /\ Cardinality(Running(Consumers)) \in Nat
    BY <2>2, <2>4, OneLess, CountType, Zenon
  <2>6. max_ - size <= 0
    BY <1>2 DEF HasSpace, FifoInv, FifoTypes
  <2>7. NobodyOverslept'
    BY <2>2, <2>4, <2>5, <2>6 DEF FifoInv, FifoTypes, NobodyOverslept
  <2> QED
    BY <2>3, <2>7, Zenon DEF FifoInv
<1> QED
  BY <1>1, <1>2, Zenon

\* deq takes one element out and wakes a producer, or waits for one (fifo.h).
LEMMA DeqKeeps ==
    ASSUME FifoInv, NEW c \in Consumers, deq(c)
    PROVE  FifoInv'
<1> USE ThreadsAssumption, CapacityAssumption
<1>1. CASE size = 0
  <2>1. pc' = [pc EXCEPT ![c] = "waits"] /\ size' = size /\ Runs(c)
    BY <1>1, Zenon DEF deq
  <2>2. FifoTypes' /\ WithinCapacity'
    BY <2>1, Zenon DEF FifoInv, FifoTypes, WithinCapacity
  <2>3. /\ waiters(Producers)' = waiters(Producers)
        /\ Running(Producers)' = Running(Producers)
        /\ Running(Consumers)' = Running(Consumers) \ {c}
    BY <2>1, Zenon DEF FifoInv, FifoTypes, waiters, Running, Runs, All
  <2>4. Cardinality(Running(Consumers))' \in Nat
    BY <2>1, <2>3, OneLess, Zenon
  <2>5. NobodyOverslept'
    BY <1>1, <2>1, <2>3, <2>4 DEF FifoInv, FifoTypes, NobodyOverslept
  <2> QED
    BY <2>2, <2>5, Zenon DEF FifoInv
<1>2. CASE size # 0 /\ max_ # 0
  <2>1. Signal(c, Producers) /\ size' = size - 1 /\ Runs(c)
    BY <1>2 DEF deq, FifoInv, FifoTypes, WithinCapacity
  <2>2. /\ pc' \in [All -> {"out", "calls", "waits", "woken"}]
        /\ waiters(Consumers)' = waiters(Consumers)
        /\ Cardinality(Running(Consumers)) \in Nat
        /\ Cardinality(Running(Consumers))' = Cardinality(Running(Consumers)) - 1
        /\ waiters(Producers)' # {} =>
             /\ waiters(Producers) # {}
             /\ Cardinality(Running(Producers)) \in Nat
             /\ Cardinality(Running(Producers))' = Cardinality(Running(Producers)) + 1
    BY <2>1, Signals, Zenon
  <2>3. FifoTypes' /\ WithinCapacity'
    BY <1>2, <2>1, <2>2 DEF FifoInv, FifoTypes, WithinCapacity
  <2>4. NobodyOverslept'
    BY <1>2, <2>1, <2>2 DEF FifoInv, FifoTypes, NobodyOverslept
  <2> QED
    BY <2>3, <2>4, Zenon DEF FifoInv
<1>3. CASE size # 0 /\ max_ = 0
  <2>1. pc' = [pc EXCEPT ![c] = "out"] /\ size' = size - 1 /\ Runs(c)
    BY <1>3, Zenon DEF deq
  <2>2. FifoTypes' /\ WithinCapacity'
    BY <1>3, <2>1 DEF FifoInv, FifoTypes, WithinCapacity, All
  <2>3. /\ waiters(Consumers)' = waiters(Consumers)
        /\ Running(Producers)' = Running(Producers)
        /\ Running(Consumers)' = Running(Consumers) \ {c}
    BY <2>1, Zenon DEF FifoInv, FifoTypes, waiters, Running, Runs, All
  <2>4. /\ Cardinality(Running(Consumers)) \in Nat
        /\ Cardinality(Running(Consumers))' = Cardinality(Running(Consumers)) - 1
        /\ Cardinality(Running(Producers))' \in Nat
    BY <2>1, <2>3, OneLess, CountType, Zenon
  <2>5. NobodyOverslept'
    BY <1>3, <2>1, <2>3, <2>4 DEF FifoInv, FifoTypes, NobodyOverslept
  <2> QED
    BY <2>2, <2>5, Zenon DEF FifoInv
<1> QED
  BY <1>1, <1>2, <1>3, Zenon

\* Every step of the queue keeps its invariant.
LEMMA FifoInvInductive ==
    ASSUME FifoInv, [Next]_vars
    PROVE  FifoInv'
<1>1. ASSUME NEW p \in Producers, Offer(p) PROVE FifoInv'
  BY <1>1, Starts, Zenon DEF Offer, Runs, All
<1>2. ASSUME NEW p \in Producers, enq(p) PROVE FifoInv'
  BY <1>2, EnqKeeps, Zenon
<1>3. ASSUME NEW c \in Consumers, Take(c) PROVE FifoInv'
  BY <1>3, Starts, Zenon DEF Take, Runs, All
<1>4. ASSUME NEW c \in Consumers, deq(c) PROVE FifoInv'
  BY <1>4, DeqKeeps, Zenon
<1>5. ASSUME NEW t \in All, Spurious(t) PROVE FifoInv'
  BY <1>5, Starts, Zenon DEF Spurious, Runs
<1>6. CASE UNCHANGED vars
  BY <1>6, Zenon DEF vars, FifoInv, FifoTypes, WithinCapacity, NobodyOverslept, waiters, Running, Runs
<1> QED
  BY <1>1, <1>2, <1>3, <1>4, <1>5, <1>6, Zenon DEF Next

\* The capacity and the count of wake-ups hold in every state of the queue.
LEMMA FifoInvariance == Spec => []FifoInv
<1>1. ASSUME Init PROVE FifoInv
  <2>1. FifoTypes /\ WithinCapacity
    BY <1>1, CapacityAssumption DEF Init, FifoTypes, WithinCapacity
  <2>2. waiters(Producers) = {} /\ waiters(Consumers) = {}
    BY <1>1, Zenon DEF Init, waiters, All
  <2> QED
    BY <2>1, <2>2, Zenon DEF FifoInv, NobodyOverslept
<1> QED
  BY <1>1, FifoInvInductive, PTL DEF Spec

\* enq (rpc/fifo.h) never lets the queue grow beyond max_, however many producers
\* are woken at the same time, and no thread sleeps in enq or deq beside a place or
\* an element that nobody else is on the way to.
THEOREM FifoSafeHolds == Spec => []FifoSafe
<1>1. FifoInv => FifoSafe
  BY Zenon DEF FifoInv, FifoSafe
<1> QED
  BY <1>1, FifoInvariance, PTL

-----------------------------------------------------------------------------
(* LockServer                                                              *)

\* What test1 does at each of its steps.
LEMMA Test1 ==
    /\ Len(L!test1) = 16
    /\ \A k \in 1 .. 16 :
          /\ L!test1[k].do = "acquire" => k \in {1, 5, 9, 11}
          /\ L!test1[k].do = "check_grant" => k \in {2, 6, 10, 12}
          /\ L!test1[k].do = "release" => k \in {3, 7, 13, 15}
          /\ L!test1[k].do = "check_release" => k \in {4, 8, 14, 16}
          /\ L!test1[k].lid = IF k \in {11, 12, 13, 14} THEN "b" ELSE "a"
BY DEF L!test1, L!Do

\* What the other tests do in a round.
LEMMA Test2 ==
    /\ L!test2[1].do = "acquire" /\ L!test2[2].do = "check_grant"
    /\ L!test2[3].do = "check_release" /\ L!test2[4].do = "release"
    /\ \A p \in 1 .. 4 : L!test2[p].lid = "a"
BY DEF L!test2, L!Do

\* The four places of a round follow one another.
LEMMA Places ==
    ASSUME NEW k \in Nat \ {0}
    PROVE  /\ ((k - 1) % 4) + 1 \in 1 .. 4
           /\ \A m : m = k + 1 =>
                 ((m - 1) % 4) + 1 = IF ((k - 1) % 4) + 1 = 4 THEN 1 ELSE ((k - 1) % 4) + 1 + 1
OBVIOUS

\* Where the threads are.
LEMMA TesterAt ==
    ASSUME Rounds \in Nat, L!Types
    PROVE  /\ L!Ended(Main) <=> at[Main] > 16
           /\ ~ L!Ended(Main) => L!Now(Main) = L!test1[at[Main]] /\ at[Main] \in 1 .. 16
           /\ \A t \in Runners \ {Main} :
                 /\ L!Ended(t) <=> at[t] > Rounds * 4
                 /\ L!Place(t) \in 1 .. 4
                 /\ ~ L!Ended(t) => L!Now(t) = L!test2[L!Place(t)]
<1>1. \A t \in L!Testers : at[t] \in Nat \ {0}
  BY Zenon DEF L!Types
<1>2. L!Ended(Main) <=> at[Main] > 16
  BY Test1, Zenon DEF L!Ended, L!Test
<1>3. ~ L!Ended(Main) => L!Now(Main) = L!test1[at[Main]] /\ at[Main] \in 1 .. 16
  <2>1. at[Main] \in Nat \ {0}
    BY <1>1, Zenon DEF L!Testers
  <2>2. L!Now(Main) = L!test1[at[Main]]
    BY Zenon DEF L!Now, L!Test
  <2> QED
    BY <1>2, <2>1, <2>2
<1>4. Len(L!test3) = Rounds * 4 /\ \A k \in 1 .. Rounds * 4 : L!test3[k] = L!test2[((k - 1) % 4) + 1]
  BY DEF L!test3
<1>5. ASSUME NEW t \in Runners \ {Main}
      PROVE  /\ L!Ended(t) <=> at[t] > Rounds * 4
             /\ L!Place(t) \in 1 .. 4
             /\ ~ L!Ended(t) => L!Now(t) = L!test2[L!Place(t)]
  <2>1. at[t] \in Nat \ {0} /\ t # Main
    BY <1>1, Zenon DEF L!Testers
  <2>2. L!Test(t) = L!test3
    BY <2>1, Zenon DEF L!Test
  <2>3. L!Ended(t) <=> at[t] > Rounds * 4
    BY <1>4, <2>2, Zenon DEF L!Ended
  <2>4. L!Place(t) \in 1 .. 4
    BY <2>1, Places, Zenon DEF L!Place
  <2>5. ~ L!Ended(t) => at[t] \in 1 .. Rounds * 4
    BY <2>1, <2>3
  <2> QED
    BY <1>4, <2>2, <2>3, <2>4, <2>5, Zenon DEF L!Now, L!Place
<1> QED
  BY <1>2, <1>3, <1>5, Zenon

\* Thread t goes on: its RPC, if any, has returned, and at most a waiter was woken.
Advances(t) ==
    /\ at'[t] = at[t] + 1 /\ \A u \in L!Testers \ {t} : at'[u] = at[u]
    /\ rpc'[t] = "none"
    /\ \A u \in L!Testers \ {t} : rpc'[u] = rpc[u] \/ (rpc[u] = "waiting" /\ rpc'[u] = "woken")
    /\ \/ jobq' = jobq /\ rpc[t] # "queued"
       \/ jobq # <<>> /\ t = Head(jobq) /\ jobq' = Tail(jobq)

\* Thread t's RPC goes from x to y, while the thread stays where it is.
Serves(t, x, y) ==
    /\ at' = at
    /\ rpc[t] = x /\ rpc' = [rpc EXCEPT ![t] = y]
    /\ \/ jobq' = jobq /\ x \notin {"none", "queued"} /\ y \notin {"none", "queued"}
       \/ jobq # <<>> /\ t = Head(jobq) /\ jobq' = Tail(jobq) /\ x = "queued" /\ y = "waiting"

\* A thread that does not move has the same step before it.
LEMMA SameNow ==
    ASSUME NEW u, at'[u] = at[u]
    PROVE  L!Ended(u)' = L!Ended(u) /\ L!Now(u)' = L!Now(u)
BY Zenon DEF L!Ended, L!Now

\* Who is queued, once the job in front is taken.
LEMMA JobTaken ==
    ASSUME L!Types, L!Jobs, jobq # <<>>
    PROVE  /\ Head(jobq) \in L!Testers /\ rpc[Head(jobq)] = "queued" /\ Tail(jobq) \in Seq(L!Testers)
           /\ \A i \in 1 .. Len(Tail(jobq)) :
                 /\ Tail(jobq)[i] \in L!Testers /\ Tail(jobq)[i] # Head(jobq) /\ rpc[Tail(jobq)[i]] = "queued"
                 /\ \A j \in 1 .. Len(Tail(jobq)) : Tail(jobq)[i] = Tail(jobq)[j] => i = j
<1>1. jobq \in Seq(L!Testers) /\ Len(jobq) \in Nat /\ Len(jobq) >= 1
  BY DEF L!Types
<1>2. Head(jobq) = jobq[1] /\ Head(jobq) \in L!Testers /\ Tail(jobq) \in Seq(L!Testers)
  BY <1>1
<1>3. /\ Len(Tail(jobq)) = Len(jobq) - 1
      /\ \A i \in 1 .. Len(jobq) - 1 : Tail(jobq)[i] = jobq[i + 1] /\ i + 1 \in 1 .. Len(jobq) /\ i + 1 # 1
  BY <1>1
<1>4. \A i \in 1 .. Len(jobq) : /\ jobq[i] \in L!Testers /\ rpc[jobq[i]] = "queued"
                                /\ \A j \in 1 .. Len(jobq) : jobq[i] = jobq[j] => i = j
  BY <1>1 DEF L!Jobs
<1>5. 1 \in 1 .. Len(jobq)
  BY <1>1
<1>6. \A i, j \in 1 .. Len(jobq) - 1 : i + 1 = j + 1 => i = j
  OBVIOUS
<1> QED
  BY <1>2, <1>3, <1>4, <1>5, <1>6

\* An RPC that returns leaves the other jobs alone.
LEMMA JobsAdvance ==
    ASSUME L!Types, L!Jobs, NEW t \in L!Testers, ~ L!Ended(t), Advances(t)
    PROVE  L!Jobs'
<1>1. \A u \in L!Testers : rpc'[u] # "none" => u # t /\ rpc[u] # "none" /\ at'[u] = at[u]
  BY Zenon DEF Advances
<1>2. \A u \in L!Testers : rpc[u] = "queued" /\ u # t => rpc'[u] = "queued"
  BY Zenon DEF Advances
<1>3. \A i \in 1 .. Len(jobq') :
         rpc'[jobq'[i]] = "queued" /\ \A j \in 1 .. Len(jobq') : jobq'[i] = jobq'[j] => i = j
  <2>1. CASE jobq' = jobq /\ rpc[t] # "queued"
    <3>1. \A i \in 1 .. Len(jobq) :
             /\ jobq[i] \in L!Testers /\ rpc[jobq[i]] = "queued"
             /\ \A j \in 1 .. Len(jobq) : jobq[i] = jobq[j] => i = j
      BY DEF L!Types, L!Jobs
    <3> QED
      BY <1>2, <2>1, <3>1, Zenon
  <2>2. CASE jobq # <<>> /\ t = Head(jobq) /\ jobq' = Tail(jobq)
    BY <1>2, <2>2, JobTaken, Zenon
  <2> QED
    BY <2>1, <2>2, Zenon DEF Advances
<1>4. ASSUME NEW u \in L!Testers, rpc'[u] # "none"
      PROVE  /\ ~ L!Ended(u)' /\ (u # Main => L!Ended(Main)')
             /\ L!Now(u)'.do \in (IF rpc'[u] = "queued" THEN {"acquire", "release"} ELSE {"acquire"})
  <2>1. u # t /\ rpc[u] # "none" /\ at'[u] = at[u]
    BY <1>1, <1>4, Zenon
  <2>2. /\ ~ L!Ended(u) /\ (u # Main => L!Ended(Main))
        /\ L!Now(u).do \in (IF rpc[u] = "queued" THEN {"acquire", "release"} ELSE {"acquire"})
    BY <2>1, Zenon DEF L!Jobs
  <2>3. L!Ended(u)' = L!Ended(u) /\ L!Now(u)' = L!Now(u)
    BY <2>1, SameNow, Zenon
  <2>4. u # Main => L!Ended(Main)'
    <3>1. Main \in L!Testers
      BY Zenon DEF L!Testers
    <3>2. u # Main => Main # t
      BY <2>2, Zenon
    <3>3. u # Main => at'[Main] = at[Main]
      BY <3>1, <3>2, Zenon DEF Advances
    <3> QED
      BY <2>2, <3>3, SameNow, Zenon
  <2>5. rpc'[u] = "queued" <=> rpc[u] = "queued"
    BY <2>1, Zenon DEF Advances
  <2> QED
    BY <2>2, <2>3, <2>4, <2>5, Zenon
<1> QED
  BY <1>3, <1>4, Zenon DEF L!Jobs

\* A job that waits in the handler of acquire, or wakes there, leaves the others alone.
LEMMA JobsHandle ==
    ASSUME L!Types, L!Jobs, NEW t \in L!Testers, NEW x, NEW y \in {"waiting", "woken"}, Serves(t, x, y),
           L!Now(t).do = "acquire"
    PROVE  L!Jobs'
<1>1. rpc'[t] = y /\ x # "none" /\ \A u \in L!Testers : u # t => rpc'[u] = rpc[u]
  BY Zenon DEF Serves, L!Types
<1>2. \A i \in 1 .. Len(jobq') :
         rpc'[jobq'[i]] = "queued" /\ \A j \in 1 .. Len(jobq') : jobq'[i] = jobq'[j] => i = j
  <2>1. CASE jobq' = jobq /\ rpc[t] # "queued"
    <3>1. \A i \in 1 .. Len(jobq) :
             /\ jobq[i] \in L!Testers /\ rpc[jobq[i]] = "queued"
             /\ \A j \in 1 .. Len(jobq) : jobq[i] = jobq[j] => i = j
      BY DEF L!Types, L!Jobs
    <3> QED
      BY <1>1, <2>1, <3>1, Zenon
  <2>2. CASE jobq # <<>> /\ t = Head(jobq) /\ jobq' = Tail(jobq)
    BY <1>1, <2>2, JobTaken, Zenon
  <2> QED
    BY <2>1, <2>2, Zenon DEF Serves
<1>3. ASSUME NEW u \in L!Testers, rpc'[u] # "none"
      PROVE  /\ ~ L!Ended(u)' /\ (u # Main => L!Ended(Main)')
             /\ L!Now(u)'.do \in (IF rpc'[u] = "queued" THEN {"acquire", "release"} ELSE {"acquire"})
  <2>1. rpc[u] # "none" /\ at' = at
    BY <1>1, <1>3, Zenon DEF Serves
  <2>2. /\ ~ L!Ended(u) /\ (u # Main => L!Ended(Main))
        /\ L!Now(u).do \in (IF rpc[u] = "queued" THEN {"acquire", "release"} ELSE {"acquire"})
    BY <2>1, Zenon DEF L!Jobs
  <2>3. /\ L!Ended(u)' = L!Ended(u) /\ L!Now(u)' = L!Now(u) /\ L!Ended(Main)' = L!Ended(Main)
    BY <2>1, SameNow, Zenon
  <2>4. CASE u = t
    BY <1>1, <2>2, <2>3, <2>4, Zenon
  <2>5. CASE u # t
    BY <1>1, <2>2, <2>3, <2>5, Zenon
  <2> QED
    BY <2>4, <2>5, Zenon
<1> QED
  BY <1>2, <1>3, Zenon DEF L!Jobs

\* A call adds a job of a thread that had none.
LEMMA JobsCall ==
    ASSUME L!Types, L!Jobs, NEW t \in L!Testers, L!Call(t)
    PROVE  L!Jobs' /\ L!Types'
<1>1. /\ ~ L!Ended(t) /\ (t # Main => L!Ended(Main)) /\ L!Now(t).do \in {"acquire", "release"}
      /\ rpc[t] = "none" /\ jobq' = Append(jobq, t) /\ rpc' = [rpc EXCEPT ![t] = "queued"]
      /\ lock_pool' = lock_pool /\ at' = at /\ ct' = ct
  BY Zenon DEF L!Call, L!Runs
<1>2. rpc'[t] = "queued" /\ \A u \in L!Testers : u # t => rpc'[u] = rpc[u]
  BY <1>1, Zenon DEF L!Types
<1>3. L!Types'
  <2>1. jobq' \in Seq(L!Testers)
    BY <1>1 DEF L!Types
  <2> QED
    BY <1>1, <2>1, Zenon DEF L!Types
<1>4. \A i \in 1 .. Len(jobq') :
         rpc'[jobq'[i]] = "queued" /\ \A j \in 1 .. Len(jobq') : jobq'[i] = jobq'[j] => i = j
  <2>1. \A i \in 1 .. Len(jobq) :
           /\ jobq[i] \in L!Testers /\ jobq[i] # t /\ rpc[jobq[i]] = "queued"
           /\ \A j \in 1 .. Len(jobq) : jobq[i] = jobq[j] => i = j
    BY <1>1 DEF L!Types, L!Jobs
  <2>2. /\ \A i \in 1 .. Len(jobq') : i \in 1 .. Len(jobq) \/ i = Len(jobq) + 1
        /\ \A i \in 1 .. Len(jobq) : jobq'[i] = jobq[i]
        /\ jobq'[Len(jobq) + 1] = t
    BY <1>1 DEF L!Types
  <2> QED
    BY <1>2, <2>1, <2>2
<1>5. ASSUME NEW u \in L!Testers, rpc'[u] # "none"
      PROVE  /\ ~ L!Ended(u)' /\ (u # Main => L!Ended(Main)')
             /\ L!Now(u)'.do \in (IF rpc'[u] = "queued" THEN {"acquire", "release"} ELSE {"acquire"})
  <2>1. /\ L!Ended(u)' = L!Ended(u) /\ L!Now(u)' = L!Now(u) /\ L!Ended(Main)' = L!Ended(Main)
    BY <1>1, SameNow, Zenon
  <2>2. CASE u = t
    BY <1>1, <1>2, <2>1, <2>2, Zenon
  <2>3. CASE u # t
    BY <1>2, <1>5, <2>1, <2>3, Zenon DEF L!Jobs
  <2> QED
    BY <2>2, <2>3, Zenon
<1> QED
  BY <1>3, <1>4, <1>5, Zenon DEF L!Jobs

\* A step of test1.
LEMMA Test1Goes ==
    ASSUME Rounds \in Nat, L!InTest1, NEW k \in 1 .. 16, k = at[Main], at'[Main] = k + 1,
           \A u \in Runners \ {Main} : at'[u] = at[u],
           lock_pool'["a"] # "none",
           ct'["a"] = IF k + 1 \in {3, 4, 7, 8, 11, 12, 13, 14, 15, 16} THEN 1 ELSE 0,
           ct'["b"] = IF k + 1 \in {13, 14} THEN 1 ELSE 0
    PROVE  L!InTest1' \/ L!InTest3'
<1>1. \A u \in Runners \ {Main} : at'[u] = 1
  BY Zenon DEF L!InTest1
<1>2. CASE k # 16
  <2>1. at'[Main] <= 16
    BY <1>2
  <2> QED
    BY <1>1, <2>1, Zenon DEF L!InTest1
<1>3. CASE k = 16
  <2>1. \A u \in Runners \ {Main} : L!Place(u)' = 1 /\ at'[u] <= Rounds * 4 + 1
    BY <1>1 DEF L!Place
  <2>2. at'[Main] = 17 /\ ct'["a"] = 0
    BY <1>3
  <2> QED
    BY <2>1, <2>2, Zenon DEF L!InTest3
<1> QED
  BY <1>2, <1>3, Zenon

\* A step of a thread of the other tests: the others are before an acquire.
LEMMA Test3Goes ==
    ASSUME Rounds \in Nat, L!Types, L!InTest3, NEW t \in Runners \ {Main}, ~ L!Ended(t),
           at'[t] = at[t] + 1, at'[Main] = at[Main], \A u \in Runners \ {Main, t} : at'[u] = at[u],
           \A u \in Runners \ {Main, t} : L!Place(u) = 1,
           lock_pool'["a"] # "none",
           L!Place(t) # 4 => lock_pool'["a"] = "LOCKED",
           ct'["a"] = IF L!Place(t) = 2 THEN 1 ELSE 0
    PROVE  L!InTest3'
<1>1. /\ L!Place(t) \in 1 .. 4
      /\ L!Place(t)' = IF L!Place(t) = 4 THEN 1 ELSE L!Place(t) + 1
      /\ at'[t] <= Rounds * 4 + 1
  <2>1. at[t] \in Nat \ {0}
    BY Zenon DEF L!Types, L!Testers
  <2>2. at[t] <= Rounds * 4
    BY <2>1, TesterAt
  <2>3. L!Place(t) \in 1 .. 4
    BY TesterAt, Zenon
  <2>4. L!Place(t)' = IF L!Place(t) = 4 THEN 1 ELSE L!Place(t) + 1
    <3>1. L!Place(t)' = ((at'[t] - 1) % 4) + 1
      BY Zenon DEF L!Place
    <3> QED
      BY <2>1, <3>1, Places, Zenon DEF L!Place
  <2> QED
    BY <2>1, <2>2, <2>3, <2>4
<1>2. \A u \in Runners \ {Main, t} : L!Place(u)' = 1 /\ at'[u] <= Rounds * 4 + 1
  BY Zenon DEF L!Place, L!InTest3
<1>3. at'[Main] = 17
  BY Zenon DEF L!InTest3
<1>4. L!Place(t)' # 1 => lock_pool'["a"] = "LOCKED" /\ ct'["a"] = IF L!Place(t)' = 3 THEN 1 ELSE 0
  BY <1>1
<1>5. L!Place(t)' = 1 => ct'["a"] = 0
  BY <1>1
<1> QED
  BY <1>1, <1>2, <1>3, <1>4, <1>5, Zenon DEF L!InTest3

\* Nobody but t is between its acquire and its release.
LEMMA AloneInside ==
    ASSUME Rounds \in Nat, L!Types, L!InTest3, NEW t \in Runners \ {Main},
           L!Place(t) # 1 \/ lock_pool["a"] # "LOCKED"
    PROVE  \A u \in Runners \ {Main, t} : L!Place(u) = 1
BY Zenon DEF L!InTest3

\* Which thread takes a step.
LEMMA TesterTurn ==
    ASSUME Rounds \in Nat, L!TesterInv, NEW t \in L!Testers, ~ L!Ended(t), t # Main => L!Ended(Main)
    PROVE  \/ /\ L!InTest1 /\ t = Main /\ at[Main] \in 1 .. 16 /\ L!Now(t) = L!test1[at[Main]]
           \/ /\ L!InTest3 /\ t \in Runners \ {Main} /\ L!Now(t) = L!test2[L!Place(t)]
              /\ L!Place(t) \in 1 .. 4 /\ L!Now(t).lid = "a"
<1>0. L!Types
  BY Zenon DEF L!TesterInv
<1>1. CASE t = Main
  <2>1. at[Main] \in 1 .. 16 /\ L!Now(t) = L!test1[at[Main]]
    BY <1>0, <1>1, TesterAt, Zenon
  <2>2. ~ L!InTest3
    BY <2>1 DEF L!InTest3
  <2> QED
    BY <1>1, <2>1, <2>2, Zenon DEF L!TesterInv
<1>2. CASE t # Main
  <2>1. t \in Runners \ {Main} /\ at[Main] > 16
    BY <1>0, <1>2, TesterAt, Zenon DEF L!Testers
  <2>2. L!Now(t) = L!test2[L!Place(t)] /\ L!Place(t) \in 1 .. 4
    BY <1>0, <2>1, TesterAt, Zenon
  <2>3. ~ L!InTest1
    <3>1. at[Main] \in Nat
      BY <1>0, Zenon DEF L!Types, L!Testers
    <3> QED
      BY <2>1, <3>1 DEF L!InTest1
  <2>4. L!Now(t).lid = "a"
    BY <2>2, Test2, Zenon
  <2> QED
    BY <2>1, <2>2, <2>3, <2>4, Zenon DEF L!TesterInv
<1> QED
  BY <1>1, <1>2, Zenon

\* The tester counts, and finds what it expects.
LEMMA CheckMoves ==
    ASSUME Rounds \in Nat, L!TesterInv, NEW t \in L!Testers, L!check_grant(t) \/ L!check_release(t)
    PROVE  L!TesterInv'
<1>0. L!Types /\ L!Jobs
  BY Zenon DEF L!TesterInv
<1>1. PICK lid, n, m :
         /\ \/ L!Now(t).do = "check_grant" /\ n = 0 /\ m = 1
            \/ L!Now(t).do = "check_release" /\ n = 1 /\ m = 0
         /\ lid = L!Now(t).lid /\ L!Runs(t) /\ error' = (ct[lid] # n)
         /\ ct[lid] = n => ct' = [ct EXCEPT ![lid] = m]
         /\ at' = [at EXCEPT ![t] = @ + 1] /\ lock_pool' = lock_pool /\ rpc' = rpc /\ jobq' = jobq
  <2>1. CASE L!check_grant(t)
    <3>1. /\ L!Now(t).do = "check_grant" /\ L!Runs(t) /\ error' = (ct[L!Now(t).lid] # 0)
          /\ ct' = [ct EXCEPT ![L!Now(t).lid] = ct[L!Now(t).lid] + 1]
          /\ at' = [at EXCEPT ![t] = @ + 1] /\ lock_pool' = lock_pool /\ rpc' = rpc /\ jobq' = jobq
      BY <2>1, Zenon DEF L!check_grant
    <3>2. ct[L!Now(t).lid] = 0 => ct[L!Now(t).lid] + 1 = 1
      OBVIOUS
    <3> WITNESS L!Now(t).lid, 0, 1
    <3> QED
      BY <3>1, <3>2, Zenon
  <2>2. CASE L!check_release(t)
    <3>1. /\ L!Now(t).do = "check_release" /\ L!Runs(t) /\ error' = (ct[L!Now(t).lid] # 1)
          /\ ct' = [ct EXCEPT ![L!Now(t).lid] = ct[L!Now(t).lid] - 1]
          /\ at' = [at EXCEPT ![t] = @ + 1] /\ lock_pool' = lock_pool /\ rpc' = rpc /\ jobq' = jobq
      BY <2>2, Zenon DEF L!check_release
    <3>2. ct[L!Now(t).lid] = 1 => ct[L!Now(t).lid] - 1 = 0
      OBVIOUS
    <3> WITNESS L!Now(t).lid, 1, 0
    <3> QED
      BY <3>1, <3>2, Zenon
  <2> QED
    BY <2>1, <2>2, Zenon
<1>2. ~ L!Ended(t) /\ (t # Main => L!Ended(Main))
  BY <1>1, Zenon DEF L!Runs
<1>3. rpc[t] = "none"
  BY <1>0, <1>1, Zenon DEF L!Jobs
<1>4. /\ at'[t] = at[t] + 1 /\ \A u \in L!Testers : u # t => at'[u] = at[u]
      /\ at' \in [L!Testers -> Nat \ {0}]
  BY <1>0, <1>1 DEF L!Types
<1>5. L!Jobs'
  <2>1. Advances(t)
    BY <1>1, <1>3, <1>4, Zenon DEF Advances
  <2> QED
    BY <1>0, <1>2, <2>1, JobsAdvance, Zenon
<1>6. CASE L!InTest1 /\ t = Main /\ at[Main] \in 1 .. 16 /\ L!Now(t) = L!test1[at[Main]]
  <2>1. PICK k \in 1 .. 16 : k = at[Main]
    BY <1>6, Zenon
  <2>2. \/ k \in {2, 6, 10} /\ lid = "a" /\ n = 0 /\ m = 1
        \/ k = 12 /\ lid = "b" /\ n = 0 /\ m = 1
        \/ k \in {4, 8, 16} /\ lid = "a" /\ n = 1 /\ m = 0
        \/ k = 14 /\ lid = "b" /\ n = 1 /\ m = 0
    BY <1>1, <1>6, <2>1, Test1
  <2>3. ct[lid] = n
    BY <2>1, <2>2, <1>6 DEF L!InTest1
  <2>4. /\ ct'["a"] = IF k + 1 \in {3, 4, 7, 8, 11, 12, 13, 14, 15, 16} THEN 1 ELSE 0
        /\ ct'["b"] = IF k + 1 \in {13, 14} THEN 1 ELSE 0
    <3>1. ct["a"] = (IF k \in {3, 4, 7, 8, 11, 12, 13, 14, 15, 16} THEN 1 ELSE 0)
          /\ ct["b"] = IF k \in {13, 14} THEN 1 ELSE 0
      BY <1>6, <2>1, Zenon DEF L!InTest1
    <3>2. /\ ct'["a"] = IF lid = "a" THEN m ELSE ct["a"]
          /\ ct'["b"] = IF lid = "b" THEN m ELSE ct["b"]
      BY <1>0, <1>1, <2>2, <2>3, Zenon DEF L!Types, L!Locks
    <3> QED
      BY <2>2, <3>1, <3>2
  <2>5. lock_pool'["a"] # "none"
    BY <1>1, <1>6, <2>1, <2>2 DEF L!InTest1
  <2>6. \A u \in Runners \ {Main} : at'[u] = at[u]
    BY <1>4, <1>6, Zenon DEF L!Testers
  <2>7. L!InTest1' \/ L!InTest3'
    BY <1>4, <1>6, <2>1, <2>4, <2>5, <2>6, Test1Goes, Zenon
  <2>8. L!Types'
    BY <1>0, <1>1, <1>4, <2>2, <2>3 DEF L!Types, L!Locks
  <2>9. ~ error'
    BY <1>1, <2>3, Zenon
  <2> QED
    BY <1>5, <2>7, <2>8, <2>9, Zenon DEF L!TesterInv
<1>7. CASE /\ L!InTest3 /\ t \in Runners \ {Main} /\ L!Now(t) = L!test2[L!Place(t)]
           /\ L!Place(t) \in 1 .. 4 /\ L!Now(t).lid = "a"
  <2>1. PICK p \in 1 .. 4 : p = L!Place(t)
    BY <1>7, Zenon
  <2>2. \/ p = 2 /\ n = 0 /\ m = 1
        \/ p = 3 /\ n = 1 /\ m = 0
    BY <1>1, <1>7, <2>1, Test2
  <2>3. ct["a"] = n /\ lock_pool["a"] = "LOCKED" /\ lid = "a"
    BY <1>1, <1>7, <2>1, <2>2 DEF L!InTest3
  <2>4. ct' = [ct EXCEPT !["a"] = m] /\ ~ error'
    BY <1>1, <2>3, Zenon
  <2>5. ct'["a"] = IF p = 2 THEN 1 ELSE 0
    BY <1>0, <2>2, <2>4 DEF L!Types, L!Locks
  <2>6. \A u \in Runners \ {Main, t} : L!Place(u) = 1
    BY <1>0, <1>7, <2>1, <2>2, AloneInside
  <2>7. at'[Main] = at[Main] /\ \A u \in Runners \ {Main, t} : at'[u] = at[u]
    BY <1>4, <1>7, Zenon DEF L!Testers
  <2>8. L!InTest3'
    BY <1>0, <1>1, <1>2, <1>4, <1>7, <2>1, <2>3, <2>5, <2>6, <2>7, Test3Goes
  <2>9. L!Types'
    BY <1>0, <1>1, <1>4, <2>2, <2>4 DEF L!Types, L!Locks
  <2> QED
    BY <1>5, <2>4, <2>8, <2>9, Zenon DEF L!TesterInv
<1> QED
  BY <1>2, <1>6, <1>7, TesterTurn, Zenon

\* A lock is answered: it was not in the map, or free.
LEMMA GrantMoves ==
    ASSUME Rounds \in Nat, L!TesterInv, NEW t \in L!Testers, NEW x \in {"FREE", "LOCKED"},
           rpc[t] # "none", L!Now(t).do = "acquire", Advances(t), L!Types',
           lock_pool[L!Now(t).lid] # "LOCKED",
           x = "FREE" => lock_pool[L!Now(t).lid] = "none",
           lock_pool' = [lock_pool EXCEPT ![L!Now(t).lid] = x], ct' = ct, error' = error
    PROVE  L!TesterInv'
<1>0. L!Types /\ L!Jobs
  BY Zenon DEF L!TesterInv
<1>2. ~ L!Ended(t) /\ (t # Main => L!Ended(Main))
  BY <1>0, Zenon DEF L!Jobs
<1>4. at'[t] = at[t] + 1 /\ \A u \in L!Testers : u # t => at'[u] = at[u]
  BY Zenon DEF Advances
<1>5. L!Jobs'
  BY <1>0, <1>2, JobsAdvance, Zenon
<1>6. CASE L!InTest1 /\ t = Main /\ at[Main] \in 1 .. 16 /\ L!Now(t) = L!test1[at[Main]]
  <2>1. PICK k \in 1 .. 16 : k = at[Main]
    BY <1>6, Zenon
  <2>2. \/ k \in {1, 5, 9} /\ L!Now(t).lid = "a"
        \/ k = 11 /\ L!Now(t).lid = "b"
    BY <1>6, <2>1, Test1
  <2>4. /\ ct'["a"] = IF k + 1 \in {3, 4, 7, 8, 11, 12, 13, 14, 15, 16} THEN 1 ELSE 0
        /\ ct'["b"] = IF k + 1 \in {13, 14} THEN 1 ELSE 0
    <3>1. ct["a"] = (IF k \in {3, 4, 7, 8, 11, 12, 13, 14, 15, 16} THEN 1 ELSE 0)
          /\ ct["b"] = IF k \in {13, 14} THEN 1 ELSE 0
      BY <1>6, <2>1, Zenon DEF L!InTest1
    <3> QED
      BY <2>2, <3>1
  <2>5. lock_pool'["a"] # "none"
    <3>1. lock_pool'["a"] = IF L!Now(t).lid = "a" THEN x ELSE lock_pool["a"]
      BY <1>0, <2>2, Zenon DEF L!Types, L!Locks
    <3> QED
      BY <1>6, <2>1, <2>2, <3>1 DEF L!InTest1
  <2>6. \A u \in Runners \ {Main} : at'[u] = at[u]
    BY <1>4, <1>6, Zenon DEF L!Testers
  <2>7. L!InTest1' \/ L!InTest3'
    BY <1>4, <1>6, <2>1, <2>4, <2>5, <2>6, Test1Goes, Zenon
  <2> QED
    BY <1>5, <2>7, Zenon DEF L!TesterInv
<1>7. CASE /\ L!InTest3 /\ t \in Runners \ {Main} /\ L!Now(t) = L!test2[L!Place(t)]
           /\ L!Place(t) \in 1 .. 4 /\ L!Now(t).lid = "a"
  <2>1. L!Place(t) = 1
    BY <1>7, Test2
  <2>2. x = "LOCKED"
    BY <1>7, Zenon DEF L!InTest3
  <2>3. lock_pool'["a"] = "LOCKED"
    BY <1>0, <1>7, <2>2, Zenon DEF L!Types, L!Locks
  <2>6. \A u \in Runners \ {Main, t} : L!Place(u) = 1
    BY <1>0, <1>7, AloneInside, Zenon
  <2>5. ct'["a"] = 0
    <3>1. \A u \in Runners \ {Main} : L!Place(u) = 1
      BY <2>1, <2>6, Zenon
    <3> QED
      BY <1>7, <3>1, Zenon DEF L!InTest3
  <2>7. at'[Main] = at[Main] /\ \A u \in Runners \ {Main, t} : at'[u] = at[u]
    BY <1>4, <1>7, Zenon DEF L!Testers
  <2>8. L!InTest3'
    BY <1>0, <1>2, <1>4, <1>7, <2>1, <2>3, <2>5, <2>6, <2>7, Test3Goes
  <2> QED
    BY <1>5, <2>8, Zenon DEF L!TesterInv
<1> QED
  BY <1>2, <1>6, <1>7, TesterTurn, Zenon

\* A release frees the lock of the thread that has it.
LEMMA ReleaseMoves ==
    ASSUME Rounds \in Nat, L!TesterInv, NEW t \in L!Testers,
           rpc[t] # "none", L!Now(t).do = "release", Advances(t), L!Types',
           lock_pool' = [lock_pool EXCEPT ![L!Now(t).lid] = "FREE"], ct' = ct, error' = error
    PROVE  L!TesterInv'
<1>0. L!Types /\ L!Jobs
  BY Zenon DEF L!TesterInv
<1>2. ~ L!Ended(t) /\ (t # Main => L!Ended(Main))
  BY <1>0, Zenon DEF L!Jobs
<1>4. at'[t] = at[t] + 1 /\ \A u \in L!Testers : u # t => at'[u] = at[u]
  BY Zenon DEF Advances
<1>5. L!Jobs'
  BY <1>0, <1>2, JobsAdvance, Zenon
<1>6. CASE L!InTest1 /\ t = Main /\ at[Main] \in 1 .. 16 /\ L!Now(t) = L!test1[at[Main]]
  <2>1. PICK k \in 1 .. 16 : k = at[Main]
    BY <1>6, Zenon
  <2>2. \/ k \in {3, 7, 15} /\ L!Now(t).lid = "a"
        \/ k = 13 /\ L!Now(t).lid = "b"
    BY <1>6, <2>1, Test1
  <2>4. /\ ct'["a"] = IF k + 1 \in {3, 4, 7, 8, 11, 12, 13, 14, 15, 16} THEN 1 ELSE 0
        /\ ct'["b"] = IF k + 1 \in {13, 14} THEN 1 ELSE 0
    <3>1. ct["a"] = (IF k \in {3, 4, 7, 8, 11, 12, 13, 14, 15, 16} THEN 1 ELSE 0)
          /\ ct["b"] = IF k \in {13, 14} THEN 1 ELSE 0
      BY <1>6, <2>1, Zenon DEF L!InTest1
    <3> QED
      BY <2>2, <3>1
  <2>5. lock_pool'["a"] # "none"
    <3>1. lock_pool'["a"] = IF L!Now(t).lid = "a" THEN "FREE" ELSE lock_pool["a"]
      BY <1>0, <2>2, Zenon DEF L!Types, L!Locks
    <3> QED
      BY <1>6, <2>1, <2>2, <3>1 DEF L!InTest1
  <2>6. \A u \in Runners \ {Main} : at'[u] = at[u]
    BY <1>4, <1>6, Zenon DEF L!Testers
  <2>7. L!InTest1' \/ L!InTest3'
    BY <1>4, <1>6, <2>1, <2>4, <2>5, <2>6, Test1Goes, Zenon
  <2> QED
    BY <1>5, <2>7, Zenon DEF L!TesterInv
<1>7. CASE /\ L!InTest3 /\ t \in Runners \ {Main} /\ L!Now(t) = L!test2[L!Place(t)]
           /\ L!Place(t) \in 1 .. 4 /\ L!Now(t).lid = "a"
  <2>1. L!Place(t) = 4
    BY <1>7, Test2
  <2>3. lock_pool'["a"] = "FREE"
    BY <1>0, <1>7, Zenon DEF L!Types, L!Locks
  <2>5. ct'["a"] = 0
    BY <1>7, <2>1 DEF L!InTest3
  <2>6. \A u \in Runners \ {Main, t} : L!Place(u) = 1
    BY <1>0, <1>7, <2>1, AloneInside
  <2>7. at'[Main] = at[Main] /\ \A u \in Runners \ {Main, t} : at'[u] = at[u]
    BY <1>4, <1>7, Zenon DEF L!Testers
  <2>8. L!InTest3'
    BY <1>0, <1>2, <1>4, <1>7, <2>1, <2>3, <2>5, <2>6, <2>7, Test3Goes
  <2> QED
    BY <1>5, <2>8, Zenon DEF L!TesterInv
<1> QED
  BY <1>2, <1>6, <1>7, TesterTurn, Zenon

\* A handler that returns: the thread goes on.
LEMMA HandlerReturns ==
    ASSUME L!Types, L!Jobs, NEW t \in L!Testers, rpc[t] # "none",
           L!Returns(t) /\ (\/ jobq' = jobq /\ rpc[t] # "queued"
                            \/ jobq # <<>> /\ t = Head(jobq) /\ jobq' = Tail(jobq)),
           lock_pool' \in [L!Locks -> {"none", "FREE", "LOCKED"}]
    PROVE  Advances(t) /\ L!Types' /\ ct' = ct /\ error' = error
<1>1. /\ rpc' = [rpc EXCEPT ![t] = "none"] /\ at' = [at EXCEPT ![t] = @ + 1]
      /\ ct' = ct /\ error' = error
  BY Zenon DEF L!Returns
<1>2. /\ at'[t] = at[t] + 1 /\ \A u \in L!Testers \ {t} : at'[u] = at[u]
      /\ at' \in [L!Testers -> Nat \ {0}]
  BY <1>1 DEF L!Types
<1>3. /\ rpc'[t] = "none" /\ \A u \in L!Testers \ {t} : rpc'[u] = rpc[u]
      /\ rpc' \in [L!Testers -> {"none", "queued", "waiting", "woken"}]
  BY <1>1, Zenon DEF L!Types
<1>4. jobq' \in Seq(L!Testers)
  BY JobTaken, Zenon DEF L!Types
<1>5. Advances(t)
  BY <1>2, <1>3, Zenon DEF Advances
<1> QED
  BY <1>1, <1>2, <1>3, <1>4, <1>5, Zenon DEF L!Types

\* A handler that waits, or is woken.
LEMMA WaitMoves ==
    ASSUME L!TesterInv, NEW t \in L!Testers, NEW x, NEW y \in {"waiting", "woken"}, Serves(t, x, y),
           L!Now(t).do = "acquire", lock_pool' = lock_pool /\ ct' = ct /\ error' = error
    PROVE  L!TesterInv'
<1>0. L!Types /\ L!Jobs
  BY Zenon DEF L!TesterInv
<1>1. L!Jobs'
  BY <1>0, JobsHandle, Zenon
<1>2. rpc' \in [L!Testers -> {"none", "queued", "waiting", "woken"}] /\ at' = at
  BY <1>0, Zenon DEF Serves, L!Types
<1>3. jobq' \in Seq(L!Testers)
  BY <1>0, JobTaken, Zenon DEF Serves, L!Types
<1>4. L!Types'
  BY <1>0, <1>2, <1>3, Zenon DEF L!Types
<1>5. (L!InTest1 \/ L!InTest3)'
  <2>1. L!InTest1 => L!InTest1'
    BY <1>2, Zenon DEF L!InTest1
  <2>2. L!InTest3 => L!InTest3'
    BY <1>2, Zenon DEF L!InTest3, L!Place
  <2> QED
    BY <2>1, <2>2, Zenon DEF L!TesterInv
<1> QED
  BY <1>1, <1>4, <1>5, Zenon DEF L!TesterInv

\* The acquire of lock_server.cc grants the lock, or waits.
LEMMA AcquireKeeps ==
    ASSUME Rounds \in Nat, L!TesterInv, NEW t \in L!Testers, L!acquire(t)
    PROVE  L!TesterInv'
<1>0. L!Types /\ L!Jobs
  BY Zenon DEF L!TesterInv
<1>1. /\ jobq # <<>> /\ t = Head(jobq) /\ jobq' = Tail(jobq) /\ L!Now(t).do = "acquire"
      /\ rpc[t] = "queued" /\ rpc[t] # "none"
  BY <1>0, JobTaken, Zenon DEF L!acquire, L!TakesJob
<1>2. CASE /\ lock_pool[L!Now(t).lid] = "none" /\ L!Returns(t)
           /\ lock_pool' = [lock_pool EXCEPT ![L!Now(t).lid] = "FREE"]
  <2>1. lock_pool' \in [L!Locks -> {"none", "FREE", "LOCKED"}]
    BY <1>0, <1>2, Zenon DEF L!Types
  <2>2. Advances(t) /\ L!Types' /\ ct' = ct /\ error' = error
    BY <1>0, <1>1, <1>2, <2>1, HandlerReturns, Zenon
  <2> QED
    BY <1>1, <1>2, <2>2, GrantMoves, Zenon
<1>3. CASE /\ lock_pool[L!Now(t).lid] = "FREE" /\ L!Returns(t)
           /\ lock_pool' = [lock_pool EXCEPT ![L!Now(t).lid] = "LOCKED"]
  <2>1. lock_pool' \in [L!Locks -> {"none", "FREE", "LOCKED"}]
    BY <1>0, <1>3, Zenon DEF L!Types
  <2>2. Advances(t) /\ L!Types' /\ ct' = ct /\ error' = error
    BY <1>0, <1>1, <1>3, <2>1, HandlerReturns, Zenon
  <2> QED
    BY <1>1, <1>3, <2>2, GrantMoves, Zenon
<1>4. CASE rpc' = [rpc EXCEPT ![t] = "waiting"] /\ UNCHANGED <<lock_pool, at, ct, error>>
  <2>1. Serves(t, "queued", "waiting")
    BY <1>1, <1>4, Zenon DEF Serves
  <2> QED
    BY <1>1, <1>4, <2>1, WaitMoves, Zenon
<1> QED
  BY <1>2, <1>3, <1>4, Zenon DEF L!acquire

\* A handler that was woken looks at the state of the lock again.
LEMMA AcquireAgainKeeps ==
    ASSUME Rounds \in Nat, L!TesterInv, NEW t \in L!Testers, L!acquire_again(t)
    PROVE  L!TesterInv'
<1>0. L!Types /\ L!Jobs
  BY Zenon DEF L!TesterInv
<1>1. rpc[t] = "woken" /\ rpc[t] # "none" /\ rpc[t] # "queued" /\ jobq' = jobq /\ L!Now(t).do = "acquire"
  BY <1>0, Zenon DEF L!acquire_again, L!Jobs
<1>2. CASE rpc' = [rpc EXCEPT ![t] = "waiting"] /\ UNCHANGED <<lock_pool, at, ct, error>>
  <2>1. Serves(t, "woken", "waiting")
    BY <1>1, <1>2, Zenon DEF Serves
  <2> QED
    BY <1>1, <1>2, <2>1, WaitMoves, Zenon
<1>3. CASE /\ lock_pool[L!Now(t).lid] # "LOCKED" /\ L!Returns(t)
           /\ lock_pool' = [lock_pool EXCEPT ![L!Now(t).lid] = "LOCKED"]
  <2>1. lock_pool' \in [L!Locks -> {"none", "FREE", "LOCKED"}]
    BY <1>0, <1>3, Zenon DEF L!Types
  <2>2. Advances(t) /\ L!Types' /\ ct' = ct /\ error' = error
    BY <1>0, <1>1, <1>3, <2>1, HandlerReturns, Zenon
  <2> QED
    BY <1>1, <1>3, <2>2, GrantMoves, Zenon
<1> QED
  BY <1>2, <1>3, Zenon DEF L!acquire_again

\* The release of lock_server.cc frees the lock and wakes the handlers that wait.
LEMMA ReleaseKeeps ==
    ASSUME Rounds \in Nat, L!TesterInv, NEW t \in L!Testers, L!release(t)
    PROVE  L!TesterInv'
<1>0. L!Types /\ L!Jobs
  BY Zenon DEF L!TesterInv
<1>1. /\ jobq # <<>> /\ t = Head(jobq) /\ jobq' = Tail(jobq) /\ L!Now(t).do = "release"
      /\ rpc[t] = "queued" /\ rpc[t] # "none"
  BY <1>0, JobTaken, Zenon DEF L!release, L!TakesJob
<1>2. /\ lock_pool' = [lock_pool EXCEPT ![L!Now(t).lid] = "FREE"]
      /\ at' = [at EXCEPT ![t] = @ + 1] /\ ct' = ct /\ error' = error
      /\ \/ rpc' = [rpc EXCEPT ![t] = "none"]
         \/ \E u \in L!Waiting(L!Now(t).lid) : rpc' = [rpc EXCEPT ![t] = "none", ![u] = "woken"]
  BY Zenon DEF L!release
<1>3. /\ rpc' \in [L!Testers -> {"none", "queued", "waiting", "woken"}] /\ rpc'[t] = "none"
      /\ \A u \in L!Testers \ {t} : rpc'[u] = rpc[u] \/ (rpc[u] = "waiting" /\ rpc'[u] = "woken")
  <2>1. CASE rpc' = [rpc EXCEPT ![t] = "none"]
    BY <1>0, <2>1, Zenon DEF L!Types
  <2>2. ASSUME NEW u \in L!Testers, rpc[u] = "waiting", rpc' = [rpc EXCEPT ![t] = "none", ![u] = "woken"]
        PROVE  /\ rpc' \in [L!Testers -> {"none", "queued", "waiting", "woken"}] /\ rpc'[t] = "none"
               /\ \A v \in L!Testers \ {t} : rpc'[v] = rpc[v] \/ (rpc[v] = "waiting" /\ rpc'[v] = "woken")
    <3>1. u # t
      BY <1>1, <2>2, Zenon
    <3> QED
      BY <1>0, <2>2, <3>1, Zenon DEF L!Types
  <2> QED
    BY <1>2, <2>1, <2>2, Zenon DEF L!Waiting
<1>4. /\ at'[t] = at[t] + 1 /\ \A u \in L!Testers \ {t} : at'[u] = at[u]
      /\ at' \in [L!Testers -> Nat \ {0}]
  BY <1>0, <1>2 DEF L!Types
<1>5. Advances(t)
  BY <1>1, <1>3, <1>4, Zenon DEF Advances
<1>6. L!Types'
  <2>1. lock_pool' \in [L!Locks -> {"none", "FREE", "LOCKED"}]
    BY <1>0, <1>2, Zenon DEF L!Types
  <2>2. jobq' \in Seq(L!Testers)
    BY <1>0, <1>1, JobTaken, Zenon
  <2> QED
    BY <1>0, <1>2, <1>3, <1>4, <2>1, <2>2, Zenon DEF L!Types
<1> QED
  BY <1>1, <1>2, <1>5, <1>6, ReleaseMoves, Zenon

\* Every step of the testers and of the server keeps the invariant.
LEMMA TesterKeeps ==
    ASSUME Rounds \in Nat, L!TesterInv, [L!Next]_L!vars
    PROVE  L!TesterInv'
<1>0. L!Types /\ L!Jobs
  BY Zenon DEF L!TesterInv
<1>1. ASSUME NEW t \in L!Testers, L!Call(t)
      PROVE  L!TesterInv'
  <2>1. L!Types' /\ L!Jobs'
    BY <1>0, <1>1, JobsCall, Zenon
  <2>2. lock_pool' = lock_pool /\ at' = at /\ ct' = ct /\ error' = error
    BY <1>1, Zenon DEF L!Call
  <2>3. (L!InTest1 => L!InTest1') /\ (L!InTest3 => L!InTest3')
    BY <2>2, Zenon DEF L!InTest1, L!InTest3, L!Place
  <2> QED
    BY <2>1, <2>2, <2>3, Zenon DEF L!TesterInv
<1>2. ASSUME NEW t \in L!Testers, L!Spurious(t)
      PROVE  L!TesterInv'
  <2>1. Serves(t, "waiting", "woken")
    BY <1>2, Zenon DEF L!Spurious, Serves
  <2>2. L!Now(t).do = "acquire"
    BY <1>0, <1>2, Zenon DEF L!Jobs, L!Spurious
  <2> QED
    BY <1>2, <2>1, <2>2, WaitMoves, Zenon DEF L!Spurious
<1>3. ASSUME UNCHANGED L!vars
      PROVE  L!TesterInv'
  <2>1. /\ lock_pool' = lock_pool /\ at' = at /\ ct' = ct
        /\ error' = error /\ rpc' = rpc /\ jobq' = jobq
    BY <1>3, Zenon DEF L!vars
  <2>2. (L!InTest1 => L!InTest1') /\ (L!InTest3 => L!InTest3')
    BY <2>1, Zenon DEF L!InTest1, L!InTest3, L!Place
  <2>3. L!Types' /\ L!Jobs'
    BY <1>0, <2>1, Zenon DEF L!Types, L!Jobs, L!Ended, L!Now
  <2> QED
    BY <2>1, <2>2, <2>3, Zenon DEF L!TesterInv
<1> QED
  BY <1>1, <1>2, <1>3, CheckMoves, AcquireKeeps, AcquireAgainKeeps, ReleaseKeeps, Zenon
     DEF L!Next, L!Step, L!Exits

\* At first test1 is at its first call.
LEMMA TesterInit == L!Init => L!TesterInv
<1> SUFFICES ASSUME L!Init PROVE L!TesterInv
  OBVIOUS
<1>1. L!Types
  BY DEF L!Init, L!Types, L!Locks
<1>2. L!Jobs
  BY DEF L!Init, L!Jobs
<1>3. L!InTest1
  BY DEF L!Init, L!InTest1, L!Testers, L!Locks
<1> QED
  BY <1>1, <1>2, <1>3, Zenon DEF L!TesterInv, L!Init

\* lock_server.cc, under lock_tester.cc with any number of threads and rounds: once
\* test1 has run, check_grant never finds a lock granted twice, and check_release
\* never one that is not held.
THEOREM GrantedOnceHolds ==
    ASSUME Rounds \in Nat
    PROVE  L!Spec => []GrantedOnce
<1>1. L!TesterInv => GrantedOnce
  BY Zenon DEF L!TesterInv, L!GrantedOnce, GrantedOnce
<1> QED
  BY <1>1, TesterInit, TesterKeeps, PTL DEF L!Spec

=============================================================================
