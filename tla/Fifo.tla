-------------------------------- MODULE Fifo --------------------------------
(***************************************************************************)
(* The bounded queue of rpc/fifo.h, which ThrPool keeps its jobs in, with  *)
(* its two condition variables.  Everything between two waits happens      *)
(* under m_, so enq and deq are steps from one wait, or the call, to the   *)
(* next wait or the return.                                                *)
(***************************************************************************)
EXTENDS Integers, Sequences, FiniteSets

CONSTANTS
    Producers, Consumers,
    NonBlocking,     \* the producers that enq with blocking = false
    max_             \* the capacity, 0 for none

ASSUME ThreadsAssumption ==
    IsFiniteSet(Producers) /\ IsFiniteSet(Consumers) /\ Producers \cap Consumers = {}
ASSUME CapacityAssumption == max_ \in Nat

VARIABLES
    size,            \* the number of elements of q_
    pc               \* of each thread: "out", "calls", "waits" or "woken"

vars == <<size, pc>>

All == Producers \cup Consumers
waiters(S) == {t \in S : pc[t] = "waits"}

Init ==
    /\ size = 0
    /\ pc = [t \in All |-> "out"]

\* pthread_cond_signal: one of the waiters, if there is any, is woken.
Signal(t, S) ==
    IF waiters(S) = {} THEN pc' = [pc EXCEPT ![t] = "out"]
    ELSE \E u \in waiters(S) : pc' = [pc EXCEPT ![t] = "out", ![u] = "woken"]

Offer(p) ==
    /\ pc[p] = "out"
    /\ pc' = [pc EXCEPT ![p] = "calls"]
    /\ UNCHANGED size

Runs(t) == pc[t] \in {"calls", "woken"}
Running(S) == {t \in S : Runs(t)}
HasSpace == max_ = 0 \/ size < max_

\* Mutant: only the element that ends an empty queue signals a consumer.
enq_signals_first(p) ==
    /\ Runs(p)
    /\ IF HasSpace
       THEN /\ size' = size + 1
            /\ IF size = 0 THEN Signal(p, Consumers) ELSE pc' = [pc EXCEPT ![p] = "out"]
       ELSE /\ pc' = [pc EXCEPT ![p] = IF p \in NonBlocking THEN "out" ELSE "waits"]
            /\ UNCHANGED size

enq(p) ==
    /\ Runs(p)
    /\ IF HasSpace
       THEN size' = size + 1 /\ Signal(p, Consumers)
       ELSE /\ pc' = [pc EXCEPT ![p] = IF p \in NonBlocking THEN "out" ELSE "waits"]
            /\ UNCHANGED size

Take(c) ==
    /\ pc[c] = "out"
    /\ pc' = [pc EXCEPT ![c] = "calls"]
    /\ UNCHANGED size

\* Mutant: a producer is told of space only when the queue was full.
deq_signals_full(c) ==
    /\ Runs(c)
    /\ IF size = 0
       THEN pc' = [pc EXCEPT ![c] = "waits"] /\ UNCHANGED size
       ELSE /\ size' = size - 1
            /\ IF size = max_ THEN Signal(c, Producers) ELSE pc' = [pc EXCEPT ![c] = "out"]

\* The size is tested after pop_front.
deq(c) ==
    /\ Runs(c)
    /\ IF size = 0
       THEN pc' = [pc EXCEPT ![c] = "waits"] /\ UNCHANGED size
       ELSE /\ size' = size - 1
            /\ IF max_ # 0 /\ size' < max_ THEN Signal(c, Producers)
               ELSE pc' = [pc EXCEPT ![c] = "out"]

Spurious(t) ==
    /\ pc[t] = "waits"
    /\ pc' = [pc EXCEPT ![t] = "woken"]
    /\ UNCHANGED size

Next ==
    \/ \E p \in Producers : Offer(p) \/ enq(p)
    \/ \E c \in Consumers : Take(c) \/ deq(c)
    \/ \E t \in All : Spurious(t)

\* A thread that may run does, and a consumer comes back for the next job; no
\* wait is taken to end by itself.
Fairness ==
    /\ \A p \in Producers : WF_vars(enq(p))
    /\ \A c \in Consumers : WF_vars(deq(c)) /\ WF_vars(Take(c))

Spec == Init /\ [][Next]_vars /\ Fairness

-----------------------------------------------------------------------------

\* max_: "maximum capacity of the queue, block enq threads if exceeds this limit"
\* (fifo.h:29), however many producers are woken at the same time.
WithinCapacity == max_ # 0 => size <= max_

\* "blocks enq() and deq() when queue is FULL or EMPTY" (fifo.h:5), and only
\* then: while a consumer waits there is, for every element of the queue, another
\* one on its way to it, whoever was signalled and whoever came first.  And while
\* a producer waits, there is one on its way to every free place.
NobodyOverslept ==
    /\ waiters(Consumers) # {} => Cardinality(Running(Consumers)) >= size
    /\ waiters(Producers) # {} => Cardinality(Running(Producers)) >= max_ - size

\* The queue keeps its capacity and makes nobody wait in vain.
FifoSafe == WithinCapacity /\ NobodyOverslept

\* A producer that waits for space gets in, unless others offer elements for ever:
\* each deq lets one producer go on (fifo.h:86), but one that comes later may take
\* the place before it, and nothing in enq says whose turn it is.
EnqReturns ==
    \A p \in Producers :
        \/ []<><<\E q \in Producers \ {p} : Offer(q)>>_vars
        \/ []<>(pc[p] \notin {"waits", "woken"})

=============================================================================
