---------------------------- MODULE LockService ----------------------------
(***************************************************************************)
(* What lock_client promises its callers for one lock: acquire(lid) blocks *)
(* until the lock is granted, at most one thread of all the clients has    *)
(* it, release(lid) gives it up.  How the lock travels is not visible.     *)
(***************************************************************************)
CONSTANT Threads

VARIABLE phase   \* phase[t]: what thread t is doing with the lock

Phases == {"idle", "acquiring", "holding", "releasing"}

Init == phase = [t \in Threads |-> "idle"]

Move(t, from, to) == phase[t] = from /\ phase' = [phase EXCEPT ![t] = to]

\* The lock can be granted: no thread of any client has it.
Available == \A t \in Threads : phase[t] # "holding"

\* acquire is called, and returns at once or later.
Request(t) == Move(t, "idle", "acquiring")
GrantAtOnce(t) == Available /\ Move(t, "idle", "holding")
Grant(t) == Available /\ Move(t, "acquiring", "holding")

\* release is called, and returns at once or later.
Release(t) == Move(t, "holding", "releasing")
ReleaseAtOnce(t) == Move(t, "holding", "idle")
Return(t) == Move(t, "releasing", "idle")

Next == \E t \in Threads :
    \/ Request(t) \/ GrantAtOnce(t) \/ Grant(t)
    \/ Release(t) \/ ReleaseAtOnce(t) \/ Return(t)

Spec == Init /\ [][Next]_phase

=============================================================================
