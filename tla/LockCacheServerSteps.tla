------------------------ MODULE LockCacheServerSteps ------------------------
(*****************************************************************************)
(* The type invariant of LockCache, the facts about a single state or a      *)
(* single thread that its proofs share, and the steps of lock_server_cache   *)
(* and of the handlers it calls at the clients: they keep the inductive      *)
(* invariant IInv of LockCache.                                              *)
(*****************************************************************************)
EXTENDS LockCache, TLAPS

USE DEF NoClient

\* What push does to a queue.
LEMMA AppendFacts ==
    ASSUME NEW S, NEW s \in Seq(S), NEW e \in S
    PROVE  /\ Append(s, e) \in Seq(S)
           /\ Append(s, e) # <<>>
           /\ Len(Append(s, e)) = Len(s) + 1
           /\ \A i \in 1..Len(s) : Append(s, e)[i] = s[i]
           /\ Append(s, e)[Len(s) + 1] = e
           /\ s = <<>> => Head(Append(s, e)) = e
           /\ s # <<>> => Head(Append(s, e)) = Head(s)
  OBVIOUS

\* What pop does to a nonempty queue.
LEMMA TailFacts ==
    ASSUME NEW S, NEW s \in Seq(S), s # <<>>
    PROVE  /\ Len(s) \in Nat /\ Len(s) >= 1
           /\ Head(s) = s[1] /\ Head(s) \in S
           /\ Tail(s) \in Seq(S)
           /\ Len(Tail(s)) = Len(s) - 1
           /\ \A i \in 1..Len(Tail(s)) : Tail(s)[i] = s[i + 1]
           /\ Tail(s) # <<>> => Len(s) >= 2 /\ Head(Tail(s)) = s[2] /\ s[2] \in S
  OBVIOUS

\* The length of an empty queue.
LEMMA EmptyLen ==
    ASSUME NEW s, s = <<>>
    PROVE  Len(s) = 0
  OBVIOUS

\* *waiter.begin() of a nonempty set of ids is one of them.
LEMMA FirstFacts ==
    ASSUME NEW S \in SUBSET Clients, S # {}
    PROVE  First(S) \in S
  BY ClientsAssumption, Zenon DEF First

\* Every step keeps every variable in its type, spurious wake-ups included.
LEMMA TypeStep ==
    ASSUME TypeOK, [Next]_vars
    PROVE  TypeOK'
<1> USE HomeAssumption, NoClientAssumption
        DEF TypeOK, ServerStates, ClientStates, PCs, Waits, Goto, server, client, calls
<1>1. CASE UNCHANGED vars
  BY <1>1, Zenon DEF vars
<1>2. ASSUME NEW t \in Threads, AcquireCall(t) PROVE TypeOK'
  <2>1. Append(queue[Home[t]], t) \in Seq(Threads)
    BY AppendFacts
  <2>2. CASE AcquireMiss(t)
    BY <2>1, <2>2, Zenon DEF AcquireMiss, Enqueue, CallAcquire
  <2>3. CASE AcquireHit(t)
    BY <2>1, <2>3, Zenon DEF AcquireHit, Enqueue, Obtain
  <2>4. CASE AcquireWhileReleasing(t)
    BY <2>1, <2>4, Zenon DEF AcquireWhileReleasing, Enqueue
  <2>5. CASE AcquireQueued(t)
    BY <2>1, <2>5, Zenon DEF AcquireQueued, Enqueue
  <2>6. QED
    BY <1>2, <2>2, <2>3, <2>4, <2>5, Zenon DEF AcquireCall
<1>3. ASSUME NEW t \in Threads, NEW st \in {"NONE", "FREE"}, Dequeue(t, st) PROVE TypeOK'
  <2>1. Tail(queue[Home[t]]) \in Seq(Threads)
    BY <1>3, TailFacts, Zenon DEF Dequeue
  <2>2. woken' \in SUBSET Threads
    BY <1>3, <2>1, TailFacts DEF Dequeue, SignalFront, Signal
  <2>3. QED
    BY <1>3, <2>1, <2>2, Zenon DEF Dequeue
<1>4. ASSUME NEW t \in Threads, ReleaseCall(t) PROVE TypeOK'
  <2>1. CASE ReleaseKeep(t)
    BY <2>1, <1>3, Zenon DEF ReleaseKeep
  <2>2. CASE ReleaseRevoked(t)
    BY <2>2, Zenon DEF ReleaseRevoked
  <2>3. QED
    BY <1>4, <2>1, <2>2, Zenon DEF ReleaseCall
<1>5. ASSUME NEW t \in Threads, Progress(t) PROVE TypeOK'
  <2>1. CASE ResumeAfterRelease(t)
    BY <2>1, Zenon DEF ResumeAfterRelease, Resume, CallAcquire
  <2>2. CASE ResumeTurn(t)
    <3>1. CASE CallAcquire(t) /\ UNCHANGED stuck
      BY <2>2, <3>1, Zenon DEF ResumeTurn, Resume, CallAcquire
    <3>2. CASE Obtain(t) /\ UNCHANGED stuck
      BY <2>2, <3>2, Zenon DEF ResumeTurn, Resume, Obtain
    <3>3. CASE ReturnLocked(t) /\ UNCHANGED cstate
      BY <2>2, <3>3 DEF ResumeTurn, Resume, ReturnLocked
    <3>4. QED
      BY <2>2, <3>1, <3>2, <3>3, Zenon DEF ResumeTurn
  <2>3. CASE ResumeRetry(t)
    <3>1. CASE CallAcquire(t) /\ UNCHANGED stuck
      BY <2>3, <3>1, Zenon DEF ResumeRetry, Resume, TryAgain, CallAcquire
    <3>2. CASE ReturnLocked(t) /\ UNCHANGED cstate
      BY <2>3, <3>2 DEF ResumeRetry, Resume, TryAgain, ReturnLocked
    <3>3. QED
      BY <2>3, <3>1, <3>2, Zenon DEF ResumeRetry, TryAgain
  <2>4. CASE AcquireReturnsOK(t)
    BY <2>4, Zenon DEF AcquireReturnsOK, AcquireReturns, Obtain
  <2>5. CASE AcquireReturnsRetry(t)
    BY <2>5, Zenon DEF AcquireReturnsRetry, AcquireReturns
  <2>6. CASE AcquireReturnsLate(t)
    <3>1. CASE CallAcquire(t) /\ UNCHANGED stuck
      BY <2>6, <3>1, Zenon DEF AcquireReturnsLate, AcquireReturns, TryAgain, CallAcquire
    <3>2. CASE ReturnLocked(t) /\ UNCHANGED cstate
      BY <2>6, <3>2 DEF AcquireReturnsLate, AcquireReturns, TryAgain, ReturnLocked
    <3>3. QED
      BY <2>6, <3>1, <3>2, Zenon DEF AcquireReturnsLate, TryAgain
  <2>7. CASE ReleaseReturns(t)
    BY <2>7, <1>3, Zenon DEF ReleaseReturns
  <2>8. CASE RevokeFree(t)
    BY <2>8, Zenon DEF RevokeFree
  <2>9. CASE RevokeLater(t)
    BY <2>9, Zenon DEF RevokeLater
  <2>10. CASE RevokeReturns(t)
    <3>1. woken' \in SUBSET Threads
      BY <2>10, TailFacts DEF RevokeReturns, SignalFront, Signal
    <3>2. QED
      BY <2>10, <3>1, Zenon DEF RevokeReturns
  <2>11. CASE RetryHandler(t)
    <3>1. woken' \in SUBSET Threads
      BY <2>11, TailFacts DEF RetryHandler, SignalFront, Signal
    <3>2. QED
      BY <2>11, <3>1, Zenon DEF RetryHandler
  <2>12. CASE GrantFree(t)
    BY <2>12, Zenon DEF GrantFree, EnterAcquire, LeaveAcquire
  <2>13. CASE RefuseOwned(t)
    BY <2>13, Zenon DEF RefuseOwned, EnterAcquire, LeaveAcquire
  <2>14. CASE GrantRetryer(t)
    BY <2>14, Zenon DEF GrantRetryer, EnterAcquire, LeaveAcquire
  <2>15. CASE RefuseRetrying(t)
    BY <2>15, Zenon DEF RefuseRetrying, EnterAcquire, LeaveAcquire
  <2>16. CASE SendRevoke(t)
    BY <2>16, Zenon DEF SendRevoke
  <2>17. CASE ServerRelease(t)
    BY <2>17, FirstFacts, Zenon DEF ServerRelease
  <2>18. CASE SendRetry(t)
    BY <2>18, Zenon DEF SendRetry
  <2>19. QED
    BY <1>5, <2>1, <2>2, <2>3, <2>4, <2>5, <2>6, <2>7, <2>8, <2>9, <2>10, <2>11, <2>12, <2>13, <2>14, <2>15, <2>16, <2>17, <2>18, Zenon DEF Progress
<1>6. ASSUME NEW t \in Threads, SpuriousWake(t) PROVE TypeOK'
  BY <1>6, Zenon DEF SpuriousWake
<1>7. QED
  BY <1>1, <1>2, <1>4, <1>5, <1>6, Zenon DEF Next

\* The type invariant, for every way the calls interleave.
THEOREM TypeCorrect == Spec => []TypeOK
<1>1. Init => TypeOK
  BY DEF Init, TypeOK, ServerStates, ClientStates, PCs
<1>2. TypeOK /\ [Next]_vars => TypeOK'
  BY TypeStep, Zenon
<1>3. QED
  BY <1>1, <1>2, PTL DEF Spec

\* The state, holder, retryer and waiters that lock_server_cache keeps agree after
\* every step.  Only four steps touch them, and they test what they need to know
\* of their caller: so this holds with spurious wake-ups too, though they let two
\* threads of the clients hold the lock.
THEOREM ServerConsistentHolds == Spec => []ServerConsistent
<1>1. Init => ServerConsistent
  BY DEF Init, ServerConsistent
<1>2. ASSUME TypeOK, ServerConsistent, NEW t \in Threads,
             GrantFree(t) \/ RefuseOwned(t) \/ GrantRetryer(t) \/ RefuseRetrying(t)
      PROVE  ServerConsistent'
  <2>1. Home[t] \in Clients /\ Home[t] # NoClient
    BY HomeAssumption, NoClientAssumption
  <2>2. CASE GrantFree(t)
    BY <1>2, <2>1, <2>2 DEF GrantFree, ServerConsistent
  <2>3. CASE RefuseOwned(t)
    BY <1>2, <2>1, <2>3 DEF RefuseOwned, ServerConsistent
  <2>4. CASE GrantRetryer(t)
    BY <1>2, <2>1, <2>4 DEF GrantRetryer, ServerConsistent
  <2>5. CASE RefuseRetrying(t)
    BY <1>2, <2>1, <2>5 DEF RefuseRetrying, ServerConsistent
  <2> QED
    BY <1>2, <2>2, <2>3, <2>4, <2>5, Zenon
<1>3. ASSUME TypeOK, ServerConsistent, NEW t \in Threads, ServerRelease(t)
      PROVE  ServerConsistent'
  <2>1. First(waiter) \in Clients /\ First(waiter) # NoClient
    BY <1>3, FirstFacts, NoClientAssumption DEF ServerRelease, TypeOK
  <2> QED
    BY <1>3, <2>1 DEF ServerRelease, ServerConsistent
<1>4. ASSUME ServerConsistent, UNCHANGED server
      PROVE  ServerConsistent'
  BY <1>4 DEF server, ServerConsistent
<1>5. ASSUME NEW t \in Threads,
             AcquireCall(t) \/ ReleaseCall(t) \/ Progress(t) \/ SpuriousWake(t)
      PROVE  \/ UNCHANGED server
             \/ GrantFree(t) \/ RefuseOwned(t) \/ GrantRetryer(t) \/ RefuseRetrying(t)
             \/ ServerRelease(t)
  <2>1. CASE AcquireCall(t) \/ ReleaseCall(t) \/ SpuriousWake(t)
    BY <2>1, Zenon
    DEF AcquireCall, AcquireMiss, AcquireHit, AcquireWhileReleasing, AcquireQueued, Enqueue,
        ReleaseCall, ReleaseKeep, ReleaseRevoked, Dequeue, SpuriousWake
  <2>2. CASE \/ ResumeAfterRelease(t) \/ ResumeTurn(t) \/ ResumeRetry(t)
             \/ AcquireReturnsOK(t) \/ AcquireReturnsRetry(t) \/ AcquireReturnsLate(t)
             \/ ReleaseReturns(t)
    BY <2>2, Zenon
    DEF ResumeAfterRelease, ResumeTurn, ResumeRetry, Resume, AcquireReturnsOK,
        AcquireReturnsRetry, AcquireReturnsLate, AcquireReturns, ReleaseReturns, Dequeue
  <2>3. CASE \/ RevokeFree(t) \/ RevokeLater(t) \/ RevokeReturns(t) \/ RetryHandler(t)
             \/ SendRevoke(t) \/ SendRetry(t)
    BY <2>3, Zenon DEF RevokeFree, RevokeLater, RevokeReturns, RetryHandler, SendRevoke, SendRetry
  <2> QED
    BY <1>5, <2>1, <2>2, <2>3, Zenon DEF Progress
<1>6. TypeOK /\ ServerConsistent /\ [Next]_vars => ServerConsistent'
  <2>1. UNCHANGED vars => UNCHANGED server
    BY Zenon DEF vars, server
  <2> QED
    BY <1>2, <1>3, <1>4, <1>5, <2>1, Zenon DEF Next
<1> QED
  BY <1>1, <1>6, TypeCorrect, PTL DEF Spec

-----------------------------------------------------------------------------
(* Facts about a single state *)

\* A thread that is neither idle nor waiting its turn is the front of its
\* client's queue, so it is the only such thread of its client.
LEMMA FrontThread ==
    ASSUME TypeOK, QueueInv, NEW t \in Threads, pc[t] \notin {"idle", "waitTurn"}
    PROVE  /\ Home[t] \in Clients
           /\ queue[Home[t]] # <<>>
           /\ Head(queue[Home[t]]) = t
           /\ \A u \in Threads : Home[u] = Home[t] /\ u # t =>
                 pc[u] \in {"idle", "waitTurn"} /\ u \notin woken
  BY HomeAssumption DEF QueueInv, TypeOK

\* The front of a client's queue is a thread of that client.
LEMMA FrontHome ==
    ASSUME TypeOK, QueueInv, NEW c \in Clients, queue[c] # <<>>
    PROVE  Head(queue[c]) \in Threads /\ Home[Head(queue[c])] = c /\ pc[Head(queue[c])] # "idle"
<1>1. Head(queue[c]) = queue[c][1] /\ Head(queue[c]) \in Threads /\ 1 \in 1..Len(queue[c])
  BY TailFacts DEF TypeOK
<1>2. QED
  BY <1>1 DEF QueueInv

\* What the chains of the other threads are at does not change when only t moves.
Kept(t) ==
    \A u \in Threads \ {t} :
        /\ pc'[u] = pc[u] /\ ret'[u] = ret[u] /\ revokee'[u] = revokee[u]
        /\ InRelease(u)' <=> InRelease(u)
        /\ OwnRelease(u)' <=> OwnRelease(u)
        /\ RevokeRelease(u)' <=> RevokeRelease(u)
        /\ InAcquire(u)' <=> InAcquire(u)
        /\ Answered(u, "OK")' <=> Answered(u, "OK")
        /\ Answered(u, "RETRY")' <=> Answered(u, "RETRY")
        /\ Revoking(u)' <=> Revoking(u)
        /\ Retrying(u)' <=> Retrying(u)
        /\ Releaser(u)' = Releaser(u)

\* A step that changes only the control state of t keeps the chains of the others.
LEMMA OthersKept ==
    ASSUME NEW t \in Threads,
           \A u \in Threads \ {t} :
              pc'[u] = pc[u] /\ ret'[u] = ret[u] /\ revokee'[u] = revokee[u]
    PROVE  Kept(t)
  BY Zenon DEF Kept, InRelease, OwnRelease, RevokeRelease, InAcquire, Answered,
         Revoking, Retrying, Releaser

\* The front thread of a client goes on to l, and nothing moves in the queues.
LEMMA FrontMoves ==
    ASSUME TypeOK, QueueInv, NEW t \in Threads, NEW l,
           pc[t] \notin {"idle", "waitTurn"}, l # "idle",
           pc' = [pc EXCEPT ![t] = l], queue' = queue, woken' = woken,
           t \in woken => l \in Waits
    PROVE  QueueInv'
  <1>1. \A u \in Threads : pc'[u] = IF u = t THEN l ELSE pc[u]
    BY Zenon DEF TypeOK
  <1>2. \A c \in Clients : \A i \in 1..Len(queue[c]) : queue[c][i] \in Threads
    BY DEF TypeOK
  <1>3. \A c \in Clients : \A i \in 2..Len(queue[c]) : queue[c][i] # t
    BY DEF QueueInv, TypeOK
  <1>4. QED
    BY <1>1, <1>2, <1>3, FrontThread DEF QueueInv, TypeOK

\* The same when f, the front thread of a client, is signalled.
LEMMA FrontSignals ==
    ASSUME TypeOK, QueueInv, NEW t \in Threads, NEW l, NEW f \in Threads,
           pc[t] \notin {"idle", "waitTurn"}, l # "idle", t \notin woken,
           pc[f] \in Waits, f # t, queue[Home[f]] # <<>>, Head(queue[Home[f]]) = f,
           pc' = [pc EXCEPT ![t] = l], queue' = queue, woken' = woken \cup {f}
    PROVE  QueueInv'
<1>1. \A u \in Threads : pc'[u] = IF u = t THEN l ELSE pc[u]
  BY Zenon DEF TypeOK
<1>2. \A c \in Clients : \A i \in 1..Len(queue[c]) : queue[c][i] \in Threads
  BY DEF TypeOK
<1>3. \A c \in Clients : \A i \in 2..Len(queue[c]) : queue[c][i] # t /\ queue[c][i] # f
  <2> SUFFICES ASSUME NEW c \in Clients, NEW i \in 2..Len(queue[c]) PROVE queue[c][i] # t /\ queue[c][i] # f
    OBVIOUS
  <2>1. queue[c] \in Seq(Threads) /\ i \in 1..Len(queue[c]) /\ 1 \in 1..Len(queue[c]) /\ i # 1 /\ queue[c] # <<>>
    BY DEF TypeOK
  <2>2. pc[queue[c][i]] = "waitTurn" /\ Home[queue[c][i]] = c
    BY <2>1, Zenon DEF QueueInv
  <2>3. Head(queue[c]) = queue[c][1]
    BY <2>1
  <2>4. queue[c][i] # Head(queue[c])
    BY <2>1, <2>3 DEF QueueInv
  <2>5. QED
    BY <2>2, <2>4, Zenon
<1>4. \A c \in Clients :
          /\ \A i \in 1..Len(queue[c]) : Home[queue[c][i]] = c /\ pc'[queue[c][i]] # "idle"
          /\ \A i, j \in 1..Len(queue[c]) : queue[c][i] = queue[c][j] => i = j
  BY <1>1, <1>2 DEF QueueInv
<1>5. \A c \in Clients : \A i \in 2..Len(queue[c]) :
          pc'[queue[c][i]] = "waitTurn" /\ queue[c][i] \notin woken'
  <2>1. \A c \in Clients : \A i \in 2..Len(queue[c]) : queue[c][i] \in Threads
    BY DEF TypeOK
  <2>2. QED
    BY <1>1, <1>3, <2>1 DEF QueueInv
<1>6. \A u \in Threads : pc'[u] \notin {"idle", "waitTurn"} \/ u \in woken' =>
          queue[Home[u]] # <<>> /\ Head(queue[Home[u]]) = u
  BY <1>1, Zenon DEF QueueInv
<1>7. \A u \in woken' : pc'[u] \in Waits
  BY <1>1 DEF QueueInv, TypeOK
<1>8. QED
  BY <1>4, <1>5, <1>6, <1>7 DEF QueueInv

\* Two threads of one client are never both inside acquire_server.
LEMMA OneAcquirer ==
    ASSUME IInv, NEW t \in Threads, NEW u \in Threads,
           InAcquire(t), InAcquire(u), Home[t] = Home[u]
    PROVE  t = u
  BY FrontThread, Zenon DEF IInv, InAcquire, RevokeRelease, InRelease

\* A client with a release RPC under way is in state RELEASING.
LEMMA ReleaserState ==
    ASSUME IInv, NEW u \in Threads, InRelease(u)
    PROVE  Releaser(u) \in Clients /\ cstate[Releaser(u)] = "RELEASING"
  BY HomeAssumption DEF IInv, TypeOK, ClientInv, RevokeHandlerInv, OwnRelease, RevokeRelease, Releaser

\* A client that owns the lock without using it has an empty queue.
LEMMA FreeIsIdle ==
    ASSUME IInv, NEW c \in Clients, cstate[c] = "FREE"
    PROVE  queue[c] = <<>>
  <1> SUFFICES ASSUME queue[c] # <<>> PROVE FALSE
    OBVIOUS
  <1> DEFINE f == Head(queue[c])
  <1>1. f \in Threads /\ Home[f] = c /\ pc[f] # "idle"
    BY TailFacts DEF IInv, QueueInv, TypeOK
  <1>2. pc[f] \in PCs
    BY <1>1, Zenon DEF IInv, TypeOK
  <1>3. QED
    BY <1>1, <1>2, Zenon DEF IInv, ClientInv, PCs, Waits, InAcquire, OwnRelease, RevokeRelease, InRelease

\* Whether the front thread of another client is parked does not change.
LEMMA ParkedKept ==
    ASSUME TypeOK, QueueInv, NEW t \in Threads, Kept(t), NEW c \in Clients, c # Home[t],
           queue'[c] = queue[c], retry_earlier'[c] = retry_earlier[c],
           \A u \in Threads : Home[u] # Home[t] => (u \in woken' <=> u \in woken)
    PROVE  (Refused(c)' <=> Refused(c)) /\ (Parked(c)' <=> Parked(c))
<1>1. queue[c] # <<>> => Head(queue[c]) \in Threads \ {t} /\ Home[Head(queue[c])] # Home[t]
  BY FrontHome, Zenon
<1>2. QED
  BY <1>1, Zenon DEF Refused, Parked, Kept

\* Who is parked does not change when the client side stays as it is.
LEMMA ParkedSame ==
    ASSUME TypeOK, NEW t \in Threads, Kept(t), UNCHANGED <<queue, woken, retry_earlier>>,
           Answered(t, "RETRY")' <=> Answered(t, "RETRY")
    PROVE  \A c \in Clients : (Refused(c)' <=> Refused(c)) /\ (Parked(c)' <=> Parked(c))
<1> SUFFICES ASSUME NEW c \in Clients
             PROVE  (Refused(c)' <=> Refused(c)) /\ (Parked(c)' <=> Parked(c))
  OBVIOUS
<1>1. queue[c] # <<>> => Head(queue[c]) \in Threads
  BY TailFacts, Zenon DEF TypeOK
<1>2. QED
  BY <1>1, Zenon DEF Refused, Parked, Kept

\* Who is parked does not change either when t joins the end of a queue.
LEMMA ParkedBehind ==
    ASSUME NEW t \in Threads, Kept(t), UNCHANGED <<woken, retry_earlier>>, NEW c \in Clients,
           queue'[c] = <<>> <=> queue[c] = <<>>,
           queue[c] # <<>> => Head(queue'[c]) = Head(queue[c]) /\ Head(queue[c]) \in Threads \ {t}
    PROVE  (Refused(c)' <=> Refused(c)) /\ (Parked(c)' <=> Parked(c))
<1>1. CASE queue[c] = <<>>
  BY <1>1, Zenon DEF Refused, Parked
<1>2. CASE queue[c] # <<>>
  BY <1>2, Zenon DEF Refused, Parked, Kept
<1>3. QED
  BY <1>1, <1>2, Zenon

\* The retry protocol is not disturbed by a thread that has no part in it.
LEMMA RetryKept ==
    ASSUME TypeOK, ServerConsistent, RetryInv, NEW t \in Threads, Kept(t),
           UNCHANGED <<sstate, retryer, waiter, woken, retry_earlier, retryee>>,
           \A c \in Clients : (Refused(c)' <=> Refused(c)) /\ (Parked(c)' <=> Parked(c)),
           ~Retrying(t)',
           pc'[t] = "waitRetry" => (t \in woken <=> retry_earlier[Home[t]])
    PROVE  RetryInv'
<1>1. \A c \in Clients : (Refused(c)' <=> Refused(c)) /\ (Parked(c)' <=> Parked(c))
  OBVIOUS
<1>2. \A c \in waiter' : Parked(c)'
  BY <1>1, Zenon DEF RetryInv, TypeOK
<1>3. \A u \in Threads : Retrying(u)' => Retrying(u) /\ u # t
  BY Zenon DEF Kept
<1>4. \A u \in Threads : Retrying(u)' => sstate' = "RETRYING" /\ retryer' \notin waiter' /\ Parked(retryer)'
  <2>1. \A u \in Threads : Retrying(u) => retryer \in Clients
    BY Zenon DEF RetryInv, TypeOK, ServerConsistent
  <2>2. QED
    BY <1>1, <1>3, <2>1, Zenon DEF RetryInv
<1>5. \A u \in Threads : pc'[u] = "retrySent" => retryee'[u] = retryer'
  BY <1>3, Zenon DEF RetryInv, Kept, Retrying
<1>6. \A u \in Threads : pc'[u] = "waitRetry" => (u \in woken' <=> retry_earlier'[Home[u]])
  BY Zenon DEF RetryInv, Kept
<1>7. \A c \in Clients : retry_earlier'[c] => retryer' = c /\ c \notin waiter' /\ Refused(c)'
                                            /\ \A u \in Threads : ~Retrying(u)'
  BY <1>1, <1>3, Zenon DEF RetryInv
<1>8. QED
  BY <1>2, <1>3, <1>4, <1>5, <1>6, <1>7, Zenon DEF RetryInv

\* A step that neither answers, parks nor wakes a thread keeps RetryInv.
LEMMA RetrySame ==
    ASSUME TypeOK, ServerConsistent, RetryInv, NEW t \in Threads, Kept(t),
           UNCHANGED <<sstate, retryer, waiter, queue, woken, retry_earlier, retryee>>,
           Answered(t, "RETRY")' <=> Answered(t, "RETRY"),
           ~Retrying(t)',
           pc'[t] = "waitRetry" => (t \in woken <=> retry_earlier[Home[t]])
    PROVE  RetryInv'
<1>1. \A c \in Clients : (Refused(c)' <=> Refused(c)) /\ (Parked(c)' <=> Parked(c))
  BY ParkedSame, Zenon
<1>2. QED
  BY <1>1, RetryKept, Zenon

\* A step that leaves the clients alone, but for a revoke that is remembered
\* or a refused thread that is woken, keeps ClientInv.
LEMMA ClientSame ==
    ASSUME TypeOK, QueueInv, ClientInv, NEW t \in Threads, Kept(t),
           UNCHANGED <<cstate, queue>>,
           \A c \in Clients : revoke_later[c] => revoke_later'[c],
           \A u \in Threads : pc[u] \in {"waitTurn", "waitRelease"} => (u \in woken' <=> u \in woken),
           InAcquire(t)' => InAcquire(t), OwnRelease(t)' => OwnRelease(t),
           pc'[t] \notin {"holding", "waitTurn", "waitRelease"}
    PROVE  ClientInv'
<1>1. \A u \in Threads :
          /\ pc'[u] = "holding" => cstate'[Home[u]] = "LOCKED"
          /\ InAcquire(u)' => cstate'[Home[u]] = "ACQUIRING"
          /\ OwnRelease(u)' => cstate'[Home[u]] = "RELEASING" /\ revoke_later'[Home[u]]
  <2> SUFFICES ASSUME NEW u \in Threads
               PROVE  /\ pc'[u] = "holding" => cstate[Home[u]] = "LOCKED"
                      /\ InAcquire(u)' => cstate[Home[u]] = "ACQUIRING"
                      /\ OwnRelease(u)' => cstate[Home[u]] = "RELEASING" /\ revoke_later'[Home[u]]
    OBVIOUS
  <2>1. Home[u] \in Clients
    BY HomeAssumption, Zenon
  <2>2. /\ pc'[u] = "holding" => pc[u] = "holding"
        /\ InAcquire(u)' => InAcquire(u)
        /\ OwnRelease(u)' => OwnRelease(u)
    BY Zenon DEF Kept
  <2>3. QED
    BY <2>1, <2>2, Zenon DEF ClientInv
<1>2. \A u \in Threads :
          /\ pc'[u] = "waitTurn" /\ u \in woken' => cstate'[Home[u]] \in {"NONE", "LOCKED"}
          /\ pc'[u] = "waitRelease" =>
                cstate'[Home[u]] = IF u \in woken' THEN "NONE" ELSE "RELEASING"
  BY DEF ClientInv, Kept
<1>3. \A c \in Clients : queue[c] # <<>> /\ pc'[Head(queue[c])] = "waitTurn" => Head(queue[c]) \in woken'
  BY FrontHome, Zenon DEF ClientInv, Kept
<1>4. QED
  BY <1>1, <1>2, <1>3, Zenon DEF ClientInv

\* A step that leaves the releasing clients alone keeps RevokeHandlerInv.
LEMMA HandlerSame ==
    ASSUME TypeOK, QueueInv, RevokeHandlerInv, NEW t \in Threads, Kept(t),
           UNCHANGED <<cstate, queue>>,
           \A u \in Threads : RevokeRelease(u)' => ~revoke_later'[revokee[u]],
           RevokeRelease(t)' => RevokeRelease(t) /\ revokee'[t] = revokee[t],
           revokee'[t] # NoClient => InRelease(t)' \/ pc'[t] = "revokeSent",
           pc[t] # "waitRelease"
    PROVE  RevokeHandlerInv'
<1>1. \A u \in Threads : RevokeRelease(u)' =>
          RevokeRelease(u) /\ revokee'[u] = revokee[u] /\ revokee[u] \in Clients
  BY Zenon DEF Kept, TypeOK, RevokeRelease
<1>2. \A c \in Clients : queue[c] # <<>> /\ pc[Head(queue[c])] = "waitRelease" =>
          pc'[Head(queue[c])] = "waitRelease"
  BY FrontHome, Zenon DEF Kept
<1>3. \A u \in Threads : RevokeRelease(u)' =>
          /\ cstate'[revokee'[u]] = "RELEASING"
          /\ ~revoke_later'[revokee'[u]]
          /\ queue'[revokee'[u]] # <<>> => pc'[Head(queue'[revokee'[u]])] = "waitRelease"
  BY <1>1, <1>2 DEF RevokeHandlerInv
<1>4. \A u \in Threads : revokee'[u] # NoClient => InRelease(u)' \/ pc'[u] = "revokeSent"
  BY Zenon DEF Kept, RevokeHandlerInv
<1>5. QED
  BY <1>1, <1>3, <1>4 DEF RevokeHandlerInv

\* A step that does not move the lock keeps OwnerInv.
LEMMA OwnerSame ==
    ASSUME OwnerInv, NEW t \in Threads, Kept(t), UNCHANGED <<sstate, holder, cstate>>,
           Answered(t, "OK")' => Answered(t, "OK"),
           Answered(t, "RETRY")' => Answered(t, "RETRY"),
           pc'[t] \notin {"acquire", "release"},
           pc'[t] \in {"retry", "retrySent", "releaseReply"} => holder # Releaser(t)'
    PROVE  OwnerInv'
<1>1. \A u \in Threads :
          /\ pc'[u] = "acquire" => holder # Home[u]
          /\ Answered(u, "OK")' => holder = Home[u]
          /\ Answered(u, "RETRY")' => holder # Home[u]
  BY Zenon DEF OwnerInv, Kept
<1>2. \A u \in Threads :
          /\ pc'[u] = "release" => sstate = "REVOKING" /\ holder = Releaser(u)'
          /\ pc'[u] \in {"retry", "retrySent", "releaseReply"} => holder # Releaser(u)'
  BY Zenon DEF OwnerInv, Kept
<1>3. QED
  BY <1>1, <1>2, Zenon DEF OwnerInv

-----------------------------------------------------------------------------
(* Steps of the server *)

\* What is known of a thread whose acquire RPC is at the server.
AcquireView(t) ==
    /\ Home[t] \in Clients
    /\ cstate[Home[t]] = "ACQUIRING"
    /\ holder # Home[t]
    /\ Home[t] \notin waiter
    /\ retryer = Home[t] => \A u \in Threads : ~Retrying(u)
    /\ ~retry_earlier[Home[t]]
    /\ ~revoke_later[Home[t]]
    /\ t \notin woken
    /\ queue[Home[t]] # <<>> /\ Head(queue[Home[t]]) = t
    /\ InAcquire(t) /\ revokee[t] = NoClient
    /\ \A u \in Threads \ {t} : InAcquire(u) => Home[u] # Home[t]
    /\ \A u \in Threads : InRelease(u) => Releaser(u) # Home[t]

\* What the invariant says when the acquire RPC of t is at the server.
LEMMA AtAcquire ==
    ASSUME IInv, NEW t \in Threads, pc[t] = "acquire"
    PROVE  AcquireView(t)
<1>1. /\ InAcquire(t) /\ ~RevokeRelease(t) /\ ~Answered(t, "RETRY")
  BY Zenon DEF InAcquire, RevokeRelease, InRelease, Answered
<1>2. Home[t] \in Clients /\ queue[Home[t]] # <<>> /\ Head(queue[Home[t]]) = t
  BY FrontThread, Zenon DEF IInv
<1>3. ~Refused(Home[t])
  BY <1>1, <1>2, Zenon DEF Refused
<1>4. cstate[Home[t]] = "ACQUIRING" /\ holder # Home[t]
  BY <1>1, Zenon DEF IInv, ClientInv, OwnerInv
<1>5. t \notin woken /\ revokee[t] = NoClient
  BY Zenon DEF IInv, QueueInv, RevokeHandlerInv, Waits, InRelease
<1>6. ~revoke_later[Home[t]]
  BY <1>2, <1>4, Zenon DEF IInv, RevocationInv
<1>7. \A u \in Threads \ {t} : InAcquire(u) => Home[u] # Home[t]
  BY <1>1, OneAcquirer, Zenon
<1>8. \A u \in Threads : InRelease(u) => Releaser(u) # Home[t]
  BY <1>4, ReleaserState, Zenon
<1>9. QED
  BY <1>1, <1>2, <1>3, <1>4, <1>5, <1>6, <1>7, <1>8, Zenon DEF AcquireView, IInv, RetryInv, Parked

\* What has changed when an acquire handler has left the mutex with status r.
AcquireLeft(t, r, rev) ==
    /\ Kept(t)
    /\ pc'[t] = IF rev THEN "revoke" ELSE "acquireReply"
    /\ InAcquire(t)' /\ ~RevokeRelease(t)' /\ ~OwnRelease(t)' /\ ~InRelease(t)'
    /\ Answered(t, "OK")' <=> r = "OK"
    /\ Answered(t, "RETRY")' <=> r = "RETRY"
    /\ Revoking(t)' <=> rev
    /\ ~Retrying(t)'
    /\ \A c \in Clients \ {Home[t]} : (Refused(c)' <=> Refused(c)) /\ (Parked(c)' <=> Parked(c))
    /\ r = "RETRY" => Parked(Home[t])'
    /\ UNCHANGED <<cstate, revoke_later, retry_earlier, queue, stuck, woken, revokee, retryee>>

\* What every outcome of the server's acquire leaves unchanged at the clients.
LEMMA AfterAcquire ==
    ASSUME IInv, TypeOK', NEW t \in Threads, NEW r \in {"OK", "RETRY"}, NEW rev \in BOOLEAN,
           pc[t] = "acquire", LeaveAcquire(t, r, rev)
    PROVE  AcquireLeft(t, r, rev) /\ QueueInv' /\ ClientInv' /\ RevokeHandlerInv'
<1> USE AtAcquire DEF AcquireView
<1>1. /\ UNCHANGED <<cstate, revoke_later, retry_earlier, queue, stuck, woken, revokee, retryee>>
      /\ pc' = [pc EXCEPT ![t] = IF rev THEN "revoke" ELSE "acquireReply"]
      /\ ret' = [ret EXCEPT ![t] = r]
  BY Zenon DEF LeaveAcquire, client, Goto
<1>2. Kept(t)
  BY <1>1, OthersKept, Zenon DEF IInv, TypeOK
<1>3. pc'[t] = (IF rev THEN "revoke" ELSE "acquireReply") /\ ret'[t] = r /\ revokee'[t] = NoClient
  BY <1>1, AtAcquire, Zenon DEF IInv, TypeOK
<1>4. QueueInv'
  BY <1>1, AtAcquire, FrontMoves, Zenon DEF IInv
<1>5. \A c \in Clients \ {Home[t]} : (Refused(c)' <=> Refused(c)) /\ (Parked(c)' <=> Parked(c))
  BY <1>1, <1>2, ParkedKept, Zenon DEF IInv
<1>6. r = "RETRY" => Parked(Home[t])'
  BY <1>1, <1>3 DEF Parked, Refused, Answered, InAcquire
<1>7. AcquireLeft(t, r, rev)
  BY <1>1, <1>2, <1>3, <1>5, <1>6 DEF AcquireLeft, InAcquire, RevokeRelease, OwnRelease, InRelease,
                          Answered, Revoking, Retrying
<1>8. ClientInv'
  BY <1>1, <1>3, <1>7 DEF AcquireLeft, Kept, IInv, ClientInv
<1>9. RevokeHandlerInv'
  BY <1>1, <1>3, <1>7 DEF AcquireLeft, Kept, IInv, RevokeHandlerInv
<1>10. QED
  BY <1>4, <1>7, <1>8, <1>9, Zenon

\* A grant to the client of t makes it the owner that every chain agrees on.
LEMMA OwnerGranted ==
    ASSUME IInv, NEW t \in Threads, NEW rev, AcquireView(t), AcquireLeft(t, "OK", rev),
           holder = NoClient, holder' = Home[t],
           \A u \in Threads : ~Revoking(u) /\ ~Retrying(u)
    PROVE  OwnerInv'
<1>1. \A c \in Clients :
        /\ cstate'[c] \in {"FREE", "LOCKED"} => holder' = c
        /\ cstate'[c] = "NONE" => holder' # c
  <2>1. cstate' = cstate /\ cstate[Home[t]] = "ACQUIRING"
    BY Zenon DEF AcquireLeft, AcquireView
  <2>2. QED
    BY <2>1, NoClientAssumption, Zenon DEF IInv, OwnerInv
<1>2. /\ pc'[t] \in {"revoke", "acquireReply"}
      /\ ~Answered(t, "RETRY")'
  BY Zenon DEF AcquireLeft
<1>3. \A u \in Threads \ {t} :
        /\ pc'[u] = pc[u] /\ Releaser(u)' = Releaser(u)
        /\ Answered(u, "OK")' <=> Answered(u, "OK")
        /\ Answered(u, "RETRY")' <=> Answered(u, "RETRY")
  BY Zenon DEF AcquireLeft, Kept
<1>4. \A u \in Threads \ {t} :
        /\ pc[u] = "acquire" \/ Answered(u, "RETRY") => Home[u] # Home[t]
        /\ ~Answered(u, "OK")
        /\ pc[u] # "release" /\ pc[u] \notin {"retry", "retrySent"}
        /\ pc[u] = "releaseReply" => Releaser(u) # Home[t]
  <2> SUFFICES ASSUME NEW u \in Threads \ {t}
               PROVE  /\ pc[u] = "acquire" \/ Answered(u, "RETRY") => Home[u] # Home[t]
                      /\ ~Answered(u, "OK")
                      /\ pc[u] # "release" /\ pc[u] \notin {"retry", "retrySent"}
                      /\ pc[u] = "releaseReply" => Releaser(u) # Home[t]
    OBVIOUS
  <2>1. /\ pc[u] = "acquire" \/ Answered(u, "RETRY") => InAcquire(u)
        /\ pc[u] = "releaseReply" => InRelease(u)
    BY Zenon DEF InAcquire, InRelease, Answered
  <2>2. /\ InAcquire(u) => Home[u] # Home[t]
        /\ InRelease(u) => Releaser(u) # Home[t]
    BY Zenon DEF AcquireView
  <2>3. ~Answered(u, "OK")
    BY HomeAssumption, NoClientAssumption DEF IInv, OwnerInv
  <2>4. QED
    BY <2>1, <2>2, <2>3, Zenon DEF Revoking, Retrying
<1>5. QED
  BY <1>1, <1>2, <1>3, <1>4, Zenon DEF OwnerInv

\* A refusal leaves the owner and all who depend on it as they were.
LEMMA OwnerRefused ==
    ASSUME IInv, NEW t \in Threads, NEW rev, AcquireView(t), AcquireLeft(t, "RETRY", rev),
           holder' = holder, sstate' \in {sstate, "REVOKING"}
    PROVE  OwnerInv'
<1>1. \A c \in Clients :
        /\ cstate'[c] \in {"FREE", "LOCKED"} => holder' = c
        /\ cstate'[c] = "NONE" => holder' # c
  BY Zenon DEF AcquireLeft, IInv, OwnerInv
<1>2. pc'[t] \in {"revoke", "acquireReply"} /\ ~Answered(t, "OK")' /\ holder' # Home[t]
  BY Zenon DEF AcquireView, AcquireLeft
<1>3. \A u \in Threads \ {t} :
        /\ pc'[u] = pc[u] /\ Releaser(u)' = Releaser(u)
        /\ Answered(u, "OK")' <=> Answered(u, "OK")
        /\ Answered(u, "RETRY")' <=> Answered(u, "RETRY")
  BY Zenon DEF AcquireLeft, Kept
<1>4. \A u \in Threads :
        /\ pc'[u] = "acquire" => holder' # Home[u]
        /\ Answered(u, "OK")' => holder' = Home[u]
        /\ Answered(u, "RETRY")' => holder' # Home[u]
        /\ pc'[u] = "release" => sstate' = "REVOKING" /\ holder' = Releaser(u)'
        /\ pc'[u] \in {"retry", "retrySent", "releaseReply"} => holder' # Releaser(u)'
  BY <1>2, <1>3, Zenon DEF IInv, OwnerInv
<1>5. QED
  BY <1>1, <1>4, Zenon DEF OwnerInv

\* With no retry owed or remembered, the waiters stay parked.
LEMMA RetryNotOwed ==
    ASSUME IInv, NEW t \in Threads, NEW r, NEW rev, AcquireLeft(t, r, rev),
           \A u \in Threads : ~Retrying(u), \A c \in Clients : ~retry_earlier[c],
           \A c \in waiter' : Parked(c)'
    PROVE  RetryInv'
<1>1. /\ pc'[t] \in {"revoke", "acquireReply"} /\ retry_earlier' = retry_earlier
      /\ woken' = woken /\ ~Retrying(t)'
  BY Zenon DEF AcquireLeft
<1>2. \A u \in Threads : ~Retrying(u)'
  BY <1>1, Zenon DEF AcquireLeft, Kept
<1>3. \A u \in Threads : pc'[u] = "waitRetry" => pc[u] = "waitRetry"
  BY <1>1, Zenon DEF AcquireLeft, Kept
<1>4. \A u \in Threads : pc'[u] = "waitRetry" => (u \in woken' <=> retry_earlier'[Home[u]])
  BY <1>1, <1>3, Zenon DEF IInv, RetryInv
<1>5. QED
  BY <1>1, <1>2, <1>4, Zenon DEF RetryInv, Retrying

\* The first grant of the lock.
LEMMA GrantFreeInv ==
    ASSUME IInv, TypeOK', NEW t \in Threads, GrantFree(t)
    PROVE  IInv'
<1>1. /\ pc[t] = "acquire" /\ LeaveAcquire(t, "OK", FALSE)
      /\ sstate = "FREE" /\ sstate' = "LOCKED" /\ holder' = Home[t]
      /\ UNCHANGED <<retryer, waiter>>
  BY Zenon DEF GrantFree, EnterAcquire
<1>2. /\ AcquireView(t)
      /\ AcquireLeft(t, "OK", FALSE) /\ QueueInv' /\ ClientInv' /\ RevokeHandlerInv'
  BY <1>1, AtAcquire, AfterAcquire, Zenon
<1>3. /\ holder = NoClient /\ retryer = NoClient /\ waiter = {}
      /\ \A u \in Threads : ~Revoking(u) /\ ~Retrying(u)
  BY <1>1, Zenon DEF IInv, ServerConsistent, RevocationInv, RetryInv, OwnerInv, Revoking
<1>4. ServerConsistent'
  BY <1>1, <1>3, <1>2, NoClientAssumption, Zenon DEF AcquireView, AcquireLeft, ServerConsistent
<1>5. OwnerInv'
  BY <1>1, <1>2, <1>3, OwnerGranted, Zenon
<1>6. RevocationInv'
  BY <1>1, <1>3, <1>2, HomeAssumption, Zenon DEF AcquireView, AcquireLeft, IInv, RevocationInv, Kept, Revoking
<1>7. RetryInv'
  <2>1. \A c \in Clients : ~retry_earlier[c]
    BY <1>3, NoClientAssumption, Zenon DEF IInv, RetryInv
  <2>2. QED
    BY <1>1, <1>2, <1>3, <2>1, RetryNotOwed, Zenon
<1>8. QED
  BY <1>1, <1>4, <1>5, <1>6, <1>7, <1>2, Zenon DEF AcquireLeft, IInv, MutexUnlocked

\* A client is refused and joins the waiters of a lock that is owned.
LEMMA RefuseOwnedInv ==
    ASSUME IInv, TypeOK', NEW t \in Threads, RefuseOwned(t)
    PROVE  IInv'
<1>1. /\ pc[t] = "acquire" /\ LeaveAcquire(t, "RETRY", sstate = "LOCKED")
      /\ sstate \in {"LOCKED", "REVOKING"} /\ sstate' = "REVOKING"
      /\ waiter' = waiter \cup {Home[t]}
      /\ UNCHANGED <<holder, retryer>>
  BY Zenon DEF RefuseOwned, EnterAcquire
<1>2. /\ AcquireView(t)
      /\ AcquireLeft(t, "RETRY", sstate = "LOCKED") /\ QueueInv' /\ ClientInv' /\ RevokeHandlerInv'
  BY <1>1, AtAcquire, AfterAcquire, Zenon
<1>3. /\ holder # NoClient /\ retryer = NoClient
      /\ \A u \in Threads : ~Retrying(u)
      /\ sstate = "LOCKED" => \A u \in Threads : ~Revoking(u)
  BY <1>1, Zenon DEF IInv, ServerConsistent, RevocationInv, RetryInv, OwnerInv, Revoking
<1>4. ServerConsistent'
  BY <1>1, <1>3, Zenon DEF ServerConsistent
<1>5. OwnerInv'
  <2>1. sstate' \in {sstate, "REVOKING"}
    BY <1>1, Zenon
  <2>2. QED
    BY <1>1, <1>2, <2>1, OwnerRefused, Zenon
<1>6. RevocationInv'
  BY <1>1, <1>3, <1>2 DEF AcquireView, AcquireLeft, IInv, RevocationInv, Kept, Revoking
<1>7. RetryInv'
  <2>1. \A c \in Clients : ~retry_earlier[c]
    BY <1>3, NoClientAssumption, Zenon DEF IInv, RetryInv
  <2>2. \A c \in waiter' : Parked(c)'
    BY <1>1, <1>2, Zenon DEF AcquireLeft, IInv, TypeOK, RetryInv
  <2>3. QED
    BY <1>2, <1>3, <2>1, <2>2, RetryNotOwed, Zenon
<1>8. QED
  BY <1>1, <1>4, <1>5, <1>6, <1>7, <1>2, Zenon DEF AcquireLeft, IInv, MutexUnlocked

\* The client that was sent a retry comes back and is granted the lock.
LEMMA GrantRetryerInv ==
    ASSUME IInv, TypeOK', NEW t \in Threads, GrantRetryer(t)
    PROVE  IInv'
<1>1. /\ pc[t] = "acquire" /\ LeaveAcquire(t, "OK", waiter # {})
      /\ sstate = "RETRYING" /\ retryer = Home[t]
      /\ sstate' = IF waiter # {} THEN "REVOKING" ELSE "LOCKED"
      /\ holder' = Home[t] /\ retryer' = NoClient
      /\ waiter' = waiter
  BY Zenon DEF GrantRetryer, EnterAcquire
<1>2. /\ AcquireView(t)
      /\ AcquireLeft(t, "OK", waiter # {}) /\ QueueInv' /\ ClientInv' /\ RevokeHandlerInv'
  BY <1>1, AtAcquire, AfterAcquire, Zenon
<1>3. /\ holder = NoClient
      /\ \A u \in Threads : ~Revoking(u) /\ ~Retrying(u)
  BY <1>1, <1>2, Zenon DEF AcquireView, AcquireLeft, IInv, ServerConsistent, RevocationInv, OwnerInv, Revoking
<1>4. ServerConsistent'
  BY <1>1, <1>3, <1>2, NoClientAssumption, Zenon DEF AcquireView, AcquireLeft, ServerConsistent
<1>5. OwnerInv'
  BY <1>1, <1>2, <1>3, OwnerGranted, Zenon
<1>6. RevocationInv'
  <2>1. /\ \A u \in Threads : Revoking(u)' => u = t /\ waiter # {}
        /\ revoke_later' = revoke_later /\ cstate' = cstate
    BY <1>2, <1>3, Zenon DEF AcquireLeft, Kept
  <2>2. \A u \in Threads : pc'[u] \in {"revoke", "revokeSent"} => Revoking(u)'
    BY Zenon DEF Revoking
  <2>3. pc'[t] # "revokeSent"
    BY <1>2, Zenon DEF AcquireLeft
  <2>4. \A c \in Clients : ~(revoke_later[c] /\ cstate[c] # "RELEASING")
    BY <1>1, Zenon DEF IInv, RevocationInv
  <2>5. QED
    BY <1>1, <2>1, <2>2, <2>3, <2>4, Zenon DEF RevocationInv
<1>7. RetryInv'
  <2>1. \A c \in waiter' : Parked(c)'
    BY <1>1, <1>2, Zenon DEF AcquireView, AcquireLeft, IInv, TypeOK, RetryInv
  <2>2. \A c \in Clients : ~retry_earlier[c]
    BY <1>1, <1>2, Zenon DEF AcquireView, IInv, RetryInv
  <2>3. QED
    BY <1>2, <1>3, <2>1, <2>2, RetryNotOwed, Zenon
<1>8. QED
  BY <1>1, <1>4, <1>5, <1>6, <1>7, <1>2, Zenon DEF AcquireLeft, IInv, MutexUnlocked

\* Another client is refused while the lock is promised to the retryer.
LEMMA RefuseRetryingInv ==
    ASSUME IInv, TypeOK', NEW t \in Threads, RefuseRetrying(t)
    PROVE  IInv'
<1>1. /\ pc[t] = "acquire" /\ LeaveAcquire(t, "RETRY", FALSE)
      /\ sstate = "RETRYING" /\ retryer # Home[t]
      /\ waiter' = waiter \cup {Home[t]}
      /\ UNCHANGED <<sstate, holder, retryer>>
  BY Zenon DEF RefuseRetrying, EnterAcquire
<1>2. /\ AcquireView(t)
      /\ AcquireLeft(t, "RETRY", FALSE) /\ QueueInv' /\ ClientInv' /\ RevokeHandlerInv'
  BY <1>1, AtAcquire, AfterAcquire, Zenon
<1>3. ServerConsistent'
  BY <1>1, Zenon DEF IInv, ServerConsistent
<1>4. OwnerInv'
  <2>1. sstate' \in {sstate, "REVOKING"}
    BY <1>1, Zenon
  <2>2. QED
    BY <1>1, <1>2, <2>1, OwnerRefused, Zenon
<1>5. RevocationInv'
  BY <1>1, <1>2, Zenon DEF AcquireView, AcquireLeft, IInv, RevocationInv, Kept, Revoking
<1>6. RetryInv'
  <2>1. retryer \in Clients \ {Home[t]}
    BY <1>1, Zenon DEF IInv, TypeOK, ServerConsistent
  <2>2. \A c \in waiter' : Parked(c)'
    BY <1>1, <1>2, Zenon DEF AcquireView, AcquireLeft, IInv, TypeOK, RetryInv
  <2>3. \A u \in Threads : Retrying(u)' =>
          sstate' = "RETRYING" /\ retryer' \notin waiter' /\ Parked(retryer)'
    BY <1>1, <1>2, <2>1, Zenon DEF AcquireView, AcquireLeft, IInv, RetryInv, Kept
  <2>4. \A c \in Clients : retry_earlier'[c] =>
          retryer' = c /\ c \notin waiter' /\ Refused(c)' /\ \A u \in Threads : ~Retrying(u)'
    BY <1>1, <1>2, Zenon DEF AcquireView, AcquireLeft, IInv, RetryInv, Kept
  <2>5. QED
    BY <1>1, <1>2, <2>2, <2>3, <2>4, Zenon DEF AcquireView, AcquireLeft, IInv, RetryInv, Kept
<1>7. QED
  BY <1>1, <1>3, <1>4, <1>5, <1>6, <1>2, Zenon DEF AcquireLeft, IInv, MutexUnlocked

\* The revoke goes to the client that is still the holder.
LEMMA SendRevokeInv ==
    ASSUME IInv, TypeOK', NEW t \in Threads, SendRevoke(t)
    PROVE  IInv'
<1>1. /\ pc[t] = "revoke" /\ sstate = "REVOKING" /\ holder # NoClient /\ t \notin woken
      /\ pc' = [pc EXCEPT ![t] = "revokeSent"]
      /\ revokee' = [revokee EXCEPT ![t] = holder]
      /\ UNCHANGED <<sstate, holder, retryer, waiter, cstate, revoke_later, retry_earlier,
                     queue, stuck, woken, ret, retryee>>
  BY Zenon DEF SendRevoke, IInv, RevocationInv, ServerConsistent, QueueInv, Waits, Goto, server, client
<1>2. Kept(t)
  BY <1>1, OthersKept, Zenon DEF IInv, TypeOK
<1>3. /\ pc'[t] = "revokeSent" /\ revokee'[t] = holder
      /\ InAcquire(t) /\ InAcquire(t)' /\ Revoking(t) /\ Revoking(t)' /\ ~Retrying(t)'
      /\ ~OwnRelease(t)' /\ ~RevokeRelease(t)' /\ ~InRelease(t)'
      /\ Answered(t, "OK")' <=> Answered(t, "OK")
      /\ Answered(t, "RETRY")' <=> Answered(t, "RETRY")
  BY <1>1, Zenon DEF IInv, TypeOK, InAcquire, RevokeRelease, OwnRelease, InRelease, Answered,
              Revoking, Retrying
<1>4. \A c \in Clients : (Refused(c)' <=> Refused(c)) /\ (Parked(c)' <=> Parked(c))
  BY <1>1, <1>2, <1>3, ParkedSame, Zenon DEF IInv
<1>5. ServerConsistent' /\ MutexUnlocked'
  BY <1>1, Zenon DEF IInv, ServerConsistent, MutexUnlocked
<1>6. QueueInv'
  BY <1>1, FrontMoves, Zenon DEF IInv
<1>7. ClientInv'
  BY <1>1, <1>2, <1>3, ClientSame, Zenon DEF IInv
<1>8. RevokeHandlerInv'
  <2>1. \A u \in Threads : RevokeRelease(u)' => ~revoke_later[revokee[u]]
    BY <1>2, <1>3, Zenon DEF IInv, RevokeHandlerInv, Kept
  <2>2. QED
    BY <1>1, <1>2, <1>3, <2>1, HandlerSame, Zenon DEF IInv
<1>9. OwnerInv'
  BY <1>1, <1>2, <1>3, OwnerSame, Zenon DEF IInv
<1>10. RevocationInv'
  BY <1>1, <1>2, <1>3, Zenon DEF IInv, RevocationInv, Kept
<1>11. RetryInv'
  BY <1>1, <1>2, <1>3, RetrySame, Zenon DEF IInv
<1>12. QED
  BY <1>5, <1>6, <1>7, <1>8, <1>9, <1>10, <1>11, Zenon DEF IInv

\* The holder gives the lock back, and it is promised to a parked client.
LEMMA ServerReleaseInv ==
    ASSUME IInv, TypeOK', NEW t \in Threads, ServerRelease(t)
    PROVE  IInv'
<1>1. /\ pc[t] = "release" /\ sstate = "REVOKING" /\ holder = Releaser(t) /\ t \notin woken
      /\ pc' = [pc EXCEPT ![t] = "retry"]
      /\ sstate' = "RETRYING" /\ retryer' = First(waiter) /\ waiter' = waiter \ {First(waiter)}
      /\ holder' = NoClient
      /\ UNCHANGED <<cstate, revoke_later, retry_earlier, queue, stuck, woken, ret, revokee, retryee>>
  BY Zenon DEF ServerRelease, ReleaseVerify, IInv, QueueInv, Waits, Goto, client, calls
<1>2. First(waiter) \in waiter /\ First(waiter) \in Clients
  BY FirstFacts, Zenon DEF ServerRelease, IInv, TypeOK
<1>3. Kept(t)
  BY <1>1, OthersKept, Zenon DEF IInv, TypeOK
<1>4. /\ pc'[t] = "retry" /\ Releaser(t)' = Releaser(t)
      /\ InAcquire(t)' <=> InAcquire(t)
      /\ Revoking(t) /\ ~Revoking(t)' /\ Retrying(t)' /\ InRelease(t) /\ InRelease(t)'
      /\ OwnRelease(t)' <=> OwnRelease(t)
      /\ RevokeRelease(t)' <=> RevokeRelease(t)
      /\ Answered(t, "OK")' <=> Answered(t, "OK")
      /\ Answered(t, "RETRY")' <=> Answered(t, "RETRY")
  BY <1>1, Zenon DEF IInv, TypeOK, InAcquire, RevokeRelease, OwnRelease, InRelease, Answered,
              Revoking, Retrying, Releaser
<1>5. /\ \A c \in Clients : (Refused(c)' <=> Refused(c)) /\ (Parked(c)' <=> Parked(c))
      /\ Releaser(t) \in Clients /\ cstate[Releaser(t)] = "RELEASING"
      /\ \A u \in Threads : ~Retrying(u)
      /\ \A u \in Threads \ {t} : ~Revoking(u)
      /\ \A c \in Clients : ~retry_earlier[c]
  <2>1. \A c \in Clients : (Refused(c)' <=> Refused(c)) /\ (Parked(c)' <=> Parked(c))
    BY <1>1, <1>3, <1>4, ParkedSame, Zenon DEF IInv
  <2>2. Releaser(t) \in Clients /\ cstate[Releaser(t)] = "RELEASING"
    BY <1>4, ReleaserState, Zenon
  <2>3. (\A u \in Threads : ~Retrying(u)) /\ \A u \in Threads \ {t} : ~Revoking(u)
    BY <1>1, <1>4, Zenon DEF IInv, RetryInv, RevocationInv
  <2>4. \A c \in Clients : ~retry_earlier[c]
    BY <1>1, NoClientAssumption, Zenon DEF IInv, RetryInv, ServerConsistent
  <2>5. QED
    BY <2>1, <2>2, <2>3, <2>4, Zenon
<1>6. ServerConsistent' /\ MutexUnlocked'
  BY <1>1, <1>2, NoClientAssumption, Zenon DEF IInv, ServerConsistent, MutexUnlocked
<1>7. QueueInv'
  BY <1>1, FrontMoves, Zenon DEF IInv
<1>8. ClientInv'
  BY <1>1, <1>3, <1>4, ClientSame, Zenon DEF IInv
<1>9. RevokeHandlerInv'
  <2>1. \A u \in Threads : RevokeRelease(u)' => ~revoke_later[revokee[u]]
    BY <1>3, <1>4, Zenon DEF IInv, RevokeHandlerInv, Kept
  <2>2. revokee'[t] # NoClient => InRelease(t)'
    BY <1>4, Zenon
  <2>3. QED
    BY <1>1, <1>3, <1>4, <2>1, <2>2, HandlerSame, Zenon DEF IInv
<1>10. OwnerInv'
  <2>1. \A c \in Clients : cstate[c] \notin {"FREE", "LOCKED"} /\ holder' # c
    BY <1>1, <1>5, NoClientAssumption, Zenon DEF IInv, OwnerInv
  <2>2. \A u \in Threads : ~Answered(u, "OK")'
    <3>1. \A u \in Threads : Answered(u, "OK") => cstate[Home[u]] = "ACQUIRING" /\ holder = Home[u]
      BY Zenon DEF IInv, OwnerInv, ClientInv, Answered
    <3>2. QED
      BY <1>1, <1>3, <1>4, <1>5, <3>1, Zenon DEF Kept
  <2>3. \A u \in Threads : InRelease(u)' => Releaser(u)' # holder'
    <3>1. \A u \in Threads : InRelease(u)' => Releaser(u)' = Releaser(u) /\ Releaser(u) \in Clients
      BY <1>3, <1>4, ReleaserState, Zenon DEF Kept
    <3>2. QED
      BY <1>1, <3>1, NoClientAssumption, Zenon
  <2>4. \A u \in Threads : pc'[u] # "release"
    BY <1>3, <1>4, <1>5, Zenon DEF Kept, Revoking
  <2>5. QED
    BY <1>1, <2>1, <2>2, <2>3, <2>4, HomeAssumption, Zenon DEF OwnerInv, InRelease
<1>11. RevocationInv'
  <2>1. \A u \in Threads : ~Revoking(u)'
    BY <1>3, <1>4, <1>5, Zenon DEF Kept
  <2>2. \A c \in Clients : revoke_later[c] => cstate[c] = "RELEASING"
    BY <1>1, <1>4, <1>5, Zenon DEF IInv, RevocationInv
  <2>3. QED
    BY <1>1, <2>1, <2>2, Zenon DEF RevocationInv, Revoking
<1>12. RetryInv'
  <2>1. (\A c \in waiter' : Parked(c)') /\ Parked(retryer)' /\ retryer' \notin waiter'
    BY <1>1, <1>2, <1>5, Zenon DEF IInv, TypeOK, RetryInv
  <2>2. \A u \in Threads : Retrying(u)' => u = t
    BY <1>3, <1>5, Zenon DEF Kept
  <2>3. QED
    BY <1>1, <1>3, <1>4, <1>5, <2>1, <2>2, ZenonT(60) DEF IInv, RetryInv, Kept, Retrying
<1>13. QED
  BY <1>6, <1>7, <1>8, <1>9, <1>10, <1>11, <1>12, Zenon DEF IInv

\* The retry goes to the client that is still the retryer.
LEMMA SendRetryInv ==
    ASSUME IInv, TypeOK', NEW t \in Threads, SendRetry(t)
    PROVE  IInv'
<1>1. /\ pc[t] = "retry" /\ sstate = "RETRYING" /\ retryer # NoClient /\ t \notin woken
      /\ pc' = [pc EXCEPT ![t] = "retrySent"]
      /\ retryee' = [retryee EXCEPT ![t] = retryer]
      /\ UNCHANGED <<sstate, holder, retryer, waiter, cstate, revoke_later, retry_earlier,
                     queue, stuck, woken, ret, revokee>>
  BY Zenon DEF SendRetry, IInv, RetryInv, Retrying, ServerConsistent, QueueInv, Waits, Goto, server, client
<1>2. Kept(t)
  BY <1>1, OthersKept, Zenon DEF IInv, TypeOK
<1>3. /\ pc'[t] = "retrySent" /\ retryee'[t] = retryer /\ Releaser(t)' = Releaser(t)
      /\ InAcquire(t)' <=> InAcquire(t)
      /\ ~Revoking(t)' /\ Retrying(t) /\ Retrying(t)' /\ InRelease(t)'
      /\ OwnRelease(t)' <=> OwnRelease(t)
      /\ RevokeRelease(t)' <=> RevokeRelease(t)
      /\ Answered(t, "OK")' <=> Answered(t, "OK")
      /\ Answered(t, "RETRY")' <=> Answered(t, "RETRY")
  BY <1>1, Zenon DEF IInv, TypeOK, InAcquire, RevokeRelease, OwnRelease, InRelease, Answered,
              Revoking, Retrying, Releaser
<1>4. \A c \in Clients : (Refused(c)' <=> Refused(c)) /\ (Parked(c)' <=> Parked(c))
  BY <1>1, <1>2, <1>3, ParkedSame, Zenon DEF IInv
<1>5. ServerConsistent' /\ MutexUnlocked'
  BY <1>1, Zenon DEF IInv, ServerConsistent, MutexUnlocked
<1>6. QueueInv'
  BY <1>1, FrontMoves, Zenon DEF IInv
<1>7. ClientInv'
  BY <1>1, <1>2, <1>3, ClientSame, Zenon DEF IInv
<1>8. RevokeHandlerInv'
  <2>1. \A u \in Threads : RevokeRelease(u)' => ~revoke_later[revokee[u]]
    BY <1>2, <1>3, Zenon DEF IInv, RevokeHandlerInv, Kept
  <2>2. QED
    BY <1>1, <1>2, <1>3, <2>1, HandlerSame, Zenon DEF IInv
<1>9. OwnerInv'
  <2>1. holder # Releaser(t)
    BY <1>1, Zenon DEF IInv, OwnerInv
  <2>2. QED
    BY <1>1, <1>2, <1>3, <2>1, OwnerSame, Zenon DEF IInv
<1>10. RevocationInv'
  BY <1>1, <1>2, <1>3, Zenon DEF IInv, RevocationInv, Kept
<1>11. RetryInv'
  BY <1>1, <1>2, <1>3, <1>4, ZenonT(60) DEF IInv, TypeOK, ServerConsistent, RetryInv, Kept
<1>12. QED
  BY <1>5, <1>6, <1>7, <1>8, <1>9, <1>10, <1>11, Zenon DEF IInv

-----------------------------------------------------------------------------
(* Steps of revoke_handler and retry_handler *)

\* The revoke finds the lock unused: the client starts to release it.
LEMMA RevokeFreeInv ==
    ASSUME IInv, TypeOK', NEW t \in Threads, RevokeFree(t)
    PROVE  IInv'
<1> DEFINE d == revokee[t]
<1>1. /\ pc[t] = "revokeSent" /\ d \in Clients /\ d # NoClient /\ cstate[d] = "FREE"
      /\ t \notin woken
      /\ cstate' = [cstate EXCEPT ![d] = "RELEASING"]
      /\ pc' = [pc EXCEPT ![t] = "release"]
      /\ UNCHANGED <<sstate, holder, retryer, waiter, revoke_later, retry_earlier,
                     queue, stuck, woken, ret, revokee, retryee>>
  <2>1. pc[t] = "revokeSent"
    BY Zenon DEF RevokeFree
  <2>2. d \in Clients /\ d # NoClient
    BY <2>1, Zenon DEF IInv, TypeOK
  <2>3. t \notin woken
    BY <2>1, Zenon DEF IInv, QueueInv, Waits
  <2>4. QED
    BY <2>1, <2>2, <2>3, Zenon DEF RevokeFree, Goto, server, calls
<1>2. /\ queue[d] = <<>> /\ holder = d /\ sstate = "REVOKING" /\ ~revoke_later[d]
  BY <1>1, FreeIsIdle, Zenon DEF IInv, RevocationInv, Revoking
<1>3. Kept(t)
  BY <1>1, OthersKept, Zenon DEF IInv, TypeOK
<1>4. /\ pc'[t] = "release" /\ Releaser(t)' = d /\ revokee'[t] = d
      /\ InAcquire(t) /\ InAcquire(t)' /\ RevokeRelease(t)' /\ ~OwnRelease(t)' /\ InRelease(t)'
      /\ Revoking(t) /\ Revoking(t)' /\ ~Retrying(t)'
      /\ Answered(t, "OK")' <=> Answered(t, "OK")
      /\ Answered(t, "RETRY")' <=> Answered(t, "RETRY")
  BY <1>1, Zenon DEF IInv, TypeOK, InAcquire, RevokeRelease, OwnRelease, InRelease, Answered,
              Revoking, Retrying, Releaser
<1>5. /\ Home[t] # d
      /\ \A c \in Clients : (Refused(c)' <=> Refused(c)) /\ (Parked(c)' <=> Parked(c))
  BY <1>1, <1>2, <1>3, <1>4, FrontThread, ParkedSame, Zenon DEF IInv
<1>6. ServerConsistent' /\ MutexUnlocked'
  BY <1>1, Zenon DEF IInv, ServerConsistent, MutexUnlocked
<1>7. QueueInv'
  BY <1>1, FrontMoves, Zenon DEF IInv
<1>8. ClientInv'
  BY <1>1, <1>2, <1>3, <1>4, <1>5, FrontThread, HomeAssumption, SMTT(30) DEF IInv, ClientInv, TypeOK, Kept
<1>9. RevokeHandlerInv'
  <2>1. \A u \in Threads \ {t} : RevokeRelease(u) => revokee[u] # d
    BY <1>1, Zenon DEF IInv, RevokeHandlerInv
  <2>2. \A u \in Threads : RevokeRelease(u)' /\ u # t =>
          cstate'[revokee'[u]] = "RELEASING" /\ revokee'[u] \in Clients
    <3> SUFFICES ASSUME NEW u \in Threads, RevokeRelease(u)', u # t
                 PROVE  cstate'[revokee'[u]] = "RELEASING" /\ revokee'[u] \in Clients
      OBVIOUS
    <3>1. RevokeRelease(u) /\ revokee'[u] = revokee[u]
      BY <1>3, Zenon DEF Kept
    <3>2. revokee[u] \in Clients /\ revokee[u] # d /\ cstate[revokee[u]] = "RELEASING"
      BY <2>1, <3>1 DEF IInv, RevokeHandlerInv, TypeOK, RevokeRelease
    <3>3. QED
      BY <1>1, <3>1, <3>2, Zenon DEF IInv, TypeOK
  <2>3. \A c \in Clients : c # d /\ queue[c] # <<>> /\ pc[Head(queue[c])] = "waitRelease" =>
          pc'[Head(queue[c])] = "waitRelease"
    BY <1>1, TailFacts, Zenon DEF IInv, TypeOK
  <2>4. cstate'[d] = "RELEASING"
    BY <1>1, Zenon DEF IInv, TypeOK
  <2>5. \A u \in Threads \ {t} : RevokeRelease(u)' =>
          /\ ~revoke_later'[revokee'[u]]
          /\ queue'[revokee'[u]] # <<>> => pc'[Head(queue'[revokee'[u]])] = "waitRelease"
    BY <1>1, <1>3, <2>1, <2>2, <2>3, ZenonT(60) DEF IInv, RevokeHandlerInv, Kept
  <2>6. \A u \in Threads : revokee'[u] # NoClient => InRelease(u)' \/ pc'[u] = "revokeSent"
    BY <1>1, <1>3, <1>4, Zenon DEF IInv, RevokeHandlerInv, Kept
  <2>7. \A u, w \in Threads : RevokeRelease(u)' /\ RevokeRelease(w)' /\ revokee'[u] = revokee'[w] => u = w
    BY <1>1, <1>3, <1>4, <2>1, ZenonT(60) DEF IInv, RevokeHandlerInv, Kept
  <2>8. QED
    BY <1>1, <1>2, <1>4, <2>2, <2>4, <2>5, <2>6, <2>7, Zenon DEF RevokeHandlerInv
<1>10. OwnerInv'
  BY <1>1, <1>2, <1>3, <1>4 DEF IInv, OwnerInv, TypeOK, Kept
<1>11. RevocationInv'
  BY <1>1, <1>2, <1>3, <1>4, Zenon DEF IInv, RevocationInv, TypeOK, Kept
<1>12. RetryInv'
  BY <1>1, <1>3, <1>4, RetrySame, Zenon DEF IInv
<1>13. QED
  BY <1>6, <1>7, <1>8, <1>9, <1>10, <1>11, <1>12, Zenon DEF IInv

\* The revoke finds the lock in use, or on its way, and is remembered.
LEMMA RevokeLaterInv ==
    ASSUME IInv, TypeOK', NEW t \in Threads, RevokeLater(t)
    PROVE  IInv'
<1> DEFINE d == revokee[t]
<1>1. /\ pc[t] = "revokeSent" /\ d \in Clients /\ d # NoClient
      /\ t \notin woken
      /\ revoke_later' = [revoke_later EXCEPT ![d] = TRUE]
      /\ revokee' = [revokee EXCEPT ![t] = NoClient]
      /\ pc' = [pc EXCEPT ![t] = "acquireReply"]
      /\ UNCHANGED <<sstate, holder, retryer, waiter, cstate, retry_earlier,
                     queue, stuck, woken, ret, retryee>>
  <2>1. pc[t] = "revokeSent"
    BY Zenon DEF RevokeLater
  <2>2. d \in Clients /\ d # NoClient
    BY <2>1, Zenon DEF IInv, TypeOK
  <2>3. t \notin woken
    BY <2>1, Zenon DEF IInv, QueueInv, Waits
  <2>4. QED
    BY <2>1, <2>2, <2>3, Zenon DEF RevokeLater, Goto, server
<1>2. /\ holder = d /\ sstate = "REVOKING"
  BY <1>1, Zenon DEF IInv, RevocationInv
<1>3. Kept(t)
  BY <1>1, OthersKept, Zenon DEF IInv, TypeOK
<1>4. /\ pc'[t] = "acquireReply" /\ revokee'[t] = NoClient
      /\ InAcquire(t) /\ InAcquire(t)' /\ ~RevokeRelease(t)' /\ ~OwnRelease(t)' /\ ~InRelease(t)'
      /\ Revoking(t) /\ ~Revoking(t)' /\ ~Retrying(t)'
      /\ Answered(t, "OK")' <=> Answered(t, "OK")
      /\ Answered(t, "RETRY")' <=> Answered(t, "RETRY")
  BY <1>1, Zenon DEF IInv, TypeOK, InAcquire, RevokeRelease, OwnRelease, InRelease, Answered,
              Revoking, Retrying
<1>5. \A c \in Clients : (Refused(c)' <=> Refused(c)) /\ (Parked(c)' <=> Parked(c))
  BY <1>1, <1>3, <1>4, ParkedSame, Zenon DEF IInv
<1>6. /\ \A u \in Threads \ {t} : ~Revoking(u)
      /\ \A u \in Threads \ {t} : RevokeRelease(u) => revokee[u] # d
  <2>1. \A u \in Threads \ {t} : ~Revoking(u)
    BY <1>4, Zenon DEF IInv, RevocationInv
  <2>2. \A u \in Threads \ {t} : RevokeRelease(u) => revokee[u] # d
    BY <1>2, <2>1, Zenon DEF IInv, OwnerInv, RevokeRelease, InRelease, Releaser, Revoking
  <2>3. QED
    BY <2>1, <2>2, Zenon
<1>7. ServerConsistent' /\ MutexUnlocked'
  BY <1>1, Zenon DEF IInv, ServerConsistent, MutexUnlocked
<1>8. QueueInv'
  BY <1>1, FrontMoves, Zenon DEF IInv
<1>9. ClientInv'
  <2>1. \A c \in Clients : revoke_later[c] => revoke_later'[c]
    BY <1>1, Zenon DEF IInv, TypeOK
  <2>2. QED
    BY <1>1, <1>3, <1>4, <2>1, ClientSame, Zenon DEF IInv
<1>10. RevokeHandlerInv'
  <2>1. \A u \in Threads : RevokeRelease(u)' => ~revoke_later'[revokee[u]]
    <3>1. \A u \in Threads : RevokeRelease(u)' =>
            RevokeRelease(u) /\ revokee[u] # d /\ revokee[u] \in Clients
      BY <1>3, <1>4, <1>6 DEF IInv, TypeOK, RevokeRelease, Kept
    <3>2. QED
      BY <1>1, <3>1, Zenon DEF IInv, TypeOK, RevokeHandlerInv
  <2>2. QED
    BY <1>1, <1>3, <1>4, <2>1, HandlerSame, Zenon DEF IInv
<1>11. OwnerInv'
  BY <1>1, <1>3, <1>4, OwnerSame, Zenon DEF IInv
<1>12. RevocationInv'
  <2>1. \A u \in Threads : ~Revoking(u)'
    BY <1>3, <1>4, <1>6, Zenon DEF Kept
  <2>2. \A c \in Clients : revoke_later'[c] /\ cstate[c] # "RELEASING" => holder = c
    BY <1>1, <1>2, Zenon DEF IInv, RevocationInv, TypeOK
  <2>3. QED
    BY <1>1, <1>2, <2>1, <2>2, Zenon DEF RevocationInv, Revoking
<1>13. RetryInv'
  BY <1>1, <1>3, <1>4, RetrySame, Zenon DEF IInv
<1>14. QED
  BY <1>7, <1>8, <1>9, <1>10, <1>11, <1>12, <1>13, Zenon DEF IInv

\* revoke_handler ends: the client owns nothing, and wakes the thread that
\* waited for the end of the release, if there is one.
LEMMA RevokeReturnsInv ==
    ASSUME IInv, TypeOK', NEW t \in Threads, RevokeReturns(t)
    PROVE  IInv'
<1> DEFINE d == revokee[t]
           f == Head(queue[d])
<1>1. /\ pc[t] = "releaseReply" /\ d \in Clients /\ d # NoClient /\ t \notin woken
      /\ cstate' = [cstate EXCEPT ![d] = "NONE"]
      /\ revokee' = [revokee EXCEPT ![t] = NoClient]
      /\ pc' = [pc EXCEPT ![t] = "acquireReply"]
      /\ UNCHANGED <<sstate, holder, retryer, waiter, revoke_later, retry_earlier,
                     queue, stuck, ret, retryee>>
  <2>1. pc[t] = "releaseReply" /\ d # NoClient
    BY Zenon DEF RevokeReturns
  <2>2. d \in Clients
    BY <2>1, Zenon DEF IInv, TypeOK
  <2>3. t \notin woken
    BY <2>1, Zenon DEF IInv, QueueInv, Waits
  <2>4. QED
    BY <2>1, <2>2, <2>3, Zenon DEF RevokeReturns, Goto, server
<1>2. /\ RevokeRelease(t) /\ InRelease(t) /\ cstate[d] = "RELEASING" /\ ~revoke_later[d] /\ holder # d
      /\ queue[d] # <<>> => pc[f] = "waitRelease" /\ f \in Threads /\ Home[f] = d /\ f # t
  <2>1. RevokeRelease(t) /\ InRelease(t)
    BY <1>1, Zenon DEF RevokeRelease, InRelease
  <2>2. queue[d] # <<>> => f \in Threads /\ Home[f] = d
    BY <1>1, TailFacts DEF IInv, TypeOK, QueueInv
  <2>3. holder # d
    BY <1>1, Zenon DEF IInv, OwnerInv, Releaser
  <2>4. QED
    BY <1>1, <2>1, <2>2, <2>3, Zenon DEF IInv, RevokeHandlerInv
<1>3. woken' = IF queue[d] = <<>> THEN woken ELSE woken \cup {f}
  BY <1>2, Zenon DEF RevokeReturns, SignalFront, Signal, Waits
<1>4. Kept(t)
  BY <1>1, OthersKept, Zenon DEF IInv, TypeOK
<1>5. /\ pc'[t] = "acquireReply" /\ revokee'[t] = NoClient
      /\ InAcquire(t) /\ InAcquire(t)' /\ ~RevokeRelease(t)' /\ ~OwnRelease(t)' /\ ~InRelease(t)'
      /\ ~Revoking(t)' /\ ~Retrying(t)'
      /\ Answered(t, "OK")' <=> Answered(t, "OK")
      /\ Answered(t, "RETRY")' <=> Answered(t, "RETRY")
  BY <1>1, Zenon DEF IInv, TypeOK, InAcquire, RevokeRelease, OwnRelease, InRelease, Answered,
              Revoking, Retrying
<1>6. /\ Home[t] # d
      /\ \A u \in Threads : Home[u] = d =>
            ~InAcquire(u) /\ ~OwnRelease(u) /\ pc[u] # "holding" /\ (pc[u] = "waitTurn" => u \notin woken)
      /\ \A u \in Threads : Home[u] = d /\ pc[u] = "waitRelease" => queue[d] # <<>> /\ u = f
  <2>1. \A u \in Threads : Home[u] = d /\ (pc[u] \notin {"idle", "waitTurn"} \/ u \in woken) =>
          queue[d] # <<>> /\ u = f /\ pc[u] = "waitRelease"
    BY <1>2, Zenon DEF IInv, QueueInv
  <2>2. \A u \in Threads : InAcquire(u) \/ OwnRelease(u) \/ pc[u] = "holding" =>
          pc[u] \notin {"idle", "waitTurn", "waitRelease"}
    BY Zenon DEF InAcquire, OwnRelease, RevokeRelease, InRelease
  <2>3. \A u \in Threads : pc[u] \notin {"idle", "waitTurn", "waitRelease"} => Home[u] # d
    BY <2>1, Zenon
  <2>4. pc[t] \notin {"idle", "waitTurn", "waitRelease"}
    BY <1>1, Zenon
  <2>5. QED
    BY <2>1, <2>2, <2>3, <2>4, Zenon
<1>7. ServerConsistent' /\ MutexUnlocked'
  BY <1>1, Zenon DEF IInv, ServerConsistent, MutexUnlocked
<1>8. QueueInv'
  <2>1. CASE queue[d] = <<>>
    BY <1>1, <1>3, <2>1, FrontMoves, Zenon DEF IInv
  <2>2. CASE queue[d] # <<>>
    BY <1>1, <1>2, <1>3, <2>2, FrontSignals, Zenon DEF IInv, Waits
  <2>3. QED
    BY <2>1, <2>2, Zenon
<1>9. ClientInv'
  <2>1. \A c \in Clients : cstate'[c] = IF c = d THEN "NONE" ELSE cstate[c]
    BY <1>1, Zenon DEF IInv, TypeOK
  <2>2. \A u \in Threads : u # f \/ queue[d] = <<>> => (u \in woken' <=> u \in woken)
    BY <1>3, Zenon
  <2>3. \A u \in Threads : Home[u] # d =>
          /\ pc'[u] = "holding" => cstate'[Home[u]] = "LOCKED"
          /\ InAcquire(u)' => cstate'[Home[u]] = "ACQUIRING"
          /\ OwnRelease(u)' => cstate'[Home[u]] = "RELEASING" /\ revoke_later'[Home[u]]
          /\ pc'[u] = "waitTurn" /\ u \in woken' => cstate'[Home[u]] \in {"NONE", "LOCKED"}
          /\ pc'[u] = "waitRelease" =>
                cstate'[Home[u]] = IF u \in woken' THEN "NONE" ELSE "RELEASING"
    <3> SUFFICES ASSUME NEW u \in Threads, Home[u] # d
                 PROVE  /\ pc'[u] = "holding" => cstate'[Home[u]] = "LOCKED"
                        /\ InAcquire(u)' => cstate'[Home[u]] = "ACQUIRING"
                        /\ OwnRelease(u)' => cstate'[Home[u]] = "RELEASING" /\ revoke_later'[Home[u]]
                        /\ pc'[u] = "waitTurn" /\ u \in woken' => cstate'[Home[u]] \in {"NONE", "LOCKED"}
                        /\ pc'[u] = "waitRelease" =>
                              cstate'[Home[u]] = IF u \in woken' THEN "NONE" ELSE "RELEASING"
      OBVIOUS
    <3>1. Home[u] \in Clients /\ cstate'[Home[u]] = cstate[Home[u]] /\ revoke_later' = revoke_later
      BY <1>1, <2>1, HomeAssumption, Zenon
    <3>2. u \in woken' <=> u \in woken
      BY <1>2, <2>2, Zenon
    <3>3. CASE u = t
      BY <1>5, <3>1, <3>3, Zenon DEF IInv, ClientInv
    <3>4. CASE u # t
      <4>1. /\ pc'[u] = pc[u]
            /\ InAcquire(u)' <=> InAcquire(u)
            /\ OwnRelease(u)' <=> OwnRelease(u)
        BY <1>4, <3>4, Zenon DEF Kept
      <4>2. /\ pc[u] = "holding" => cstate[Home[u]] = "LOCKED"
            /\ InAcquire(u) => cstate[Home[u]] = "ACQUIRING"
            /\ OwnRelease(u) => cstate[Home[u]] = "RELEASING" /\ revoke_later[Home[u]]
            /\ pc[u] = "waitTurn" /\ u \in woken => cstate[Home[u]] \in {"NONE", "LOCKED"}
            /\ pc[u] = "waitRelease" =>
                  cstate[Home[u]] = IF u \in woken THEN "NONE" ELSE "RELEASING"
        BY Zenon DEF IInv, ClientInv
      <4>3. QED
        BY <3>1, <3>2, <4>1, <4>2, Zenon
    <3>5. QED
      BY <3>3, <3>4, Zenon
  <2>4. \A u \in Threads : Home[u] = d =>
          /\ pc'[u] # "holding" /\ ~InAcquire(u)' /\ ~OwnRelease(u)'
          /\ pc'[u] = "waitRelease" => u \in woken'
    BY <1>3, <1>4, <1>6, Zenon DEF Kept
  <2>5. \A c \in Clients : queue[c] # <<>> /\ pc'[Head(queue[c])] = "waitTurn" => Head(queue[c]) \in woken'
    BY <1>3, <1>4, <1>5, FrontHome, Zenon DEF IInv, ClientInv, Kept
  <2>6. \A c \in Clients : queue[c] = <<>> => cstate'[c] \in {"NONE", "FREE", "RELEASING"}
    BY <2>1, Zenon DEF IInv, ClientInv
  <2>7. QED
    BY <1>1, <2>1, <2>3, <2>4, <2>5, <2>6, Zenon DEF ClientInv
<1>10. RevokeHandlerInv'
  <2>1. \A u \in Threads : RevokeRelease(u)' =>
          u # t /\ RevokeRelease(u) /\ revokee'[u] = revokee[u] /\ revokee[u] # d /\ revokee[u] \in Clients
    <3>1. \A u \in Threads : RevokeRelease(u)' =>
            u # t /\ RevokeRelease(u) /\ revokee'[u] = revokee[u]
      BY <1>4, <1>5, Zenon DEF Kept
    <3>2. \A u \in Threads : RevokeRelease(u) => revokee[u] \in Clients
      BY Zenon DEF IInv, TypeOK, RevokeRelease
    <3>3. \A u \in Threads : RevokeRelease(u) /\ u # t => revokee[u] # d
      BY <1>2, Zenon DEF IInv, RevokeHandlerInv
    <3>4. QED
      BY <3>1, <3>2, <3>3, Zenon
  <2>2. \A c \in Clients \ {d} : cstate'[c] = cstate[c]
    BY <1>1, Zenon DEF IInv, TypeOK
  <2>3. \A c \in Clients : queue[c] # <<>> /\ pc[Head(queue[c])] = "waitRelease" =>
          pc'[Head(queue[c])] = "waitRelease"
    BY <1>1, <1>4, FrontHome, Zenon DEF IInv, Kept
  <2>4. \A u \in Threads : revokee'[u] # NoClient => InRelease(u)' \/ pc'[u] = "revokeSent"
    BY <1>4, <1>5, Zenon DEF IInv, RevokeHandlerInv, Kept
  <2>5. \A u \in Threads : RevokeRelease(u)' =>
          /\ cstate'[revokee'[u]] = "RELEASING"
          /\ ~revoke_later'[revokee'[u]]
          /\ queue'[revokee'[u]] # <<>> => pc'[Head(queue'[revokee'[u]])] = "waitRelease"
    <3> SUFFICES ASSUME NEW u \in Threads, RevokeRelease(u)'
                 PROVE  /\ cstate'[revokee'[u]] = "RELEASING"
                        /\ ~revoke_later'[revokee'[u]]
                        /\ queue'[revokee'[u]] # <<>> =>
                              pc'[Head(queue'[revokee'[u]])] = "waitRelease"
      OBVIOUS
    <3>1. /\ RevokeRelease(u) /\ revokee'[u] = revokee[u]
          /\ revokee[u] # d /\ revokee[u] \in Clients
      BY <2>1, Zenon
    <3>2. /\ cstate[revokee[u]] = "RELEASING"
          /\ ~revoke_later[revokee[u]]
          /\ queue[revokee[u]] # <<>> => pc[Head(queue[revokee[u]])] = "waitRelease"
      BY <3>1, Zenon DEF IInv, RevokeHandlerInv
    <3>3. revoke_later' = revoke_later /\ queue' = queue
      BY <1>1, Zenon
    <3>4. QED
      BY <2>2, <2>3, <3>1, <3>2, <3>3, Zenon
  <2>6. QED
    BY <2>1, <2>4, <2>5, Zenon DEF IInv, RevokeHandlerInv
<1>11. OwnerInv'
  <2>1. \A c \in Clients : /\ cstate'[c] \in {"FREE", "LOCKED"} => holder = c
                           /\ cstate'[c] = "NONE" => holder # c
    BY <1>1, <1>2, Zenon DEF IInv, OwnerInv, TypeOK
  <2>2. \A u \in Threads \ {t} :
          /\ pc'[u] = pc[u] /\ Releaser(u)' = Releaser(u)
          /\ Answered(u, "OK")' <=> Answered(u, "OK")
          /\ Answered(u, "RETRY")' <=> Answered(u, "RETRY")
    BY <1>4, Zenon DEF Kept
  <2>3. QED
    BY <1>1, <1>5, <2>1, <2>2, Zenon DEF IInv, OwnerInv
<1>12. RevocationInv'
  <2>1. \A c \in Clients : revoke_later'[c] /\ cstate'[c] # "RELEASING" =>
          revoke_later[c] /\ cstate[c] # "RELEASING"
    BY <1>1, <1>2, Zenon DEF IInv, TypeOK
  <2>2. QED
    BY <1>1, <1>4, <1>5, <2>1, ZenonT(60) DEF IInv, RevocationInv, Kept
<1>13. RetryInv'
  <2>1. \A c \in Clients : Refused(c)' <=> Refused(c)
    <3>1. \A c \in Clients : queue[c] # <<>> => Head(queue[c]) \in Threads
      BY TailFacts, Zenon DEF IInv, TypeOK
    <3>2. QED
      BY <1>1, <1>4, <1>5, <3>1, Zenon DEF Refused, Kept
  <2>2. \A c \in Clients : Parked(c) => Parked(c)'
    <3>1. \A c \in Clients : Refused(c) => c # d
      BY <1>6, FrontHome, Zenon DEF IInv, Refused, Answered
    <3>2. \A c \in Clients : c # d => (queue[c] # <<>> /\ queue[d] # <<>> => Head(queue[c]) # f)
      BY <1>1, <1>2, FrontHome, Zenon DEF IInv
    <3>3. QED
      BY <1>1, <1>3, <2>1, <3>1, <3>2, Zenon DEF Parked, Refused
  <2>3. QED
    BY <1>1, <1>2, <1>3, <1>4, <1>5, <2>1, <2>2, ZenonT(60) DEF IInv, TypeOK, ServerConsistent, RetryInv, Kept
<1>14. QED
  BY <1>7, <1>8, <1>9, <1>10, <1>11, <1>12, <1>13, Zenon DEF IInv

\* retry_handler ends: the parked thread is woken, or will find retry_earlier.
LEMMA RetryHandlerInv ==
    ASSUME IInv, TypeOK', NEW t \in Threads, RetryHandler(t)
    PROVE  IInv'
<1> DEFINE c == retryee[t]
           f == Head(queue[c])
<1>1. /\ pc[t] = "retrySent" /\ t \notin woken
      /\ c \in Clients /\ retryer = c /\ sstate = "RETRYING" /\ c \notin waiter /\ Parked(c)
      /\ \A u \in Threads \ {t} : ~Retrying(u)
  <2>1. pc[t] = "retrySent" /\ Retrying(t)
    BY Zenon DEF RetryHandler, Retrying
  <2>2. t \notin woken
    BY <2>1, Zenon DEF IInv, QueueInv, Waits
  <2>3. c \in Clients
    BY <2>1, Zenon DEF IInv, TypeOK
  <2>4. QED
    BY <2>1, <2>2, <2>3, Zenon DEF IInv, RetryInv
<1>2. /\ retry_earlier' = [retry_earlier EXCEPT ![c] = TRUE]
      /\ woken' = IF pc[f] \in Waits THEN woken \cup {f} ELSE woken
      /\ retryee' = [retryee EXCEPT ![t] = NoClient]
      /\ pc' = [pc EXCEPT ![t] = "releaseReply"]
      /\ UNCHANGED <<sstate, holder, retryer, waiter, cstate, revoke_later, queue, stuck, ret, revokee>>
  BY Zenon DEF RetryHandler, Signal, Goto, server
<1>3. /\ queue[c] # <<>> /\ f \in Threads /\ Home[f] = c
      /\ Answered(f, "RETRY") /\ InAcquire(f) /\ f \notin woken
      /\ pc[f] \in Waits => pc[f] = "waitRetry" /\ f # t
  BY <1>1, FrontHome, Zenon DEF IInv, Parked, Refused, Answered, Waits, InAcquire, RevokeRelease, InRelease
<1>4. Kept(t)
  BY <1>2, OthersKept, Zenon DEF IInv, TypeOK
<1>5. /\ pc'[t] = "releaseReply" /\ Releaser(t)' = Releaser(t)
      /\ InAcquire(t)' <=> InAcquire(t)
      /\ ~Revoking(t)' /\ ~Retrying(t)' /\ InRelease(t) /\ InRelease(t)'
      /\ OwnRelease(t)' <=> OwnRelease(t)
      /\ RevokeRelease(t)' <=> RevokeRelease(t)
      /\ Answered(t, "OK")' <=> Answered(t, "OK")
      /\ Answered(t, "RETRY")' <=> Answered(t, "RETRY")
  BY <1>1, <1>2 DEF IInv, TypeOK, InAcquire, RevokeRelease, OwnRelease, InRelease, Answered,
              Revoking, Retrying, Releaser
<1>6. ServerConsistent' /\ MutexUnlocked'
  BY <1>2, Zenon DEF IInv, ServerConsistent, MutexUnlocked
<1>7. QueueInv'
  <2>1. CASE pc[f] \in Waits
    BY <1>1, <1>2, <1>3, <2>1, FrontSignals, Zenon DEF IInv
  <2>2. CASE pc[f] \notin Waits
    BY <1>1, <1>2, <2>2, FrontMoves, Zenon DEF IInv
  <2>3. QED
    BY <2>1, <2>2, Zenon
<1>8. ClientInv'
  <2>1. \A u \in Threads : pc[u] \in {"waitTurn", "waitRelease"} => (u \in woken' <=> u \in woken)
    BY <1>2, <1>3, Zenon
  <2>2. QED
    BY <1>2, <1>4, <1>5, <2>1, ClientSame, Zenon DEF IInv
<1>9. RevokeHandlerInv'
  <2>1. \A u \in Threads : RevokeRelease(u)' => ~revoke_later[revokee[u]]
    BY <1>4, <1>5, Zenon DEF IInv, RevokeHandlerInv, Kept
  <2>2. QED
    BY <1>1, <1>2, <1>4, <1>5, <2>1, HandlerSame, Zenon DEF IInv
<1>10. OwnerInv'
  <2>1. holder # Releaser(t)
    BY <1>1, Zenon DEF IInv, OwnerInv
  <2>2. QED
    BY <1>2, <1>4, <1>5, <2>1, OwnerSame, Zenon DEF IInv
<1>11. RevocationInv'
  BY <1>2, <1>4, <1>5, Zenon DEF IInv, RevocationInv, Kept
<1>12. RetryInv'
  <2>1. \A d \in Clients : Refused(d)' <=> Refused(d)
    BY <1>2, <1>4, <1>5, FrontHome, Zenon DEF IInv, Refused, Kept
  <2>2. \A d \in Clients \ {c} : Parked(d) => Parked(d)'
    BY <1>1, <1>2, <1>3, <2>1, FrontHome DEF IInv, Parked, Refused, TypeOK
  <2>3. \A u \in Threads : ~Retrying(u)'
    BY <1>1, <1>4, <1>5, Zenon DEF Kept
  <2>4. \A u \in Threads : pc'[u] = "waitRetry" => (u \in woken' <=> retry_earlier'[Home[u]])
    <3>1. \A u \in Threads : pc'[u] = "waitRetry" => pc[u] = "waitRetry" /\ (Home[u] = c => u = f)
      BY <1>1, <1>2, <1>3, FrontThread, ZenonT(60) DEF IInv, TypeOK
    <3>2. QED
      BY <1>1, <1>2, <1>3, <3>1, HomeAssumption, SMTT(30) DEF IInv, RetryInv, TypeOK, Waits
  <2>5. \A d \in Clients : retry_earlier'[d] => retryer' = d /\ d \notin waiter' /\ Refused(d)'
    BY <1>1, <1>2, <2>1, SMTT(30) DEF IInv, RetryInv, TypeOK, Parked
  <2>6. \A d \in waiter' : Parked(d)'
    BY <1>1, <1>2, <2>2, Zenon DEF IInv, RetryInv, TypeOK
  <2>7. QED
    BY <2>3, <2>4, <2>5, <2>6, Zenon DEF RetryInv, Retrying
<1>13. QED
  BY <1>6, <1>7, <1>8, <1>9, <1>10, <1>11, <1>12, Zenon DEF IInv

=============================================================================
