-------------------------- MODULE LockCacheProofs --------------------------
(*****************************************************************************)
(* The steps of lock_client_cache::acquire and release keep the inductive    *)
(* invariant IInv of LockCache, and the safety theorems that follow from     *)
(* it, for every number of clients and threads.                              *)
(*****************************************************************************)
EXTENDS LockCacheServerSteps

USE DEF NoClient

-----------------------------------------------------------------------------
(* Steps of acquire and release *)

\* A step of thread t inside its client's mutex: it changes only its own
\* program counter and the lock_t of its own client.
ClientStep(t) ==
    /\ Kept(t)
    /\ UNCHANGED <<sstate, holder, retryer, waiter, stuck, ret, revokee, retryee>>
    /\ \A d \in Clients \ {Home[t]} :
          /\ cstate'[d] = cstate[d] /\ revoke_later'[d] = revoke_later[d]
          /\ retry_earlier'[d] = retry_earlier[d] /\ queue'[d] = queue[d]
    /\ \A u \in Threads : Home[u] # Home[t] => (u \in woken' <=> u \in woken)

\* The other threads of t's client are idle or wait for their turn.
Alone(t) ==
    \A u \in Threads \ {t} : Home[u] = Home[t] =>
        /\ pc[u] \in {"idle", "waitTurn"} /\ u \notin woken
        /\ ~InAcquire(u) /\ ~InRelease(u) /\ ~OwnRelease(u) /\ ~RevokeRelease(u)
        /\ ~Answered(u, "OK") /\ ~Answered(u, "RETRY")

\* A thread that uses the client's lock_t, or finds its queue empty, is alone with it.
LEMMA FrontIsAlone ==
    ASSUME IInv, NEW t \in Threads,
           queue[Home[t]] = <<>> \/ pc[t] \notin {"idle", "waitTurn"} \/ t \in woken
    PROVE  Alone(t)
<1>1. \A u \in Threads \ {t} : Home[u] = Home[t] => pc[u] \in {"idle", "waitTurn"} /\ u \notin woken
  BY DEF IInv, QueueInv
<1>2. QED
  BY <1>1, Zenon DEF Alone, InAcquire, InRelease, OwnRelease, RevokeRelease, Answered

\* A thread is put at the end of its client's queue.
LEMMA QueuePush ==
    ASSUME TypeOK, QueueInv, NEW t \in Threads, NEW l, pc[t] = "idle", l # "idle",
           queue[Home[t]] = <<>> \/ l = "waitTurn",
           queue' = [queue EXCEPT ![Home[t]] = Append(@, t)],
           pc' = [pc EXCEPT ![t] = l], woken' = woken
    PROVE  /\ QueueInv'
           /\ queue'[Home[t]] # <<>>
           /\ queue[Home[t]] = <<>> => Head(queue'[Home[t]]) = t
           /\ queue[Home[t]] # <<>> => Head(queue'[Home[t]]) = Head(queue[Home[t]])
<1> DEFINE c == Home[t]
           q == queue[c]
<1>1. c \in Clients /\ q \in Seq(Threads) /\ queue'[c] = Append(q, t) /\ t \notin woken
  BY HomeAssumption, Zenon DEF TypeOK, QueueInv, Waits
<1>2. /\ Len(queue'[c]) = Len(q) + 1 /\ Len(q) \in Nat
      /\ \A i \in 1..Len(q) : queue'[c][i] = q[i] /\ q[i] \in Threads
      /\ queue'[c][Len(q) + 1] = t
      /\ queue'[c] # <<>>
  BY <1>1
<1>3. Head(queue'[c]) = IF q = <<>> THEN t ELSE Head(q)
  BY <1>1
<1>4. \A u \in Threads : pc'[u] = IF u = t THEN l ELSE pc[u]
  BY Zenon DEF TypeOK
<1>5. \A d \in Clients : \A i \in 1..Len(queue[d]) : queue[d][i] \in Threads /\ queue[d][i] # t
  BY DEF TypeOK, QueueInv
<1>6. \A i \in 1..Len(queue'[c]) :
         \/ i \in 1..Len(q) /\ queue'[c][i] = q[i]
         \/ i = Len(q) + 1 /\ queue'[c][i] = t
  BY <1>2
<1>7. \A i \in 1..Len(queue'[c]) : Home[queue'[c][i]] = c /\ pc'[queue'[c][i]] # "idle"
  BY <1>1, <1>4, <1>5, <1>6 DEF QueueInv
<1>8. \A i, j \in 1..Len(queue'[c]) : queue'[c][i] = queue'[c][j] => i = j
  BY <1>1, <1>5, <1>6 DEF QueueInv
<1>9. \A i \in 2..Len(queue'[c]) : pc'[queue'[c][i]] = "waitTurn" /\ queue'[c][i] \notin woken
  <2> SUFFICES ASSUME NEW i \in 2..Len(queue'[c])
               PROVE  pc'[queue'[c][i]] = "waitTurn" /\ queue'[c][i] \notin woken
    OBVIOUS
  <2>1. CASE i \in 1..Len(q) /\ queue'[c][i] = q[i]
    <3>1. i \in 2..Len(q)
      BY <1>2, <2>1
    <3>2. QED
      BY <1>1, <1>4, <1>5, <2>1, <3>1 DEF QueueInv
  <2>2. CASE i = Len(q) + 1 /\ queue'[c][i] = t
    <3>1. q # <<>>
      BY <1>2, <2>2
    <3>2. QED
      BY <1>1, <1>4, <2>2, <3>1, Zenon
  <2>3. QED
    BY <1>2, <1>6, <2>1, <2>2
<1>10. \A d \in Clients \ {c} : queue'[d] = queue[d]
  BY Zenon DEF TypeOK
<1>11. \A d \in Clients :
          /\ \A i \in 1..Len(queue'[d]) : Home[queue'[d][i]] = d /\ pc'[queue'[d][i]] # "idle"
          /\ \A i, j \in 1..Len(queue'[d]) : queue'[d][i] = queue'[d][j] => i = j
          /\ \A i \in 2..Len(queue'[d]) : pc'[queue'[d][i]] = "waitTurn" /\ queue'[d][i] \notin woken'
  <2> SUFFICES ASSUME NEW d \in Clients, d # c
               PROVE  /\ \A i \in 1..Len(queue[d]) : Home[queue[d][i]] = d /\ pc'[queue[d][i]] # "idle"
                      /\ \A i, j \in 1..Len(queue[d]) : queue[d][i] = queue[d][j] => i = j
                      /\ \A i \in 2..Len(queue[d]) : pc'[queue[d][i]] = "waitTurn" /\ queue[d][i] \notin woken
    BY <1>7, <1>8, <1>9, <1>10
  <2>1. \A i \in 2..Len(queue[d]) : i \in 1..Len(queue[d])
    BY DEF TypeOK
  <2>2. QED
    BY <1>4, <1>5, <2>1 DEF QueueInv
<1>12. \A u \in Threads : pc'[u] \notin {"idle", "waitTurn"} \/ u \in woken' =>
          queue'[Home[u]] # <<>> /\ Head(queue'[Home[u]]) = u
  BY <1>1, <1>2, <1>3, <1>4, <1>10, HomeAssumption DEF QueueInv
<1>13. \A u \in woken' : pc'[u] \in Waits
  BY <1>1, <1>4 DEF QueueInv, TypeOK
<1>14. QueueInv'
  BY <1>11, <1>12, <1>13, Zenon DEF QueueInv
<1>15. QED
  BY <1>2, <1>3, <1>14, Zenon

\* The front thread leaves the queue, and its successor is signalled.
LEMMA QueuePop ==
    ASSUME TypeOK, QueueInv, NEW t \in Threads, pc[t] \notin {"idle", "waitTurn"}, t \notin woken,
           queue' = [queue EXCEPT ![Home[t]] = Tail(@)],
           pc' = [pc EXCEPT ![t] = "idle"],
           SignalFront(Tail(queue[Home[t]]))
    PROVE  /\ QueueInv'
           /\ queue'[Home[t]] = <<>> => woken' = woken
           /\ queue'[Home[t]] # <<>> =>
                 LET f == Head(queue'[Home[t]])
                 IN  /\ f \in Threads \ {t} /\ Home[f] = Home[t] /\ pc[f] = "waitTurn"
                     /\ woken' = woken \cup {f}
<1> DEFINE c == Home[t]
           q == queue[c]
           r == Tail(q)
<1>1. /\ c \in Clients /\ q \in Seq(Threads) /\ q # <<>> /\ Head(q) = t /\ queue'[c] = r
      /\ \A u \in Threads : Home[u] = c /\ u # t => pc[u] \in {"idle", "waitTurn"} /\ u \notin woken
  BY FrontThread, Zenon DEF TypeOK
<1>2. /\ r \in Seq(Threads) /\ Len(r) = Len(q) - 1 /\ Len(q) \in Nat
      /\ \A i \in 1..Len(r) : r[i] = q[i + 1] /\ i + 1 \in 2..Len(q)
      /\ r # <<>> => Head(r) = r[1] /\ 1 \in 1..Len(r)
  BY <1>1
<1>3. \A i \in 1..Len(r) : /\ r[i] \in Threads /\ r[i] # t /\ Home[r[i]] = c
                           /\ pc[r[i]] = "waitTurn" /\ r[i] \notin woken
  <2>1. \A i \in 2..Len(q) : q[i] \in Threads /\ q[i] # t /\ Home[q[i]] = c
                             /\ pc[q[i]] = "waitTurn" /\ q[i] \notin woken
    BY <1>1 DEF QueueInv
  <2>2. QED
    BY <1>2, <2>1
<1>4. r # <<>> => /\ Head(r) \in Threads \ {t} /\ Home[Head(r)] = c /\ pc[Head(r)] = "waitTurn"
                  /\ woken' = woken \cup {Head(r)}
  BY <1>2, <1>3, Zenon DEF SignalFront, Signal, Waits
<1>5. r = <<>> => woken' = woken
  BY Zenon DEF SignalFront
<1>6. \A u \in Threads : pc'[u] = IF u = t THEN "idle" ELSE pc[u]
  BY Zenon DEF TypeOK
<1>7. \A d \in Clients \ {c} : queue'[d] = queue[d]
  BY Zenon DEF TypeOK
<1>8. \A i \in 1..Len(r) : Home[r[i]] = c /\ pc'[r[i]] # "idle"
  BY <1>3, <1>6, Zenon
<1>9. \A i, j \in 1..Len(r) : r[i] = r[j] => i = j
  <2> SUFFICES ASSUME NEW i \in 1..Len(r), NEW j \in 1..Len(r), r[i] = r[j] PROVE i = j
    OBVIOUS
  <2>1. i + 1 \in 1..Len(q) /\ j + 1 \in 1..Len(q) /\ q[i + 1] = q[j + 1]
    BY <1>2
  <2>2. i + 1 = j + 1
    BY <1>1, <2>1, Zenon DEF QueueInv
  <2>3. QED
    BY <2>2
<1>10. \A i \in 2..Len(r) : pc'[r[i]] = "waitTurn" /\ r[i] \notin woken'
  <2> SUFFICES ASSUME NEW i \in 2..Len(r) PROVE pc'[r[i]] = "waitTurn" /\ r[i] \notin woken'
    OBVIOUS
  <2>1. i \in 1..Len(r) /\ i # 1 /\ r # <<>>
    <3>1. r = <<>> => Len(r) = 0
      BY EmptyLen, Zenon
    <3>2. QED
      BY <1>2, <3>1
  <2>2. r[i] # Head(r)
    BY <1>2, <1>9, <2>1, Zenon
  <2>3. QED
    BY <1>3, <1>4, <1>6, <2>1, <2>2, Zenon
<1>11. \A d \in Clients \ {c} :
          /\ \A i \in 1..Len(queue[d]) : Home[queue[d][i]] = d /\ pc'[queue[d][i]] # "idle"
          /\ \A i, j \in 1..Len(queue[d]) : queue[d][i] = queue[d][j] => i = j
          /\ \A i \in 2..Len(queue[d]) : pc'[queue[d][i]] = "waitTurn" /\ queue[d][i] \notin woken'
  <2> SUFFICES ASSUME NEW d \in Clients, d # c
               PROVE  /\ \A i \in 1..Len(queue[d]) : Home[queue[d][i]] = d /\ pc'[queue[d][i]] # "idle"
                      /\ \A i, j \in 1..Len(queue[d]) : queue[d][i] = queue[d][j] => i = j
                      /\ \A i \in 2..Len(queue[d]) : pc'[queue[d][i]] = "waitTurn" /\ queue[d][i] \notin woken'
    OBVIOUS
  <2>1. \A i \in 1..Len(queue[d]) : queue[d][i] \in Threads /\ Home[queue[d][i]] = d /\ pc[queue[d][i]] # "idle"
    BY DEF TypeOK, QueueInv
  <2>2. \A i \in 2..Len(queue[d]) : i \in 1..Len(queue[d])
    BY DEF TypeOK
  <2>3. \A u \in Threads : Home[u] = d => (u \in woken' <=> u \in woken)
    BY <1>4, <1>5, Zenon
  <2>4. QED
    BY <1>6, <2>1, <2>2, <2>3 DEF QueueInv
<1>12. \A u \in Threads : pc'[u] \notin {"idle", "waitTurn"} \/ u \in woken' =>
          queue'[Home[u]] # <<>> /\ Head(queue'[Home[u]]) = u
  <2> SUFFICES ASSUME NEW u \in Threads, pc'[u] \notin {"idle", "waitTurn"} \/ u \in woken'
               PROVE  queue'[Home[u]] # <<>> /\ Head(queue'[Home[u]]) = u
    OBVIOUS
  <2>1. CASE Home[u] = c
    <3>1. u \in woken' /\ u \notin woken
      BY <1>1, <1>6, <2>1, Zenon
    <3>2. r # <<>> /\ u = Head(r)
      BY <1>4, <1>5, <3>1, Zenon
    <3>3. QED
      BY <1>1, <2>1, <3>2, Zenon
  <2>2. CASE Home[u] # c
    <3>1. u \in woken' => u \in woken
      BY <1>4, <1>5, <2>2, Zenon
    <3>2. pc'[u] = pc[u]
      BY <1>6, <2>2, Zenon
    <3>3. queue'[Home[u]] = queue[Home[u]]
      BY <1>7, <2>2, HomeAssumption, Zenon
    <3>4. QED
      BY <3>1, <3>2, <3>3, Zenon DEF QueueInv
  <2>3. QED
    BY <2>1, <2>2, Zenon
<1>13. \A u \in woken' : pc'[u] \in Waits
  BY <1>4, <1>5, <1>6 DEF QueueInv, TypeOK, Waits
<1>14. QueueInv'
  <2>1. \A d \in Clients :
          /\ \A i \in 1..Len(queue'[d]) : Home[queue'[d][i]] = d /\ pc'[queue'[d][i]] # "idle"
          /\ \A i, j \in 1..Len(queue'[d]) : queue'[d][i] = queue'[d][j] => i = j
          /\ \A i \in 2..Len(queue'[d]) : pc'[queue'[d][i]] = "waitTurn" /\ queue'[d][i] \notin woken'
    <3> SUFFICES ASSUME NEW d \in Clients
                 PROVE  /\ \A i \in 1..Len(queue'[d]) : Home[queue'[d][i]] = d /\ pc'[queue'[d][i]] # "idle"
                        /\ \A i, j \in 1..Len(queue'[d]) : queue'[d][i] = queue'[d][j] => i = j
                        /\ \A i \in 2..Len(queue'[d]) : pc'[queue'[d][i]] = "waitTurn" /\ queue'[d][i] \notin woken'
      BY Zenon
    <3>1. CASE d = c
      <4> HIDE DEF c, q, r
      <4>1. queue'[d] = r
        BY <1>1, <3>1, Zenon
      <4>2. \A i \in 1..Len(queue'[d]) : Home[queue'[d][i]] = d /\ pc'[queue'[d][i]] # "idle"
        BY <1>8, <3>1, <4>1, Zenon
      <4>3. \A i, j \in 1..Len(queue'[d]) : queue'[d][i] = queue'[d][j] => i = j
        <5> SUFFICES ASSUME NEW i \in 1..Len(queue'[d]), NEW j \in 1..Len(queue'[d]),
                            queue'[d][i] = queue'[d][j]
                     PROVE  i = j
          BY Zenon
        <5>1. i \in 1..Len(r) /\ j \in 1..Len(r) /\ r[i] = r[j]
          BY <4>1, Zenon
        <5>2. QED
          BY <1>9, <5>1, Zenon
      <4>4. \A i \in 2..Len(queue'[d]) : pc'[queue'[d][i]] = "waitTurn" /\ queue'[d][i] \notin woken'
        BY <1>10, <4>1, Zenon
      <4>5. QED
        BY <4>2, <4>3, <4>4, Zenon
    <3>2. CASE d # c
      BY <1>7, <1>11, <3>2
    <3>3. QED
      BY <3>1, <3>2, Zenon
  <2>2. QED
    BY <1>12, <1>13, <2>1, Zenon DEF QueueInv
<1>15. QED
  BY <1>1, <1>4, <1>5, <1>14, Zenon

\* The front thread comes out of its wait.
LEMMA QueueResume ==
    ASSUME TypeOK, QueueInv, NEW t \in Threads, NEW l, t \in woken, l # "idle",
           pc' = [pc EXCEPT ![t] = l], woken' = woken \ {t}, queue' = queue
    PROVE  QueueInv'
<1>1. \A u \in Threads : pc'[u] = IF u = t THEN l ELSE pc[u]
  BY Zenon DEF TypeOK
<1>2. \A c \in Clients : \A i \in 1..Len(queue[c]) : queue[c][i] \in Threads
  BY DEF TypeOK
<1>3. \A c \in Clients : \A i \in 2..Len(queue[c]) : queue[c][i] # t
  BY DEF QueueInv, TypeOK
<1>4. Home[t] \in Clients /\ queue[Home[t]] # <<>> /\ Head(queue[Home[t]]) = t
  BY HomeAssumption, Zenon DEF QueueInv
<1>5. QED
  BY <1>1, <1>2, <1>3, <1>4 DEF QueueInv, TypeOK

\* A step of a client changes nothing that RetryInv says of the others ...
LEMMA RetryElsewhere ==
    ASSUME IInv, NEW t \in Threads, ClientStep(t), ~Refused(Home[t]), ~Retrying(t)',
           pc'[t] # "waitRetry", retry_earlier' = retry_earlier, Alone(t)
    PROVE  RetryInv'
<1>1. \A d \in Clients \ {Home[t]} : (Refused(d)' <=> Refused(d)) /\ (Parked(d)' <=> Parked(d))
  BY ParkedKept, Zenon DEF IInv, ClientStep
<1>2. /\ Home[t] \in Clients /\ Home[t] \notin waiter /\ ~retry_earlier[Home[t]]
      /\ \A u \in Threads : Retrying(u) => retryer # Home[t] /\ retryer \in Clients
  BY HomeAssumption, Zenon DEF IInv, RetryInv, Parked, ServerConsistent, TypeOK
<1>3. \A u \in Threads : Retrying(u)' => Retrying(u) /\ u # t
  BY Zenon DEF ClientStep, Kept
<1>4. \A c \in waiter' : Parked(c)'
  BY <1>1, <1>2, Zenon DEF ClientStep, IInv, RetryInv, TypeOK
<1>5. \A u \in Threads : Retrying(u)' => sstate' = "RETRYING" /\ retryer' \notin waiter' /\ Parked(retryer)'
  BY <1>1, <1>2, <1>3, Zenon DEF ClientStep, IInv, RetryInv
<1>6. \A u \in Threads : pc'[u] = "retrySent" => retryee'[u] = retryer'
  BY <1>3, Zenon DEF ClientStep, IInv, RetryInv, Kept, Retrying
<1>7. \A u \in Threads : pc'[u] = "waitRetry" => (u \in woken' <=> retry_earlier'[Home[u]])
  BY Zenon DEF ClientStep, IInv, RetryInv, Kept, Alone
<1>8. \A d \in Clients : retry_earlier'[d] =>
         retryer' = d /\ d \notin waiter' /\ Refused(d)' /\ \A u \in Threads : ~Retrying(u)'
  BY <1>1, <1>2, <1>3, Zenon DEF ClientStep, IInv, RetryInv
<1>9. QED
  BY <1>3, <1>4, <1>5, <1>6, <1>7, <1>8, Zenon DEF IInv, RetryInv

\* ... nor what RevokeHandlerInv says of them.
LEMMA HandlerElsewhere ==
    ASSUME IInv, NEW t \in Threads, ClientStep(t), ~RevokeRelease(t)', revokee[t] = NoClient,
           \A u \in Threads : RevokeRelease(u) => revokee[u] # Home[t]
    PROVE  RevokeHandlerInv'
<1>1. \A d \in Clients \ {Home[t]} : queue[d] # <<>> => pc'[Head(queue[d])] = pc[Head(queue[d])]
  BY FrontHome, Zenon DEF IInv, ClientStep, Kept
<1>2. \A u \in Threads : RevokeRelease(u)' =>
        /\ u # t /\ RevokeRelease(u) /\ revokee'[u] = revokee[u]
        /\ revokee[u] \in Clients \ {Home[t]}
  <2> SUFFICES ASSUME NEW u \in Threads, RevokeRelease(u)'
               PROVE  /\ u # t /\ RevokeRelease(u) /\ revokee'[u] = revokee[u]
                      /\ revokee[u] \in Clients \ {Home[t]}
    OBVIOUS
  <2>1. u # t
    OBVIOUS
  <2>2. RevokeRelease(u) /\ revokee'[u] = revokee[u]
    BY <2>1, Zenon DEF ClientStep, Kept
  <2>3. revokee[u] \in Clients
    BY <2>2, Zenon DEF IInv, TypeOK, RevokeRelease
  <2>4. QED
    BY <2>1, <2>2, <2>3, Zenon
<1>3. \A u \in Threads : RevokeRelease(u)' =>
        /\ cstate'[revokee'[u]] = "RELEASING"
        /\ ~revoke_later'[revokee'[u]]
        /\ queue'[revokee'[u]] # <<>> => pc'[Head(queue'[revokee'[u]])] = "waitRelease"
  BY <1>1, <1>2 DEF ClientStep, IInv, RevokeHandlerInv
<1>4. \A u \in Threads : revokee'[u] # NoClient => InRelease(u)' \/ pc'[u] = "revokeSent"
  BY Zenon DEF ClientStep, Kept, IInv, RevokeHandlerInv
<1>5. QED
  BY <1>2, <1>3, <1>4, Zenon DEF IInv, RevokeHandlerInv

\* Of its own client, ClientInv has to be shown for t and the new front thread only.
LEMMA ClientElsewhere ==
    ASSUME IInv, NEW t \in Threads, ClientStep(t), Alone(t),
           pc'[t] = "holding" => cstate'[Home[t]] = "LOCKED",
           InAcquire(t)' => cstate'[Home[t]] = "ACQUIRING",
           OwnRelease(t)' => cstate'[Home[t]] = "RELEASING" /\ revoke_later'[Home[t]],
           ~(pc'[t] = "waitTurn" /\ t \in woken'),
           pc'[t] = "waitRelease" => cstate'[Home[t]] = "RELEASING" /\ t \notin woken',
           \A u \in Threads \ {t} : Home[u] = Home[t] /\ u \in woken' => cstate'[Home[t]] \in {"NONE", "LOCKED"},
           queue'[Home[t]] = <<>> => cstate'[Home[t]] \in {"NONE", "FREE", "RELEASING"},
           queue'[Home[t]] # <<>> =>
              (Head(queue'[Home[t]]) = t /\ pc'[t] # "waitTurn") \/ Head(queue'[Home[t]]) \in woken'
    PROVE  ClientInv'
<1>1. \A u \in Threads : Home[u] # Home[t] =>
          /\ pc'[u] = "holding" => cstate'[Home[u]] = "LOCKED"
          /\ InAcquire(u)' => cstate'[Home[u]] = "ACQUIRING"
          /\ OwnRelease(u)' => cstate'[Home[u]] = "RELEASING" /\ revoke_later'[Home[u]]
          /\ pc'[u] = "waitTurn" /\ u \in woken' => cstate'[Home[u]] \in {"NONE", "LOCKED"}
          /\ pc'[u] = "waitRelease" =>
                cstate'[Home[u]] = IF u \in woken' THEN "NONE" ELSE "RELEASING"
  <2> SUFFICES ASSUME NEW u \in Threads, Home[u] # Home[t]
               PROVE  /\ pc'[u] = "holding" => cstate'[Home[u]] = "LOCKED"
                      /\ InAcquire(u)' => cstate'[Home[u]] = "ACQUIRING"
                      /\ OwnRelease(u)' => cstate'[Home[u]] = "RELEASING" /\ revoke_later'[Home[u]]
                      /\ pc'[u] = "waitTurn" /\ u \in woken' => cstate'[Home[u]] \in {"NONE", "LOCKED"}
                      /\ pc'[u] = "waitRelease" =>
                            cstate'[Home[u]] = IF u \in woken' THEN "NONE" ELSE "RELEASING"
    OBVIOUS
  <2>1. /\ pc'[u] = pc[u]
        /\ InAcquire(u)' <=> InAcquire(u)
        /\ OwnRelease(u)' <=> OwnRelease(u)
    BY Zenon DEF ClientStep, Kept
  <2>2. /\ cstate'[Home[u]] = cstate[Home[u]] /\ revoke_later'[Home[u]] = revoke_later[Home[u]]
        /\ u \in woken' <=> u \in woken
    BY HomeAssumption, Zenon DEF ClientStep
  <2>3. /\ pc[u] = "holding" => cstate[Home[u]] = "LOCKED"
        /\ InAcquire(u) => cstate[Home[u]] = "ACQUIRING"
        /\ OwnRelease(u) => cstate[Home[u]] = "RELEASING" /\ revoke_later[Home[u]]
        /\ pc[u] = "waitTurn" /\ u \in woken => cstate[Home[u]] \in {"NONE", "LOCKED"}
        /\ pc[u] = "waitRelease" =>
              cstate[Home[u]] = IF u \in woken THEN "NONE" ELSE "RELEASING"
    BY Zenon DEF IInv, ClientInv
  <2>4. QED
    BY <2>1, <2>2, <2>3, Zenon
<1>2. \A u \in Threads : Home[u] = Home[t] =>
          /\ pc'[u] = "holding" => cstate'[Home[u]] = "LOCKED"
          /\ InAcquire(u)' => cstate'[Home[u]] = "ACQUIRING"
          /\ OwnRelease(u)' => cstate'[Home[u]] = "RELEASING" /\ revoke_later'[Home[u]]
          /\ pc'[u] = "waitTurn" /\ u \in woken' => cstate'[Home[u]] \in {"NONE", "LOCKED"}
          /\ pc'[u] = "waitRelease" =>
                cstate'[Home[u]] = IF u \in woken' THEN "NONE" ELSE "RELEASING"
  <2> SUFFICES ASSUME NEW u \in Threads, Home[u] = Home[t]
               PROVE  /\ pc'[u] = "holding" => cstate'[Home[u]] = "LOCKED"
                      /\ InAcquire(u)' => cstate'[Home[u]] = "ACQUIRING"
                      /\ OwnRelease(u)' => cstate'[Home[u]] = "RELEASING" /\ revoke_later'[Home[u]]
                      /\ pc'[u] = "waitTurn" /\ u \in woken' => cstate'[Home[u]] \in {"NONE", "LOCKED"}
                      /\ pc'[u] = "waitRelease" =>
                            cstate'[Home[u]] = IF u \in woken' THEN "NONE" ELSE "RELEASING"
    OBVIOUS
  <2>1. CASE u = t
    BY <2>1, Zenon
  <2>2. CASE u # t
    <3>1. /\ pc'[u] = pc[u]
          /\ InAcquire(u)' <=> InAcquire(u)
          /\ OwnRelease(u)' <=> OwnRelease(u)
      BY <2>2, Zenon DEF ClientStep, Kept
    <3>2. pc[u] \in {"idle", "waitTurn"} /\ ~InAcquire(u) /\ ~OwnRelease(u)
      BY <2>2, Zenon DEF Alone
    <3>3. QED
      BY <2>2, <3>1, <3>2
  <2>3. QED
    BY <2>1, <2>2, Zenon
<1>3. \A d \in Clients \ {Home[t]} :
          /\ queue'[d] = <<>> => cstate'[d] \in {"NONE", "FREE", "RELEASING"}
          /\ queue'[d] # <<>> /\ pc'[Head(queue'[d])] = "waitTurn" => Head(queue'[d]) \in woken'
  <2>1. \A d \in Clients \ {Home[t]} : queue[d] # <<>> =>
          /\ pc'[Head(queue[d])] = pc[Head(queue[d])]
          /\ Head(queue[d]) \in woken' <=> Head(queue[d]) \in woken
    <3> SUFFICES ASSUME NEW d \in Clients \ {Home[t]}, queue[d] # <<>>
                 PROVE  /\ pc'[Head(queue[d])] = pc[Head(queue[d])]
                        /\ Head(queue[d]) \in woken' <=> Head(queue[d]) \in woken
      OBVIOUS
    <3>1. Head(queue[d]) \in Threads /\ Home[Head(queue[d])] = d
      BY FrontHome, Zenon DEF IInv
    <3>2. Head(queue[d]) # t
      BY <3>1, Zenon
    <3>3. QED
      BY <3>1, <3>2, Zenon DEF ClientStep, Kept
  <2>2. QED
    <3>1. \A d \in Clients \ {Home[t]} : cstate'[d] = cstate[d] /\ queue'[d] = queue[d]
      BY Zenon DEF ClientStep
    <3>2. \A d \in Clients :
            /\ queue[d] = <<>> => cstate[d] \in {"NONE", "FREE", "RELEASING"}
            /\ queue[d] # <<>> /\ pc[Head(queue[d])] = "waitTurn" => Head(queue[d]) \in woken
      BY Zenon DEF IInv, ClientInv
    <3>3. QED
      BY <2>1, <3>1, <3>2, Zenon
<1>4. QED
  BY <1>1, <1>2, <1>3, Zenon DEF ClientInv

\* A client's own steps do not move the lock.
LEMMA OwnerElsewhere ==
    ASSUME IInv, NEW t \in Threads, ClientStep(t),
           cstate'[Home[t]] \in {"FREE", "LOCKED"} => holder = Home[t],
           cstate'[Home[t]] = "NONE" => holder # Home[t],
           pc'[t] = "acquire" => holder # Home[t],
           ~Answered(t, "OK")', ~Answered(t, "RETRY")',
           pc'[t] = "release" => sstate = "REVOKING" /\ holder = Releaser(t)',
           pc'[t] \notin {"retry", "retrySent", "releaseReply"}
    PROVE  OwnerInv'
<1>1. sstate' = sstate /\ holder' = holder
  BY Zenon DEF ClientStep
<1>2. \A d \in Clients : /\ cstate'[d] \in {"FREE", "LOCKED"} => holder = d
                         /\ cstate'[d] = "NONE" => holder # d
  BY Zenon DEF ClientStep, IInv, OwnerInv
<1>3. \A u \in Threads \ {t} :
          /\ pc'[u] = "acquire" => holder # Home[u]
          /\ Answered(u, "OK")' => holder = Home[u]
          /\ Answered(u, "RETRY")' => holder # Home[u]
          /\ pc'[u] = "release" => sstate = "REVOKING" /\ holder = Releaser(u)'
          /\ pc'[u] \in {"retry", "retrySent", "releaseReply"} => holder # Releaser(u)'
  BY DEF ClientStep, Kept, IInv, OwnerInv
<1>4. QED
  BY <1>1, <1>2, <1>3, Zenon DEF OwnerInv

\* A step that neither starts nor ends a revocation keeps RevocationInv.
LEMMA RevocationElsewhere ==
    ASSUME IInv, NEW t \in Threads, ClientStep(t), ~Revoking(t)',
           revoke_later'[Home[t]] /\ cstate'[Home[t]] # "RELEASING" =>
              revoke_later[Home[t]] /\ cstate[Home[t]] # "RELEASING"
    PROVE  RevocationInv'
<1>1. \A u \in Threads : Revoking(u)' => Revoking(u) /\ u # t /\ pc'[u] = pc[u] /\ revokee'[u] = revokee[u]
  BY Zenon DEF ClientStep, Kept
<1>2. \A d \in Clients : revoke_later'[d] /\ cstate'[d] # "RELEASING" =>
         revoke_later[d] /\ cstate[d] # "RELEASING"
  BY Zenon DEF ClientStep
<1>3. sstate' = sstate /\ holder' = holder
  BY Zenon DEF ClientStep
<1>4. \A u \in Threads :
          /\ pc'[u] \in {"revoke", "revokeSent"} => sstate' = "REVOKING"
          /\ pc'[u] = "revokeSent" => revokee'[u] = holder'
  BY <1>1, <1>3, Zenon DEF IInv, RevocationInv, Revoking
<1>5. QED
  BY <1>1, <1>2, <1>3, <1>4, Zenon DEF IInv, RevocationInv

\* The first thread of a client that does not own the lock calls the server.
LEMMA AcquireMissInv ==
    ASSUME IInv, TypeOK', NEW t \in Threads, AcquireMiss(t)
    PROVE  IInv'
<1> DEFINE c == Home[t]
<1>1. /\ c \in Clients /\ queue[c] = <<>> /\ pc[t] = "idle" /\ t \notin woken
      /\ cstate[c] = "NONE"
      /\ queue' = [queue EXCEPT ![c] = Append(@, t)]
      /\ cstate' = [cstate EXCEPT ![c] = "ACQUIRING"]
      /\ pc' = [pc EXCEPT ![t] = "acquire"]
      /\ UNCHANGED <<sstate, holder, retryer, waiter, revoke_later, retry_earlier,
                     stuck, woken, ret, revokee, retryee>>
  <2>1. c \in Clients /\ pc[t] = "idle" /\ t \notin woken
    BY HomeAssumption, Zenon DEF AcquireMiss, Enqueue, IInv, QueueInv, Waits
  <2>2. QED
    BY <2>1, Zenon DEF AcquireMiss, Enqueue, CallAcquire, Goto, server, calls, IInv, ClientInv
<1>2. ClientStep(t)
  <2>1. Kept(t)
    BY <1>1, OthersKept, Zenon DEF IInv, TypeOK
  <2>2. QED
    BY <1>1, <2>1, Zenon DEF ClientStep, IInv, TypeOK
<1>3. Alone(t)
  BY <1>1, FrontIsAlone, Zenon
<1>4. /\ QueueInv' /\ queue'[c] # <<>> /\ Head(queue'[c]) = t
  BY <1>1, QueuePush, Zenon DEF IInv
<1>5. /\ pc'[t] = "acquire" /\ InAcquire(t)'
      /\ ~OwnRelease(t)' /\ ~RevokeRelease(t)' /\ ~InRelease(t)' /\ ~Revoking(t)' /\ ~Retrying(t)'
      /\ ~Answered(t, "OK")' /\ ~Answered(t, "RETRY")'
      /\ cstate'[c] = "ACQUIRING" /\ revokee[t] = NoClient
  BY <1>1 DEF IInv, TypeOK, RevokeHandlerInv, InAcquire, RevokeRelease, OwnRelease, InRelease, Answered,
              Revoking, Retrying
<1>6. ServerConsistent' /\ MutexUnlocked'
  BY <1>1, Zenon DEF IInv, ServerConsistent, MutexUnlocked
<1>7. ClientInv'
  <2>1. \A u \in Threads \ {t} : Home[u] = c => u \notin woken'
    BY <1>1, <1>3, Zenon DEF Alone
  <2>2. QED
    BY <1>1, <1>2, <1>3, <1>4, <1>5, <2>1, ClientElsewhere, Zenon
<1>8. RevokeHandlerInv'
  <2>1. \A u \in Threads : RevokeRelease(u) => revokee[u] # c
    BY <1>1, Zenon DEF IInv, RevokeHandlerInv
  <2>2. QED
    BY <1>2, <1>5, <2>1, HandlerElsewhere, Zenon
<1>9. OwnerInv'
  <2>1. holder # c
    BY <1>1, Zenon DEF IInv, OwnerInv
  <2>2. QED
    BY <1>2, <1>5, <2>1, OwnerElsewhere, Zenon
<1>10. RevocationInv'
  <2>1. ~revoke_later[c]
    BY <1>1, Zenon DEF IInv, OwnerInv, RevocationInv
  <2>2. QED
    BY <1>1, <1>2, <1>5, <2>1, RevocationElsewhere, Zenon
<1>11. RetryInv'
  <2>1. ~Refused(c)
    BY <1>1, Zenon DEF Refused
  <2>2. QED
    BY <1>1, <1>2, <1>3, <1>5, <2>1, RetryElsewhere, Zenon
<1>12. QED
  BY <1>4, <1>6, <1>7, <1>8, <1>9, <1>10, <1>11, Zenon DEF IInv

\* The first thread of a client that owns the lock takes it.
LEMMA AcquireHitInv ==
    ASSUME IInv, TypeOK', NEW t \in Threads, AcquireHit(t)
    PROVE  IInv'
<1> DEFINE c == Home[t]
<1>1. /\ c \in Clients /\ queue[c] = <<>> /\ pc[t] = "idle" /\ t \notin woken
      /\ cstate[c] = "FREE"
      /\ queue' = [queue EXCEPT ![c] = Append(@, t)]
      /\ cstate' = [cstate EXCEPT ![c] = "LOCKED"]
      /\ pc' = [pc EXCEPT ![t] = "holding"]
      /\ UNCHANGED <<sstate, holder, retryer, waiter, revoke_later, retry_earlier,
                     stuck, woken, ret, revokee, retryee>>
  <2>1. c \in Clients /\ pc[t] = "idle" /\ t \notin woken
    BY HomeAssumption, Zenon DEF AcquireHit, Enqueue, IInv, QueueInv, Waits
  <2>2. QED
    BY <2>1, Zenon DEF AcquireHit, Enqueue, Obtain, Goto, server, calls, IInv, ClientInv
<1>2. ClientStep(t)
  <2>1. Kept(t)
    BY <1>1, OthersKept, Zenon DEF IInv, TypeOK
  <2>2. QED
    BY <1>1, <2>1, Zenon DEF ClientStep, IInv, TypeOK
<1>3. Alone(t)
  BY <1>1, FrontIsAlone, Zenon
<1>4. /\ QueueInv' /\ queue'[c] # <<>> /\ Head(queue'[c]) = t
  BY <1>1, QueuePush, Zenon DEF IInv
<1>5. /\ pc'[t] = "holding" /\ ~InAcquire(t)'
      /\ ~OwnRelease(t)' /\ ~RevokeRelease(t)' /\ ~InRelease(t)' /\ ~Revoking(t)' /\ ~Retrying(t)'
      /\ ~Answered(t, "OK")' /\ ~Answered(t, "RETRY")'
      /\ cstate'[c] = "LOCKED" /\ revokee[t] = NoClient
  BY <1>1 DEF IInv, TypeOK, RevokeHandlerInv, InAcquire, RevokeRelease, OwnRelease, InRelease, Answered,
              Revoking, Retrying
<1>6. ServerConsistent' /\ MutexUnlocked'
  BY <1>1, Zenon DEF IInv, ServerConsistent, MutexUnlocked
<1>7. ClientInv'
  <2>1. \A u \in Threads \ {t} : Home[u] = c => u \notin woken'
    BY <1>1, <1>3, Zenon DEF Alone
  <2>2. QED
    BY <1>1, <1>2, <1>3, <1>4, <1>5, <2>1, ClientElsewhere, Zenon
<1>8. RevokeHandlerInv'
  <2>1. \A u \in Threads : RevokeRelease(u) => revokee[u] # c
    BY <1>1, Zenon DEF IInv, RevokeHandlerInv
  <2>2. QED
    BY <1>2, <1>5, <2>1, HandlerElsewhere, Zenon
<1>9. OwnerInv'
  <2>1. holder = c
    BY <1>1, Zenon DEF IInv, OwnerInv
  <2>2. QED
    BY <1>2, <1>5, <2>1, OwnerElsewhere, Zenon
<1>10. RevocationInv'
  BY <1>1, <1>2, <1>5, RevocationElsewhere, Zenon
<1>11. RetryInv'
  <2>1. ~Refused(c)
    BY <1>1, Zenon DEF Refused
  <2>2. QED
    BY <1>1, <1>2, <1>3, <1>5, <2>1, RetryElsewhere, Zenon
<1>12. QED
  BY <1>4, <1>6, <1>7, <1>8, <1>9, <1>10, <1>11, Zenon DEF IInv

\* The first thread waits for the end of a revoke_handler.
LEMMA AcquireWhileReleasingInv ==
    ASSUME IInv, TypeOK', NEW t \in Threads, AcquireWhileReleasing(t)
    PROVE  IInv'
<1> DEFINE c == Home[t]
<1>1. /\ c \in Clients /\ queue[c] = <<>> /\ pc[t] = "idle" /\ t \notin woken
      /\ cstate[c] = "RELEASING"
      /\ queue' = [queue EXCEPT ![c] = Append(@, t)]
      /\ cstate' = cstate
      /\ pc' = [pc EXCEPT ![t] = "waitRelease"]
      /\ UNCHANGED <<sstate, holder, retryer, waiter, revoke_later, retry_earlier,
                     stuck, woken, ret, revokee, retryee>>
  <2>1. c \in Clients /\ pc[t] = "idle" /\ t \notin woken
    BY HomeAssumption, Zenon DEF AcquireWhileReleasing, Enqueue, IInv, QueueInv, Waits
  <2>2. QED
    BY <2>1, Zenon DEF AcquireWhileReleasing, Enqueue, Goto, server, calls, IInv, ClientInv
<1>2. ClientStep(t)
  <2>1. Kept(t)
    BY <1>1, OthersKept, Zenon DEF IInv, TypeOK
  <2>2. QED
    BY <1>1, <2>1, Zenon DEF ClientStep, IInv, TypeOK
<1>3. Alone(t)
  BY <1>1, FrontIsAlone, Zenon
<1>4. /\ QueueInv' /\ queue'[c] # <<>> /\ Head(queue'[c]) = t
  BY <1>1, QueuePush, Zenon DEF IInv
<1>5. /\ pc'[t] = "waitRelease" /\ ~InAcquire(t)'
      /\ ~OwnRelease(t)' /\ ~RevokeRelease(t)' /\ ~InRelease(t)' /\ ~Revoking(t)' /\ ~Retrying(t)'
      /\ ~Answered(t, "OK")' /\ ~Answered(t, "RETRY")'
      /\ cstate'[c] = "RELEASING" /\ revokee[t] = NoClient
  BY <1>1, Zenon DEF IInv, TypeOK, RevokeHandlerInv, InAcquire, RevokeRelease, OwnRelease, InRelease, Answered,
              Revoking, Retrying
<1>6. ServerConsistent' /\ MutexUnlocked'
  BY <1>1, Zenon DEF IInv, ServerConsistent, MutexUnlocked
<1>7. ClientInv'
  <2>1. \A u \in Threads \ {t} : Home[u] = c => u \notin woken'
    BY <1>1, <1>3, Zenon DEF Alone
  <2>2. QED
    BY <1>1, <1>2, <1>3, <1>4, <1>5, <2>1, ClientElsewhere, Zenon
<1>8. RevokeHandlerInv'
  <2>1. \A d \in Clients : queue[d] # <<>> /\ pc[Head(queue[d])] = "waitRelease" =>
          pc'[Head(queue'[d])] = "waitRelease"
    BY <1>1, FrontHome, Zenon DEF IInv, TypeOK
  <2>2. \A u \in Threads : RevokeRelease(u) => revokee[u] \in Clients
    BY Zenon DEF IInv, TypeOK, RevokeRelease
  <2>3. \A u \in Threads : RevokeRelease(u)' => RevokeRelease(u) /\ u # t
    BY <1>2, <1>5, Zenon DEF ClientStep, Kept
  <2>4. \A d \in Clients \ {c} : queue'[d] = queue[d]
    BY <1>2, Zenon DEF ClientStep
  <2>5. \A u \in Threads : RevokeRelease(u) /\ queue'[revokee[u]] # <<>> =>
          pc'[Head(queue'[revokee[u]])] = "waitRelease"
    BY <1>4, <1>5, <2>1, <2>2, <2>4, Zenon DEF IInv, RevokeHandlerInv
  <2>6. \A u \in Threads : revokee'[u] # NoClient => InRelease(u)' \/ pc'[u] = "revokeSent"
    BY <1>1, <1>2, <1>5, ZenonT(60) DEF IInv, RevokeHandlerInv, ClientStep, Kept
  <2>7. \A u \in Threads : RevokeRelease(u)' =>
          /\ cstate'[revokee'[u]] = "RELEASING"
          /\ ~revoke_later'[revokee'[u]]
          /\ queue'[revokee'[u]] # <<>> => pc'[Head(queue'[revokee'[u]])] = "waitRelease"
    BY <1>1, <2>3, <2>5, Zenon DEF IInv, RevokeHandlerInv
  <2>8. \A u, v \in Threads :
          RevokeRelease(u)' /\ RevokeRelease(v)' /\ revokee'[u] = revokee'[v] => u = v
    BY <1>1, <2>3, Zenon DEF IInv, RevokeHandlerInv
  <2>9. QED
    BY <2>6, <2>7, <2>8, Zenon DEF RevokeHandlerInv
<1>9. OwnerInv'
  BY <1>2, <1>5, OwnerElsewhere, Zenon
<1>10. RevocationInv'
  BY <1>1, <1>2, <1>5, RevocationElsewhere, Zenon
<1>11. RetryInv'
  <2>1. ~Refused(c)
    BY <1>1, Zenon DEF Refused
  <2>2. QED
    BY <1>1, <1>2, <1>3, <1>5, <2>1, RetryElsewhere, Zenon
<1>12. QED
  BY <1>4, <1>6, <1>7, <1>8, <1>9, <1>10, <1>11, Zenon DEF IInv

\* A thread that is not the first of its client waits for its turn.
LEMMA AcquireQueuedInv ==
    ASSUME IInv, TypeOK', NEW t \in Threads, AcquireQueued(t)
    PROVE  IInv'
<1> DEFINE c == Home[t]
<1>1. /\ c \in Clients /\ queue[c] # <<>> /\ pc[t] = "idle" /\ t \notin woken
      /\ queue' = [queue EXCEPT ![c] = Append(@, t)]
      /\ pc' = [pc EXCEPT ![t] = "waitTurn"]
      /\ UNCHANGED <<sstate, holder, retryer, waiter, cstate, revoke_later, retry_earlier,
                     stuck, woken, ret, revokee, retryee>>
  <2>1. c \in Clients /\ pc[t] = "idle" /\ t \notin woken
    BY HomeAssumption, Zenon DEF AcquireQueued, Enqueue, IInv, QueueInv, Waits
  <2>2. QED
    BY <2>1, Zenon DEF AcquireQueued, Enqueue, Goto, server, calls
<1>2. Kept(t)
  BY <1>1, OthersKept, Zenon DEF IInv, TypeOK
<1>3. /\ QueueInv' /\ queue'[c] # <<>> /\ Head(queue'[c]) = Head(queue[c])
  BY <1>1, QueuePush, Zenon DEF IInv
<1>4. /\ pc'[t] = "waitTurn" /\ ~InAcquire(t)'
      /\ ~OwnRelease(t)' /\ ~RevokeRelease(t)' /\ ~InRelease(t)' /\ ~Revoking(t)' /\ ~Retrying(t)'
      /\ ~Answered(t, "OK")' /\ ~Answered(t, "RETRY")'
      /\ revokee[t] = NoClient
  BY <1>1, Zenon DEF IInv, TypeOK, RevokeHandlerInv, InAcquire, RevokeRelease, OwnRelease, InRelease, Answered,
              Revoking, Retrying
<1>5. \A d \in Clients :
         /\ queue'[d] = <<>> <=> queue[d] = <<>>
         /\ queue[d] # <<>> => /\ Head(queue'[d]) = Head(queue[d])
                               /\ Head(queue[d]) \in Threads \ {t}
                               /\ pc'[Head(queue[d])] = pc[Head(queue[d])]
  <2> SUFFICES ASSUME NEW d \in Clients
               PROVE  /\ queue'[d] = <<>> <=> queue[d] = <<>>
                      /\ queue[d] # <<>> => /\ Head(queue'[d]) = Head(queue[d])
                                            /\ Head(queue[d]) \in Threads \ {t}
                                            /\ pc'[Head(queue[d])] = pc[Head(queue[d])]
    OBVIOUS
  <2>1. d # c => queue'[d] = queue[d]
    BY <1>1, Zenon DEF IInv, TypeOK
  <2>2. queue'[d] = <<>> <=> queue[d] = <<>>
    BY <1>1, <1>3, <2>1, Zenon
  <2>3. queue[d] # <<>> => Head(queue'[d]) = Head(queue[d])
    BY <1>3, <2>1, Zenon
  <2>4. queue[d] # <<>> => Head(queue[d]) \in Threads /\ pc[Head(queue[d])] # "idle"
    BY FrontHome, Zenon DEF IInv
  <2>5. queue[d] # <<>> => Head(queue[d]) \in Threads \ {t}
    BY <1>1, <2>4, Zenon
  <2>6. queue[d] # <<>> => pc'[Head(queue[d])] = pc[Head(queue[d])]
    BY <1>2, <2>5, Zenon DEF Kept
  <2>7. QED
    BY <2>2, <2>3, <2>5, <2>6, Zenon
<1>6. ServerConsistent' /\ MutexUnlocked'
  BY <1>1, Zenon DEF IInv, ServerConsistent, MutexUnlocked
<1>7. ClientInv'
  <2>1. \A u \in Threads :
          /\ pc'[u] = "holding" => cstate'[Home[u]] = "LOCKED"
          /\ InAcquire(u)' => cstate'[Home[u]] = "ACQUIRING"
          /\ OwnRelease(u)' => cstate'[Home[u]] = "RELEASING" /\ revoke_later'[Home[u]]
          /\ pc'[u] = "waitTurn" /\ u \in woken' => cstate'[Home[u]] \in {"NONE", "LOCKED"}
          /\ pc'[u] = "waitRelease" =>
                cstate'[Home[u]] = IF u \in woken' THEN "NONE" ELSE "RELEASING"
    BY <1>1, <1>2, <1>4, ZenonT(60) DEF IInv, ClientInv, Kept
  <2>2. \A d \in Clients : queue'[d] = <<>> => cstate'[d] \in {"NONE", "FREE", "RELEASING"}
    BY <1>1, <1>5, Zenon DEF IInv, ClientInv
  <2>3. \A d \in Clients :
          queue'[d] # <<>> /\ pc'[Head(queue'[d])] = "waitTurn" => Head(queue'[d]) \in woken'
    BY <1>1, <1>5 DEF IInv, ClientInv
  <2>4. QED
    BY <2>1, <2>2, <2>3, Zenon DEF ClientInv
<1>8. RevokeHandlerInv'
  <2>1. \A u \in Threads : RevokeRelease(u) => revokee[u] \in Clients
    BY Zenon DEF IInv, TypeOK, RevokeRelease
  <2>2. QED
    <3>1. \A u \in Threads : RevokeRelease(u)' =>
            /\ RevokeRelease(u) /\ revokee'[u] = revokee[u] /\ revokee[u] \in Clients
      BY <1>1, <1>2, <1>4, <2>1, Zenon DEF Kept
    <3>2. \A u \in Threads : RevokeRelease(u)' =>
            /\ cstate'[revokee'[u]] = "RELEASING"
            /\ ~revoke_later'[revokee'[u]]
            /\ queue'[revokee'[u]] # <<>> => pc'[Head(queue'[revokee'[u]])] = "waitRelease"
      BY <1>1, <1>5, <3>1, Zenon DEF IInv, RevokeHandlerInv
    <3>3. \A u \in Threads : revokee'[u] # NoClient => InRelease(u)' \/ pc'[u] = "revokeSent"
      BY <1>1, <1>2, <1>4, Zenon DEF IInv, RevokeHandlerInv, Kept
    <3>4. \A u, v \in Threads : RevokeRelease(u)' /\ RevokeRelease(v)' =>
            RevokeRelease(u) /\ RevokeRelease(v)
      BY <3>1, Zenon
    <3>5. QED
      BY <3>1, <3>2, <3>3, <3>4, Zenon DEF IInv, RevokeHandlerInv
<1>9. OwnerInv'
  BY <1>1, <1>2, <1>4, Zenon DEF IInv, OwnerInv, Kept
<1>10. RevocationInv'
  BY <1>1, <1>2, <1>4, Zenon DEF IInv, RevocationInv, Kept
<1>11. RetryInv'
  <2>1. \A d \in Clients : (Refused(d)' <=> Refused(d)) /\ (Parked(d)' <=> Parked(d))
    BY <1>1, <1>2, <1>5, ParkedBehind, Zenon
  <2>2. QED
    BY <1>1, <1>2, <1>4, <2>1, RetryKept, Zenon DEF IInv
<1>12. QED
  BY <1>3, <1>6, <1>7, <1>8, <1>9, <1>10, <1>11, Zenon DEF IInv

\* The thread that waited for the end of a revoke_handler calls the server.
LEMMA ResumeAfterReleaseInv ==
    ASSUME IInv, TypeOK', NEW t \in Threads, ResumeAfterRelease(t)
    PROVE  IInv'
<1> DEFINE c == Home[t]
<1>1. /\ c \in Clients /\ pc[t] = "waitRelease" /\ t \in woken /\ cstate[c] = "NONE" /\ holder # c
      /\ cstate' = [cstate EXCEPT ![c] = "ACQUIRING"]
      /\ pc' = [pc EXCEPT ![t] = "acquire"]
      /\ woken' = woken \ {t}
      /\ UNCHANGED <<sstate, holder, retryer, waiter, revoke_later, retry_earlier, queue,
                     stuck, ret, revokee, retryee>>
  <2>1. c \in Clients /\ pc[t] = "waitRelease" /\ t \in woken /\ cstate[c] = "NONE" /\ holder # c
    BY HomeAssumption, Zenon DEF ResumeAfterRelease, Resume, IInv, ClientInv, OwnerInv
  <2>2. QED
    BY <2>1, Zenon DEF ResumeAfterRelease, Resume, CallAcquire, Goto, server, calls
<1>2. ClientStep(t)
  <2>1. Kept(t)
    BY <1>1, OthersKept, Zenon DEF IInv, TypeOK
  <2>2. QED
    BY <1>1, <2>1, Zenon DEF ClientStep, IInv, TypeOK
<1>3. Alone(t) /\ queue[c] # <<>> /\ Head(queue[c]) = t
  BY <1>1, FrontIsAlone, Zenon DEF IInv, QueueInv
<1>4. QueueInv'
  BY <1>1, QueueResume, Zenon DEF IInv
<1>5. /\ pc'[t] = "acquire" /\ InAcquire(t)'
      /\ ~OwnRelease(t)' /\ ~RevokeRelease(t)' /\ ~InRelease(t)' /\ ~Revoking(t)' /\ ~Retrying(t)'
      /\ ~Answered(t, "OK")' /\ ~Answered(t, "RETRY")'
      /\ cstate'[c] = "ACQUIRING" /\ revokee[t] = NoClient
  BY <1>1, Zenon DEF IInv, TypeOK, RevokeHandlerInv, InAcquire, RevokeRelease, OwnRelease, InRelease, Answered,
              Revoking, Retrying
<1>6. ServerConsistent' /\ MutexUnlocked'
  BY <1>1, Zenon DEF IInv, ServerConsistent, MutexUnlocked
<1>7. ClientInv'
  <2>1. \A u \in Threads \ {t} : Home[u] = c => u \notin woken'
    BY <1>1, <1>3, Zenon DEF Alone
  <2>2. QED
    BY <1>1, <1>2, <1>3, <1>5, <2>1, ClientElsewhere, Zenon
<1>8. RevokeHandlerInv'
  <2>1. \A u \in Threads : RevokeRelease(u) => revokee[u] # c
    BY <1>1, Zenon DEF IInv, RevokeHandlerInv
  <2>2. QED
    BY <1>2, <1>5, <2>1, HandlerElsewhere, Zenon
<1>9. OwnerInv'
  BY <1>1, <1>2, <1>5, OwnerElsewhere, Zenon
<1>10. RevocationInv'
  <2>1. ~revoke_later[c]
    BY <1>1, Zenon DEF IInv, RevocationInv
  <2>2. QED
    BY <1>1, <1>2, <1>5, <2>1, RevocationElsewhere, Zenon
<1>11. RetryInv'
  <2>1. ~Refused(c)
    BY <1>1, <1>3, Zenon DEF Refused, Answered, InAcquire, RevokeRelease, InRelease
  <2>2. QED
    BY <1>1, <1>2, <1>3, <1>5, <2>1, RetryElsewhere, Zenon
<1>12. QED
  BY <1>4, <1>6, <1>7, <1>8, <1>9, <1>10, <1>11, Zenon DEF IInv

\* The thread whose turn it is finds the lock given back, and calls the server ...
LEMMA ResumeTurnMissInv ==
    ASSUME IInv, TypeOK', NEW t \in Threads, ResumeTurn(t), cstate[Home[t]] = "NONE"
    PROVE  IInv'
<1> DEFINE c == Home[t]
<1>1. /\ c \in Clients /\ pc[t] = "waitTurn" /\ t \in woken /\ cstate[c] = "NONE" /\ holder # c
      /\ cstate' = [cstate EXCEPT ![c] = "ACQUIRING"]
      /\ pc' = [pc EXCEPT ![t] = "acquire"]
      /\ woken' = woken \ {t}
      /\ UNCHANGED <<sstate, holder, retryer, waiter, revoke_later, retry_earlier, queue,
                     stuck, ret, revokee, retryee>>
  <2>1. c \in Clients /\ pc[t] = "waitTurn" /\ t \in woken /\ cstate[c] = "NONE" /\ holder # c
    BY HomeAssumption DEF ResumeTurn, Resume, IInv, OwnerInv
  <2>2. QED
    BY <2>1, Zenon DEF ResumeTurn, Resume, CallAcquire, Goto, server, calls
<1>2. ClientStep(t)
  <2>1. Kept(t)
    BY <1>1, OthersKept, Zenon DEF IInv, TypeOK
  <2>2. QED
    BY <1>1, <2>1, Zenon DEF ClientStep, IInv, TypeOK
<1>3. Alone(t) /\ queue[c] # <<>> /\ Head(queue[c]) = t
  BY <1>1, FrontIsAlone, Zenon DEF IInv, QueueInv
<1>4. QueueInv'
  BY <1>1, QueueResume, Zenon DEF IInv
<1>5. /\ pc'[t] = "acquire" /\ InAcquire(t)'
      /\ ~OwnRelease(t)' /\ ~RevokeRelease(t)' /\ ~InRelease(t)' /\ ~Revoking(t)' /\ ~Retrying(t)'
      /\ ~Answered(t, "OK")' /\ ~Answered(t, "RETRY")'
      /\ cstate'[c] = "ACQUIRING" /\ revokee[t] = NoClient
  BY <1>1, Zenon DEF IInv, TypeOK, RevokeHandlerInv, InAcquire, RevokeRelease, OwnRelease, InRelease, Answered,
              Revoking, Retrying
<1>6. ServerConsistent' /\ MutexUnlocked'
  BY <1>1, Zenon DEF IInv, ServerConsistent, MutexUnlocked
<1>7. ClientInv'
  <2>1. \A u \in Threads \ {t} : Home[u] = c => u \notin woken'
    BY <1>1, <1>3, Zenon DEF Alone
  <2>2. QED
    BY <1>1, <1>2, <1>3, <1>5, <2>1, ClientElsewhere, Zenon
<1>8. RevokeHandlerInv'
  <2>1. \A u \in Threads : RevokeRelease(u) => revokee[u] # c
    BY <1>1, Zenon DEF IInv, RevokeHandlerInv
  <2>2. QED
    BY <1>2, <1>5, <2>1, HandlerElsewhere, Zenon
<1>9. OwnerInv'
  BY <1>1, <1>2, <1>5, OwnerElsewhere, Zenon
<1>10. RevocationInv'
  <2>1. ~revoke_later[c]
    BY <1>1, Zenon DEF IInv, RevocationInv
  <2>2. QED
    BY <1>1, <1>2, <1>5, <2>1, RevocationElsewhere, Zenon
<1>11. RetryInv'
  <2>1. ~Refused(c)
    BY <1>1, <1>3, Zenon DEF Refused, Answered, InAcquire, RevokeRelease, InRelease
  <2>2. QED
    BY <1>1, <1>2, <1>3, <1>5, <2>1, RetryElsewhere, Zenon
<1>12. QED
  BY <1>4, <1>6, <1>7, <1>8, <1>9, <1>10, <1>11, Zenon DEF IInv

\* ... or finds it handed over.
LEMMA ResumeTurnHitInv ==
    ASSUME IInv, TypeOK', NEW t \in Threads, ResumeTurn(t), cstate[Home[t]] = "LOCKED"
    PROVE  IInv'
<1> DEFINE c == Home[t]
<1>1. /\ c \in Clients /\ pc[t] = "waitTurn" /\ t \in woken /\ cstate[c] = "LOCKED" /\ holder = c
      /\ cstate' = [cstate EXCEPT ![c] = "LOCKED"]
      /\ pc' = [pc EXCEPT ![t] = "holding"]
      /\ woken' = woken \ {t}
      /\ UNCHANGED <<sstate, holder, retryer, waiter, revoke_later, retry_earlier, queue,
                     stuck, ret, revokee, retryee>>
  <2>1. c \in Clients /\ pc[t] = "waitTurn" /\ t \in woken /\ cstate[c] = "LOCKED" /\ holder = c
    BY HomeAssumption, Zenon DEF ResumeTurn, Resume, IInv, OwnerInv
  <2>2. QED
    BY <2>1, Zenon DEF ResumeTurn, Resume, Obtain, Goto, server, calls
<1>2. ClientStep(t)
  <2>1. Kept(t)
    BY <1>1, OthersKept, Zenon DEF IInv, TypeOK
  <2>2. QED
    BY <1>1, <2>1, Zenon DEF ClientStep, IInv, TypeOK
<1>3. Alone(t) /\ queue[c] # <<>> /\ Head(queue[c]) = t
  BY <1>1, FrontIsAlone, Zenon DEF IInv, QueueInv
<1>4. QueueInv'
  BY <1>1, QueueResume, Zenon DEF IInv
<1>5. /\ pc'[t] = "holding" /\ ~InAcquire(t)'
      /\ ~OwnRelease(t)' /\ ~RevokeRelease(t)' /\ ~InRelease(t)' /\ ~Revoking(t)' /\ ~Retrying(t)'
      /\ ~Answered(t, "OK")' /\ ~Answered(t, "RETRY")'
      /\ cstate'[c] = "LOCKED" /\ revokee[t] = NoClient
  BY <1>1, Zenon DEF IInv, TypeOK, RevokeHandlerInv, InAcquire, RevokeRelease, OwnRelease, InRelease, Answered,
              Revoking, Retrying
<1>6. ServerConsistent' /\ MutexUnlocked'
  BY <1>1, Zenon DEF IInv, ServerConsistent, MutexUnlocked
<1>7. ClientInv'
  <2>1. \A u \in Threads \ {t} : Home[u] = c => u \notin woken'
    BY <1>1, <1>3, Zenon DEF Alone
  <2>2. QED
    BY <1>1, <1>2, <1>3, <1>5, <2>1, ClientElsewhere, Zenon
<1>8. RevokeHandlerInv'
  <2>1. \A u \in Threads : RevokeRelease(u) => revokee[u] # c
    BY <1>1, Zenon DEF IInv, RevokeHandlerInv
  <2>2. QED
    BY <1>2, <1>5, <2>1, HandlerElsewhere, Zenon
<1>9. OwnerInv'
  BY <1>1, <1>2, <1>5, OwnerElsewhere, Zenon
<1>10. RevocationInv'
  BY <1>1, <1>2, <1>5, RevocationElsewhere, Zenon
<1>11. RetryInv'
  <2>1. ~Refused(c)
    BY <1>1, <1>3, Zenon DEF Refused, Answered, InAcquire, RevokeRelease, InRelease
  <2>2. QED
    BY <1>1, <1>2, <1>3, <1>5, <2>1, RetryElsewhere, Zenon
<1>12. QED
  BY <1>4, <1>6, <1>7, <1>8, <1>9, <1>10, <1>11, Zenon DEF IInv

\* The acquire RPC returned OK: the client owns the lock.
LEMMA AcquireReturnsOKInv ==
    ASSUME IInv, TypeOK', NEW t \in Threads, AcquireReturnsOK(t)
    PROVE  IInv'
<1> DEFINE c == Home[t]
<1>1. /\ c \in Clients /\ pc[t] = "acquireReply" /\ ret[t] = "OK" /\ t \notin woken /\ cstate[c] = "ACQUIRING" /\ holder = c
      /\ cstate' = [cstate EXCEPT ![c] = "LOCKED"]
      /\ pc' = [pc EXCEPT ![t] = "holding"]
      /\ woken' = woken
      /\ UNCHANGED <<sstate, holder, retryer, waiter, revoke_later, retry_earlier, queue,
                     stuck, ret, revokee, retryee>>
  <2>1. c \in Clients /\ pc[t] = "acquireReply" /\ ret[t] = "OK" /\ InAcquire(t) /\ Answered(t, "OK") /\ t \notin woken
    BY HomeAssumption, Zenon DEF AcquireReturnsOK, AcquireReturns, Answered, InAcquire, IInv, QueueInv, Waits
  <2>2. cstate[c] = "ACQUIRING" /\ holder = c
    BY <2>1, Zenon DEF IInv, ClientInv, OwnerInv
  <2>3. QED
    BY <2>1, <2>2, Zenon DEF AcquireReturnsOK, AcquireReturns, Obtain, Goto, server, calls
<1>2. ClientStep(t)
  <2>1. Kept(t)
    BY <1>1, OthersKept, Zenon DEF IInv, TypeOK
  <2>2. QED
    BY <1>1, <2>1, Zenon DEF ClientStep, IInv, TypeOK
<1>3. Alone(t) /\ queue[c] # <<>> /\ Head(queue[c]) = t
  BY <1>1, FrontIsAlone, Zenon DEF IInv, QueueInv
<1>4. QueueInv'
  BY <1>1, FrontMoves, Zenon DEF IInv
<1>5. /\ pc'[t] = "holding" /\ ~InAcquire(t)'
      /\ ~OwnRelease(t)' /\ ~RevokeRelease(t)' /\ ~InRelease(t)' /\ ~Revoking(t)' /\ ~Retrying(t)'
      /\ ~Answered(t, "OK")' /\ ~Answered(t, "RETRY")'
      /\ cstate'[c] = "LOCKED" /\ revokee[t] = NoClient
  BY <1>1, Zenon DEF IInv, TypeOK, RevokeHandlerInv, InAcquire, RevokeRelease, OwnRelease, InRelease, Answered,
              Revoking, Retrying
<1>6. ServerConsistent' /\ MutexUnlocked'
  BY <1>1, Zenon DEF IInv, ServerConsistent, MutexUnlocked
<1>7. ClientInv'
  <2>1. \A u \in Threads \ {t} : Home[u] = c => u \notin woken'
    BY <1>1, <1>3, Zenon DEF Alone
  <2>2. QED
    BY <1>1, <1>2, <1>3, <1>5, <2>1, ClientElsewhere, Zenon
<1>8. RevokeHandlerInv'
  <2>1. \A u \in Threads : RevokeRelease(u) => revokee[u] # c
    BY <1>1, Zenon DEF IInv, RevokeHandlerInv
  <2>2. QED
    BY <1>2, <1>5, <2>1, HandlerElsewhere, Zenon
<1>9. OwnerInv'
  BY <1>1, <1>2, <1>5, OwnerElsewhere, Zenon
<1>10. RevocationInv'
  BY <1>1, <1>2, <1>5, RevocationElsewhere, Zenon
<1>11. RetryInv'
  <2>1. ~Refused(c)
    BY <1>1, <1>3, Zenon DEF Refused, Answered, InAcquire, RevokeRelease, InRelease
  <2>2. QED
    BY <1>1, <1>2, <1>3, <1>5, <2>1, RetryElsewhere, Zenon
<1>12. QED
  BY <1>4, <1>6, <1>7, <1>8, <1>9, <1>10, <1>11, Zenon DEF IInv

\* release() of a lock that was revoked meanwhile.
LEMMA ReleaseRevokedInv ==
    ASSUME IInv, TypeOK', NEW t \in Threads, ReleaseRevoked(t)
    PROVE  IInv'
<1> DEFINE c == Home[t]
<1>1. /\ c \in Clients /\ pc[t] = "holding" /\ revoke_later[c] /\ t \notin woken /\ cstate[c] = "LOCKED"
      /\ sstate = "REVOKING" /\ holder = c /\ \A u \in Threads : ~Revoking(u)
      /\ cstate' = [cstate EXCEPT ![c] = "RELEASING"]
      /\ pc' = [pc EXCEPT ![t] = "release"]
      /\ woken' = woken
      /\ UNCHANGED <<sstate, holder, retryer, waiter, revoke_later, retry_earlier, queue,
                     stuck, ret, revokee, retryee>>
  <2>1. c \in Clients /\ pc[t] = "holding" /\ revoke_later[c] /\ t \notin woken
    BY HomeAssumption, Zenon DEF ReleaseRevoked, IInv, QueueInv, Waits
  <2>2. cstate[c] = "LOCKED"
    BY <2>1, Zenon DEF IInv, ClientInv
  <2>3. sstate = "REVOKING" /\ holder = c /\ \A u \in Threads : ~Revoking(u)
    BY <2>1, <2>2, Zenon DEF IInv, RevocationInv
  <2>4. QED
    BY <2>1, <2>2, <2>3, Zenon DEF ReleaseRevoked, Goto, server, calls
<1>2. ClientStep(t)
  <2>1. Kept(t)
    BY <1>1, OthersKept, Zenon DEF IInv, TypeOK
  <2>2. QED
    BY <1>1, <2>1, Zenon DEF ClientStep, IInv, TypeOK
<1>3. Alone(t) /\ queue[c] # <<>> /\ Head(queue[c]) = t
  BY <1>1, FrontIsAlone, Zenon DEF IInv, QueueInv
<1>4. QueueInv'
  BY <1>1, FrontMoves, Zenon DEF IInv
<1>5. /\ pc'[t] = "release" /\ ~InAcquire(t)'
      /\ OwnRelease(t)' /\ ~RevokeRelease(t)' /\ InRelease(t)' /\ Revoking(t)' /\ ~Retrying(t)'
      /\ ~Answered(t, "OK")' /\ ~Answered(t, "RETRY")'
      /\ cstate'[c] = "RELEASING" /\ revokee[t] = NoClient
      /\ Releaser(t)' = c
  <2>1. revokee[t] = NoClient /\ revokee'[t] = NoClient
    BY <1>1, Zenon DEF IInv, RevokeHandlerInv, InRelease
  <2>2. pc'[t] = "release" /\ cstate'[c] = "RELEASING"
    BY <1>1, Zenon DEF IInv, TypeOK
  <2>3. QED
    BY <2>1, <2>2, Zenon DEF InAcquire, RevokeRelease, OwnRelease, InRelease, Answered, Revoking, Retrying, Releaser
<1>6. ServerConsistent' /\ MutexUnlocked'
  BY <1>1, Zenon DEF IInv, ServerConsistent, MutexUnlocked
<1>7. ClientInv'
  <2>1. \A u \in Threads \ {t} : Home[u] = c => u \notin woken'
    BY <1>1, <1>3, Zenon DEF Alone
  <2>2. QED
    BY <1>1, <1>2, <1>3, <1>5, <2>1, ClientElsewhere, Zenon
<1>8. RevokeHandlerInv'
  <2>1. \A u \in Threads : RevokeRelease(u) => revokee[u] # c
    BY <1>1, Zenon DEF IInv, RevokeHandlerInv
  <2>2. QED
    BY <1>2, <1>5, <2>1, HandlerElsewhere, Zenon
<1>9. OwnerInv'
  BY <1>1, <1>2, <1>5, OwnerElsewhere, Zenon
<1>10. RevocationInv'
  <2>1. \A u \in Threads : Revoking(u)' => u = t
    BY <1>1, <1>2, Zenon DEF ClientStep, Kept
  <2>2. \A d \in Clients : revoke_later'[d] /\ cstate'[d] # "RELEASING" => FALSE
    BY <1>1, <1>2, <1>5, Zenon DEF ClientStep, IInv, RevocationInv
  <2>3. QED
    BY <1>5, <2>1, <2>2, Zenon DEF RevocationInv, Revoking
<1>11. RetryInv'
  <2>1. ~Refused(c)
    BY <1>1, <1>3, Zenon DEF Refused, Answered, InAcquire, RevokeRelease, InRelease
  <2>2. QED
    BY <1>1, <1>2, <1>3, <1>5, <2>1, RetryElsewhere, Zenon
<1>12. QED
  BY <1>4, <1>6, <1>7, <1>8, <1>9, <1>10, <1>11, Zenon DEF IInv

\* The thread whose turn it is takes the cached lock or calls the server.
LEMMA ResumeTurnInv ==
    ASSUME IInv, TypeOK', NEW t \in Threads, ResumeTurn(t)
    PROVE  IInv'
<1>1. cstate[Home[t]] \in {"NONE", "LOCKED"}
  BY Zenon DEF ResumeTurn, Resume, IInv, ClientInv
<1>2. QED
  BY <1>1, ResumeTurnMissInv, ResumeTurnHitInv, Zenon

\* The acquire RPC returned RETRY before the retry arrived: the thread waits.
LEMMA AcquireReturnsRetryInv ==
    ASSUME IInv, TypeOK', NEW t \in Threads, AcquireReturnsRetry(t)
    PROVE  IInv'
<1>1. /\ pc[t] = "acquireReply" /\ ret[t] = "RETRY" /\ t \notin woken /\ ~retry_earlier[Home[t]]
      /\ pc' = [pc EXCEPT ![t] = "waitRetry"]
      /\ UNCHANGED <<sstate, holder, retryer, waiter, cstate, revoke_later, retry_earlier,
                     queue, stuck, woken, ret, revokee, retryee>>
  BY Zenon DEF AcquireReturnsRetry, AcquireReturns, Goto, server, calls, IInv, QueueInv, Waits
<1>2. Kept(t)
  BY <1>1, OthersKept, Zenon DEF IInv, TypeOK
<1>3. /\ pc'[t] = "waitRetry" /\ revokee'[t] = revokee[t]
      /\ InAcquire(t) /\ InAcquire(t)' /\ ~Revoking(t)' /\ ~Retrying(t)'
      /\ ~OwnRelease(t)' /\ ~RevokeRelease(t)' /\ ~InRelease(t)' /\ ~InRelease(t)
      /\ ~Answered(t, "OK")'
      /\ Answered(t, "RETRY") /\ Answered(t, "RETRY")'
  BY <1>1, Zenon DEF IInv, TypeOK, InAcquire, RevokeRelease, OwnRelease, InRelease, Answered,
              Revoking, Retrying
<1>4. \A c \in Clients : (Refused(c)' <=> Refused(c)) /\ (Parked(c)' <=> Parked(c))
  BY <1>1, <1>2, <1>3, ParkedSame, Zenon DEF IInv
<1>5. ServerConsistent' /\ MutexUnlocked'
  BY <1>1, Zenon DEF IInv, ServerConsistent, MutexUnlocked
<1>6. QueueInv'
  BY <1>1, FrontMoves, Zenon DEF IInv
<1>7. ClientInv'
  BY <1>1, <1>2, <1>3, ClientSame, Zenon DEF IInv
<1>8. RevokeHandlerInv'
  <2>1. \A u \in Threads : RevokeRelease(u)' => ~revoke_later[revokee[u]]
    BY <1>2, <1>3, Zenon DEF IInv, RevokeHandlerInv, Kept
  <2>2. revokee[t] = NoClient
    BY <1>1, <1>3, Zenon DEF IInv, RevokeHandlerInv
  <2>3. QED
    BY <1>1, <1>2, <1>3, <2>1, <2>2, HandlerSame, Zenon DEF IInv
<1>9. OwnerInv'
  BY <1>1, <1>2, <1>3, OwnerSame, Zenon DEF IInv
<1>10. RevocationInv'
  BY <1>1, <1>2, <1>3, Zenon DEF IInv, RevocationInv, Kept
<1>11. RetryInv'
  BY <1>1, <1>2, <1>3, RetrySame, Zenon DEF IInv
<1>12. QED
  BY <1>5, <1>6, <1>7, <1>8, <1>9, <1>10, <1>11, Zenon DEF IInv

\* The refused thread has been told to retry, and asks again.
LEMMA AskAgainInv ==
    ASSUME IInv, TypeOK', NEW t \in Threads, CanLock(Home[t]), TryAgain(t),
           UNCHANGED <<server, revoke_later, queue, calls>>,
           \/ pc[t] = "waitRetry" /\ t \in woken /\ woken' = woken \ {t}
           \/ pc[t] = "acquireReply" /\ ret[t] = "RETRY" /\ retry_earlier[Home[t]] /\ woken' = woken
    PROVE  IInv'
<1> DEFINE c == Home[t]
<1>1. /\ c \in Clients /\ InAcquire(t) /\ revokee[t] = NoClient /\ cstate[c] = "ACQUIRING"
      /\ pc[t] \notin {"idle", "waitTurn"} /\ retry_earlier[c]
      /\ pc[t] \in {"waitRetry", "acquireReply"}
  <2>1. pc[t] \in {"waitRetry", "acquireReply"} /\ retry_earlier[c]
    BY Zenon DEF IInv, RetryInv
  <2>2. InAcquire(t) /\ ~InRelease(t) /\ pc[t] # "revokeSent"
    BY <2>1, Zenon DEF InAcquire, InRelease
  <2>3. QED
    BY <2>1, <2>2, HomeAssumption, Zenon DEF IInv, ClientInv, RevokeHandlerInv
<1>2. /\ retryer = c /\ c \notin waiter /\ holder # c
      /\ \A u \in Threads : ~Retrying(u)
  <2>1. retryer = c /\ c \notin waiter /\ Refused(c) /\ \A u \in Threads : ~Retrying(u)
    BY <1>1, Zenon DEF IInv, RetryInv
  <2>2. queue[c] # <<>> /\ Head(queue[c]) = t
    BY <1>1, FrontThread, Zenon DEF IInv
  <2>3. QED
    BY <2>1, <2>2, Zenon DEF Refused, IInv, OwnerInv
<1>3. /\ pc' = [pc EXCEPT ![t] = "acquire"]
      /\ cstate' = [cstate EXCEPT ![c] = "ACQUIRING"]
      /\ retry_earlier' = [retry_earlier EXCEPT ![c] = FALSE]
      /\ woken' = woken \ {t}
      /\ UNCHANGED <<sstate, holder, retryer, waiter, revoke_later, queue, stuck, ret, revokee, retryee>>
  <2>1. pc[t] = "acquireReply" => t \notin woken
    BY Zenon DEF IInv, QueueInv, Waits
  <2>2. pc[t] = "acquireReply" => woken' = woken \ {t}
    BY <2>1, Zenon
  <2>3. QED
    BY <1>1, <2>2, Zenon DEF TryAgain, CallAcquire, Goto, server, calls
<1>4. Kept(t) /\ ClientStep(t)
  <2>1. Kept(t)
    BY <1>3, OthersKept, Zenon DEF IInv, TypeOK
  <2>2. QED
    BY <1>3, <2>1, Zenon DEF ClientStep, IInv, TypeOK
<1>5. /\ Alone(t) /\ queue[c] # <<>> /\ Head(queue[c]) = t
  BY <1>1, FrontIsAlone, FrontThread, Zenon DEF IInv
<1>6. /\ pc'[t] = "acquire" /\ InAcquire(t)' /\ ~Revoking(t)' /\ ~Retrying(t)'
      /\ ~OwnRelease(t)' /\ ~RevokeRelease(t)' /\ ~InRelease(t)'
      /\ ~Answered(t, "OK")' /\ ~Answered(t, "RETRY")'
      /\ cstate'[c] = "ACQUIRING"
  BY <1>1, <1>3, Zenon DEF IInv, TypeOK, InAcquire, RevokeRelease, OwnRelease, InRelease, Answered,
              Revoking, Retrying
<1>7. ServerConsistent' /\ MutexUnlocked'
  BY <1>3, Zenon DEF IInv, ServerConsistent, MutexUnlocked
<1>8. QueueInv'
  <2>1. CASE t \in woken
    BY <1>3, <2>1, QueueResume, Zenon DEF IInv
  <2>2. CASE t \notin woken
    <3>1. woken' = woken
      BY <1>3, <2>2, Zenon
    <3>2. QED
      BY <1>1, <1>3, <2>2, <3>1, FrontMoves, Zenon DEF IInv
  <2>3. QED
    BY <2>1, <2>2, Zenon
<1>9. ClientInv'
  <2>1. \A u \in Threads \ {t} : Home[u] = c => u \notin woken'
    BY <1>3, <1>5, Zenon DEF Alone
  <2>2. queue'[c] = queue[c]
    BY <1>3, Zenon
  <2>3. QED
    BY <1>4, <1>5, <1>6, <2>1, <2>2, ClientElsewhere, Zenon
<1>10. RevokeHandlerInv'
  <2>1. \A u \in Threads : RevokeRelease(u) => revokee[u] # c
    BY <1>1, Zenon DEF IInv, RevokeHandlerInv
  <2>2. QED
    BY <1>1, <1>4, <1>6, <2>1, HandlerElsewhere, Zenon
<1>11. OwnerInv'
  BY <1>2, <1>4, <1>6, OwnerElsewhere, Zenon
<1>12. RevocationInv'
  BY <1>1, <1>3, <1>4, <1>6, RevocationElsewhere, Zenon
<1>13. RetryInv'
  <2>1. \A d \in Clients \ {c} : (Refused(d)' <=> Refused(d)) /\ (Parked(d)' <=> Parked(d))
    BY <1>4, ParkedKept, Zenon DEF IInv, ClientStep
  <2>2. \A d \in waiter' : Parked(d)'
    <3>1. waiter' = waiter /\ \A d \in waiter : d \in Clients \ {c} /\ Parked(d)
      BY <1>2, <1>3, ZenonT(60) DEF IInv, TypeOK, RetryInv
    <3>2. QED
      BY <2>1, <3>1, Zenon
  <2>3. \A u \in Threads : ~Retrying(u)'
    BY <1>2, <1>4, <1>6, Zenon DEF Kept
  <2>4. \A u \in Threads : pc'[u] = "waitRetry" => (u \in woken' <=> retry_earlier'[Home[u]])
    <3>1. \A u \in Threads : pc'[u] = "waitRetry" => pc[u] = "waitRetry" /\ Home[u] # c
      BY <1>4, <1>5, <1>6, Zenon DEF Kept, Alone
    <3>2. QED
      BY <1>4, <3>1, HomeAssumption, Zenon DEF ClientStep, IInv, RetryInv
  <2>5. \A d \in Clients : ~retry_earlier'[d]
    BY <1>2, <1>3, Zenon DEF IInv, RetryInv, TypeOK
  <2>6. QED
    BY <2>2, <2>3, <2>4, <2>5, Zenon DEF RetryInv, Retrying
<1>14. QED
  BY <1>7, <1>8, <1>9, <1>10, <1>11, <1>12, <1>13, Zenon DEF IInv

\* The thread that was signalled by retry_handler asks the server again.
LEMMA ResumeRetryInv ==
    ASSUME IInv, TypeOK', NEW t \in Threads, ResumeRetry(t)
    PROVE  IInv'
  BY AskAgainInv, Zenon DEF ResumeRetry, Resume

\* The RETRY reply that comes after its retry leads to another acquire at once.
LEMMA AcquireReturnsLateInv ==
    ASSUME IInv, TypeOK', NEW t \in Threads, AcquireReturnsLate(t)
    PROVE  IInv'
  BY AskAgainInv, Zenon DEF AcquireReturnsLate, AcquireReturns

\* The front thread leaves the queue.  The client keeps the lock, for its next
\* thread if there is one, unless it has just been given back.
LEMMA DequeueInv ==
    ASSUME IInv, TypeOK', NEW t \in Threads, NEW st \in {"NONE", "FREE"}, Dequeue(t, st),
           \/ pc[t] = "holding" /\ ~revoke_later[Home[t]] /\ st = "FREE"
           \/ pc[t] = "releaseReply" /\ revokee[t] = NoClient /\ st = "NONE"
    PROVE  IInv'
<1> DEFINE c == Home[t]
           q == queue'[c]
           f == Head(q)
<1>1. /\ c \in Clients /\ t \notin woken /\ revokee[t] = NoClient
      /\ st = "FREE" => ~revoke_later[c] /\ cstate[c] = "LOCKED" /\ holder = c
      /\ st = "NONE" => revoke_later[c] /\ cstate[c] = "RELEASING" /\ holder # c
      /\ \A u \in Threads : RevokeRelease(u) => revokee[u] # c
  <2>1. c \in Clients /\ t \notin woken
    BY HomeAssumption, Zenon DEF IInv, QueueInv, Waits
  <2>2. revokee[t] = NoClient
    BY Zenon DEF IInv, RevokeHandlerInv, InRelease
  <2>3. st = "FREE" => ~revoke_later[c] /\ cstate[c] = "LOCKED" /\ holder = c
    BY <2>1, Zenon DEF IInv, ClientInv, OwnerInv
  <2>4. st = "NONE" => revoke_later[c] /\ cstate[c] = "RELEASING" /\ holder # c
    BY <2>1, <2>2, Zenon DEF IInv, ClientInv, OwnerInv, OwnRelease, InRelease, Releaser
  <2>5. QED
    BY <2>1, <2>2, <2>3, <2>4, Zenon DEF IInv, RevokeHandlerInv
<1>2. /\ queue' = [queue EXCEPT ![c] = Tail(@)]
      /\ pc' = [pc EXCEPT ![t] = "idle"]
      /\ cstate' = [cstate EXCEPT ![c] = IF q # <<>> /\ ~revoke_later[c] THEN "LOCKED" ELSE st]
      /\ revoke_later' = [revoke_later EXCEPT ![c] = FALSE]
      /\ SignalFront(Tail(queue[c]))
      /\ UNCHANGED <<sstate, holder, retryer, waiter, retry_earlier, stuck, ret, revokee, retryee>>
  BY <1>1, Zenon DEF Dequeue, Goto, server, calls, IInv, TypeOK
<1>3. /\ QueueInv'
      /\ q = <<>> => woken' = woken
      /\ q # <<>> => f \in Threads \ {t} /\ Home[f] = c /\ pc[f] = "waitTurn" /\ woken' = woken \cup {f}
  BY <1>1, <1>2, QueuePop, Zenon DEF IInv
<1>4. ClientStep(t)
  <2>1. Kept(t)
    BY <1>2, OthersKept, Zenon DEF IInv, TypeOK
  <2>2. \A u \in Threads : Home[u] # c => (u \in woken' <=> u \in woken)
    BY <1>3, Zenon
  <2>3. QED
    BY <1>2, <2>1, <2>2, Zenon DEF ClientStep, IInv, TypeOK
<1>5. Alone(t)
  BY FrontIsAlone, Zenon
<1>6. /\ pc'[t] = "idle" /\ ~InAcquire(t)' /\ ~Revoking(t)' /\ ~Retrying(t)'
      /\ ~OwnRelease(t)' /\ ~RevokeRelease(t)' /\ ~InRelease(t)'
      /\ ~Answered(t, "OK")' /\ ~Answered(t, "RETRY")'
      /\ ~revoke_later'[c]
      /\ st = "FREE" => cstate'[c] = (IF q # <<>> THEN "LOCKED" ELSE "FREE")
      /\ st = "NONE" => cstate'[c] = "NONE"
  BY <1>1, <1>2, Zenon DEF IInv, TypeOK, InAcquire, RevokeRelease, OwnRelease, InRelease, Answered,
              Revoking, Retrying
<1>7. ServerConsistent' /\ MutexUnlocked'
  BY <1>2, Zenon DEF IInv, ServerConsistent, MutexUnlocked
<1>8. ClientInv'
  <2>1. \A u \in Threads \ {t} : Home[u] = c /\ u \in woken' => cstate'[c] \in {"NONE", "LOCKED"}
    BY <1>3, <1>5, <1>6, Zenon DEF Alone
  <2>2. q = <<>> => cstate'[c] \in {"NONE", "FREE", "RELEASING"}
    BY <1>6, Zenon
  <2>3. q # <<>> => f \in woken'
    BY <1>3, Zenon
  <2>4. QED
    BY <1>4, <1>5, <1>6, <2>1, <2>2, <2>3, ClientElsewhere, Zenon
<1>9. RevokeHandlerInv'
  BY <1>1, <1>4, <1>6, HandlerElsewhere, Zenon
<1>10. OwnerInv'
  <2>1. /\ cstate'[c] \in {"FREE", "LOCKED"} => holder = c
        /\ cstate'[c] = "NONE" => holder # c
    BY <1>1, <1>6, Zenon
  <2>2. QED
    BY <1>4, <1>6, <2>1, OwnerElsewhere, Zenon
<1>11. RevocationInv'
  BY <1>4, <1>6, RevocationElsewhere, Zenon
<1>12. RetryInv'
  <2>1. ~Refused(c)
    <3>1. queue[c] # <<>> /\ Head(queue[c]) = t
      BY FrontThread, Zenon DEF IInv
    <3>2. QED
      BY <1>1, <3>1, Zenon DEF Refused, Answered, InAcquire, RevokeRelease
  <2>2. QED
    BY <1>2, <1>4, <1>5, <1>6, <2>1, RetryElsewhere, Zenon
<1>13. QED
  BY <1>3, <1>7, <1>8, <1>9, <1>10, <1>11, <1>12, Zenon DEF IInv

\* A release without a revocation keeps the lock in the cache.
LEMMA ReleaseKeepInv ==
    ASSUME IInv, TypeOK', NEW t \in Threads, ReleaseKeep(t)
    PROVE  IInv'
  BY DequeueInv, Zenon DEF ReleaseKeep

\* The reply of a release RPC ends the release.
LEMMA ReleaseReturnsInv ==
    ASSUME IInv, TypeOK', NEW t \in Threads, ReleaseReturns(t)
    PROVE  IInv'
  BY DequeueInv, Zenon DEF ReleaseReturns

-----------------------------------------------------------------------------
(* The invariant and what follows from it *)

\* The invariant holds when server and clients have just been constructed.
LEMMA InitInv ==
    ASSUME Init
    PROVE  IInv
<1> USE DEF Init
<1>1. TypeOK
  BY DEF TypeOK, ServerStates, ClientStates, PCs
<1>2. \A t \in Threads : /\ pc[t] = "idle" /\ ~InRelease(t) /\ ~InAcquire(t) /\ ~Revoking(t) /\ ~Retrying(t)
                         /\ Home[t] \in Clients /\ revokee[t] = NoClient /\ t \notin woken
  BY HomeAssumption, Zenon DEF InRelease, InAcquire, RevokeRelease, Revoking, Retrying
<1>3. \A c \in Clients : /\ queue[c] = <<>> /\ cstate[c] = "NONE" /\ ~revoke_later[c] /\ ~retry_earlier[c]
                         /\ holder # c
  BY NoClientAssumption, Zenon
<1>4. ServerConsistent /\ MutexUnlocked
  BY Zenon DEF ServerConsistent, MutexUnlocked
<1>5. QueueInv
  BY <1>2, <1>3 DEF QueueInv
<1>6. ClientInv
  BY <1>2, <1>3, Zenon DEF ClientInv, OwnRelease
<1>7. RevokeHandlerInv
  BY <1>2, Zenon DEF RevokeHandlerInv, RevokeRelease
<1>8. OwnerInv
  BY <1>2, <1>3, Zenon DEF OwnerInv, Answered
<1>9. RevocationInv
  BY <1>2, <1>3, Zenon DEF RevocationInv
<1>10. RetryInv
  BY <1>2, <1>3, Zenon DEF RetryInv
<1>11. QED
  BY <1>1, <1>4, <1>5, <1>6, <1>7, <1>8, <1>9, <1>10, Zenon DEF IInv

\* The invariant is about the variables only.
LEMMA StutterInv ==
    ASSUME IInv, UNCHANGED vars
    PROVE  IInv'
<1> USE DEF vars, server, client, calls, InRelease, OwnRelease, RevokeRelease, InAcquire, Answered,
            Releaser, Revoking, Retrying
<1>1. TypeOK' /\ ServerConsistent' /\ MutexUnlocked'
  BY Zenon DEF IInv, TypeOK, ServerConsistent, MutexUnlocked
<1>2. QueueInv'
  BY DEF IInv, QueueInv
<1>3. ClientInv'
  BY Zenon DEF IInv, ClientInv
<1>4. RevokeHandlerInv'
  BY Zenon DEF IInv, RevokeHandlerInv
<1>5. OwnerInv' /\ RevocationInv'
  BY Zenon DEF IInv, OwnerInv, RevocationInv
<1>6. RetryInv'
  BY Zenon DEF IInv, RetryInv, Refused, Parked
<1>7. QED
  BY <1>1, <1>2, <1>3, <1>4, <1>5, <1>6, Zenon DEF IInv

\* IInv is inductive as long as every wait ends by a signal.
LEMMA InvStep ==
    ASSUME ~SpuriousWakeups, IInv, [Next]_vars
    PROVE  IInv'
<1>1. TypeOK'
  BY TypeStep, Zenon DEF IInv
<1>2. CASE UNCHANGED vars
  BY <1>2, StutterInv, Zenon
<1>3. ASSUME NEW t \in Threads, AcquireCall(t) PROVE IInv'
  BY <1>1, <1>3, AcquireMissInv, AcquireHitInv, AcquireWhileReleasingInv, AcquireQueuedInv, Zenon DEF AcquireCall
<1>4. ASSUME NEW t \in Threads, ReleaseCall(t) PROVE IInv'
  BY <1>1, <1>4, ReleaseKeepInv, ReleaseRevokedInv, Zenon DEF ReleaseCall
<1>5. ASSUME NEW t \in Threads, Progress(t) PROVE IInv'
  <2>1. CASE ResumeAfterRelease(t) \/ ResumeTurn(t) \/ ResumeRetry(t)
    BY <1>1, <2>1, ResumeAfterReleaseInv, ResumeTurnInv, ResumeRetryInv, Zenon
  <2>2. CASE AcquireReturnsOK(t) \/ AcquireReturnsRetry(t) \/ AcquireReturnsLate(t) \/ ReleaseReturns(t)
    BY <1>1, <2>2, AcquireReturnsOKInv, AcquireReturnsRetryInv, AcquireReturnsLateInv, ReleaseReturnsInv, Zenon
  <2>3. CASE RevokeFree(t) \/ RevokeLater(t) \/ RevokeReturns(t) \/ RetryHandler(t)
    BY <1>1, <2>3, RevokeFreeInv, RevokeLaterInv, RevokeReturnsInv, RetryHandlerInv, Zenon
  <2>4. CASE GrantFree(t) \/ RefuseOwned(t) \/ GrantRetryer(t) \/ RefuseRetrying(t)
    BY <1>1, <2>4, GrantFreeInv, RefuseOwnedInv, GrantRetryerInv, RefuseRetryingInv, Zenon
  <2>5. CASE SendRevoke(t) \/ ServerRelease(t) \/ SendRetry(t)
    BY <1>1, <2>5, SendRevokeInv, ServerReleaseInv, SendRetryInv, Zenon
  <2>6. QED
    BY <1>5, <2>1, <2>2, <2>3, <2>4, <2>5, Zenon DEF Progress
<1>6. ASSUME NEW t \in Threads, SpuriousWake(t) PROVE IInv'
  BY <1>6, Zenon DEF SpuriousWake
<1>7. QED
  BY <1>2, <1>3, <1>4, <1>5, <1>6, Zenon DEF Next

\* The inductive invariant of the caching protocol: the front thread of each
\* queue, the client's state, the server's state and the one revoke or retry
\* under way always fit together.
THEOREM Invariance ==
    ASSUME ~SpuriousWakeups
    PROVE  Spec => []IInv
<1>1. Init => IInv
  BY InitInv, Zenon
<1>2. IInv /\ [Next]_vars => IInv'
  BY InvStep, Zenon
<1>3. QED
  BY <1>1, <1>2, PTL DEF Spec

\* Two holding threads would be of the one client on record, and both its front.
LEMMA OneHolder ==
    ASSUME IInv
    PROVE  MutualExclusion
<1> SUFFICES ASSUME NEW t \in Threads, NEW u \in Threads, pc[t] = "holding", pc[u] = "holding"
             PROVE  t = u
  BY Zenon DEF MutualExclusion
<1>1. holder = Home[t] /\ holder = Home[u]
  BY HomeAssumption, Zenon DEF IInv, ClientInv, OwnerInv
<1>2. QED
  BY <1>1, FrontThread, Zenon DEF IInv

\* The same in the state after a step.
LEMMA OneHolderNext ==
    ASSUME IInv'
    PROVE  \A t, u \in Threads : pc'[t] = "holding" /\ pc'[u] = "holding" => t = u
<1> SUFFICES ASSUME NEW t \in Threads, NEW u \in Threads, pc'[t] = "holding", pc'[u] = "holding"
             PROVE  t = u
  OBVIOUS
<1>1. holder' = Home[t] /\ holder' = Home[u]
  BY HomeAssumption, Zenon DEF IInv, ClientInv, OwnerInv
<1>2. Head(queue'[Home[t]]) = t /\ Head(queue'[Home[u]]) = u
  BY Zenon DEF IInv, QueueInv
<1>3. QED
  BY <1>1, <1>2, Zenon

\* At most one thread of all the clients is between acquire and release.
THEOREM MutualExclusionHolds ==
    ASSUME ~SpuriousWakeups
    PROVE  Spec => []MutualExclusion
<1>1. IInv => MutualExclusion
  BY OneHolder, Zenon
<1>2. QED
  BY <1>1, Invariance, PTL

\* A client that may hand out the lock by itself is the server's holder.
THEOREM CacheCoherenceHolds ==
    ASSUME ~SpuriousWakeups
    PROVE  Spec => []CacheCoherence
<1>1. IInv => CacheCoherence
  BY Zenon DEF IInv, OwnerInv, CacheCoherence
<1>2. QED
  BY <1>1, Invariance, PTL

\* No VERIFY of lock_server_cache ever fails.
THEOREM NoAbortHolds ==
    ASSUME ~SpuriousWakeups
    PROVE  Spec => []NoAbort
<1>1. IInv => NoAbort
  <2> SUFFICES ASSUME IInv PROVE NoAbort
    OBVIOUS
  <2>1. \A t \in Threads : pc[t] = "acquire" => AcquireVerify(Home[t])
    BY Zenon DEF IInv, ServerConsistent, OwnerInv, AcquireVerify
  <2>2. \A t \in Threads : pc[t] = "release" => ReleaseVerify(Releaser(t)) /\ waiter # {}
    BY Zenon DEF IInv, ServerConsistent, OwnerInv, ReleaseVerify
  <2>3. QED
    BY <2>1, <2>2, Zenon DEF NoAbort
<1>2. QED
  BY <1>1, Invariance, PTL

\* The holder and the retryer the server reads outside its mutex are current.
THEOREM UnlockedReadsHold ==
    ASSUME ~SpuriousWakeups
    PROVE  Spec => []UnlockedReads
<1>1. IInv => UnlockedReads
  <2> SUFFICES ASSUME IInv PROVE UnlockedReads
    OBVIOUS
  <2>1. \A t \in Threads : pc[t] = "revoke" => holder # NoClient /\ \A u \in Threads : pc[u] # "release"
    BY Zenon DEF IInv, RevocationInv, ServerConsistent, Revoking
  <2>2. \A t \in Threads : pc[t] = "revokeSent" => holder = revokee[t]
    BY Zenon DEF IInv, RevocationInv
  <2>3. \A t \in Threads : pc[t] = "retry" =>
          retryer # NoClient /\ \A u \in Threads : pc[u] = "acquire" => Home[u] # retryer
    BY AtAcquire, Zenon DEF IInv, RetryInv, ServerConsistent, Retrying, AcquireView
  <2>4. \A t \in Threads : pc[t] = "retrySent" => retryer = retryee[t]
    BY Zenon DEF IInv, RetryInv
  <2>5. QED
    BY <2>1, <2>2, <2>3, <2>4, Zenon DEF UnlockedReads
<1>2. QED
  BY <1>1, Invariance, PTL

\* A retry finds the refused thread at the front of the queue, not yet woken.
THEOREM RetryFindsWaiterHolds ==
    ASSUME ~SpuriousWakeups
    PROVE  Spec => []RetryFindsWaiter
<1>1. IInv => RetryFindsWaiter
  BY Zenon DEF IInv, RetryInv, Retrying, Parked, Refused, RetryFindsWaiter
<1>2. QED
  BY <1>1, Invariance, PTL

\* One call per client at the server, and one revocation at a time.
THEOREM OneConversationHolds ==
    ASSUME ~SpuriousWakeups
    PROVE  Spec => []OneConversation
<1>1. IInv => OneConversation
  <2> SUFFICES ASSUME IInv PROVE OneConversation
    OBVIOUS
  <2>1. \A t, u \in Threads :
          (InAcquire(t) \/ OwnRelease(t)) /\ (InAcquire(u) \/ OwnRelease(u)) /\ Home[t] = Home[u] => t = u
    BY FrontThread DEF IInv, InAcquire, OwnRelease, RevokeRelease, InRelease
  <2>2. QED
    BY <2>1, Zenon DEF IInv, RevocationInv, Revoking, OneConversation
<1>2. QED
  BY <1>1, Invariance, PTL

\* acquire never returns with the client's mutex locked.
THEOREM MutexUnlockedHolds ==
    ASSUME ~SpuriousWakeups
    PROVE  Spec => []MutexUnlocked
<1>1. IInv => MutexUnlocked
  BY Zenon DEF IInv
<1>2. QED
  BY <1>1, Invariance, PTL

\* Within a client the lock goes to the front of the queue, first come first served.
THEOREM QueueOrderHolds ==
    ASSUME ~SpuriousWakeups
    PROVE  Spec => QueueOrder
<1>1. IInv' => [\A t \in Threads :
                  pc[t] # "holding" /\ pc'[t] = "holding" => Head(queue'[Home[t]]) = t]_vars
  BY Zenon DEF IInv, QueueInv
<1>2. QED
  BY <1>1, Invariance, PTL DEF QueueOrder

-----------------------------------------------------------------------------
(* Steps of a single thread *)

\* Every step but a stutter moves one thread; which of its actions it took
\* decides how its program counter moves.
Moves(t) ==
    /\ \A u \in Threads \ {t} : pc'[u] = pc[u] /\ revokee'[u] = revokee[u]
    /\ \/ pc[t] = "idle" /\ pc'[t] \in {"acquire", "holding", "waitRelease", "waitTurn"}
       \/ pc[t] = "holding" /\ (pc'[t] = "idle" \/ OwnRelease(t)') /\ server' = server
       \/ OwnRelease(t) /\ pc'[t] = "idle"
       \/ OwnRelease(t) /\ OwnRelease(t)' /\ pc'[t] # "release"
       \/ /\ pc[t] \in Waits \/ InAcquire(t)
          /\ pc'[t] # "idle" /\ ~OwnRelease(t)'
          /\ pc'[t] = "release" => server' = server

\* Every step of the protocol moves the calls of one thread.
LEMMA ThreadMoves ==
    ASSUME ~SpuriousWakeups, IInv, IInv', Next
    PROVE  \E t \in Threads : Moves(t)
<1> USE DEF Goto, IInv, TypeOK
<1>1. PICK t \in Threads : AcquireCall(t) \/ ReleaseCall(t) \/ Progress(t)
  BY Zenon DEF Next, SpuriousWake
<1>2. CASE AcquireCall(t)
  <2>1. /\ pc[t] = "idle" /\ pc'[t] \in {"acquire", "holding", "waitRelease", "waitTurn"}
        /\ \A u \in Threads \ {t} : pc'[u] = pc[u] /\ revokee'[u] = revokee[u]
    <3>1. pc[t] = "idle" /\ revokee' = revokee
      BY <1>2, Zenon DEF AcquireCall, AcquireMiss, AcquireHit, AcquireWhileReleasing, AcquireQueued, Enqueue, calls
    <3>2. \E l \in {"acquire", "holding", "waitRelease", "waitTurn"} : pc' = [pc EXCEPT ![t] = l]
      BY <1>2, Zenon DEF AcquireCall, AcquireMiss, AcquireHit, AcquireWhileReleasing, AcquireQueued,
                  CallAcquire, Obtain
    <3>3. QED
      BY <3>1, <3>2, Zenon
  <2>2. QED
    BY <2>1, Zenon DEF Moves
<1>3. CASE ReleaseCall(t)
  <2>1. /\ pc[t] = "holding" /\ pc'[t] \in {"idle", "release"} /\ server' = server /\ revokee' = revokee
        /\ \A u \in Threads \ {t} : pc'[u] = pc[u]
    BY <1>3 DEF ReleaseCall, ReleaseKeep, ReleaseRevoked, Dequeue, calls, server
  <2>2. revokee[t] = NoClient
    BY <2>1, Zenon DEF RevokeHandlerInv, InRelease
  <2>3. QED
    BY <2>1, <2>2, Zenon DEF Moves, OwnRelease, InRelease
<1>4. CASE ResumeAfterRelease(t) \/ ResumeTurn(t) \/ ResumeRetry(t)
  <2>1. /\ pc[t] \in Waits /\ pc'[t] \in {"acquire", "holding"}
        /\ \A u \in Threads \ {t} : pc'[u] = pc[u] /\ revokee'[u] = revokee[u]
    BY <1>4 DEF ResumeAfterRelease, ResumeTurn, ResumeRetry, Resume, TryAgain, ReturnLocked,
                CallAcquire, Obtain, calls, Waits
  <2>2. QED
    BY <2>1, Zenon DEF Moves, OwnRelease, InRelease
<1>5. CASE AcquireReturnsOK(t) \/ AcquireReturnsRetry(t) \/ AcquireReturnsLate(t)
  <2>1. /\ pc[t] = "acquireReply" /\ pc'[t] \in {"acquire", "holding", "waitRetry"}
        /\ \A u \in Threads \ {t} : pc'[u] = pc[u] /\ revokee'[u] = revokee[u]
    BY <1>5 DEF AcquireReturnsOK, AcquireReturnsRetry, AcquireReturnsLate, AcquireReturns, TryAgain,
                ReturnLocked, CallAcquire, Obtain, calls
  <2>2. QED
    BY <2>1, Zenon DEF Moves, OwnRelease, InRelease, InAcquire
<1>6. CASE ReleaseReturns(t)
  <2>1. /\ OwnRelease(t) /\ pc'[t] = "idle"
        /\ \A u \in Threads \ {t} : pc'[u] = pc[u] /\ revokee'[u] = revokee[u]
    BY <1>6 DEF ReleaseReturns, Dequeue, calls, OwnRelease, InRelease
  <2>2. QED
    BY <2>1, Zenon DEF Moves
<1>7. CASE RevokeFree(t)
  <2>1. /\ InAcquire(t) /\ pc'[t] = "release" /\ server' = server /\ revokee'[t] # NoClient
        /\ \A u \in Threads \ {t} : pc'[u] = pc[u] /\ revokee'[u] = revokee[u]
    BY <1>7, Zenon DEF RevokeFree, calls, InAcquire, server
  <2>2. QED
    BY <2>1, Zenon DEF Moves, OwnRelease
<1>8. CASE RevokeLater(t) \/ RevokeReturns(t)
  <2>1. /\ InAcquire(t) /\ pc'[t] = "acquireReply"
        /\ \A u \in Threads \ {t} : pc'[u] = pc[u] /\ revokee'[u] = revokee[u]
    BY <1>8 DEF RevokeLater, RevokeReturns, InAcquire, RevokeRelease, InRelease
  <2>2. QED
    BY <2>1, Zenon DEF Moves, OwnRelease, InRelease
<1>9. CASE GrantFree(t) \/ RefuseOwned(t) \/ GrantRetryer(t) \/ RefuseRetrying(t)
  <2>1. /\ InAcquire(t) /\ pc'[t] \in {"revoke", "acquireReply"}
        /\ \A u \in Threads \ {t} : pc'[u] = pc[u] /\ revokee'[u] = revokee[u]
    BY <1>9, Zenon DEF GrantFree, RefuseOwned, GrantRetryer, RefuseRetrying, EnterAcquire, LeaveAcquire, InAcquire
  <2>2. QED
    BY <2>1, Zenon DEF Moves, OwnRelease, InRelease
<1>10. CASE SendRevoke(t)
  <2>1. /\ InAcquire(t) /\ pc'[t] \in {"revokeSent", "acquireReply"}
        /\ \A u \in Threads \ {t} : pc'[u] = pc[u] /\ revokee'[u] = revokee[u]
    BY <1>10, Zenon DEF SendRevoke, InAcquire
  <2>2. QED
    BY <2>1, Zenon DEF Moves, OwnRelease, InRelease
<1>11. CASE RetryHandler(t) \/ ServerRelease(t) \/ SendRetry(t)
  <2>1. /\ InRelease(t) /\ pc'[t] \in {"retry", "retrySent", "releaseReply"} /\ revokee' = revokee
        /\ \A u \in Threads \ {t} : pc'[u] = pc[u]
    BY <1>11 DEF RetryHandler, ServerRelease, SendRetry, calls, InRelease
  <2>2. CASE revokee[t] = NoClient
    BY <2>1, <2>2, Zenon DEF Moves, OwnRelease, InRelease
  <2>3. CASE revokee[t] # NoClient
    BY <2>1, <2>3, Zenon DEF Moves, OwnRelease, RevokeRelease, InAcquire
  <2>4. QED
    BY <2>2, <2>3, Zenon
<1>12. QED
  BY <1>1, <1>2, <1>3, <1>4, <1>5, <1>6, <1>7, <1>8, <1>9, <1>10, <1>11, Zenon DEF Progress

\* A release RPC is sent only for a revoked lock that no thread has any more.
THEOREM ReleaseOnlyRevokedHolds ==
    ASSUME ~SpuriousWakeups
    PROVE  Spec => ReleaseOnlyRevoked
<1> DEFINE A == \A t \in Threads :
                  pc[t] # "release" /\ pc'[t] = "release" =>
                     /\ sstate = "REVOKING" /\ waiter # {}
                     /\ \A u \in Threads : pc'[u] # "holding"
<1>1. ASSUME IInv, IInv', Next, NEW t \in Threads, pc[t] # "release", pc'[t] = "release"
      PROVE  /\ sstate = "REVOKING" /\ waiter # {}
             /\ \A u \in Threads : pc'[u] # "holding"
  <2>1. sstate' = "REVOKING" /\ waiter' # {} /\ holder' = Releaser(t)'
    BY <1>1, Zenon DEF IInv, OwnerInv, ServerConsistent
  <2>2. server' = server
    BY <1>1, ThreadMoves, Zenon DEF Moves, OwnRelease, InRelease
  <2>3. Releaser(t)' \in Clients /\ cstate'[Releaser(t)'] = "RELEASING"
    <3>1. InRelease(t)'
      BY <1>1, Zenon DEF InRelease
    <3>2. CASE revokee'[t] = NoClient
      BY <1>1, <3>1, <3>2, HomeAssumption, Zenon DEF IInv, ClientInv, OwnRelease, Releaser
    <3>3. CASE revokee'[t] # NoClient
      BY <1>1, <3>1, <3>3 DEF IInv, TypeOK, RevokeHandlerInv, RevokeRelease, Releaser
    <3>4. QED
      BY <3>2, <3>3, Zenon
  <2>4. \A u \in Threads : pc'[u] = "holding" => cstate'[Home[u]] = "LOCKED" /\ holder' = Home[u]
    BY <1>1, HomeAssumption DEF IInv, ClientInv, OwnerInv
  <2>5. QED
    BY <2>1, <2>2, <2>3, <2>4, Zenon DEF server
<1>2. IInv /\ IInv' /\ [Next]_vars => [A]_vars
  BY <1>1, Zenon
<1>3. QED
  BY <1>2, Invariance, PTL DEF Spec, ReleaseOnlyRevoked

\* Refinement: seen from the callers of acquire and release, the caching
\* protocol is the lock service, which grants only a lock nobody has.
THEOREM Refinement ==
    ASSUME ~SpuriousWakeups
    PROVE  Spec => ImplementsLockService
<1>1. Init => Service!Init
  <2> SUFFICES ASSUME Init PROVE phase = [t \in Threads |-> "idle"]
    BY Zenon DEF Service!Init
  <2>1. \A t \in Threads : pc[t] \in {"idle", "holding"} /\ pc[t] = "idle"
    BY Zenon DEF Init
  <2>2. \A t \in Threads : phase[t] = "idle"
    BY <2>1, Zenon DEF phase, OwnRelease, InRelease
  <2>3. phase \in [Threads -> Service!Phases]
    BY Zenon DEF phase, Service!Phases
  <2>4. QED
    BY <2>2, <2>3, Zenon
<1>2. ASSUME IInv, IInv', [Next]_vars
      PROVE  [Service!Next]_phase
  <2>1. CASE UNCHANGED vars
    BY <2>1, Zenon DEF vars, calls, phase, OwnRelease, InRelease
  <2>2. CASE Next
    <3>1. PICK t \in Threads : Moves(t)
      BY <1>2, <2>2, ThreadMoves, Zenon
    <3>2. phase \in [Threads -> Service!Phases] /\ phase' \in [Threads -> Service!Phases]
      BY Zenon DEF phase, Service!Phases
    <3>3. phase' = [phase EXCEPT ![t] = phase'[t]]
      <4>1. \A u \in Threads \ {t} : phase'[u] = phase[u]
        BY <3>1, Zenon DEF Moves, phase, OwnRelease, InRelease
      <4>2. QED
        BY <3>2, <4>1, Zenon
    <3>4. pc[t] # "holding" /\ pc'[t] = "holding" => Service!Available
      <4>1. \A u \in Threads : pc'[u] = "holding" /\ pc'[t] = "holding" => u = t
        BY <1>2, OneHolderNext, Zenon
      <4>2. \A u \in Threads : phase[u] = "holding" => pc[u] = "holding"
        BY Zenon DEF phase
      <4>3. QED
        BY <3>1, <4>1, <4>2, Zenon DEF Moves, Service!Available
    <3>5. CASE phase'[t] = phase[t]
      <4>1. phase' = phase
        BY <3>2, <3>3, <3>5, Zenon
      <4>2. QED
        BY <4>1, Zenon
    <3>6. \/ phase[t] = "idle" /\ phase'[t] = "acquiring"
          \/ phase[t] = "idle" /\ phase'[t] = "holding" /\ Service!Available
          \/ phase[t] = "acquiring" /\ phase'[t] = "holding" /\ Service!Available
          \/ phase[t] = "holding" /\ phase'[t] = "releasing"
          \/ phase[t] = "holding" /\ phase'[t] = "idle"
          \/ phase[t] = "releasing" /\ phase'[t] = "idle"
          \/ phase'[t] = phase[t]
      <4>1. /\ phase[t] = IF pc[t] \in {"idle", "holding"} THEN pc[t]
                          ELSE IF OwnRelease(t) THEN "releasing" ELSE "acquiring"
            /\ phase'[t] = IF pc'[t] \in {"idle", "holding"} THEN pc'[t]
                           ELSE IF OwnRelease(t)' THEN "releasing" ELSE "acquiring"
        BY Zenon DEF phase, OwnRelease, InRelease
      <4>2. CASE pc[t] = "idle" /\ pc'[t] \in {"acquire", "holding", "waitRelease", "waitTurn"}
        BY <3>4, <4>1, <4>2, Zenon DEF OwnRelease, InRelease
      <4>3. CASE pc[t] = "holding" /\ (pc'[t] = "idle" \/ OwnRelease(t)')
        BY <4>1, <4>3, Zenon DEF OwnRelease, InRelease
      <4>4. CASE OwnRelease(t) /\ pc'[t] = "idle"
        BY <4>1, <4>4, Zenon DEF OwnRelease, InRelease
      <4>5. CASE OwnRelease(t) /\ OwnRelease(t)'
        BY <4>1, <4>5, Zenon DEF OwnRelease, InRelease
      <4>6. CASE (pc[t] \in Waits \/ InAcquire(t)) /\ pc'[t] # "idle" /\ ~OwnRelease(t)'
        <5>1. pc[t] \notin {"idle", "holding"} /\ ~OwnRelease(t)
          BY <4>6, Zenon DEF Waits, InAcquire, RevokeRelease, OwnRelease, InRelease
        <5>2. QED
          BY <3>4, <4>1, <4>6, <5>1, Zenon
      <4>7. QED
        BY <3>1, <4>2, <4>3, <4>4, <4>5, <4>6, Zenon DEF Moves
    <3>7. QED
      BY <3>3, <3>5, <3>6, Zenon DEF Service!Next, Service!Request, Service!GrantAtOnce, Service!Grant,
            Service!Release, Service!ReleaseAtOnce, Service!Return, Service!Move
  <2>3. QED
    BY <1>2, <2>1, <2>2, Zenon
<1>3. QED
  BY <1>1, <1>2, Invariance, PTL DEF Spec, ImplementsLockService, Service!Spec

=============================================================================
