----------------------------- MODULE PoolProofs -----------------------------
(***************************************************************************)
(* The cached locks with the dispatch pool of the server, for any number   *)
(* of clients and locks and any size of the pool: two clients never own    *)
(* one lock, also when the binds of revokes and retries fail.              *)
(***************************************************************************)
EXTENDS PartPool, Naturals, FiniteSetTheorems, WellFoundedInduction, TLAPS

Caches == [state : {"NONE", "FREE", "LOCKED", "ACQUIRING", "RELEASING"},
           revoke_later : BOOLEAN, retry_earlier : BOOLEAN]
CallsOf == [pc : P!PCs, lid : Lids \cup {P!None}, ret : {"OK", "RETRY"},
            revokee : Clients \cup {P!None}, retryee : Clients \cup {P!None}]

\* A set of naturals has a least element.
LEMMA Least ==
    ASSUME NEW S \in SUBSET Nat, S # {}
    PROVE  \E x \in S : \A y \in S : x <= y
<1>1. PICK R : IsWellFoundedOn(R, Nat) /\ \A x, y \in Nat : y < x => <<y, x>> \in R
  <2>1. \A x, y \in Nat : y < x => <<y, x>> \in OpToRel(<, Nat)
    BY Zenon DEF OpToRel
  <2> QED
    BY <2>1, NatLessThanWellFounded, Zenon
<1>2. \E x \in S : \A y \in S : ~ (<<y, x>> \in R)
  BY <1>1, WFMin, Zenon
<1>3. PICK x \in S : \A y \in S : ~ (<<y, x>> \in R)
  BY <1>2, Zenon
<1>4. \A y \in S : ~ (y < x)
  BY <1>1, <1>3, Zenon
<1>5. \A y \in S : x <= y
  BY <1>4
<1> QED
  BY <1>5, Zenon

\* Every call and every entry of a cache is a record of its type.
LEMMA PoolTypes ==
    ASSUME P!Types
    PROVE  /\ \A c \in Clients : call[c] \in CallsOf
           /\ \A c \in Clients, l \in Lids : cache[c][l] \in Caches
BY DEF P!Types, CallsOf, Caches

\* A call at another place is the same call otherwise.
LEMMA CallEdits ==
    ASSUME NEW x \in CallsOf, NEW p \in P!PCs
    PROVE  \E r \in CallsOf : /\ r = [x EXCEPT !.pc = p] /\ r.pc = p /\ r.lid = x.lid /\ r.ret = x.ret
                              /\ r.revokee = x.revokee
<1>1. LET r == [x EXCEPT !.pc = p] IN
      r \in CallsOf /\ r.pc = p /\ r.lid = x.lid /\ r.ret = x.ret /\ r.revokee = x.revokee
  BY Zenon DEF CallsOf
<1> QED
  BY <1>1, Zenon

\* A thread with nothing to do is a call too.
LEMMA IdleCall == \E r \in CallsOf : r = P!Idle /\ r.pc = "idle"
<1>1. P!Idle \in CallsOf /\ P!Idle.pc = "idle"
  BY Zenon DEF P!Idle, CallsOf, P!PCs
<1> QED
  BY <1>1, Zenon

\* retry_earlier says nothing of who has the lock.
LEMMA RetryEdits ==
    ASSUME NEW e \in Caches, NEW b \in BOOLEAN
    PROVE  \E s \in Caches : /\ s = [e EXCEPT !.retry_earlier = b] /\ s.state = e.state
                             /\ s.revoke_later = e.revoke_later
<1>1. LET s == [e EXCEPT !.retry_earlier = b] IN
      s \in Caches /\ s.state = e.state /\ s.revoke_later = e.revoke_later
  BY Zenon DEF Caches
<1> QED
  BY <1>1, Zenon

\* An entry in another state keeps its note of a revoke.
LEMMA CacheEdits ==
    ASSUME NEW e \in Caches, NEW x \in {"NONE", "FREE", "LOCKED", "ACQUIRING", "RELEASING"}
    PROVE  \E s \in Caches : s = [e EXCEPT !.state = x] /\ s.state = x /\ s.revoke_later = e.revoke_later
<1>1. LET s == [e EXCEPT !.state = x] IN s \in Caches /\ s.state = x /\ s.revoke_later = e.revoke_later
  BY Zenon DEF Caches
<1> QED
  BY <1>1, Zenon

\* A step of c makes its own call r, and what one cache says of one lock s.
Moves(c, r, h, k, s) ==
    /\ call' = [call EXCEPT ![c] = r]
    /\ cache' = [cache EXCEPT ![h] = [cache[h] EXCEPT ![k] = s]]

Moved(c, r, h, k, s) ==
    /\ call'[c] = r /\ \A d \in Clients : d # c => call'[d] = call[d]
    /\ cache'[h][k] = s
    /\ \A d \in Clients, l \in Lids : (d # h \/ l # k) => cache'[d][l] = cache[d][l]

\* A step of a client replaces one call and one entry of a cache, which keeps the
\* types.
LEMMA PoolMoves ==
    ASSUME P!Types, NEW c \in Clients, NEW r \in CallsOf,
           NEW h \in Clients, NEW k \in Lids, NEW s \in Caches, Moves(c, r, h, k, s)
    PROVE  Moved(c, r, h, k, s) /\ (lock' = lock => P!Types')
<1>0. /\ call' = [call EXCEPT ![c] = r]
      /\ cache' = [cache EXCEPT ![h] = [cache[h] EXCEPT ![k] = s]]
  BY Zenon DEF Moves
<1>1. call' \in [Clients -> CallsOf]
  BY <1>0, Zenon DEF P!Types, CallsOf
<1>2. cache \in [Clients -> [Lids -> Caches]]
  BY Zenon DEF P!Types, Caches
<1>3. [cache[h] EXCEPT ![k] = s] \in [Lids -> Caches]
  BY <1>2, Zenon
<1>4. cache' \in [Clients -> [Lids -> Caches]]
  BY <1>0, <1>2, <1>3, Zenon
<1>5. ASSUME lock' = lock
      PROVE  P!Types'
  <2>1. /\ lock \in [Lids -> [state : {"FREE", "LOCKED", "REVOKING", "RETRYING"},
                              holder : Clients \cup {P!None}, retryer : Clients \cup {P!None},
                              waiter : SUBSET Clients]]
        /\ \A l \in Lids : /\ lock[l].state \in {"LOCKED", "REVOKING"} => lock[l].holder \in Clients
                           /\ lock[l].state = "REVOKING" => lock[l].waiter # {}
    BY Zenon DEF P!Types
  <2> QED
    BY <1>1, <1>4, <1>5, <2>1, Zenon DEF P!Types, CallsOf, Caches
<1>6. call'[c] = r /\ \A d \in Clients : d # c => call'[d] = call[d]
  BY <1>0, Zenon DEF P!Types
<1>7. \A d \in Clients : cache'[d] = IF d = h THEN [cache[h] EXCEPT ![k] = s] ELSE cache[d]
  BY <1>0, <1>2, Zenon
<1>8. \A l \in Lids : [cache[h] EXCEPT ![k] = s][l] = IF l = k THEN s ELSE cache[h][l]
  BY <1>2, Zenon
<1>9. cache'[h][k] = s
  BY <1>7, <1>8, Zenon
<1>10. \A d \in Clients, l \in Lids : (d # h \/ l # k) => cache'[d][l] = cache[d][l]
  BY <1>7, <1>8, Zenon
<1> QED
  BY <1>5, <1>6, <1>9, <1>10, Zenon DEF Moved

\* What the client's side of a step, which the server does not see, may change.
LEMMA ClientSide ==
    ASSUME P!OwnersInv, lock' = lock, P!Types', P!Calls',
           \A d \in Clients, k \in Lids : P!Owner(d, k)' => P!Owner(d, k),
           \A d \in Clients, k \in Lids : P!Noted(d, k)' => P!Noted(d, k),
           \A d \in Clients, k \in Lids : P!Revokes(d, k)' =>
              P!Revokes(d, k) /\ call'[d].revokee = call[d].revokee /\ call'[d].ret = call[d].ret,
           \A d \in Clients, k \in Lids : P!Releases(d, k)' =>
              \/ P!Releases(d, k) /\ (call[d].pc = "release" => call'[d].pc = "release")
              \/ cache[d][k].state # "RELEASING" /\ call'[d].pc = "release",
           \A d \in Clients, k \in Lids : P!Handler(d, k)' =>
              /\ P!Handler(d, k) /\ call'[d].revokee = call[d].revokee /\ call'[d].ret = call[d].ret
              /\ call[d].pc = "revoke_release" => call'[d].pc = "revoke_release"
              /\ cache'[call[d].revokee][k].state = "RELEASING"
    PROVE  P!OwnersInv'
<1>1. P!Holders'
  BY DEF P!OwnersInv, P!Holders
<1>2. P!OneRevoke'
  <2> SUFFICES ASSUME NEW k \in Lids, NEW d \in Clients
               PROVE  /\ P!Revokes(d, k)' =>
                            /\ lock'[k].state = "REVOKING" /\ lock'[k].holder = call'[d].revokee
                            /\ call'[d].ret = "OK" => call'[d].revokee = d
                            /\ \A e \in Clients : ~ P!Noted(e, k)' /\ (P!Revokes(e, k)' => d = e)
                      /\ P!Noted(d, k)' => lock'[k].state = "REVOKING" /\ lock'[k].holder = d
    BY Zenon DEF P!OneRevoke
  <2>1. P!OneRevoke
    BY Zenon DEF P!OwnersInv
  <2>2. ASSUME P!Revokes(d, k)'
        PROVE  /\ lock[k].state = "REVOKING" /\ lock[k].holder = call[d].revokee
               /\ call[d].ret = "OK" => call[d].revokee = d
               /\ call'[d].revokee = call[d].revokee /\ call'[d].ret = call[d].ret
    BY <2>1, <2>2 DEF P!OneRevoke
  <2>3. ASSUME P!Revokes(d, k)', NEW e \in Clients
        PROVE  ~ P!Noted(e, k)' /\ (P!Revokes(e, k)' => d = e)
    BY <2>1, <2>3 DEF P!OneRevoke
  <2>4. P!Noted(d, k)' => lock[k].state = "REVOKING" /\ lock[k].holder = d
    BY <2>1, Zenon DEF P!OneRevoke
  <2> QED
    BY <2>2, <2>3, <2>4, Zenon
<1>3. P!OneRelease'
  <2> SUFFICES ASSUME NEW k \in Lids, NEW d \in Clients
               PROVE  /\ P!Releases(d, k)' /\ call'[d].pc # "release" => lock'[k].holder # d
                      /\ P!Handler(d, k)' =>
                            /\ call'[d].ret = "RETRY" /\ call'[d].revokee \in Clients
                            /\ cache'[call'[d].revokee][k].state = "RELEASING"
                            /\ \A e \in Clients : P!Releases(e, k)' => e # call'[d].revokee
                            /\ call'[d].pc # "revoke_release" => lock'[k].holder # call'[d].revokee
                            /\ \A e \in Clients :
                                  P!Handler(e, k)' /\ call'[e].revokee = call'[d].revokee => d = e
    BY Zenon DEF P!OneRelease, P!At
  <2>0. P!OneRelease
    BY Zenon DEF P!OwnersInv
  <2>1. P!Releases(d, k)' /\ call'[d].pc # "release" => lock'[k].holder # d
    BY <2>0 DEF P!OneRelease, P!At
  <2>2. ASSUME P!Handler(d, k)'
        PROVE  /\ call'[d].ret = "RETRY" /\ call'[d].revokee \in Clients
               /\ cache'[call'[d].revokee][k].state = "RELEASING"
               /\ call'[d].revokee = call[d].revokee
               /\ call'[d].pc # "revoke_release" => lock'[k].holder # call'[d].revokee
    <3>1. /\ P!Handler(d, k) /\ call'[d].revokee = call[d].revokee /\ call'[d].ret = call[d].ret
          /\ call[d].pc = "revoke_release" => call'[d].pc = "revoke_release"
          /\ cache'[call[d].revokee][k].state = "RELEASING"
      BY <2>2, Zenon
    <3>2. /\ call[d].ret = "RETRY" /\ call[d].revokee \in Clients
          /\ call[d].pc # "revoke_release" => lock[k].holder # call[d].revokee
      BY <2>0, <3>1 DEF P!OneRelease, P!At
    <3> QED
      BY <3>1, <3>2, Zenon
  <2>3. ASSUME P!Handler(d, k)', NEW h \in Clients, P!Releases(h, k)', h = call'[d].revokee
        PROVE  FALSE
    <3>1. P!Handler(d, k) /\ h = call[d].revokee
      BY <2>3, Zenon
    <3>2. cache[h][k].state = "RELEASING" /\ ~ P!Releases(h, k)
      BY <2>0, <3>1 DEF P!OneRelease
    <3> QED
      BY <2>3, <3>2, Zenon
  <2>4. ASSUME P!Handler(d, k)', NEW e \in Clients, P!Handler(e, k)', call'[e].revokee = call'[d].revokee
        PROVE  d = e
    <3>1. P!Handler(d, k) /\ P!Handler(e, k) /\ call[e].revokee = call[d].revokee
      BY <2>4, Zenon
    <3> QED
      BY <2>0, <3>1, Zenon DEF P!OneRelease
  <2> QED
    BY <2>1, <2>2, <2>3, <2>4, Zenon
<1> QED
  BY <1>1, <1>2, <1>3, Zenon DEF P!OwnersInv

\* Whom a step does not move, it does not concern.
LEMMA Others ==
    ASSUME NEW d \in Clients, NEW m \in Lids, call'[d] = call[d]
    PROVE  /\ P!Revokes(d, m)' = P!Revokes(d, m) /\ P!Releases(d, m)' = P!Releases(d, m)
           /\ P!Handler(d, m)' = P!Handler(d, m)
           /\ cache'[d][m] = cache[d][m] => /\ P!Owner(d, m)' = P!Owner(d, m)
                                            /\ P!Noted(d, m)' = P!Noted(d, m)
BY Zenon DEF P!Revokes, P!Releases, P!Handler, P!Owner, P!Noted, P!At, P!Lid

\* What a step does to a cache agrees with where the threads are.
Stands(c, r, h, k, s) ==
    /\ r.pc = "idle" \/ (r.lid \in Lids /\ P!Agrees(r, IF h = c /\ k = r.lid THEN s ELSE cache[c][r.lid]))
    /\ h # c /\ call[h].pc # "idle" /\ call[h].lid = k => P!Agrees(call[h], s)

\* The threads that a step does not move still agree with their caches.
LEMMA CallsMoved ==
    ASSUME P!Calls, NEW c \in Clients, NEW r, NEW h \in Clients, NEW k \in Lids, NEW s,
           Moved(c, r, h, k, s), Stands(c, r, h, k, s)
    PROVE  P!Calls'
<1>0. /\ call'[c] = r /\ cache'[h][k] = s
      /\ \A d \in Clients : d # c => call'[d] = call[d]
      /\ \A d \in Clients, m \in Lids : d # h \/ m # k => cache'[d][m] = cache[d][m]
  BY Zenon DEF Moved
<1> SUFFICES ASSUME NEW d \in Clients, call'[d].pc # "idle"
             PROVE  call'[d].lid \in Lids /\ P!Agrees(call'[d], cache'[d][call'[d].lid])
  <2>1. \A d \in Clients : P!Agrees(call[d], cache[d][call[d].lid])' <=> P!Agrees(call'[d], cache'[d][call'[d].lid])
    BY Zenon DEF P!Agrees
  <2> QED
    BY <2>1, Zenon DEF P!Calls, P!At, P!Lid
<1>1. CASE d = c
  BY <1>0, <1>1, Zenon DEF Stands
<1>2. CASE d # c
  <2>1. call'[d] = call[d] /\ call[d].pc # "idle"
    BY <1>0, <1>2, Zenon
  <2>2. call[d].lid \in Lids /\ P!Agrees(call[d], cache[d][call[d].lid])
    BY <1>0, <2>1, Zenon DEF P!Calls, P!At, P!Lid
  <2>3. CASE d = h /\ call[d].lid = k
    BY <1>0, <1>2, <2>1, <2>2, <2>3, Zenon DEF Stands
  <2>4. CASE d # h \/ call[d].lid # k
    BY <1>0, <2>1, <2>2, <2>4
  <2> QED
    BY <2>3, <2>4, Zenon
<1> QED
  BY <1>1, <1>2, Zenon

\* The steps of a client that the server does not see: what its thread does next
\* agrees with its cache, nobody owns a lock that they did not own, no note is
\* made, and what a handler releases stays so until the handler is done.
Allowed(c, r, h, k, s) ==
    /\ Stands(c, r, h, k, s)
    /\ s.state \in {"FREE", "LOCKED"} => P!Owner(h, k)
    /\ r.pc = "release" \/ (r.pc = "returned" /\ r.ret = "OK") => P!Owner(c, r.lid)
    /\ s.revoke_later => cache[h][k].revoke_later
    /\ call[c].pc \in {"release_retry", "released"} =>
          \/ r.pc = "released" /\ r.lid = call[c].lid
          \/ h = c /\ k = call[c].lid /\ ~ s.revoke_later
    /\ r.pc \notin {"revoke", "revoke_release", "revoke_retry", "release_retry"}
    /\ r.pc = "release" => cache[c][r.lid].state = "LOCKED"
    /\ r.pc = "released" => call[c].pc = "release_retry" /\ r.lid = call[c].lid
    /\ r.pc = "revoked" => /\ call[c].pc = "revoke_retry" /\ r.lid = call[c].lid
                           /\ r.revokee = call[c].revokee /\ r.ret = call[c].ret
    /\ \/ s.state = cache[h][k].state \/ cache[h][k].state # "RELEASING"
       \/ \A d \in Clients : P!Handler(d, k) /\ call[d].revokee = h => d = c /\ r.pc = "returned"

\* A step of a client that does only what is Allowed keeps the invariant.
LEMMA ClientMove ==
    ASSUME P!OwnersInv, lock' = lock, NEW c \in Clients, NEW r \in CallsOf, NEW h \in Clients,
           NEW k \in Lids, NEW s \in Caches, Moves(c, r, h, k, s), Allowed(c, r, h, k, s)
    PROVE  P!OwnersInv'
<1>0. P!Types /\ P!Calls /\ P!OneRelease
  BY Zenon DEF P!OwnersInv
<1>1. Moved(c, r, h, k, s) /\ P!Types'
  BY <1>0, PoolMoves, Zenon
<1>2. /\ call'[c] = r /\ cache'[h][k] = s
      /\ \A d \in Clients : d # c => call'[d] = call[d]
      /\ \A d \in Clients, m \in Lids : d # h \/ m # k => cache'[d][m] = cache[d][m]
  BY <1>1, Zenon DEF Moved
<1>3. P!Calls'
  <2>1. Stands(c, r, h, k, s)
    BY Zenon DEF Allowed, Stands
  <2> QED
    BY <1>0, <1>1, <2>1, CallsMoved, Zenon
<1>4. \A d \in Clients, m \in Lids : P!Owner(d, m)' => P!Owner(d, m)
  <2> SUFFICES ASSUME NEW d \in Clients, NEW m \in Lids, P!Owner(d, m)'
               PROVE  P!Owner(d, m)
    BY Zenon
  <2>1. CASE d = c /\ r.lid = m /\ (r.pc = "release" \/ (r.pc = "returned" /\ r.ret = "OK"))
    BY <2>1, Zenon DEF Allowed
  <2>2. CASE cache'[d][m].state \in {"FREE", "LOCKED"}
    BY <1>2, <2>2, Zenon DEF Allowed, P!Owner
  <2>3. CASE d # c /\ ~ (cache'[d][m].state \in {"FREE", "LOCKED"})
    BY <1>2, <2>3, Zenon DEF P!Owner, P!At, P!Lid
  <2> QED
    BY <1>2, <2>1, <2>2, <2>3, Zenon DEF Allowed, P!Owner, P!At, P!Lid
<1>5. \A d \in Clients, m \in Lids : P!Noted(d, m)' => P!Noted(d, m)
  <2> SUFFICES ASSUME NEW d \in Clients, NEW m \in Lids, P!Noted(d, m)'
               PROVE  P!Noted(d, m)
    BY Zenon
  <2>1. cache'[d][m].revoke_later /\ ~ (call'[d].lid = m /\ call'[d].pc \in {"release_retry", "released"})
    BY Zenon DEF P!Noted, P!Lid
  <2>2. cache[d][m].revoke_later
    BY <1>2, <2>1, Zenon DEF Allowed
  <2>3. ~ (call[d].lid = m /\ call[d].pc \in {"release_retry", "released"})
    <3>1. CASE d # c
      BY <1>2, <2>1, <3>1, Zenon
    <3>2. CASE d = c
      BY <1>2, <2>1, <3>2, Zenon DEF Allowed
    <3> QED
      BY <3>1, <3>2, Zenon
  <2> QED
    BY <2>2, <2>3, Zenon DEF P!Noted, P!Lid
<1>6. \A d \in Clients, m \in Lids : P!Revokes(d, m)' => d # c /\ P!Revokes(d, m)
  BY <1>2, Others, Zenon DEF Allowed, P!Revokes
<1>7. \A d \in Clients, m \in Lids : P!Releases(d, m)' =>
         \/ P!Releases(d, m) /\ (call[d].pc = "release" => call'[d].pc = "release")
         \/ cache[d][m].state # "RELEASING" /\ call'[d].pc = "release"
  <2> SUFFICES ASSUME NEW d \in Clients, NEW m \in Lids, P!Releases(d, m)'
               PROVE  \/ P!Releases(d, m) /\ (call[d].pc = "release" => call'[d].pc = "release")
                      \/ cache[d][m].state # "RELEASING" /\ call'[d].pc = "release"
    BY Zenon
  <2>1. CASE d # c
    BY <1>2, <2>1, Others, Zenon
  <2>2. CASE d = c
    BY <1>2, <2>2, Zenon DEF Allowed, P!Releases, P!Lid
  <2> QED
    BY <2>1, <2>2, Zenon
<1>8. \A d \in Clients, m \in Lids : P!Handler(d, m)' =>
         /\ P!Handler(d, m) /\ call'[d].revokee = call[d].revokee /\ call'[d].ret = call[d].ret
         /\ call[d].pc = "revoke_release" => call'[d].pc = "revoke_release"
         /\ cache'[call[d].revokee][m].state = "RELEASING"
  <2> SUFFICES ASSUME NEW d \in Clients, NEW m \in Lids, P!Handler(d, m)'
               PROVE  /\ P!Handler(d, m) /\ call'[d].revokee = call[d].revokee /\ call'[d].ret = call[d].ret
                      /\ call[d].pc = "revoke_release" => call'[d].pc = "revoke_release"
                      /\ cache'[call[d].revokee][m].state = "RELEASING"
    BY Zenon
  <2>1. /\ P!Handler(d, m) /\ call'[d].revokee = call[d].revokee /\ call'[d].ret = call[d].ret
        /\ call[d].pc = "revoke_release" => call'[d].pc = "revoke_release"
    <3>1. CASE d # c
      BY <1>2, <3>1, Others, Zenon
    <3>2. CASE d = c
      BY <1>2, <3>2, Zenon DEF Allowed, P!Handler, P!Lid
    <3> QED
      BY <3>1, <3>2, Zenon
  <2>2. call[d].revokee \in Clients /\ cache[call[d].revokee][m].state = "RELEASING"
    BY <1>0, <2>1, Zenon DEF P!OneRelease
  <2>3. ~ (d = c /\ r.pc = "returned")
    BY <1>2, Zenon DEF P!Handler
  <2>4. CASE call[d].revokee = h /\ m = k
    BY <1>2, <2>1, <2>2, <2>3, <2>4, Zenon DEF Allowed
  <2>5. CASE call[d].revokee # h \/ m # k
    <3>1. \A g \in Clients : cache[g][m].state = "RELEASING" /\ (g # h \/ m # k) => cache'[g][m].state = "RELEASING"
      BY <1>2, Zenon
    <3> QED
      BY <2>1, <2>2, <2>5, <3>1, Zenon
  <2> QED
    BY <2>1, <2>4, <2>5, Zenon
<1> QED
  BY <1>1, <1>2, <1>3, <1>4, <1>5, <1>6, <1>7, <1>8, ClientSide, Zenon

\* acquire finds the lock in the cache, or has to ask the server.
LEMMA AcquireMoves ==
    ASSUME P!OwnersInv, NEW c \in Clients, NEW l \in Lids, P!Acquire(c, l)
    PROVE  P!OwnersInv'
<1>0. P!Types /\ lock' = lock /\ call[c].pc = "idle"
  BY Zenon DEF P!OwnersInv, P!Acquire, P!At
<1>1. PICK x, y, p :
         /\ \/ x = "FREE" /\ y = "LOCKED" /\ p = "has"
            \/ x = "NONE" /\ y = "ACQUIRING" /\ p = "acquire"
         /\ cache[c][l].state = x /\ cache' = [cache EXCEPT ![c][l].state = y]
         /\ call' = [call EXCEPT ![c].pc = p, ![c].lid = l]
  <2>1. CASE /\ cache[c][l].state = "FREE" /\ cache' = [cache EXCEPT ![c][l].state = "LOCKED"]
             /\ call' = [call EXCEPT ![c].pc = "has", ![c].lid = l]
    <3> WITNESS "FREE", "LOCKED", "has"
    <3> QED
      BY <2>1, Zenon
  <2>2. CASE /\ cache[c][l].state = "NONE" /\ cache' = [cache EXCEPT ![c][l].state = "ACQUIRING"]
             /\ call' = [call EXCEPT ![c].pc = "acquire", ![c].lid = l]
    <3> WITNESS "NONE", "ACQUIRING", "acquire"
    <3> QED
      BY <2>2, Zenon
  <2> QED
    BY <2>1, <2>2, Zenon DEF P!Acquire
<1>2. \/ x = "FREE" /\ y = "LOCKED" /\ p = "has"
      \/ x = "NONE" /\ y = "ACQUIRING" /\ p = "acquire"
  BY <1>1, Zenon
<1>3. PICK s \in Caches : s = [cache[c][l] EXCEPT !.state = y] /\ s.state = y /\ s.revoke_later = cache[c][l].revoke_later
  <2>1. cache[c][l] \in Caches
    BY <1>0, PoolTypes, Zenon
  <2>2. y \in {"NONE", "FREE", "LOCKED", "ACQUIRING", "RELEASING"}
    BY <1>2, Zenon
  <2> QED
    BY <2>1, <2>2, CacheEdits, Zenon
<1>4. PICK r \in CallsOf : r = [call[c] EXCEPT !.pc = p, !.lid = l] /\ r.pc = p /\ r.lid = l
  <2>1. call[c] \in CallsOf
    BY <1>0, PoolTypes, Zenon
  <2>2. p \in P!PCs
    BY <1>2, Zenon DEF P!PCs
  <2> DEFINE q == [call[c] EXCEPT !.pc = p, !.lid = l]
  <2>3. q \in CallsOf /\ q.pc = p /\ q.lid = l
    BY <2>1, <2>2, Zenon DEF CallsOf
  <2> QED
    BY <2>3, Zenon
<1>5. Moves(c, r, c, l, s)
  BY <1>1, <1>3, <1>4, Zenon DEF Moves
<1>6. Allowed(c, r, c, l, s)
  <2>1. P!Agrees(r, s)
    BY <1>2, <1>3, <1>4, Zenon DEF P!Agrees
  <2>2. y = "LOCKED" => P!Owner(c, l)
    BY <1>1, <1>2, Zenon DEF P!Owner
  <2> QED
    BY <1>0, <1>1, <1>2, <1>3, <1>4, <2>1, <2>2, Zenon DEF Allowed, Stands
<1> QED
  BY <1>0, <1>5, <1>6, ClientMove, Zenon

\* Where the thread of a client is.
LEMMA PoolAt ==
    ASSUME P!OwnersInv, NEW c \in Clients, call[c].pc # "idle"
    PROVE  \E l \in Lids : /\ l = call[c].lid /\ P!Agrees(call[c], cache[c][l])
                           /\ cache[c][l] \in Caches /\ call[c] \in CallsOf
<1>1. call[c].lid \in Lids /\ P!Agrees(call[c], cache[c][call[c].lid])
  BY Zenon DEF P!OwnersInv, P!Calls, P!At, P!Lid
<1> QED
  BY <1>1, PoolTypes, Zenon DEF P!OwnersInv

\* The acquire RPC returned OK.
LEMMA AcquireGranted ==
    ASSUME P!OwnersInv, NEW c \in Clients, P!AcquireReturns(c), call[c].ret = "OK"
    PROVE  P!OwnersInv'
<1>0. lock' = lock /\ call[c].pc = "returned"
  BY Zenon DEF P!AcquireReturns, P!At
<1>1. PICK l \in Lids : /\ l = call[c].lid /\ P!Agrees(call[c], cache[c][l])
                        /\ cache[c][l] \in Caches /\ call[c] \in CallsOf
  BY <1>0, PoolAt, Zenon
<1>2. PICK s \in Caches : /\ s = [cache[c][l] EXCEPT !.state = "LOCKED"] /\ s.state = "LOCKED"
                          /\ s.revoke_later = cache[c][l].revoke_later
  BY <1>1, CacheEdits, Zenon
<1>3. PICK r \in CallsOf : r = [call[c] EXCEPT !.pc = "has"] /\ r.pc = "has" /\ r.lid = l
  <2>1. "has" \in P!PCs
    BY Zenon DEF P!PCs
  <2> QED
    <3>1. \E r \in CallsOf : /\ r = [call[c] EXCEPT !.pc = "has"] /\ r.pc = "has" /\ r.lid = call[c].lid
                            /\ r.ret = call[c].ret
      <4>1. call[c] \in CallsOf
        BY <1>1, Zenon
      <4> QED
        BY <4>1, <2>1, CallEdits
    <3> QED
      BY <1>1, <3>1, Zenon
<1>4. Moves(c, r, c, l, s)
  BY <1>1, <1>2, <1>3, Zenon DEF Moves, P!AcquireReturns, P!Goes, P!Lid
<1>5. Allowed(c, r, c, l, s)
  <2>1. P!Agrees(r, s) /\ P!Owner(c, l)
    BY <1>0, <1>1, <1>2, <1>3, Zenon DEF P!Agrees, P!Owner, P!Lid
  <2>2. cache[c][l].state = "ACQUIRING"
    BY <1>0, <1>1, Zenon DEF P!Agrees
  <2> QED
    BY <1>0, <1>2, <1>3, <2>1, <2>2, Zenon DEF Allowed, Stands
<1> QED
  BY <1>0, <1>4, <1>5, ClientMove, Zenon

\* The acquire RPC returned RETRY, and the retry came.
LEMMA AcquireRetries ==
    ASSUME P!OwnersInv, NEW c \in Clients, P!AcquireReturns(c), call[c].ret = "RETRY"
    PROVE  P!OwnersInv'
<1>0. lock' = lock /\ call[c].pc = "returned"
  BY Zenon DEF P!AcquireReturns, P!At
<1>1. PICK l \in Lids : /\ l = call[c].lid /\ P!Agrees(call[c], cache[c][l])
                        /\ cache[c][l] \in Caches /\ call[c] \in CallsOf
  BY <1>0, PoolAt, Zenon
<1>2. PICK s \in Caches : /\ s = [cache[c][l] EXCEPT !.retry_earlier = FALSE] /\ s.state = cache[c][l].state
                          /\ s.revoke_later = cache[c][l].revoke_later
  BY <1>1, RetryEdits, Zenon
<1>3. PICK r \in CallsOf : r = [call[c] EXCEPT !.pc = "acquire"] /\ r.pc = "acquire" /\ r.lid = l
  <2>1. "acquire" \in P!PCs
    BY Zenon DEF P!PCs
  <2> QED
    <3>1. \E r \in CallsOf : /\ r = [call[c] EXCEPT !.pc = "acquire"] /\ r.pc = "acquire" /\ r.lid = call[c].lid
                            /\ r.ret = call[c].ret
      <4>1. call[c] \in CallsOf
        BY <1>1, Zenon
      <4> QED
        BY <4>1, <2>1, CallEdits
    <3> QED
      BY <1>1, <3>1, Zenon
<1>4. Moves(c, r, c, l, s)
  BY <1>1, <1>2, <1>3, Zenon DEF Moves, P!AcquireReturns, P!Goes, P!Lid
<1>5. Allowed(c, r, c, l, s)
  <2>1. cache[c][l].state = "ACQUIRING" /\ P!Agrees(r, s)
    BY <1>0, <1>1, <1>2, <1>3, Zenon DEF P!Agrees
  <2> QED
    BY <1>0, <1>2, <1>3, <2>1, Zenon DEF Allowed, Stands
<1> QED
  BY <1>0, <1>4, <1>5, ClientMove, Zenon

\* release keeps the lock in the cache, or finds that it was revoked.
LEMMA ReleaseMoves ==
    ASSUME P!OwnersInv, NEW c \in Clients, P!Release(c)
    PROVE  P!OwnersInv'
<1>0. lock' = lock /\ call[c].pc = "has"
  BY Zenon DEF P!Release, P!At
<1>1. PICK l \in Lids : /\ l = call[c].lid /\ P!Agrees(call[c], cache[c][l])
                        /\ cache[c][l] \in Caches /\ call[c] \in CallsOf
  BY <1>0, PoolAt, Zenon
<1>2. cache[c][l].state = "LOCKED" /\ P!Owner(c, l)
  BY <1>0, <1>1, Zenon DEF P!Agrees, P!Owner
<1>3. CASE cache[c][l].revoke_later
  <2>1. PICK s \in Caches : /\ s = [cache[c][l] EXCEPT !.state = "RELEASING"] /\ s.state = "RELEASING"
                            /\ s.revoke_later = cache[c][l].revoke_later
    BY <1>1, CacheEdits, Zenon
  <2>2. PICK r \in CallsOf : r = [call[c] EXCEPT !.pc = "release"] /\ r.pc = "release" /\ r.lid = l
    <3>1. "release" \in P!PCs
      BY Zenon DEF P!PCs
    <3> QED
      BY <1>1, <3>1, CallEdits
  <2>3. Moves(c, r, c, l, s)
    BY <1>1, <1>3, <2>1, <2>2, Zenon DEF Moves, P!Release, P!Goes, P!Lid
  <2>4. P!Agrees(r, s)
    BY <1>3, <2>1, <2>2, Zenon DEF P!Agrees
  <2>5. Allowed(c, r, c, l, s)
    BY <1>0, <1>2, <2>1, <2>2, <2>4, Zenon DEF Allowed, Stands
  <2> QED
    BY <1>0, <2>3, <2>5, ClientMove, Zenon
<1>4. CASE ~ cache[c][l].revoke_later
  <2>1. PICK s \in Caches : /\ s = [cache[c][l] EXCEPT !.state = "FREE"] /\ s.state = "FREE"
                            /\ s.revoke_later = cache[c][l].revoke_later
    BY <1>1, CacheEdits, Zenon
  <2>2. PICK r \in CallsOf : r = P!Idle /\ r.pc = "idle"
    BY IdleCall, Zenon
  <2>3. Moves(c, r, c, l, s)
    BY <1>1, <1>4, <2>1, <2>2, Zenon DEF Moves, P!Release, P!Goes, P!Lid
  <2>5. Allowed(c, r, c, l, s)
    BY <1>0, <1>2, <2>1, <2>2, Zenon DEF Allowed, Stands
  <2> QED
    BY <1>0, <2>3, <2>5, ClientMove, Zenon
<1> QED
  BY <1>3, <1>4, Zenon

\* The release RPC returns to release.
LEMMA ReleaseEnds ==
    ASSUME P!OwnersInv, NEW c \in Clients, P!ReleaseReturns(c)
    PROVE  P!OwnersInv'
<1>0. lock' = lock /\ call[c].pc = "released"
  BY Zenon DEF P!ReleaseReturns, P!At
<1>1. PICK l \in Lids : /\ l = call[c].lid /\ P!Agrees(call[c], cache[c][l])
                        /\ cache[c][l] \in Caches /\ call[c] \in CallsOf
  BY <1>0, PoolAt, Zenon
<1>2. PICK s \in Caches : /\ s = [cache[c][l] EXCEPT !.state = "NONE", !.revoke_later = FALSE]
                          /\ s.state = "NONE" /\ ~ s.revoke_later
  <2> DEFINE s == [cache[c][l] EXCEPT !.state = "NONE", !.revoke_later = FALSE]
  <2>1. s \in Caches /\ s.state = "NONE" /\ ~ s.revoke_later
    BY <1>1, Zenon DEF Caches
  <2> QED
    BY <2>1, Zenon
<1>3. PICK r \in CallsOf : r = P!Idle /\ r.pc = "idle"
  BY IdleCall, Zenon
<1>4. Moves(c, r, c, l, s)
  BY <1>1, <1>2, <1>3, Zenon DEF Moves, P!ReleaseReturns, P!Goes, P!Lid
<1>5. \A d \in Clients : P!Handler(d, l) => call[d].revokee # c
  <2>1. P!Releases(c, l)
    BY <1>0, <1>1, Zenon DEF P!Releases, P!Lid
  <2> QED
    BY <2>1 DEF P!OwnersInv, P!OneRelease
<1>6. Allowed(c, r, c, l, s)
  BY <1>0, <1>1, <1>2, <1>3, <1>5, Zenon DEF Allowed, Stands
<1> QED
  BY <1>0, <1>4, <1>6, ClientMove, Zenon

\* The revoke RPC returns, after the release of its handler.
LEMMA RevokeEnds ==
    ASSUME P!OwnersInv, NEW c \in Clients, P!RevokeReturns(c)
    PROVE  P!OwnersInv'
<1>0. lock' = lock /\ call[c].pc = "revoked"
  BY Zenon DEF P!RevokeReturns, P!At
<1>1. PICK l \in Lids : /\ l = call[c].lid /\ P!Agrees(call[c], cache[c][l])
                        /\ cache[c][l] \in Caches /\ call[c] \in CallsOf
  BY <1>0, PoolAt, Zenon
<1>2. P!Handler(c, l) /\ cache[c][l].state = "ACQUIRING"
  BY <1>0, <1>1, Zenon DEF P!Handler, P!Lid, P!Agrees
<1>3. PICK h \in Clients : h = call[c].revokee /\ cache[h][l].state = "RELEASING" /\ call[c].ret = "RETRY"
  BY <1>2 DEF P!OwnersInv, P!OneRelease
<1>4. /\ \A d \in Clients : P!Handler(d, l) /\ call[d].revokee = h => d = c
      /\ ~ P!Releases(h, l) /\ h # c
  BY <1>2, <1>3, Zenon DEF P!OwnersInv, P!OneRelease
<1>5. PICK s \in Caches : /\ s = [cache[h][l] EXCEPT !.state = "NONE"] /\ s.state = "NONE"
                          /\ s.revoke_later = cache[h][l].revoke_later
  <2>1. cache[h][l] \in Caches
    BY PoolTypes, Zenon DEF P!OwnersInv
  <2> QED
    BY <2>1, CacheEdits, Zenon
<1>6. PICK r \in CallsOf : /\ r = [call[c] EXCEPT !.pc = "returned"] /\ r.pc = "returned" /\ r.lid = l
                           /\ r.ret = call[c].ret
  <2>1. "returned" \in P!PCs
    BY Zenon DEF P!PCs
  <2> QED
    <3>1. \E r \in CallsOf : /\ r = [call[c] EXCEPT !.pc = "returned"] /\ r.pc = "returned" /\ r.lid = call[c].lid
                            /\ r.ret = call[c].ret
      <4>1. call[c] \in CallsOf
        BY <1>1, Zenon
      <4> QED
        BY <4>1, <2>1, CallEdits
    <3> QED
      BY <1>1, <3>1, Zenon
<1>7. Moves(c, r, h, l, s)
  BY <1>1, <1>3, <1>5, <1>6, Zenon DEF Moves, P!RevokeReturns, P!Goes, P!Lid
<1>8. call[h].pc = "idle" \/ call[h].lid # l
  <2>1. CASE call[h].lid = l /\ call[h].pc # "idle"
    <3>1. P!Agrees(call[h], cache[h][l]) /\ call[h].pc \in P!PCs
      BY <2>1, PoolAt, Zenon DEF CallsOf
    <3> QED
      BY <1>3, <1>4, <2>1, <3>1, Zenon DEF P!Agrees, P!PCs, P!Releases, P!Lid
  <2> QED
    BY <2>1, Zenon
<1>9. Allowed(c, r, h, l, s)
  <2>1. P!Agrees(r, cache[c][l])
    BY <1>2, <1>6, Zenon DEF P!Agrees
  <2> QED
    BY <1>0, <1>1, <1>3, <1>4, <1>5, <1>6, <1>8, <2>1, Zenon DEF Allowed, Stands
<1> QED
  BY <1>0, <1>7, <1>9, ClientMove, Zenon

\* A cache may note that a retry came.
Notes(h, l, s) ==
    /\ cache' = [cache EXCEPT ![h] = [cache[h] EXCEPT ![l] = s]]
    /\ s.state = cache[h][l].state /\ (s.revoke_later <=> cache[h][l].revoke_later)

\* A note changes nothing that the thread with the lock relies on.
LEMMA NotesAgree ==
    ASSUME NEW h, NEW l, NEW s, Notes(h, l, s), NEW x, P!Agrees(x, cache[h][l])
    PROVE  P!Agrees(x, s)
BY Zenon DEF Notes, P!Agrees

\* The retry was sent, or not: the release RPC returns.
LEMMA RetryEnds ==
    ASSUME P!OwnersInv, NEW c \in Clients, call[c].pc = "release_retry" \/ call[c].pc = "revoke_retry",
           P!Goes(c, P!AfterRetry(c)), lock' = lock,
           NEW h \in Clients, NEW l \in Lids, l = call[c].lid, NEW s \in Caches, Notes(h, l, s)
    PROVE  P!OwnersInv'
<1>1. P!Agrees(call[c], cache[c][l]) /\ call[c] \in CallsOf
  BY PoolAt, Zenon
<1>2. PICK p \in P!PCs : p = P!AfterRetry(c) /\ p = IF call[c].pc = "release_retry" THEN "released" ELSE "revoked"
  BY Zenon DEF P!AfterRetry, P!At, P!PCs
<1>3. PICK r \in CallsOf : /\ r = [call[c] EXCEPT !.pc = p] /\ r.pc = p /\ r.lid = call[c].lid
                           /\ r.ret = call[c].ret /\ r.revokee = call[c].revokee
  BY <1>1, CallEdits
<1>4. Moves(c, r, h, l, s)
  <2>1. call' = [call EXCEPT ![c] = [call[c] EXCEPT !.pc = p]]
    BY <1>2, Zenon DEF P!Goes
  <2> QED
    BY <1>3, <2>1, Zenon DEF Moves, Notes
<1>5. Stands(c, r, h, l, s)
  <2>1. P!Agrees(r, cache[c][l]) /\ r.lid = l
    BY <1>1, <1>2, <1>3, Zenon DEF P!Agrees
  <2>2. h # c /\ call[h].pc # "idle" /\ call[h].lid = l => P!Agrees(call[h], cache[h][l])
    BY PoolAt, Zenon
  <2> QED
    BY <2>1, <2>2, NotesAgree, Zenon DEF Stands
<1>6. s.state \in {"FREE", "LOCKED"} => P!Owner(h, l)
  BY Zenon DEF P!Owner, Notes
<1>7. s.state = cache[h][l].state /\ (s.revoke_later => cache[h][l].revoke_later)
  BY Zenon DEF Notes
<1>8. Allowed(c, r, h, l, s)
  BY <1>2, <1>3, <1>5, <1>6, <1>7, Zenon DEF Allowed
<1> QED
  BY <1>4, <1>8, ClientMove, Zenon

\* The revoke was not sent: the acquire RPC returns.
LEMMA RevokeLost ==
    ASSUME P!OwnersInv, NEW c \in Clients, call[c].pc = "revoke", P!Goes(c, "returned"),
           lock' = lock, cache' = cache
    PROVE  P!OwnersInv'
<1>1. PICK l \in Lids : /\ l = call[c].lid /\ P!Agrees(call[c], cache[c][l])
                        /\ cache[c][l] \in Caches /\ call[c] \in CallsOf
  BY PoolAt, Zenon
<1>2. PICK s \in Caches : s = cache[c][l]
  BY <1>1, Zenon
<1>3. PICK r \in CallsOf : /\ r = [call[c] EXCEPT !.pc = "returned"] /\ r.pc = "returned"
                           /\ r.lid = call[c].lid /\ r.ret = call[c].ret
  <2>1. "returned" \in P!PCs
    BY Zenon DEF P!PCs
  <2> QED
    BY <1>1, <2>1, CallEdits
<1>4. Moves(c, r, c, l, s)
  <2>1. cache = [cache EXCEPT ![c] = [cache[c] EXCEPT ![l] = s]]
    BY <1>2, Zenon DEF P!OwnersInv, P!Types
  <2> QED
    BY <1>3, <2>1, Zenon DEF Moves, P!Goes
<1>5. P!Agrees(r, s) /\ (r.ret = "OK" => P!Owner(c, l)) /\ cache[c][l].state = "ACQUIRING"
  BY <1>1, <1>2, <1>3, Zenon DEF P!Agrees, P!Owner, P!Lid
<1>6. Allowed(c, r, c, l, s)
  BY <1>1, <1>2, <1>3, <1>5, Zenon DEF Allowed, Stands
<1> QED
  BY <1>4, <1>6, ClientMove, Zenon

\* The holder of a lock that a revoke is on its way to.
LEMMA RevokeAt ==
    ASSUME P!OwnersInv, NEW c \in Clients, call[c].pc = "revoke"
    PROVE  /\ call[c].lid \in Lids /\ cache[c][call[c].lid].state = "ACQUIRING"
           /\ P!Revokes(c, call[c].lid) /\ call[c].revokee \in Clients
           /\ call[c].ret \in {"OK", "RETRY"} /\ (call[c].ret = "OK" => call[c].revokee = c)
<1>1. call[c].lid \in Lids /\ cache[c][call[c].lid].state = "ACQUIRING"
  BY PoolAt, Zenon DEF P!Agrees
<1>2. P!Revokes(c, call[c].lid)
  BY Zenon DEF P!Revokes, P!Lid
<1>3. PICK l \in Lids : l = call[c].lid
  BY <1>1, Zenon
<1>4. lock[l].state = "REVOKING" /\ lock[l].holder = call[c].revokee /\ (call[c].ret = "OK" => call[c].revokee = c)
  BY <1>2, <1>3, Zenon DEF P!OwnersInv, P!OneRevoke
<1>5. lock[l].holder \in Clients
  BY <1>4, Zenon DEF P!OwnersInv, P!Types
<1>6. call[c].ret \in {"OK", "RETRY"}
  <2>1. call[c] \in CallsOf
    BY PoolTypes, Zenon DEF P!OwnersInv
  <2> QED
    BY <2>1, Zenon DEF CallsOf
<1> QED
  BY <1>1, <1>2, <1>4, <1>5, <1>6, Zenon

\* The revoke handler finds the lock in the cache, and releases it.
LEMMA RevokeCached ==
    ASSUME P!OwnersInv, NEW c \in Clients, P!revoke_handler(c),
           cache[call[c].revokee][P!Lid(c)].state = "FREE"
    PROVE  P!OwnersInv'
<1>0. P!Types /\ P!Calls
  BY Zenon DEF P!OwnersInv
<1>a. call[c].pc = "revoke" /\ lock' = lock
  BY Zenon DEF P!revoke_handler, P!At
<1>1. PICK l \in Lids, h \in Clients :
         /\ l = call[c].lid /\ h = call[c].revokee /\ call[c].pc = "revoke" /\ lock' = lock
         /\ cache[h][l].state = "FREE" /\ h # c /\ call[c].ret = "RETRY" /\ P!Revokes(c, l)
         /\ cache[c][l].state = "ACQUIRING"
  BY <1>a, RevokeAt, Zenon DEF P!Lid
<1>2. PICK s \in Caches : /\ cache' = [cache EXCEPT ![h] = [cache[h] EXCEPT ![l] = s]]
                          /\ s.state = "RELEASING" /\ s.revoke_later = cache[h][l].revoke_later
  <2>1. cache[h][l] \in Caches
    BY <1>0, PoolTypes, Zenon
  <2>2. cache' = [cache EXCEPT ![h] = [cache[h] EXCEPT ![l] = [cache[h][l] EXCEPT !.state = "RELEASING"]]]
    BY <1>1, Zenon DEF P!revoke_handler, P!Lid
  <2> QED
    BY <2>1, <2>2, CacheEdits, Zenon
<1>3. PICK r \in CallsOf : /\ call' = [call EXCEPT ![c] = r] /\ r.pc = "revoke_release" /\ r.lid = l
                           /\ r.ret = "RETRY" /\ r.revokee = h
  <2>1. call[c] \in CallsOf /\ "revoke_release" \in P!PCs
    BY <1>0, PoolTypes, Zenon DEF P!PCs
  <2>2. call' = [call EXCEPT ![c] = [call[c] EXCEPT !.pc = "revoke_release"]]
    BY <1>1, Zenon DEF P!revoke_handler, P!Lid, P!Goes
  <2>3. PICK q \in CallsOf : /\ q = [call[c] EXCEPT !.pc = "revoke_release"] /\ q.pc = "revoke_release"
                            /\ q.lid = call[c].lid /\ q.ret = call[c].ret /\ q.revokee = call[c].revokee
    BY <2>1, CallEdits, Zenon
  <2> QED
    BY <1>1, <2>2, <2>3, Zenon
<1>4. Moved(c, r, h, l, s) /\ P!Types'
  <2>1. Moves(c, r, h, l, s)
    BY <1>2, <1>3, Zenon DEF Moves
  <2> QED
    BY <1>0, <1>1, <2>1, PoolMoves, Zenon
<1>5. call[h].pc = "idle" \/ call[h].lid # l
  <2>1. CASE call[h].lid = l /\ call[h].pc # "idle"
    <3>1. P!Agrees(call[h], cache[h][l]) /\ call[h].pc \in P!PCs
      BY <2>1, PoolAt, Zenon DEF CallsOf
    <3> QED
      BY <1>1, <3>1, Zenon DEF P!Agrees, P!PCs
  <2> QED
    BY <2>1, Zenon
<1>6. P!Calls'
  <2>1. P!Agrees(r, cache[c][l])
    BY <1>1, <1>3, Zenon DEF P!Agrees
  <2>2. Stands(c, r, h, l, s)
    BY <1>1, <1>3, <1>5, <2>1, Zenon DEF Stands
  <2> QED
    BY <1>0, <1>4, <2>2, CallsMoved, Zenon
<1>b. /\ call'[c] = r /\ cache'[h][l] = s
      /\ \A d \in Clients : d # c => call'[d] = call[d]
      /\ \A d \in Clients, k \in Lids : d # h \/ k # l => cache'[d][k] = cache[d][k]
  BY <1>4, Zenon DEF Moved
<1>7. P!Holders'
  <2>1. \A d \in Clients, k \in Lids : P!Owner(d, k)' => P!Owner(d, k)
    <3> SUFFICES ASSUME NEW d \in Clients, NEW k \in Lids, P!Owner(d, k)'
                 PROVE  P!Owner(d, k)
      BY Zenon
    <3>1. CASE d # c /\ (d # h \/ k # l)
      BY <1>b, <3>1, Others, Zenon
    <3>2. CASE d # c /\ d = h /\ k = l
      BY <1>1, <3>2, Zenon DEF P!Owner
    <3>3. CASE d = c
      <4>1. call'[d].pc = "revoke_release" /\ cache'[d][k] = cache[d][k]
        BY <1>1, <1>3, <1>b, <3>3, Zenon
      <4> QED
        BY <4>1, Zenon DEF P!Owner, P!At
    <3> QED
      BY <3>1, <3>2, <3>3, Zenon
  <2> QED
    BY <1>1, <2>1, Zenon DEF P!OwnersInv, P!Holders
<1>8. P!OneRevoke'
  <2>1. \A d \in Clients, k \in Lids : P!Revokes(d, k)' =>
           P!Revokes(d, k) /\ call'[d].revokee = call[d].revokee /\ call'[d].ret = call[d].ret
    BY <1>1, <1>3, <1>4 DEF Moved, P!Revokes, P!Lid
  <2>2. \A d \in Clients, k \in Lids : P!Noted(d, k)' => P!Noted(d, k)
    <3> SUFFICES ASSUME NEW d \in Clients, NEW k \in Lids, P!Noted(d, k)'
                 PROVE  P!Noted(d, k)
      BY Zenon
    <3>1. CASE d # c /\ (d # h \/ k # l)
      BY <1>b, <3>1, Others, Zenon
    <3>2. CASE d # c /\ d = h /\ k = l
      BY <1>2, <1>b, <3>2, Zenon DEF P!Noted, P!Lid
    <3>3. CASE d = c
      BY <1>1, <1>3, <1>b, <3>3, Zenon DEF P!Noted, P!Lid
    <3> QED
      BY <3>1, <3>2, <3>3, Zenon
  <2> QED
    BY <1>1, <2>1, <2>2 DEF P!OwnersInv, P!OneRevoke
<1>9. P!OneRelease'
  <2>1. \A d \in Clients, k \in Lids : P!Releases(d, k)' => d # c /\ P!Releases(d, k) /\ ~ (d = h /\ k = l)
    BY <1>1, <1>3, <1>4, <1>5 DEF Moved, P!Releases, P!Lid
  <2>2. \A d \in Clients, k \in Lids : P!Handler(d, k)' => (d # c /\ P!Handler(d, k)) \/ (d = c /\ k = l)
    BY <1>3, <1>4 DEF Moved, P!Handler, P!Lid
  <2>3. \A d \in Clients : P!Handler(d, l) => call[d].revokee # h
    BY <1>1, Zenon DEF P!OwnersInv, P!OneRelease
  <2>4. P!OneRelease
    BY Zenon DEF P!OwnersInv
  <2>5. \A k \in Lids, d \in Clients : P!Releases(d, k)' /\ ~ P!At(d, "release")' => lock'[k].holder # d
    BY <1>1, <1>4, <2>1, <2>4 DEF Moved, P!OneRelease, P!At
  <2>6. \A k \in Lids, d \in Clients : P!Handler(d, k)' =>
              /\ call'[d].ret = "RETRY" /\ call'[d].revokee \in Clients
              /\ cache'[call'[d].revokee][k].state = "RELEASING"
              /\ ~ P!At(d, "revoke_release")' => lock'[k].holder # call'[d].revokee
    <3> SUFFICES ASSUME NEW k \in Lids, NEW d \in Clients, P!Handler(d, k)'
                 PROVE  /\ call'[d].ret = "RETRY" /\ call'[d].revokee \in Clients
                        /\ cache'[call'[d].revokee][k].state = "RELEASING"
                        /\ call'[d].pc # "revoke_release" => lock'[k].holder # call'[d].revokee
      BY Zenon DEF P!At
    <3>1. CASE d = c /\ k = l
      BY <1>2, <1>3, <1>b, <3>1
    <3>2. CASE d # c /\ P!Handler(d, k)
      <4>1. /\ call[d].ret = "RETRY" /\ call[d].revokee \in Clients
            /\ cache[call[d].revokee][k].state = "RELEASING"
            /\ call[d].pc # "revoke_release" => lock[k].holder # call[d].revokee
        BY <2>4, <3>2, Zenon DEF P!OneRelease, P!At
      <4>2. call'[d] = call[d]
        BY <1>b, <3>2, Zenon
      <4> QED
        <5>1. \A g \in Clients : cache[g][k].state = "RELEASING" => cache'[g][k].state = "RELEASING"
          BY <1>2, <1>b, Zenon
        <5>2. lock' = lock
          BY <1>1, Zenon
        <5> QED
          BY <4>1, <4>2, <5>1, <5>2, Zenon
    <3> QED
      BY <2>2, <3>1, <3>2, Zenon
  <2>7. \A k \in Lids, d, e \in Clients : P!Handler(d, k)' /\ P!Releases(e, k)' => e # call'[d].revokee
    BY <1>1, <1>3, <1>4, <2>1, <2>2, <2>4 DEF Moved, P!OneRelease
  <2>8. \A k \in Lids, d, e \in Clients :
           P!Handler(d, k)' /\ P!Handler(e, k)' /\ call'[e].revokee = call'[d].revokee => d = e
    BY <1>1, <1>3, <1>4, <2>2, <2>3, <2>4 DEF Moved, P!OneRelease
  <2> QED
    BY <2>5, <2>6, <2>7, <2>8 DEF P!OneRelease
<1> QED
  BY <1>4, <1>6, <1>7, <1>8, <1>9, Zenon DEF P!OwnersInv

\* The revoke handler leaves a note for the thread that has the lock.
LEMMA RevokeNoted ==
    ASSUME P!OwnersInv, NEW c \in Clients, P!revoke_handler(c),
           cache[call[c].revokee][P!Lid(c)].state # "FREE"
    PROVE  P!OwnersInv'
<1>0. P!Types /\ P!Calls
  BY Zenon DEF P!OwnersInv
<1>a. call[c].pc = "revoke" /\ lock' = lock
  BY Zenon DEF P!revoke_handler, P!At
<1>1. PICK l \in Lids, h \in Clients :
         /\ l = call[c].lid /\ h = call[c].revokee /\ call[c].pc = "revoke" /\ lock' = lock
         /\ cache[h][l].state # "FREE" /\ P!Revokes(c, l)
         /\ cache[c][l].state = "ACQUIRING"
  BY <1>a, RevokeAt, Zenon DEF P!Lid
<1>2. PICK s \in Caches : /\ cache' = [cache EXCEPT ![h] = [cache[h] EXCEPT ![l] = s]]
                          /\ s.state = cache[h][l].state /\ s.revoke_later
  <2> DEFINE s == [cache[h][l] EXCEPT !.revoke_later = TRUE]
  <2>1. cache[h][l] \in Caches
    BY <1>0, PoolTypes, Zenon
  <2>2. s \in Caches /\ s.state = cache[h][l].state /\ s.revoke_later
    BY <2>1, Zenon DEF Caches
  <2>3. cache' = [cache EXCEPT ![h] = [cache[h] EXCEPT ![l] = s]]
    BY <1>1, Zenon DEF P!revoke_handler, P!Lid
  <2> QED
    BY <2>2, <2>3, Zenon
<1>3. PICK r \in CallsOf : /\ call' = [call EXCEPT ![c] = r] /\ r.pc = "returned" /\ r.lid = l
                           /\ r.ret = call[c].ret
  <2>1. call[c] \in CallsOf /\ "returned" \in P!PCs
    BY <1>0, PoolTypes, Zenon DEF P!PCs
  <2>2. call' = [call EXCEPT ![c] = [call[c] EXCEPT !.pc = "returned"]]
    BY <1>1, Zenon DEF P!revoke_handler, P!Lid, P!Goes
  <2>3. PICK q \in CallsOf : /\ q = [call[c] EXCEPT !.pc = "returned"] /\ q.pc = "returned"
                            /\ q.lid = call[c].lid /\ q.ret = call[c].ret
    BY <2>1, CallEdits
  <2> QED
    BY <1>1, <2>2, <2>3, Zenon
<1>4. Moved(c, r, h, l, s) /\ P!Types'
  <2>1. Moves(c, r, h, l, s)
    BY <1>2, <1>3, Zenon DEF Moves
  <2> QED
    BY <1>0, <1>1, <2>1, PoolMoves, Zenon
<1>6. P!Calls'
  <2>1. P!Agrees(r, cache[c][l]) /\ (h = c => P!Agrees(r, s))
    BY <1>1, <1>2, <1>3, Zenon DEF P!Agrees
  <2>2. call[h].pc # "idle" /\ call[h].lid = l => P!Agrees(call[h], s)
    <3>1. call[h].pc # "idle" /\ call[h].lid = l => P!Agrees(call[h], cache[h][l])
      BY PoolAt, Zenon
    <3> QED
      BY <1>2, <3>1, Zenon DEF P!Agrees
  <2>3. Stands(c, r, h, l, s)
    BY <1>3, <2>1, <2>2, Zenon DEF Stands
  <2> QED
    BY <1>0, <1>4, <2>3, CallsMoved, Zenon
<1>b. /\ call'[c] = r /\ cache'[h][l] = s
      /\ \A d \in Clients : d # c => call'[d] = call[d]
      /\ \A d \in Clients, k \in Lids : d # h \/ k # l => cache'[d][k] = cache[d][k]
  BY <1>4, Zenon DEF Moved
<1>7. P!Holders'
  <2>1. \A d \in Clients, k \in Lids : P!Owner(d, k)' => P!Owner(d, k)
    <3> SUFFICES ASSUME NEW d \in Clients, NEW k \in Lids, P!Owner(d, k)'
                 PROVE  P!Owner(d, k)
      BY Zenon
    <3>1. CASE d # c /\ (d # h \/ k # l)
      BY <1>b, <3>1, Others, Zenon
    <3>2. CASE d # c /\ d = h /\ k = l
      <4>1. call'[d] = call[d] /\ cache'[d][k].state = cache[d][k].state
        BY <1>2, <1>b, <3>2, Zenon
      <4> QED
        BY <4>1, Zenon DEF P!Owner, P!At, P!Lid
    <3>3. CASE d = c
      <4>1. /\ call'[d].pc = "returned" /\ call'[d].lid = l /\ call'[d].ret = call[d].ret
            /\ call[d].pc = "revoke" /\ call[d].lid = l
        BY <1>1, <1>3, <1>b, <3>3, Zenon
      <4>2. cache'[d][k].state = cache[d][k].state
        BY <1>2, <1>b, Zenon
      <4> QED
        BY <4>1, <4>2, Zenon DEF P!Owner, P!At, P!Lid
    <3> QED
      BY <3>1, <3>2, <3>3, Zenon
  <2> QED
    BY <1>1, <2>1, Zenon DEF P!OwnersInv, P!Holders
<1>8. P!OneRevoke'
  <2>1. \A d \in Clients, k \in Lids : P!Revokes(d, k)' =>
           /\ P!Revokes(d, k) /\ call'[d].revokee = call[d].revokee /\ call'[d].ret = call[d].ret
           /\ k # l
    <3>1. \A d \in Clients, k \in Lids : P!Revokes(d, k)' => d # c /\ P!Revokes(d, k)
      BY <1>1, <1>3, <1>4, Zenon DEF Moved, P!Revokes, P!Lid
    <3>2. \A d \in Clients : P!Revokes(d, l) => d = c
      BY <1>1, Zenon DEF P!OwnersInv, P!OneRevoke
    <3> QED
      BY <1>4, <3>1, <3>2, Zenon DEF Moved
  <2>2. \A d \in Clients, k \in Lids : P!Noted(d, k)' => P!Noted(d, k) \/ (d = h /\ k = l)
    <3> SUFFICES ASSUME NEW d \in Clients, NEW k \in Lids, P!Noted(d, k)', ~ (d = h /\ k = l)
                 PROVE  P!Noted(d, k)
      BY Zenon
    <3>1. CASE d # c
      BY <1>b, <3>1, Others, Zenon
    <3>2. CASE d = c
      BY <1>1, <1>3, <1>b, <3>2, Zenon DEF P!Noted, P!Lid
    <3> QED
      BY <3>1, <3>2, Zenon
  <2>3. lock[l].state = "REVOKING" /\ lock[l].holder = h
    BY <1>1, Zenon DEF P!OwnersInv, P!OneRevoke
  <2> QED
    BY <1>1, <2>1, <2>2, <2>3 DEF P!OwnersInv, P!OneRevoke
<1>9. P!OneRelease'
  <2>1. \A d \in Clients, k \in Lids : P!Releases(d, k)' => d # c /\ P!Releases(d, k)
    BY <1>1, <1>3, <1>4, Zenon DEF Moved, P!Releases, P!Lid
  <2>2. \A d \in Clients, k \in Lids : P!Handler(d, k)' => d # c /\ P!Handler(d, k)
    BY <1>3, <1>4, Zenon DEF Moved, P!Handler, P!Lid
  <2>3. \A d \in Clients, k \in Lids : cache'[d][k].state = cache[d][k].state
    BY <1>2, <1>4 DEF Moved
  <2>4. \A d \in Clients : d # c => call'[d] = call[d]
    BY <1>4, Zenon DEF Moved
  <2> QED
    BY <1>1, <2>1, <2>2, <2>3, <2>4 DEF P!OwnersInv, P!OneRelease, P!At
<1> QED
  BY <1>4, <1>6, <1>7, <1>8, <1>9, Zenon DEF P!OwnersInv


Lock == [state : {"FREE", "LOCKED", "REVOKING", "RETRYING"}, holder : Clients \cup {P!None},
         retryer : Clients \cup {P!None}, waiter : SUBSET Clients]

\* A step of the server: c's call becomes r, and the lock l becomes k.
Serves(c, r, l, k) ==
    /\ call'[c] = r /\ \A d \in Clients : d # c => call'[d] = call[d]
    /\ lock'[l] = k /\ \A m \in Lids : m # l => lock'[m] = lock[m]
    /\ cache' = cache

\* A cache that the server does not change agrees with the thread that it moves.
LEMMA CallsServed ==
    ASSUME P!Calls, NEW c \in Clients, NEW r, NEW l, NEW k, Serves(c, r, l, k),
           r.pc = "idle" \/ (r.lid \in Lids /\ P!Agrees(r, cache[c][r.lid]))
    PROVE  P!Calls'
<1>0. call'[c] = r /\ cache' = cache /\ \A d \in Clients : d # c => call'[d] = call[d]
  BY Zenon DEF Serves
<1> SUFFICES ASSUME NEW d \in Clients, call'[d].pc # "idle"
             PROVE  call'[d].lid \in Lids /\ P!Agrees(call'[d], cache'[d][call'[d].lid])
  <2>1. \A d \in Clients : P!Agrees(call[d], cache[d][call[d].lid])' <=> P!Agrees(call'[d], cache'[d][call'[d].lid])
    BY Zenon DEF P!Agrees
  <2> QED
    BY <2>1, Zenon DEF P!Calls, P!At, P!Lid
<1>1. CASE d = c
  BY <1>0, <1>1, Zenon
<1>2. CASE d # c
  <2>1. call'[d] = call[d] /\ call[d].pc # "idle" /\ cache' = cache
    BY <1>0, <1>2, Zenon
  <2>2. call[d].lid \in Lids /\ P!Agrees(call[d], cache[d][call[d].lid])
    BY <2>1, Zenon DEF P!Calls, P!At, P!Lid
  <2> QED
    BY <2>1, <2>2, Zenon
<1> QED
  BY <1>1, <1>2, Zenon

\* A step of the server replaces one call and one lock, which keeps the types.
LEMMA ServerMoves ==
    ASSUME P!Types, NEW c \in Clients, NEW r \in CallsOf, NEW l \in Lids, NEW k \in Lock,
           call' = [call EXCEPT ![c] = r], lock' = [lock EXCEPT ![l] = k], cache' = cache,
           k.state \in {"LOCKED", "REVOKING"} => k.holder \in Clients,
           k.state = "REVOKING" => k.waiter # {}
    PROVE  Serves(c, r, l, k) /\ P!Types'
<1>1. call' \in [Clients -> CallsOf] /\ lock' \in [Lids -> Lock] /\ cache' \in [Clients -> [Lids -> Caches]]
  BY Zenon DEF P!Types, CallsOf, Caches, Lock
<1>2. Serves(c, r, l, k)
  BY Zenon DEF Serves, P!Types
<1>3. \A m \in Lids : /\ lock'[m].state \in {"LOCKED", "REVOKING"} => lock'[m].holder \in Clients
                      /\ lock'[m].state = "REVOKING" => lock'[m].waiter # {}
  BY <1>2, Zenon DEF P!Types, Serves
<1> QED
  BY <1>1, <1>2, <1>3, Zenon DEF P!Types, CallsOf, Caches, Lock

\* The server answers an acquire.
LEMMA ServerAcquires ==
    ASSUME P!ClientIds, P!OwnersInv, NEW c \in Clients, P!ServerAcquire(c)
    PROVE  P!OwnersInv'
<1>0. P!Types /\ P!Calls /\ call[c].pc = "acquire"
  BY Zenon DEF P!OwnersInv, P!ServerAcquire, P!At
<1>1. PICK l \in Lids : l = call[c].lid /\ call[c].pc = "acquire" /\ cache[c][l].state = "ACQUIRING"
  BY <1>0, PoolAt, Zenon DEF P!Agrees
<1>2. PICK o : o = lock[l]
  OBVIOUS
<1>3. /\ o \in Lock /\ call[c] \in CallsOf
      /\ o.state \in {"LOCKED", "REVOKING"} => o.holder \in Clients
      /\ o.state = "REVOKING" => o.waiter # {}
  <2>1. o \in Lock
    BY <1>0, <1>2, Zenon DEF P!Types, Lock
  <2> QED
    BY <1>0, <1>2, <2>1, PoolTypes, Zenon DEF P!Types
<1>4. /\ lock' = [lock EXCEPT ![l] = P!Grant(o, c).k] /\ cache' = cache
      /\ call' = [call EXCEPT ![c] = [call[c] EXCEPT
                     !.pc = IF P!Grant(o, c).revoke THEN "revoke" ELSE "returned",
                     !.ret = P!Grant(o, c).ret, !.revokee = P!Grant(o, c).k.holder]]
  BY <1>1, <1>2, Zenon DEF P!ServerAcquire, P!Lid
<1>5. PICK k, p, x : /\ k = P!Grant(o, c).k /\ x = P!Grant(o, c).ret
                     /\ p = IF P!Grant(o, c).revoke THEN "revoke" ELSE "returned"
  OBVIOUS
<1>6. /\ k \in Lock /\ (k.state \in {"LOCKED", "REVOKING"} => k.holder \in Clients)
      /\ (k.state = "REVOKING" => k.waiter # {})
      /\ \/ /\ o.state = "FREE" \/ o.state = "RETRYING"
            /\ k.state \in {"LOCKED", "REVOKING"} /\ k.holder = c /\ x = "OK"
            /\ p = "returned" \/ (p = "revoke" /\ k.state = "REVOKING")
         \/ /\ o.state = "LOCKED" /\ k.state = "REVOKING" /\ k.holder = o.holder /\ x = "RETRY" /\ p = "revoke"
         \/ /\ k.state = o.state /\ k.holder = o.holder /\ x = "RETRY" /\ p = "returned"
  <2>1. CASE o.state = "FREE"
    BY <1>3, <1>5, <2>1, Zenon DEF P!Grant, Lock
  <2>2. CASE o.state = "LOCKED"
    BY <1>3, <1>5, <2>2, Zenon DEF P!Grant, Lock
  <2>3. CASE o.state = "RETRYING" /\ o.retryer = c /\ o.waiter = {}
    BY <1>3, <1>5, <2>3, Zenon DEF P!Grant, Lock
  <2>4. CASE o.state = "RETRYING" /\ o.retryer = c /\ o.waiter # {}
    BY <1>3, <1>5, <2>4, Zenon DEF P!Grant, Lock
  <2>5. CASE o.state = "REVOKING" \/ (o.state = "RETRYING" /\ o.retryer # c)
    BY <1>3, <1>5, <2>5, Zenon DEF P!Grant, Lock
  <2>6. o.state \in {"FREE", "LOCKED", "REVOKING", "RETRYING"}
    BY <1>3, Zenon DEF Lock
  <2> QED
    BY <2>1, <2>2, <2>3, <2>4, <2>5, <2>6, Zenon
<1>7. PICK r \in CallsOf : /\ call' = [call EXCEPT ![c] = r] /\ r.pc = p /\ r.ret = x
                           /\ r.revokee = k.holder /\ r.lid = l
  <2> DEFINE q == [call[c] EXCEPT !.pc = p, !.ret = x, !.revokee = k.holder]
  <2>1. p \in P!PCs /\ x \in {"OK", "RETRY"} /\ k.holder \in Clients \cup {P!None}
    BY <1>6, Zenon DEF P!PCs, Lock
  <2>2. q \in CallsOf /\ q.pc = p /\ q.ret = x /\ q.revokee = k.holder /\ q.lid = l
    BY <1>1, <1>3, <2>1, Zenon DEF CallsOf
  <2>3. call' = [call EXCEPT ![c] = q]
    BY <1>4, <1>5, Zenon
  <2> QED
    BY <2>2, <2>3, Zenon
<1>8. Serves(c, r, l, k) /\ P!Types'
  <2>1. lock' = [lock EXCEPT ![l] = k] /\ cache' = cache
    BY <1>4, <1>5, Zenon
  <2> QED
    BY <1>0, <1>6, <1>7, <2>1, ServerMoves, Zenon
<1>9. P!Calls'
  <2>1. P!Agrees(r, cache[c][l])
    BY <1>1, <1>6, <1>7, Zenon DEF P!Agrees
  <2> QED
    BY <1>0, <1>7, <1>8, <2>1, CallsServed, Zenon
<1>10. P!Holders'
  <2>1. \A d \in Clients, m \in Lids : P!Owner(d, m)' =>
            \/ d # c /\ P!Owner(d, m)
            \/ d = c /\ m = l /\ x = "OK"
            \/ d = c /\ m # l /\ P!Owner(d, m)
    <3>1. \A d \in Clients, m \in Lids : d # c /\ P!Owner(d, m)' => P!Owner(d, m)
      BY <1>8, Zenon DEF Serves, P!Owner, P!At, P!Lid
    <3>2. \A m \in Lids : P!Owner(c, m)' => (m = l /\ x = "OK") \/ cache[c][m].state \in {"FREE", "LOCKED"}
      BY <1>6, <1>7, <1>8, Zenon DEF Serves, P!Owner, P!At, P!Lid
    <3>3. \A m \in Lids : cache[c][m].state \in {"FREE", "LOCKED"} => m # l /\ P!Owner(c, m)
      BY <1>1, Zenon DEF P!Owner
    <3>4. \A d \in Clients, m \in Lids : d = c /\ P!Owner(d, m)' => (m = l /\ x = "OK") \/ (m # l /\ P!Owner(d, m))
      BY <3>2, <3>3, Zenon
    <3> QED
      BY <3>1, <3>4, Zenon
  <2>2. \A d \in Clients : P!Owner(d, l) => o.state \in {"LOCKED", "REVOKING"} /\ o.holder = d
    BY <1>2, Zenon DEF P!OwnersInv, P!Holders
  <2> QED
    BY <1>6, <1>8, <2>1, <2>2 DEF Serves, P!OwnersInv, P!Holders
<1>11. P!OneRevoke'
  <2>1. \A d \in Clients, m \in Lids : P!Revokes(d, m)' => (d # c /\ P!Revokes(d, m)) \/ (d = c /\ m = l /\ p = "revoke")
    BY <1>1, <1>6, <1>7, <1>8 DEF Serves, P!Revokes, P!Lid
  <2>2. \A d \in Clients, m \in Lids : P!Noted(d, m)' => P!Noted(d, m)
    BY <1>1, <1>6, <1>7, <1>8, Zenon DEF Serves, P!Noted, P!Lid
  <2>3. \A d \in Clients : P!Revokes(d, l) \/ P!Noted(d, l) => o.state = "REVOKING"
    BY <1>2, Zenon DEF P!OwnersInv, P!OneRevoke
  <2> QED
    BY <1>2, <1>6, <1>7, <1>8, <2>1, <2>2, <2>3 DEF Serves, P!OwnersInv, P!OneRevoke
<1>12. P!OneRelease'
  <2>1. \A d \in Clients, m \in Lids : P!Releases(d, m)' => d # c /\ P!Releases(d, m)
    BY <1>6, <1>7, <1>8, Zenon DEF Serves, P!Releases, P!Lid
  <2>2. \A d \in Clients, m \in Lids : P!Handler(d, m)' => d # c /\ P!Handler(d, m)
    BY <1>6, <1>7, <1>8, Zenon DEF Serves, P!Handler, P!Lid
  <2>3. \A d \in Clients : P!Handler(d, l) => call[d].revokee # c
    BY <1>1, Zenon DEF P!OwnersInv, P!OneRelease
  <2>4. \A d \in Clients : d # c => call'[d] = call[d]
    BY <1>8, Zenon DEF Serves
  <2>5. \A m \in Lids : lock'[m].holder = lock[m].holder \/ (m = l /\ lock'[m].holder = c)
    BY <1>2, <1>6, <1>8, Zenon DEF Serves
  <2>6. cache' = cache
    BY <1>8, Zenon DEF Serves
  <2> QED
    BY <2>1, <2>2, <2>3, <2>4, <2>5, <2>6 DEF P!OwnersInv, P!OneRelease, P!At
<1> QED
  BY <1>8, <1>9, <1>10, <1>11, <1>12, Zenon DEF P!OwnersInv

\* The server passes a lock that is released on to the first that waits.
LEMMA ServerReleases ==
    ASSUME P!ClientIds, P!OwnersInv, NEW c \in Clients, P!ServerRelease(c)
    PROVE  P!OwnersInv'
<1>0. P!Types /\ P!Calls /\ (call[c].pc = "release" \/ call[c].pc = "revoke_release")
  BY Zenon DEF P!OwnersInv, P!ServerRelease, P!At
<1>1. PICK l \in Lids, p \in P!PCs : l = call[c].lid /\ p = call[c].pc
  BY <1>0, PoolAt, Zenon DEF P!PCs
<1>a. P!Agrees(call[c], cache[c][l])
  BY <1>0, <1>1, PoolAt, Zenon
<1>2. PICK o : o = lock[l]
  OBVIOUS
<1>3. PICK h \in Clients : /\ h = IF p = "release" THEN c ELSE call[c].revokee
                           /\ o.state = "REVOKING" /\ o.holder = h
  <2>1. CASE p = "release"
    <3>1. P!Noted(c, l)
      BY <1>1, <1>a, <2>1, Zenon DEF P!Noted, P!Agrees, P!Lid
    <3> QED
      BY <1>2, <2>1, <3>1, Zenon DEF P!OwnersInv, P!OneRevoke
  <2>2. CASE p = "revoke_release"
    <3>1. P!Handler(c, l) /\ P!Revokes(c, l)
      BY <1>1, <2>2, Zenon DEF P!Handler, P!Revokes, P!Lid
    <3> QED
      BY <1>2, <2>2, <3>1, Zenon DEF P!OwnersInv, P!OneRelease, P!OneRevoke
  <2> QED
    BY <1>0, <1>1, <2>1, <2>2, Zenon
<1>4. o \in Lock /\ call[c] \in CallsOf /\ o.waiter # {}
  <2>1. o \in Lock
    BY <1>0, <1>2, Zenon DEF P!Types, Lock
  <2> QED
    BY <1>0, <1>2, <1>3, <2>1, PoolTypes, Zenon DEF P!Types
<1>5. PICK k \in Lock : k = P!NextRetryer(o) /\ k.state = "RETRYING" /\ k.holder = P!None
  <2>1. P!Min(o.waiter) \in o.waiter
    <3>1. o.waiter \in SUBSET Nat
      BY <1>4, Zenon DEF Lock, P!ClientIds
    <3> QED
      BY <1>4, <3>1, Least, Zenon DEF P!Min
  <2>2. P!Min(o.waiter) \in Clients
    BY <1>4, <2>1, Zenon DEF Lock
  <2> DEFINE q == [o EXCEPT !.state = "RETRYING", !.retryer = P!Min(o.waiter),
                            !.waiter = o.waiter \ {P!Min(o.waiter)}, !.holder = P!None]
  <2>3. q = P!NextRetryer(o)
    BY Zenon DEF P!NextRetryer
  <2>4. q \in Lock /\ q.state = "RETRYING" /\ q.holder = P!None
    <3>1. PICK w \in Clients : w = P!Min(o.waiter)
      BY <2>2, Zenon
    <3> QED
      BY <1>4, <3>1, Zenon DEF Lock
  <2> QED
    BY <2>3, <2>4, Zenon
<1>6. P!None \notin Clients
  BY Zenon DEF P!ClientIds
<1>7. lock' = [lock EXCEPT ![l] = k] /\ cache' = cache
  BY <1>1, <1>2, <1>5, Zenon DEF P!ServerRelease, P!Lid
<1>8. PICK r \in CallsOf : /\ call' = [call EXCEPT ![c] = r] /\ r.lid = l
                           /\ r.pc = (IF p = "release" THEN "release_retry" ELSE "revoke_retry")
                           /\ r.ret = call[c].ret /\ r.revokee = call[c].revokee
  <2>1. lock'[l] = k
    BY <1>0, <1>7, Zenon DEF P!Types
  <2> DEFINE q == [call[c] EXCEPT !.pc = IF p = "release" THEN "release_retry" ELSE "revoke_retry",
                                  !.retryee = k.retryer]
  <2>2. call' = [call EXCEPT ![c].pc = IF @ = "release" THEN "release_retry" ELSE "revoke_retry",
                             ![c].retryee = lock'[l].retryer]
    BY <1>1, Zenon DEF P!ServerRelease, P!Lid
  <2>3. call' = [call EXCEPT ![c] = q]
    BY <1>0, <1>1, <2>1, <2>2, Zenon DEF P!Types
  <2>4. k.retryer \in Clients \cup {P!None}
    BY <1>5, Zenon DEF Lock
  <2>5. q \in CallsOf /\ q.lid = l /\ q.ret = call[c].ret /\ q.revokee = call[c].revokee
        /\ q.pc = (IF p = "release" THEN "release_retry" ELSE "revoke_retry")
    BY <1>1, <1>4, <2>4, Zenon DEF CallsOf, P!PCs
  <2> QED
    BY <2>3, <2>5, Zenon
<1>9. Serves(c, r, l, k) /\ P!Types'
  <2>1. ~ (k.state \in {"LOCKED", "REVOKING"})
    BY <1>5, Zenon
  <2> QED
    BY <1>0, <1>5, <1>7, <1>8, <2>1, ServerMoves, Zenon
<1>10. P!Calls'
  <2>1. P!Agrees(r, cache[c][l])
    BY <1>0, <1>1, <1>a, <1>8, Zenon DEF P!Agrees
  <2> QED
    BY <1>0, <1>8, <1>9, <2>1, CallsServed, Zenon
<1>11. \A d \in Clients : ~ P!Owner(d, l)'
  <2>1. \A d \in Clients : P!Owner(d, l)' => d # c /\ P!Owner(d, l)
    BY <1>0, <1>1, <1>a, <1>8, <1>9, Zenon DEF Serves, P!Owner, P!Agrees, P!At, P!Lid
  <2>2. \A d \in Clients : P!Owner(d, l) => d = h
    BY <1>2, <1>3, Zenon DEF P!OwnersInv, P!Holders
  <2>3. CASE p = "release"
    BY <1>3, <2>1, <2>2, <2>3, Zenon
  <2>4. CASE p # "release"
    <3>1. P!Handler(c, l)
      BY <1>0, <1>1, <2>4, Zenon DEF P!Handler, P!Lid
    <3>2. cache[h][l].state = "RELEASING" /\ ~ P!Releases(h, l)
      BY <1>3, <2>4, <3>1 DEF P!OwnersInv, P!OneRelease
    <3>3. ~ P!Owner(h, l)
      <4>1. call[h].pc # "idle" /\ call[h].lid = l => P!Agrees(call[h], cache[h][l])
        BY PoolAt, Zenon
      <4> QED
        BY <3>2, <4>1, Zenon DEF P!Owner, P!Releases, P!Agrees, P!At, P!Lid
    <3> QED
      BY <2>1, <2>2, <3>3, Zenon
  <2> QED
    BY <2>3, <2>4, Zenon
<1>12. P!Holders'
  <2>1. \A d \in Clients, m \in Lids : P!Owner(d, m)' => P!Owner(d, m)
    BY <1>0, <1>1, <1>8, <1>9, Zenon DEF Serves, P!Owner, P!At, P!Lid
  <2> QED
    BY <1>9, <1>11, <2>1, Zenon DEF Serves, P!OwnersInv, P!Holders
<1>13. P!OneRevoke'
  <2>1. \A d \in Clients, m \in Lids : P!Revokes(d, m)' => d # c /\ P!Revokes(d, m)
    BY <1>8, <1>9, Zenon DEF Serves, P!Revokes, P!Lid
  <2>2. \A d \in Clients, m \in Lids : P!Noted(d, m)' => P!Noted(d, m) /\ ~ (d = c /\ m = l /\ p = "release")
    BY <1>1, <1>0, <1>8, <1>9 DEF Serves, P!Noted, P!Lid
  <2>3. \A d \in Clients : ~ P!Revokes(d, l)' /\ ~ P!Noted(d, l)'
    <3>1. CASE p = "release"
      <4>1. P!Noted(c, l)
        BY <1>1, <1>a, <3>1, Zenon DEF P!Noted, P!Agrees, P!Lid
      <4>2. \A d \in Clients : ~ P!Revokes(d, l) /\ (P!Noted(d, l) => d = c)
        BY <1>2, <1>3, <3>1, <4>1, Zenon DEF P!OwnersInv, P!OneRevoke
      <4> QED
        BY <2>1, <2>2, <3>1, <4>2, Zenon
    <3>2. CASE p # "release"
      <4>1. P!Revokes(c, l)
        BY <1>0, <1>1, <3>2, Zenon DEF P!Revokes, P!Lid
      <4>2. \A d \in Clients : ~ P!Noted(d, l) /\ (P!Revokes(d, l) => d = c)
        BY <4>1, Zenon DEF P!OwnersInv, P!OneRevoke
      <4> QED
        BY <2>1, <2>2, <4>2, Zenon
    <3> QED
      BY <3>1, <3>2, Zenon
  <2>4. \A d \in Clients : d # c => call'[d] = call[d]
    BY <1>9, Zenon DEF Serves
  <2>5. \A m \in Lids : m # l => lock'[m] = lock[m]
    BY <1>9, Zenon DEF Serves
  <2> QED
    BY <2>1, <2>2, <2>3, <2>4, <2>5 DEF P!OwnersInv, P!OneRevoke
<1>14. P!OneRelease'
  <2>1. \A d \in Clients, m \in Lids : P!Releases(d, m)' => P!Releases(d, m)
    BY <1>0, <1>1, <1>8, <1>9 DEF Serves, P!Releases, P!Lid
  <2>2. \A d \in Clients, m \in Lids : P!Handler(d, m)' =>
           P!Handler(d, m) /\ call'[d].revokee = call[d].revokee /\ call'[d].ret = call[d].ret
    BY <1>0, <1>1, <1>8, <1>9 DEF Serves, P!Handler, P!Lid
  <2>3. \A d \in Clients : d # c => call'[d] = call[d]
    BY <1>9, Zenon DEF Serves
  <2>4. lock'[l].holder \notin Clients /\ \A m \in Lids : m # l => lock'[m] = lock[m]
    BY <1>5, <1>6, <1>9, Zenon DEF Serves
  <2>5. cache' = cache /\ \A m \in Lids : m # l => ~ P!Releases(c, m) /\ ~ P!Handler(c, m)
    BY <1>1, <1>9, Zenon DEF Serves, P!Releases, P!Handler, P!Lid
  <2>6. P!OneRelease
    BY Zenon DEF P!OwnersInv
  <2>7. \A k1 \in Lids, d \in Clients : P!Releases(d, k1)' /\ ~ P!At(d, "release")' => lock'[k1].holder # d
    BY <2>1, <2>3, <2>4, <2>5, <2>6 DEF P!OneRelease, P!At
  <2>8. \A k1 \in Lids, d \in Clients : P!Handler(d, k1)' =>
              /\ call'[d].ret = "RETRY" /\ call'[d].revokee \in Clients
              /\ cache'[call'[d].revokee][k1].state = "RELEASING"
              /\ ~ P!At(d, "revoke_release")' => lock'[k1].holder # call'[d].revokee
    BY <2>2, <2>3, <2>4, <2>5, <2>6 DEF P!OneRelease, P!At
  <2>9. \A k1 \in Lids, d, e \in Clients : P!Handler(d, k1)' /\ P!Releases(e, k1)' => e # call'[d].revokee
    BY <2>1, <2>2, <2>6 DEF P!OneRelease
  <2>10. \A k1 \in Lids, d, e \in Clients :
           P!Handler(d, k1)' /\ P!Handler(e, k1)' /\ call'[e].revokee = call'[d].revokee => d = e
    BY <2>2, <2>6 DEF P!OneRelease
  <2> QED
    BY <2>7, <2>8, <2>9, <2>10, Zenon DEF P!OneRelease
<1> QED
  BY <1>9, <1>10, <1>12, <1>13, <1>14, Zenon DEF P!OwnersInv

\* At first nobody has a lock.
LEMMA PoolInit == P!Init => P!OwnersInv
<1> SUFFICES ASSUME P!Init PROVE P!OwnersInv
  OBVIOUS
<1>1. P!Types
  BY Zenon DEF P!Init, P!Types, P!Idle, P!PCs
<1>2. P!Calls
  BY Zenon DEF P!Init, P!Calls, P!Idle, P!At
<1>3. /\ \A c \in Clients, l \in Lids : ~ P!Owner(c, l) /\ ~ P!Noted(c, l) /\ ~ P!Revokes(c, l)
      /\ \A c \in Clients, l \in Lids : ~ P!Handler(c, l) /\ ~ P!Releases(c, l)
  BY Zenon DEF P!Init, P!Idle, P!At, P!Owner, P!Noted, P!Revokes, P!Handler, P!Releases
<1>4. P!Holders /\ P!OneRevoke /\ P!OneRelease
  BY <1>3, Zenon DEF P!Holders, P!OneRevoke, P!OneRelease
<1> QED
  BY <1>1, <1>2, <1>4, Zenon DEF P!OwnersInv

\* A stutter keeps the invariant.
LEMMA PoolRests == P!OwnersInv /\ UNCHANGED P!vars => P!OwnersInv'
<1> SUFFICES ASSUME P!OwnersInv, UNCHANGED P!vars PROVE P!OwnersInv'
  OBVIOUS
<1>1. lock' = lock /\ cache' = cache /\ call' = call
  BY Zenon DEF P!vars
<1>2. P!Types' /\ P!Calls'
  BY <1>1, Zenon DEF P!OwnersInv, P!Types, P!Calls, P!At, P!Lid
<1>3. \A c \in Clients, l \in Lids :
         /\ P!Owner(c, l)' = P!Owner(c, l) /\ P!Noted(c, l)' = P!Noted(c, l) /\ P!Revokes(c, l)' = P!Revokes(c, l)
         /\ P!Handler(c, l)' = P!Handler(c, l) /\ P!Releases(c, l)' = P!Releases(c, l)
  BY <1>1 DEF P!Owner, P!Noted, P!Revokes, P!Handler, P!Releases, P!At, P!Lid
<1>4. P!Holders' /\ P!OneRevoke' /\ P!OneRelease'
  BY <1>1, <1>3 DEF P!OwnersInv, P!Holders, P!OneRevoke, P!OneRelease, P!At
<1> QED
  BY <1>2, <1>4, Zenon DEF P!OwnersInv

\* Every step of the clients and of the server keeps the invariant.
LEMMA PoolKeeps ==
    ASSUME P!ClientIds, P!OwnersInv, [P!Next]_P!vars
    PROVE  P!OwnersInv'
<1>0. P!Types /\ P!Calls
  BY Zenon DEF P!OwnersInv
<1>1. ASSUME NEW c \in Clients, NEW l \in Lids, P!Acquire(c, l)
      PROVE  P!OwnersInv'
  BY <1>1, AcquireMoves, Zenon
<1>2. ASSUME NEW c \in Clients, P!AcquireReturns(c)
      PROVE  P!OwnersInv'
  BY <1>2, AcquireGranted, AcquireRetries, Zenon DEF P!AcquireReturns
<1>3. ASSUME NEW c \in Clients, P!Release(c) \/ P!ReleaseReturns(c)
      PROVE  P!OwnersInv'
  BY <1>3, ReleaseMoves, ReleaseEnds, Zenon
<1>4. ASSUME NEW c \in Clients, P!ServerAcquire(c) \/ P!ServerRelease(c)
      PROVE  P!OwnersInv'
  BY <1>4, ServerAcquires, ServerReleases, Zenon
<1>5. ASSUME NEW c \in Clients, P!revoke_handler(c) \/ P!RevokeReturns(c)
      PROVE  P!OwnersInv'
  BY <1>5, RevokeCached, RevokeNoted, RevokeEnds, Zenon
<1>6. ASSUME NEW c \in Clients, call[c].pc = "release_retry" \/ call[c].pc = "revoke_retry"
      PROVE  /\ call[c].lid \in Lids /\ call[c] \in CallsOf
             /\ \A d \in Clients, l \in Lids : cache[d][l] \in Caches
  BY <1>0, <1>6, PoolAt, PoolTypes, Zenon
<1>7. ASSUME NEW c \in Clients, P!retry_handler(c)
      PROVE  P!OwnersInv'
  <2>0. call[c].pc \in {"release_retry", "revoke_retry"}
    BY <1>7, Zenon DEF P!retry_handler, P!At
  <2>1. /\ call[c].pc = "release_retry" \/ call[c].pc = "revoke_retry"
        /\ P!Goes(c, P!AfterRetry(c)) /\ lock' = lock
        /\ cache' = [cache EXCEPT ![call[c].retryee][call[c].lid].retry_earlier = TRUE]
    BY <1>7, Zenon DEF P!retry_handler, P!At, P!Lid
  <2>2. PICK l \in Lids : l = call[c].lid
    BY <1>6, <2>1, Zenon
  <2>3. CASE call[c].retryee \in Clients
    <3>1. PICK h \in Clients : h = call[c].retryee
      BY <2>3, Zenon
    <3>2. PICK s \in Caches : /\ s = [cache[h][l] EXCEPT !.retry_earlier = TRUE] /\ s.state = cache[h][l].state
                              /\ s.revoke_later = cache[h][l].revoke_later
      <4>1. cache[h][l] \in Caches
        BY <1>6, <2>1, Zenon
      <4> QED
        BY <4>1, RetryEdits, Zenon
    <3>3. s.state = cache[h][l].state /\ s.revoke_later = cache[h][l].revoke_later
      BY <3>2, Zenon
    <3>4. cache' = [cache EXCEPT ![h] = [cache[h] EXCEPT ![l] = s]]
      BY <2>1, <2>2, <3>1, <3>2, Zenon
    <3>5. Notes(h, l, s)
      BY <3>3, <3>4, Zenon DEF Notes
    <3> QED
      BY <2>0, <2>1, <2>2, <3>5, RetryEnds, Zenon
  <2>4. CASE call[c].retryee \notin Clients
    <3>1. cache' = cache
      BY <1>0, <2>1, <2>4, Zenon DEF P!Types
    <3>2. PICK s \in Caches : s = cache[c][l]
      BY <1>6, <2>1, Zenon
    <3>3. cache' = [cache EXCEPT ![c] = [cache[c] EXCEPT ![l] = s]]
      BY <1>0, <3>1, <3>2, Zenon DEF P!Types
    <3>4. Notes(c, l, s)
      BY <3>2, <3>3, Zenon DEF Notes
    <3> QED
      BY <2>0, <2>1, <2>2, <3>4, RetryEnds, Zenon
  <2> QED
    BY <2>3, <2>4, Zenon
<1>8. ASSUME NEW c \in Clients, P!call_client_fails(c)
      PROVE  P!OwnersInv'
  <2>1. lock' = lock /\ cache' = cache
    BY <1>8, Zenon DEF P!call_client_fails
  <2>2. CASE P!At(c, "revoke") /\ P!Goes(c, "returned")
    BY <2>1, <2>2, RevokeLost, Zenon DEF P!At
  <2>3. CASE (P!At(c, "release_retry") \/ P!At(c, "revoke_retry")) /\ P!Goes(c, P!AfterRetry(c))
    <3>0. call[c].pc = "release_retry" \/ call[c].pc = "revoke_retry"
      BY <2>3, Zenon DEF P!At
    <3>1. PICK l \in Lids : l = call[c].lid
      BY <1>6, <3>0, Zenon
    <3>2. PICK s \in Caches : s = cache[c][l]
      BY <1>6, <3>0, Zenon
    <3>3. cache' = [cache EXCEPT ![c] = [cache[c] EXCEPT ![l] = s]]
      BY <1>0, <2>1, <3>2, Zenon DEF P!Types
    <3>4. call[c].pc \in {"release_retry", "revoke_retry"}
      BY <3>0, Zenon
    <3>5. Notes(c, l, s)
      BY <3>2, <3>3, Zenon DEF Notes
    <3> QED
      BY <2>1, <2>3, <3>1, <3>4, <3>5, RetryEnds, Zenon
  <2> QED
    BY <1>8, <2>2, <2>3, Zenon DEF P!call_client_fails
<1> QED
  BY <1>1, <1>2, <1>3, <1>4, <1>5, <1>7, <1>8, PoolRests, Zenon DEF P!Next, P!Step

\* lock_server_cache.cc and lock_client_cache.cc, for any number of clients, locks
\* and threads of the pool, and also if revokes and retries are lost: two clients
\* never own one lock at the same time.
THEOREM OneOwnerHolds ==
    ASSUME P!ClientIds
    PROVE  P!Spec => []OneOwner
<1>1. P!OwnersInv => OneOwner
  <2> SUFFICES ASSUME P!OwnersInv PROVE OneOwner
    OBVIOUS
  <2>0. DOMAIN lock = Lids /\ DOMAIN cache = Clients
    BY Zenon DEF P!OwnersInv, P!Types
  <2>1. \A c \in Clients, l \in Lids :
           cache[c][l].state \in {"FREE", "LOCKED"} \/ (call[c].pc = "has" /\ call[c].lid = l) => P!Owner(c, l)
    <3>1. \A c \in Clients, l \in Lids : call[c].pc = "has" /\ call[c].lid = l => cache[c][l].state = "LOCKED"
      BY PoolAt, Zenon DEF P!Agrees
    <3> QED
      BY <3>1, Zenon DEF P!Owner
  <2> QED
    BY <2>0, <2>1 DEF P!OwnersInv, P!Holders, OneOwner, P!OneOwner, P!At, P!Lid
<1> QED
  BY <1>1, PoolInit, PoolKeeps, PTL DEF P!Spec

===========================================================================
