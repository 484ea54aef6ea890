-------------------------- MODULE HandleMgrProofs --------------------------
(***************************************************************************)
(* HandleMgr for every set of threads: a reference count is the number of  *)
(* handles on its entry, and an entry in the map is not freed.  What a     *)
(* safebind has bound stays so, while nobody deletes it.                   *)
(***************************************************************************)
EXTENDS PartHandles, Integers, FiniteSets, FiniteSetTheorems, TLAPS

\* H!CountsHandles, with the Cardinality of FiniteSets.
Exact ==
    \A h \in DOMAIN info :
        /\ info[h].refcnt = Cardinality(H!Handles(h))
        /\ H!Handles(h) # {} => ~ info[h].freed

HInv == H!Types /\ H!InMap /\ Exact /\ H!MarkGoes

\* The instance counts as FiniteSets does.
LEMMA SameCount == \A S : H!Cardinality(S) = Cardinality(S)
BY Zenon DEF H!Cardinality, Cardinality

\* Both ways of counting say the same.
LEMMA ExactCounts == Exact <=> H!CountsHandles
BY SameCount, Zenon DEF Exact, H!CountsHandles

\* The handles of an entry can be counted.
LEMMA HandlesCount ==
    ASSUME IsFiniteSet(Users), NEW h
    PROVE  /\ IsFiniteSet(H!Handles(h))
           /\ Cardinality(H!Handles(h)) \in Nat
           /\ Cardinality(H!Handles(h)) = 0 <=> H!Handles(h) = {}
<1>1. H!Handles(h) \in SUBSET Users
  BY Zenon DEF H!Handles
<1>2. IsFiniteSet(H!Handles(h))
  BY <1>1, FS_Subset, Zenon
<1> QED
  BY <1>2, FS_CardinalityType, FS_EmptySet, Zenon

\* What the types say of one entry and of one thread.
LEMMA HandleTypes ==
    ASSUME HInv
    PROVE  /\ 0 \notin DOMAIN info
           /\ \A h \in DOMAIN info : info[h] \in H!Infos
           /\ \A t \in Users : th[t].h # 0 => th[t].h \in DOMAIN info
           /\ \A m \in Dests : hmap[m] # 0 => hmap[m] \in DOMAIN info
<1>1. PICK n \in Nat : info \in [1 .. n -> H!Infos]
  BY Zenon DEF HInv, H!Types
<1>2. DOMAIN info = 1 .. n /\ \A h \in DOMAIN info : info[h] \in H!Infos
  BY <1>1, Zenon
<1>3. 0 \notin 1 .. n
  OBVIOUS
<1>4. \A t \in Users : th[t].h \in DOMAIN info \cup {0}
  BY Zenon DEF HInv, H!Types
<1>5. \A m \in Dests : hmap[m] \in DOMAIN info \cup {0}
  BY Zenon DEF HInv, H!Types
<1> QED
  BY <1>2, <1>3, <1>4, <1>5, Zenon

\* A thread goes on with the entry that it has, of which only the connection, or
\* the mark of an entry in use, changes.
LEMMA HandleMoves ==
    ASSUME HInv, IsFiniteSet(Users), NEW t \in Users, NEW r, H!Goes(t, r), th[t].h # 0, r.h = th[t].h,
           r.pc \in H!PCs, r \in [pc : H!PCs, dest : Dests \cup {0}, h : DOMAIN info \cup {0},
                                  cl : DOMAIN info \cup {0}],
           UNCHANGED hmap, NEW i \in H!Infos, info' = [info EXCEPT ![r.h] = i],
           i.m = info[r.h].m, i.refcnt = info[r.h].refcnt, i.freed = info[r.h].freed
    PROVE  HInv'
<1>1. r.h \in DOMAIN info /\ 0 \notin DOMAIN info /\ \A h \in DOMAIN info : info[h] \in H!Infos
  BY HandleTypes, Zenon
<1>2. DOMAIN info' = DOMAIN info /\ \A h \in DOMAIN info : info'[h] = IF h = r.h THEN i ELSE info[h]
  BY <1>1, Zenon
<1>3. \A u \in Users : th'[u] = IF u = t THEN r ELSE th[u]
  BY Zenon DEF HInv, H!Types, H!Goes
<1>4. H!Types'
  <2>1. PICK n \in Nat : info \in [1 .. n -> H!Infos]
    BY Zenon DEF HInv, H!Types
  <2>2. info' \in [1 .. n -> H!Infos]
    BY <2>1, Zenon
  <2>3. th' \in [Users -> [pc : H!PCs, dest : Dests \cup {0}, h : DOMAIN info \cup {0},
                           cl : DOMAIN info \cup {0}]]
    BY Zenon DEF HInv, H!Types, H!Goes
  <2> QED
    BY <1>2, <2>2, <2>3, Zenon DEF HInv, H!Types
<1>5. \A h \in DOMAIN info :
         info'[h].m = info[h].m /\ info'[h].refcnt = info[h].refcnt /\ info'[h].freed = info[h].freed
  BY <1>2, Zenon
<1>6. \A u \in Users : th'[u].h = th[u].h
  BY <1>3, Zenon
<1>7. H!InMap'
  <2>1. \A u \in Users : th[u].h # 0 => th[u].h \in DOMAIN info
    BY HandleTypes, Zenon
  <2>2. \A m \in Dests : hmap[m] # 0 => hmap[m] \in DOMAIN info
    BY HandleTypes, Zenon
  <2>3. \A m \in Dests : hmap'[m] # 0 => info'[hmap'[m]].m = m
    BY <1>5, <2>2, Zenon DEF HInv, H!InMap
  <2>4. \A u \in Users : IF th'[u].h = 0 THEN th'[u] = H!Idle ELSE hmap'[info'[th'[u].h].m] = th'[u].h
    <3> TAKE u \in Users
    <3>1. CASE th[u].h = 0
      BY <1>3, <1>6, <3>1, Zenon DEF HInv, H!InMap
    <3>2. CASE th[u].h # 0
      <4>1. hmap[info[th[u].h].m] = th[u].h /\ info'[th[u].h].m = info[th[u].h].m
        BY <1>5, <2>1, <3>2, Zenon DEF HInv, H!InMap
      <4> QED
        BY <1>6, <3>2, <4>1, Zenon
    <3> QED
      BY <3>1, <3>2, Zenon
  <2> QED
    BY <2>3, <2>4, Zenon DEF H!InMap, H!Idle
<1>8. \A h : H!Handles(h)' = H!Handles(h)
  BY <1>6, Zenon DEF H!Handles
<1>9. Exact'
  BY <1>2, <1>5, <1>8, Zenon DEF HInv, Exact
<1>10. H!MarkGoes'
  <2>1. info[r.h].refcnt > 0
    <3>1. t \in H!Handles(r.h)
      BY Zenon DEF H!Handles
    <3>2. Cardinality(H!Handles(r.h)) \in Nat /\ Cardinality(H!Handles(r.h)) # 0
      BY <3>1, HandlesCount, Zenon
    <3>3. info[r.h].refcnt = Cardinality(H!Handles(r.h))
      BY <1>1, Zenon DEF HInv, Exact
    <3> QED
      BY <3>2, <3>3
  <2>2. \A m \in Dests : hmap[m] # 0 => hmap[m] \in DOMAIN info
    BY HandleTypes, Zenon
  <2> QED
    BY <1>2, <1>5, <2>1, <2>2, Zenon DEF HInv, H!MarkGoes
<1> QED
  BY <1>4, <1>7, <1>9, <1>10, Zenon DEF HInv

\* Nothing happens.
LEMMA HandlesRest ==
    ASSUME HInv, UNCHANGED H!vars
    PROVE  HInv'
<1>1. UNCHANGED <<hmap, info, th>>
  BY Zenon DEF H!vars
<1>2. H!Types'
  BY <1>1, Zenon DEF HInv, H!Types
<1>3. H!InMap'
  BY <1>1, Zenon DEF HInv, H!InMap
<1>4. \A h : H!Handles(h)' = H!Handles(h)
  BY <1>1, Zenon DEF H!Handles
<1>5. Exact' /\ H!MarkGoes'
  BY <1>1, <1>4, Zenon DEF HInv, Exact, H!MarkGoes
<1> QED
  BY <1>2, <1>3, <1>5, Zenon DEF HInv

\* An entry loses handles: it stays in the map, marked only if it has some left, or
\* leaves the map when it has none.
LEMMA EntryChanges ==
    ASSUME HInv, IsFiniteSet(Users), NEW h \in DOMAIN info, NEW i \in H!Infos,
           info' = [info EXCEPT ![h] = i], i.m = info[h].m, i.refcnt = Cardinality(H!Handles(h)'),
           th' = [u \in Users |-> th'[u]],
           \A u \in Users : th'[u] = th[u] \/ (th[u].h = h /\ th'[u] = H!Idle),
           \/ UNCHANGED hmap /\ i.freed = info[h].freed /\ (i.del => i.refcnt > 0)
           \/ i.refcnt = 0 /\ hmap[i.m] = h /\ hmap' = [hmap EXCEPT ![i.m] = 0]
    PROVE  HInv'
<1>0. /\ 0 \notin DOMAIN info /\ \A g \in DOMAIN info : info[g] \in H!Infos
      /\ \A u \in Users : th[u].h # 0 => th[u].h \in DOMAIN info
      /\ \A m \in Dests : hmap[m] # 0 => hmap[m] \in DOMAIN info
  BY HandleTypes, Zenon
<1>1. DOMAIN info' = DOMAIN info /\ \A g \in DOMAIN info : info'[g] = IF g = h THEN i ELSE info[g]
  BY Zenon
<1>2. \A g \in DOMAIN info : info'[g].m = info[g].m
  BY <1>1, Zenon
<1>3. H!Idle.h = 0
  BY Zenon DEF H!Idle
<1>4. i.m \in Dests
  BY Zenon DEF H!Infos
<1>5. \A d \in Dests : hmap'[d] = hmap[d] \/ (d = i.m /\ hmap'[d] = 0 /\ hmap[d] = h /\ i.refcnt = 0)
  BY <1>4, Zenon DEF HInv, H!Types
<1>6. H!Types'
  <2>1. \E n \in Nat : info' \in [1 .. n -> H!Infos]
    BY Zenon DEF HInv, H!Types
  <2>2. hmap' \in [Dests -> DOMAIN info \cup {0}]
    BY Zenon DEF HInv, H!Types
  <2>3. H!Idle \in [pc : H!PCs, dest : Dests \cup {0}, h : DOMAIN info \cup {0}, cl : DOMAIN info \cup {0}]
    BY Zenon DEF H!Idle, H!PCs
  <2>4. \A u \in Users : th'[u] \in [pc : H!PCs, dest : Dests \cup {0}, h : DOMAIN info \cup {0},
                                      cl : DOMAIN info \cup {0}]
    BY <2>3, Zenon DEF HInv, H!Types
  <2>5. th' \in [Users -> [pc : H!PCs, dest : Dests \cup {0}, h : DOMAIN info \cup {0},
                           cl : DOMAIN info \cup {0}]]
    BY <2>4, Zenon
  <2> QED
    BY <1>1, <2>1, <2>2, <2>5, Zenon DEF H!Types
<1>7. \A g \in DOMAIN info : H!Handles(g)' \subseteq H!Handles(g) /\ (g # h => H!Handles(g)' = H!Handles(g))
  BY <1>0, <1>3, Zenon DEF H!Handles
<1>8. i.refcnt = 0 => H!Handles(h)' = {}
  <2>1. IsFiniteSet(H!Handles(h)')
    <3>1. IsFiniteSet(H!Handles(h)) /\ H!Handles(h)' \in SUBSET H!Handles(h)
      BY <1>7, HandlesCount, Zenon
    <3> QED
      BY <3>1, FS_Subset, Zenon
  <2> QED
    BY <2>1, FS_EmptySet, Zenon
<1>9. H!InMap'
  <2>1. \A d \in Dests : hmap'[d] # 0 => info'[hmap'[d]].m = d
    BY <1>0, <1>2, <1>5 DEF HInv, H!InMap
  <2>2. \A u \in Users : IF th'[u].h = 0 THEN th'[u] = H!Idle ELSE hmap'[info'[th'[u].h].m] = th'[u].h
    <3> TAKE u \in Users
    <3>1. CASE th'[u].h = 0
      BY <3>1, Zenon DEF HInv, H!InMap
    <3>2. CASE th'[u].h # 0
      <4>0. th'[u] = th[u]
        BY <1>3, <3>2, Zenon
      <4> DEFINE g == th[u].h
      <4>1. g \in DOMAIN info /\ hmap[info[g].m] = g /\ info[g].m \in Dests
        <5>1. g \in DOMAIN info /\ hmap[info[g].m] = g
          BY <1>0, <3>2, <4>0, Zenon DEF HInv, H!InMap
        <5> QED
          BY <1>0, <5>1, Zenon DEF H!Infos
      <4>2. g = h => i.refcnt # 0
        BY <1>8, <4>0, Zenon DEF H!Handles
      <4>3. hmap'[info[g].m] = g
        BY <1>5, <4>1, <4>2, Zenon
      <4> QED
        BY <1>2, <3>2, <4>0, <4>1, <4>3, Zenon
    <3> QED
      BY <3>1, <3>2, Zenon
  <2> QED
    BY <2>1, <2>2, Zenon DEF H!InMap, H!Idle
<1>10. Exact'
  <2>1. /\ info'[h].refcnt = Cardinality(H!Handles(h)')
        /\ H!Handles(h)' # {} => ~ info'[h].freed
    <3>1. H!Handles(h) # {} => ~ info[h].freed
      BY Zenon DEF HInv, Exact
    <3>2. H!Handles(h)' # {} => H!Handles(h) # {}
      BY <1>7, Zenon
    <3> QED
      BY <1>1, <1>8, <3>1, <3>2, Zenon
  <2>2. \A g \in DOMAIN info : g # h =>
           info'[g].refcnt = Cardinality(H!Handles(g)') /\ (H!Handles(g)' # {} => ~ info'[g].freed)
    BY <1>1, <1>7, Zenon DEF HInv, Exact
  <2> QED
    BY <1>1, <2>1, <2>2, Zenon DEF Exact
<1>11. H!MarkGoes'
  <2>1. ASSUME NEW d \in Dests, hmap'[d] # 0
        PROVE  ~ info'[hmap'[d]].freed /\ (info'[hmap'[d]].del => info'[hmap'[d]].refcnt > 0)
    <3>1. hmap'[d] = hmap[d] /\ hmap[d] \in DOMAIN info /\ ~ info[hmap[d]].freed
          /\ (info[hmap[d]].del => info[hmap[d]].refcnt > 0) /\ info[hmap[d]].m = d
      BY <1>0, <1>5, <2>1, Zenon DEF HInv, H!MarkGoes, H!InMap
    <3>2. CASE hmap[d] # h
      BY <1>1, <3>1, <3>2, Zenon
    <3>3. CASE hmap[d] = h
      <4>1. UNCHANGED hmap /\ i.freed = info[h].freed /\ (i.del => i.refcnt > 0)
        <5>1. ~ (hmap' = [hmap EXCEPT ![i.m] = 0])
          BY <1>4, <2>1, <3>1, <3>3, Zenon DEF HInv, H!Types
        <5> QED
          BY <5>1, Zenon
      <4> QED
        BY <1>1, <3>1, <3>3, <4>1, Zenon
    <3> QED
      BY <3>2, <3>3, Zenon
  <2> QED
    BY <2>1, Zenon DEF H!MarkGoes
<1> QED
  BY <1>6, <1>9, <1>10, <1>11, Zenon DEF HInv

\* An entry that no handle refers to is freed and leaves the map, or is in the map
\* and not marked.
LEMMA HandleMgrKeeps ==
    ASSUME HInv, IsFiniteSet(Users), [H!Next]_H!vars
    PROVE  HInv'
<1>0. /\ 0 \notin DOMAIN info /\ \A h \in DOMAIN info : info[h] \in H!Infos
      /\ \A u \in Users : th[u].h # 0 => th[u].h \in DOMAIN info
      /\ \A m \in Dests : hmap[m] # 0 => hmap[m] \in DOMAIN info
  BY HandleTypes, Zenon
<1>1. ASSUME NEW t \in Users, th[t].pc # "idle"
      PROVE  /\ th[t].h # 0 /\ th[t].h \in DOMAIN info
             /\ th[t] \in [pc : H!PCs, dest : Dests \cup {0}, h : DOMAIN info \cup {0},
                           cl : DOMAIN info \cup {0}]
  <2>1. th[t].h # 0
    BY <1>1 DEF HInv, H!InMap, H!Idle
  <2> QED
    BY <1>0, <2>1, Zenon DEF HInv, H!Types
<1>2. ASSUME NEW t \in Users, H!safebind(t) \/ H!call(t)
      PROVE  HInv'
  <2>0. info' = info
    BY <1>2, Zenon DEF H!safebind, H!call
  <2>1. th[t].pc # "idle" /\ UNCHANGED hmap
    BY <1>2, Zenon DEF H!safebind, H!call
  <2>2. PICK r : /\ H!Goes(t, r) /\ r.h = th[t].h /\ r.pc \in H!PCs
                 /\ r \in [pc : H!PCs, dest : Dests \cup {0}, h : DOMAIN info \cup {0},
                          cl : DOMAIN info \cup {0}]
    <3>1. \A p \in H!PCs, c \in DOMAIN info \cup {0} :
             LET r == [th[t] EXCEPT !.pc = p, !.cl = c]
             IN  /\ r.h = th[t].h /\ r.pc \in H!PCs
                 /\ r \in [pc : H!PCs, dest : Dests \cup {0}, h : DOMAIN info \cup {0},
                          cl : DOMAIN info \cup {0}]
      BY <1>1, <2>1, Zenon
    <3>2. LET r == [th[t] EXCEPT !.pc = "done"]
          IN  /\ r.h = th[t].h /\ r.pc \in H!PCs
              /\ r \in [pc : H!PCs, dest : Dests \cup {0}, h : DOMAIN info \cup {0},
                       cl : DOMAIN info \cup {0}]
      BY <1>1, <2>1, Zenon DEF H!PCs
    <3>3. th[t].h \in DOMAIN info
      BY <1>1, <2>1, Zenon
    <3>4. CASE H!safebind(t)
      <4>1. \E p \in H!PCs, c \in DOMAIN info \cup {0} : H!Goes(t, [th[t] EXCEPT !.pc = p, !.cl = c])
        <5>1. CASE info[th[t].h].del /\ th[t].pc = "first"
          BY <3>4, <5>1, Zenon DEF H!safebind, H!PCs
        <5>2. CASE info[th[t].h].del /\ th[t].pc # "first"
          BY <3>4, <5>2, Zenon DEF H!safebind, H!PCs
        <5>3. CASE ~ info[th[t].h].del /\ th[t].pc = "first"
          BY <3>3, <3>4, <5>3, Zenon DEF H!safebind, H!PCs
        <5>4. CASE ~ info[th[t].h].del /\ th[t].pc # "first"
          BY <3>3, <3>4, <5>4, Zenon DEF H!safebind, H!PCs
        <5> QED
          BY <5>1, <5>2, <5>3, <5>4, Zenon
      <4> QED
        BY <3>1, <4>1, Zenon
    <3>5. CASE H!call(t)
      BY <3>2, <3>5, Zenon DEF H!call
    <3> QED
      BY <1>2, <3>4, <3>5, Zenon
  <2>3. info[r.h] \in H!Infos /\ \E n : info \in [1 .. n -> H!Infos]
    BY <1>0, <1>1, <2>1, <2>2, Zenon DEF HInv, H!Types
  <2>4. PICK i \in H!Infos : i = info[r.h]
    BY <2>3, Zenon
  <2>5. info' = [info EXCEPT ![r.h] = i]
    BY <2>0, <2>3, <2>4, Zenon
  <2>6. i.m = info[r.h].m /\ i.refcnt = info[r.h].refcnt /\ i.freed = info[r.h].freed
    BY <2>4, Zenon
  <2>7. th[t].h # 0
    BY <1>1, <2>1, Zenon
  <2> QED
    BY <2>1, <2>2, <2>5, <2>6, <2>7, HandleMoves, Zenon
<1>3. ASSUME NEW t \in Users, H!bind_starts(t) \/ H!bind_ends(t)
      PROVE  HInv'
  <2>1. th[t].pc # "idle" /\ UNCHANGED hmap
    BY <1>3, Zenon DEF H!bind_starts, H!bind_ends
  <2>2. PICK r : /\ H!Goes(t, r) /\ r.h = th[t].h /\ r.pc \in H!PCs
                 /\ r \in [pc : H!PCs, dest : Dests \cup {0}, h : DOMAIN info \cup {0},
                          cl : DOMAIN info \cup {0}]
    <3>1. \A p \in H!PCs, c \in DOMAIN info \cup {0} :
             LET r == [th[t] EXCEPT !.pc = p, !.cl = c]
             IN  /\ r.h = th[t].h /\ r.pc \in H!PCs
                 /\ r \in [pc : H!PCs, dest : Dests \cup {0}, h : DOMAIN info \cup {0},
                          cl : DOMAIN info \cup {0}]
      BY <1>1, <2>1, Zenon
    <3>2. \A p \in H!PCs :
             LET r == [th[t] EXCEPT !.pc = p]
             IN  /\ r.h = th[t].h /\ r.pc \in H!PCs
                 /\ r \in [pc : H!PCs, dest : Dests \cup {0}, h : DOMAIN info \cup {0},
                          cl : DOMAIN info \cup {0}]
      BY <1>1, <2>1, Zenon
    <3>3. th[t].h \in DOMAIN info
      BY <1>1, <2>1, Zenon
    <3>4. CASE H!bind_starts(t)
      BY <3>2, <3>4, ZenonT(60) DEF H!bind_starts, H!PCs
    <3>5. CASE H!bind_ends(t)
      <4>1. \/ H!Goes(t, [th[t] EXCEPT !.pc = "second", !.cl = th[t].h])
            \/ H!Goes(t, [th[t] EXCEPT !.pc = "done"])
        BY <3>5, Zenon DEF H!bind_ends
      <4>2. "second" \in H!PCs /\ "done" \in H!PCs /\ th[t].h \in DOMAIN info \cup {0}
        BY <3>3, Zenon DEF H!PCs
      <4> QED
        BY <3>1, <3>2, <4>1, <4>2, Zenon
    <3> QED
      BY <1>3, <3>4, <3>5, Zenon
  <2>3. PICK i \in H!Infos :
           /\ info' = [info EXCEPT ![r.h] = i] /\ i.m = info[r.h].m
           /\ i.refcnt = info[r.h].refcnt /\ i.freed = info[r.h].freed
    <3>1. r.h \in DOMAIN info /\ info[r.h] \in H!Infos
      BY <1>0, <1>1, <2>1, <2>2, Zenon
    <3>2. CASE H!bind_starts(t)
      <4> DEFINE i == [info[r.h] EXCEPT !.busy = TRUE]
      <4>1. /\ info' = [info EXCEPT ![r.h] = i] /\ i.m = info[r.h].m /\ i \in H!Infos
            /\ i.refcnt = info[r.h].refcnt /\ i.freed = info[r.h].freed
        BY <2>2, <3>1, <3>2, Zenon DEF H!bind_starts, H!Infos
      <4> QED
        BY <4>1, Zenon
    <3>3. CASE info' = [info EXCEPT ![r.h].busy = FALSE, ![r.h].cl = "bound"]
      <4> DEFINE i == [info[r.h] EXCEPT !.busy = FALSE, !.cl = "bound"]
      <4>1. /\ info' = [info EXCEPT ![r.h] = i] /\ i.m = info[r.h].m /\ i \in H!Infos
            /\ i.refcnt = info[r.h].refcnt /\ i.freed = info[r.h].freed
        BY <3>1, <3>3, Zenon DEF H!Infos
      <4> QED
        BY <4>1, Zenon
    <3>4. CASE info' = [info EXCEPT ![r.h].busy = FALSE, ![r.h].del = TRUE]
      <4> DEFINE i == [info[r.h] EXCEPT !.busy = FALSE, !.del = TRUE]
      <4>1. /\ info' = [info EXCEPT ![r.h] = i] /\ i.m = info[r.h].m /\ i \in H!Infos
            /\ i.refcnt = info[r.h].refcnt /\ i.freed = info[r.h].freed
        BY <3>1, <3>4, Zenon DEF H!Infos
      <4> QED
        BY <4>1, Zenon
    <3> QED
      BY <1>3, <2>2, <3>2, <3>3, <3>4, Zenon DEF H!bind_ends
  <2> QED
    BY <1>1, <2>1, <2>2, <2>3, HandleMoves, Zenon
<1>4. ASSUME NEW t \in Users, NEW m \in Dests, H!get_handle(t, m), hmap[m] = 0
      PROVE  HInv'
  <2>1. PICK n \in Nat : info \in [1 .. n -> H!Infos]
    BY Zenon DEF HInv, H!Types
  <2>2. H!Cardinality(DOMAIN info) = n
    <3>1. DOMAIN info = 1 .. n
      BY <2>1, Zenon
    <3> QED
      BY <3>1, FS_Interval, SameCount
  <2> DEFINE new == n + 1
             r == [pc |-> "first", dest |-> m, h |-> new, cl |-> 0]
  <2>3. new \notin DOMAIN info /\ new # 0 /\ DOMAIN info \cup {new} = 1 .. (n + 1)
    BY <2>1
  <2>4. /\ info' = [i \in DOMAIN info \cup {new} |-> IF i = new THEN H!NewInfo(m) ELSE info[i]]
        /\ hmap' = [hmap EXCEPT ![m] = new]
        /\ th' = [th EXCEPT ![t] = r]
        /\ th[t] = H!Idle
    BY <1>4, <2>2, Zenon DEF H!get_handle, H!Goes
  <2> HIDE DEF new
  <2>5. /\ DOMAIN info' = DOMAIN info \cup {new} /\ info'[new] = H!NewInfo(m)
        /\ \A h \in DOMAIN info : info'[h] = info[h]
    BY <2>3, <2>4, Zenon
  <2>6. \A d \in Dests : hmap'[d] = IF d = m THEN new ELSE hmap[d]
    BY <2>4, Zenon DEF HInv, H!Types
  <2>7. r.h = new /\ \A u \in Users : th'[u] = IF u = t THEN r ELSE th[u]
    BY <2>4, Zenon DEF HInv, H!Types
  <2>8. H!NewInfo(m) \in H!Infos /\ H!NewInfo(m).m = m /\ H!NewInfo(m).refcnt = 1
        /\ H!NewInfo(m).freed = FALSE /\ H!NewInfo(m).del = FALSE
    BY Zenon DEF H!NewInfo, H!Infos
  <2>9. H!Types'
    <3>1. info' \in [1 .. (n + 1) -> H!Infos]
      BY <2>1, <2>3, <2>4, <2>8, Zenon
    <3>2. hmap' \in [Dests -> DOMAIN info' \cup {0}]
      BY <2>4, <2>5, Zenon DEF HInv, H!Types
    <3>3. r \in [pc : H!PCs, dest : Dests \cup {0}, h : DOMAIN info' \cup {0}, cl : DOMAIN info' \cup {0}]
      BY <2>5, Zenon DEF H!PCs
    <3>4. \A u \in Users : th[u] \in [pc : H!PCs, dest : Dests \cup {0}, h : DOMAIN info' \cup {0},
                                       cl : DOMAIN info' \cup {0}]
      BY <2>5, Zenon DEF HInv, H!Types
    <3>5. th' = [u \in Users |-> IF u = t THEN r ELSE th[u]]
      BY <2>4, Zenon DEF HInv, H!Types
    <3> HIDE DEF r
    <3>6. th' \in [Users -> [pc : H!PCs, dest : Dests \cup {0}, h : DOMAIN info' \cup {0},
                             cl : DOMAIN info' \cup {0}]]
      BY <3>3, <3>4, <3>5, Zenon
    <3>7. n + 1 \in Nat
      OBVIOUS
    <3> QED
      BY <3>1, <3>2, <3>6, <3>7, Zenon DEF H!Types
  <2> HIDE DEF r
  <2>10. H!InMap'
    <3>1. \A d \in Dests : hmap'[d] # 0 => info'[hmap'[d]].m = d
      BY <1>0, <2>5, <2>6, <2>8, ZenonT(60) DEF HInv, H!InMap
    <3>2. \A u \in Users : IF th'[u].h = 0 THEN th'[u] = H!Idle ELSE hmap'[info'[th'[u].h].m] = th'[u].h
      <4> TAKE u \in Users
      <4>1. CASE u = t
        BY <2>3, <2>5, <2>6, <2>7, <2>8, <4>1
      <4>2. CASE u # t /\ th[u].h = 0
        BY <2>7, <4>2, Zenon DEF HInv, H!InMap
      <4>3. CASE u # t /\ th[u].h # 0
        <5>1. hmap[info[th[u].h].m] = th[u].h /\ info'[th[u].h] = info[th[u].h]
          BY <1>0, <2>5, <4>3, Zenon DEF HInv, H!InMap
        <5>2. info[th[u].h].m # m /\ info[th[u].h].m \in Dests
          BY <1>0, <1>4, <4>3, <5>1, Zenon DEF H!Infos
        <5> QED
          BY <2>6, <2>7, <4>3, <5>1, <5>2, Zenon
      <4> QED
        BY <4>1, <4>2, <4>3, Zenon
    <3> QED
      BY <3>1, <3>2, Zenon DEF H!InMap, H!Idle
  <2>11. H!Handles(new)' = {t} /\ \A h \in DOMAIN info : H!Handles(h)' = H!Handles(h)
    <3>1. th[t].h = 0 /\ \A u \in Users : th[u].h # new
      BY <1>0, <2>3, <2>4 DEF H!Idle
    <3> QED
      BY <1>0, <2>3, <2>7, <3>1, Zenon DEF H!Handles
  <2>12. Exact'
    <3>1. Cardinality({t}) = 1
      BY FS_Singleton, Zenon
    <3>2. info'[new].refcnt = Cardinality(H!Handles(new)') /\ ~ info'[new].freed
      BY <2>5, <2>8, <2>11, <3>1, Zenon
    <3>3. \A h \in DOMAIN info : /\ info'[h].refcnt = Cardinality(H!Handles(h)')
                                 /\ H!Handles(h)' # {} => ~ info'[h].freed
      BY <2>5, <2>11, Zenon DEF HInv, Exact
    <3> QED
      BY <2>5, <3>2, <3>3, Zenon DEF Exact
  <2>13. H!MarkGoes'
    BY <1>0, <2>5, <2>6, <2>8, ZenonT(60) DEF HInv, H!MarkGoes
  <2> QED
    BY <2>9, <2>10, <2>12, <2>13, Zenon DEF HInv
<1>5. ASSUME NEW t \in Users, NEW m \in Dests, H!get_handle(t, m), hmap[m] # 0
      PROVE  HInv'
  <2>h. PICK h : h = hmap[m]
    OBVIOUS
  <2> DEFINE r == [pc |-> "first", dest |-> m, h |-> h, cl |-> 0]
  <2>0. h \in DOMAIN info /\ h # 0 /\ info[h] \in H!Infos /\ info[h].m = m /\ ~ info[h].freed
    BY <1>0, <1>5, <2>h, Zenon DEF HInv, H!InMap, H!MarkGoes
  <2>1. CASE UNCHANGED H!vars
    BY <2>1, HandlesRest, Zenon
  <2>2. CASE /\ ~ info[h].del /\ th[t] = H!Idle /\ UNCHANGED hmap
             /\ info' = [info EXCEPT ![h].refcnt = @ + 1] /\ H!Goes(t, r)
    <3> DEFINE i == [info[h] EXCEPT !.refcnt = info[h].refcnt + 1]
    <3>1. /\ i \in H!Infos /\ i.m = m /\ i.refcnt = info[h].refcnt + 1 /\ i.del = info[h].del
          /\ i.freed = info[h].freed /\ info' = [info EXCEPT ![h] = i]
      BY <2>0, <2>2 DEF H!Infos
    <3> HIDE DEF i
    <3>2. DOMAIN info' = DOMAIN info /\ \A g \in DOMAIN info : info'[g] = IF g = h THEN i ELSE info[g]
      BY <2>0, <3>1, Zenon
    <3>3. r.h = h /\ \A u \in Users : th'[u] = IF u = t THEN r ELSE th[u]
      BY <2>2, Zenon DEF HInv, H!Types, H!Goes
    <3>4. H!Types'
      <4>1. \E n \in Nat : info' \in [1 .. n -> H!Infos]
        BY <3>1, Zenon DEF HInv, H!Types
      <4>2. r \in [pc : H!PCs, dest : Dests \cup {0}, h : DOMAIN info \cup {0}, cl : DOMAIN info \cup {0}]
        BY <2>0, Zenon DEF H!PCs
      <4> HIDE DEF r
      <4>3. th' \in [Users -> [pc : H!PCs, dest : Dests \cup {0}, h : DOMAIN info \cup {0},
                               cl : DOMAIN info \cup {0}]]
        BY <2>2, <4>2, Zenon DEF HInv, H!Types, H!Goes
      <4> QED
        BY <2>2, <3>2, <4>1, <4>3, Zenon DEF HInv, H!Types
    <3> HIDE DEF r
    <3>5. H!InMap'
      <4>1. \A d \in Dests : hmap'[d] # 0 => info'[hmap'[d]].m = d
        BY <1>0, <2>0, <2>2, <3>1, <3>2 DEF HInv, H!InMap
      <4>2. \A u \in Users : IF th'[u].h = 0 THEN th'[u] = H!Idle ELSE hmap'[info'[th'[u].h].m] = th'[u].h
        <5> TAKE u \in Users
        <5>1. CASE u = t
          BY <2>h, <2>0, <2>2, <3>1, <3>2, <3>3, <5>1
        <5>2. CASE u # t /\ th[u].h = 0
          BY <3>3, <5>2, Zenon DEF HInv, H!InMap
        <5>3. CASE u # t /\ th[u].h # 0
          <6>1. hmap[info[th[u].h].m] = th[u].h /\ info'[th[u].h].m = info[th[u].h].m
            BY <1>0, <2>0, <3>1, <3>2, <5>3, Zenon DEF HInv, H!InMap
          <6> QED
            BY <2>2, <3>3, <5>3, <6>1, Zenon
        <5> QED
          BY <5>1, <5>2, <5>3, Zenon
      <4> QED
        BY <4>1, <4>2, Zenon DEF H!InMap, H!Idle
    <3>6. /\ t \notin H!Handles(h) /\ H!Handles(h)' = H!Handles(h) \cup {t}
          /\ \A g \in DOMAIN info : g # h => H!Handles(g)' = H!Handles(g)
      <4>1. th[t].h = 0
        BY <2>2 DEF H!Idle
      <4> QED
        BY <1>0, <2>0, <3>3, <4>1, Zenon DEF H!Handles
    <3>7. Exact'
      <4>1. Cardinality(H!Handles(h)') = Cardinality(H!Handles(h)) + 1
        BY <3>6, HandlesCount, FS_AddElement, Zenon
      <4>2. info'[h].refcnt = Cardinality(H!Handles(h)') /\ ~ info'[h].freed
        BY <2>0, <3>1, <3>2, <4>1, Zenon DEF HInv, Exact
      <4>3. \A g \in DOMAIN info : g # h =>
               info'[g].refcnt = Cardinality(H!Handles(g)') /\ (H!Handles(g)' # {} => ~ info'[g].freed)
        BY <3>2, <3>6, Zenon DEF HInv, Exact
      <4> QED
        BY <3>2, <4>2, <4>3, Zenon DEF Exact
    <3>8. H!MarkGoes'
      BY <1>0, <2>0, <2>2, <3>1, <3>2, Zenon DEF HInv, H!MarkGoes
    <3> QED
      BY <3>4, <3>5, <3>7, <3>8, Zenon DEF HInv
  <2> QED
    BY <1>5, <2>h, <2>1, <2>2, Zenon DEF H!get_handle
<1>6. ASSUME NEW t \in Users, H!done_handle(t)
      PROVE  HInv'
  <2>h. PICK h : h = th[t].h
    OBVIOUS
  <2>m. PICK m : m = info[h].m
    OBVIOUS
  <2> DEFINE i == [info[h] EXCEPT !.refcnt = info[h].refcnt - 1]
             less == [info EXCEPT ![h] = i]
  <2>0. th[t].pc = "done" /\ H!Goes(t, H!Idle)
    BY <1>6, Zenon DEF H!done_handle
  <2>1. h # 0 /\ h \in DOMAIN info /\ info[h] \in H!Infos /\ m \in Dests /\ hmap[m] = h
    <3>1. h # 0 /\ h \in DOMAIN info /\ info[h] \in H!Infos
      BY <1>0, <1>1, <2>h, <2>0, Zenon
    <3>2. m \in Dests
      BY <2>m, <3>1, Zenon DEF H!Infos
    <3> QED
      BY <2>h, <2>m, <3>1, <3>2, Zenon DEF HInv, H!InMap
  <2>2. t \in H!Handles(h) /\ H!Handles(h)' = H!Handles(h) \ {t}
        /\ \A g \in DOMAIN info : g # h => H!Handles(g)' = H!Handles(g)
    <3>1. H!Idle.h = 0 /\ \A u \in Users : th'[u] = IF u = t THEN H!Idle ELSE th[u]
      BY <2>0, Zenon DEF HInv, H!Types, H!Goes, H!Idle
    <3> QED
      BY <1>0, <2>h, <2>1, <3>1, Zenon DEF H!Handles
  <2>3. /\ Cardinality(H!Handles(h)') = info[h].refcnt - 1 /\ info[h].refcnt - 1 \in Nat
        /\ info[h].refcnt - 1 = 0 <=> H!Handles(h)' = {}
        /\ ~ info[h].freed
    <3>1. info[h].refcnt = Cardinality(H!Handles(h)) /\ ~ info[h].freed
      BY <2>1, <2>2, Zenon DEF HInv, Exact
    <3>2. Cardinality(H!Handles(h) \ {t}) = Cardinality(H!Handles(h)) - 1
      BY <2>2, HandlesCount, FS_RemoveElement, Zenon
    <3>3. IsFiniteSet(H!Handles(h) \ {t})
      BY <2>2, HandlesCount, FS_RemoveElement, Zenon
    <3>4. /\ Cardinality(H!Handles(h) \ {t}) \in Nat
          /\ Cardinality(H!Handles(h) \ {t}) = 0 <=> H!Handles(h) \ {t} = {}
      BY <3>3, FS_CardinalityType, FS_EmptySet, Zenon
    <3> QED
      BY <2>2, <3>1, <3>2, <3>4, Zenon
  <2>4. /\ i \in H!Infos /\ i.m = m /\ i.refcnt = info[h].refcnt - 1 /\ i.del = info[h].del
        /\ i.freed = info[h].freed
    BY <2>m, <2>1, <2>3, Zenon DEF H!Infos
  <2>5. less = [info EXCEPT ![h].refcnt = @ - 1] /\ less[h] = i
    BY <2>1, Zenon
  <2>6. /\ th' = [u \in Users |-> th'[u]]
        /\ \A u \in Users : th'[u] = th[u] \/ (th[u].h = h /\ th'[u] = H!Idle)
    BY <2>h, <2>0, Zenon DEF HInv, H!Types, H!Goes
  <2>7. CASE i.refcnt = 0 /\ i.del
    <3> DEFINE f == [i EXCEPT !.freed = TRUE]
    <3>1. info' = [less EXCEPT ![h].freed = TRUE] /\ hmap' = [hmap EXCEPT ![m] = 0]
      <4>1. H!delete_handle_wo(less[h].m, less)
        BY <1>6, <2>h, <2>5, <2>7, Zenon DEF H!done_handle
      <4>2. H!delete_handle_wo(m, less)
        BY <2>4, <2>5, <4>1, Zenon
      <4> HIDE DEF less, i
      <4> QED
        BY <2>1, <2>4, <2>5, <2>7, <4>2, Zenon DEF H!delete_handle_wo
    <3>2. info' = [info EXCEPT ![h] = f] /\ f \in H!Infos /\ f.m = m /\ f.refcnt = i.refcnt
      BY <2>1, <2>4, <3>1, Zenon DEF H!Infos
    <3>3. f.refcnt = Cardinality(H!Handles(h)') /\ f.refcnt = 0 /\ f.m = info[h].m
      BY <2>m, <2>3, <2>4, <2>7, <3>2, Zenon
    <3>4. hmap[f.m] = h /\ hmap' = [hmap EXCEPT ![f.m] = 0]
      BY <2>1, <3>1, <3>2, Zenon
    <3> HIDE DEF f
    <3> QED
      BY <2>1, <2>6, <3>2, <3>3, <3>4, EntryChanges, Zenon
  <2>8. CASE ~ (i.refcnt = 0 /\ i.del)
    <3>1. info' = less /\ hmap' = hmap
      BY <1>6, <2>h, <2>5, <2>8, Zenon DEF H!done_handle
    <3>2. i.refcnt = Cardinality(H!Handles(h)') /\ i.refcnt \in Nat
      BY <2>3, <2>4, Zenon
    <3> HIDE DEF i
    <3>3. i.refcnt # 0 => i.refcnt > 0
      BY <3>2
    <3>4. i.del => i.refcnt > 0
      BY <2>8, <3>3, Zenon
    <3> QED
      BY <2>m, <2>1, <2>4, <2>6, <3>1, <3>2, <3>4, EntryChanges, Zenon
  <2> QED
    BY <2>7, <2>8, Zenon
<1>7. ASSUME NEW m \in Dests, H!delete_handle(m)
      PROVE  HInv'
  <2>h. PICK h : h = hmap[m]
    OBVIOUS
  <2>1. CASE h = 0
    BY <1>7, <2>h, <2>1, HandlesRest, Zenon DEF H!delete_handle, H!delete_handle_wo, H!vars
  <2>2. CASE h # 0
    <3>1. h \in DOMAIN info /\ info[h] \in H!Infos /\ info[h].m = m
      BY <1>0, <2>h, <2>2, Zenon DEF HInv, H!InMap
    <3>2. UNCHANGED th /\ th' = [u \in Users |-> th'[u]] /\ H!Handles(h)' = H!Handles(h)
      BY <1>7, Zenon DEF H!delete_handle, HInv, H!Types, H!Handles
    <3>3. info[h].refcnt = Cardinality(H!Handles(h)) /\ info[h].refcnt \in Nat
      BY <3>1, Zenon DEF HInv, Exact, H!Infos
    <3>4. CASE info[h].refcnt = 0
      <4> DEFINE i == [info[h] EXCEPT !.freed = TRUE]
      <4>1. hmap' = [hmap EXCEPT ![m] = 0] /\ info' = [info EXCEPT ![h].freed = TRUE]
        BY <1>7, <2>h, <2>2, <3>4, Zenon DEF H!delete_handle, H!delete_handle_wo
      <4>2. i \in H!Infos /\ i.m = m /\ i.refcnt = info[h].refcnt /\ info' = [info EXCEPT ![h] = i]
        BY <3>1, <4>1, Zenon DEF H!Infos
      <4>3. i.refcnt = Cardinality(H!Handles(h)') /\ i.refcnt = 0
        BY <3>2, <3>3, <3>4, <4>2, Zenon
      <4>4. i.m = info[h].m /\ hmap[i.m] = h /\ hmap' = [hmap EXCEPT ![i.m] = 0]
        BY <2>h, <3>1, <4>1, <4>2, Zenon
      <4> HIDE DEF i
      <4> QED
        BY <3>1, <3>2, <4>2, <4>3, <4>4, EntryChanges, Zenon
    <3>5. CASE info[h].refcnt # 0
      <4> DEFINE i == [info[h] EXCEPT !.del = TRUE]
      <4>1. hmap' = hmap /\ info' = [info EXCEPT ![h].del = TRUE]
        BY <1>7, <2>h, <2>2, <3>5, Zenon DEF H!delete_handle, H!delete_handle_wo
      <4>2. /\ i \in H!Infos /\ i.m = m /\ i.refcnt = info[h].refcnt /\ info' = [info EXCEPT ![h] = i]
            /\ i.freed = info[h].freed
        BY <3>1, <4>1, Zenon DEF H!Infos
      <4>3. info[h].refcnt > 0
        BY <3>3, <3>5
      <4>4. i.refcnt = Cardinality(H!Handles(h)') /\ i.refcnt > 0 /\ i.m = info[h].m
        BY <3>1, <3>2, <3>3, <4>2, <4>3, Zenon
      <4> HIDE DEF i
      <4> QED
        BY <3>1, <3>2, <4>1, <4>2, <4>4, EntryChanges, Zenon
    <3> QED
      BY <3>4, <3>5, Zenon
  <2> QED
    BY <2>1, <2>2, Zenon
<1>8. CASE UNCHANGED H!vars
  BY <1>8, HandlesRest, Zenon
<1> QED
  BY <1>2, <1>3, <1>4, <1>5, <1>6, <1>7, <1>8, Zenon DEF H!Next, H!Uses

\* Without delete_handle no entry is marked after a bind that succeeded.
LEMMA BoundKeeps ==
    ASSUME HInv, ~ Deletes, H!BoundStays, H!SafebindKeeps, [H!Next]_H!vars
    PROVE  H!BoundStays' /\ H!SafebindKeeps'
<1>0. /\ 0 \notin DOMAIN info /\ \A h \in DOMAIN info : info[h] \in H!Infos
      /\ \A u \in Users : th[u].h # 0 => th[u].h \in DOMAIN info
      /\ \A m \in Dests : hmap[m] # 0 => hmap[m] \in DOMAIN info
  BY HandleTypes, Zenon
<1>1. ASSUME NEW t \in Users, th[t].pc # "idle"
      PROVE  /\ th[t].h \in DOMAIN info /\ info[th[t].h] \in H!Infos
             /\ th[t] \in [pc : H!PCs, dest : Dests \cup {0}, h : DOMAIN info \cup {0},
                           cl : DOMAIN info \cup {0}]
  <2>1. th[t].h # 0
    BY <1>1 DEF HInv, H!InMap, H!Idle
  <2> QED
    BY <1>0, <2>1, Zenon DEF HInv, H!Types
<1>2. ASSUME NEW t \in Users, NEW r, H!Goes(t, r)
      PROVE  \A u \in Users : th'[u] = IF u = t THEN r ELSE th[u]
  BY <1>2, Zenon DEF HInv, H!Types, H!Goes
<1>3. ASSUME \A h \in DOMAIN info : /\ h \in DOMAIN info' /\ info'[h].cl = info[h].cl
                                    /\ info'[h].del = info[h].del /\ info'[h].busy = info[h].busy,
             \A h \in DOMAIN info' : h \notin DOMAIN info => info'[h].cl # "bound",
             \A u \in Users :
                \/ th'[u] = th[u] \/ th'[u].pc \in {"idle", "first", "done"}
                \/ /\ th'[u].pc \in {"second", "call"} /\ th'[u].h = th[u].h
                   /\ th[u].h \in DOMAIN info /\ info[th[u].h].cl = "bound"
      PROVE  H!BoundStays' /\ H!SafebindKeeps'
  <2>1. \A h \in DOMAIN info' : info'[h].cl = "bound" => ~ info'[h].del
    BY <1>3, Zenon DEF H!BoundStays
  <2>2. \A u \in Users : th'[u].pc \in {"second", "call"} => info'[th'[u].h].cl = "bound"
    <3> SUFFICES ASSUME NEW u \in Users, th'[u].pc \in {"second", "call"}
                 PROVE  info'[th'[u].h].cl = "bound"
      BY Zenon
    <3>1. CASE th'[u] = th[u]
      <4>1. th[u].pc # "idle" /\ info[th[u].h].cl = "bound"
        BY <3>1, Zenon DEF H!BoundStays
      <4> QED
        BY <1>1, <1>3, <3>1, <4>1, Zenon
    <3>2. CASE th'[u] # th[u]
      BY <1>3, <3>2, Zenon
    <3> QED
      BY <3>1, <3>2, Zenon
  <2>3. \A u \in Users : th'[u].pc = "binds" => th'[u] = th[u]
    BY <1>3, Zenon
  <2>4. \A u \in Users : th'[u].pc = "binds" => info'[th'[u].h].busy /\ ~ H!Known(info'[th'[u].h])
    <3> SUFFICES ASSUME NEW u \in Users, th'[u].pc = "binds"
                 PROVE  info'[th'[u].h].busy /\ ~ H!Known(info'[th'[u].h])
      BY Zenon
    <3>1. th'[u] = th[u] /\ th[u].pc # "idle" /\ th[u].pc = "binds"
      BY <2>3, Zenon
    <3>2. th[u].h \in DOMAIN info /\ info[th[u].h].busy /\ ~ H!Known(info[th[u].h])
      BY <1>1, <3>1, Zenon DEF H!BoundStays
    <3> QED
      BY <1>3, <3>1, <3>2, Zenon DEF H!Known
  <2>5. \A u, v \in Users : th'[u].pc = "binds" /\ th'[v].pc = "binds" /\ th'[u].h = th'[v].h => u = v
    BY <2>3, Zenon DEF H!BoundStays
  <2>6. \A u \in Users : th'[u].pc # "null"
    BY <1>3, Zenon DEF H!SafebindKeeps
  <2> QED
    BY <2>1, <2>2, <2>4, <2>5, <2>6, Zenon DEF H!BoundStays, H!SafebindKeeps, H!Known
<1>4. ASSUME UNCHANGED H!vars
      PROVE  H!BoundStays' /\ H!SafebindKeeps'
  <2>1. UNCHANGED <<info, th>>
    BY <1>4, Zenon DEF H!vars
  <2> QED
    BY <1>3, <2>1, Zenon
<1>5. ASSUME NEW t \in Users, H!safebind(t)
      PROVE  H!BoundStays' /\ H!SafebindKeeps'
  <2>1. UNCHANGED info /\ th[t].pc \in {"first", "second"} /\ H!Known(info[th[t].h])
    BY <1>5, Zenon DEF H!safebind
  <2>2. th[t].h \in DOMAIN info /\ info[th[t].h] \in H!Infos
    BY <1>1, <2>1, Zenon
  <2>3. CASE info[th[t].h].del
    <3>1. th[t].pc = "first"
      BY <2>1, <2>2, <2>3, Zenon DEF H!BoundStays
    <3>2. H!Goes(t, [th[t] EXCEPT !.pc = "done", !.cl = 0])
      BY <1>5, <2>3, <3>1, Zenon DEF H!safebind
    <3>3. [th[t] EXCEPT !.pc = "done", !.cl = 0].pc = "done"
      BY <1>1, <2>1, Zenon
    <3> QED
      BY <1>2, <1>3, <2>1, <3>2, <3>3, Zenon
  <2>4. CASE ~ info[th[t].h].del
    <3>1. info[th[t].h].cl = "bound"
      BY <2>1, <2>2, <2>4, Zenon DEF H!Known, H!Infos
    <3>2. PICK p \in {"second", "call"} : H!Goes(t, [th[t] EXCEPT !.pc = p, !.cl = th[t].h])
      BY <1>5, <2>4, Zenon DEF H!safebind
    <3>3. LET r == [th[t] EXCEPT !.pc = p, !.cl = th[t].h] IN r.pc = p /\ r.h = th[t].h
      BY <1>1, <2>1, Zenon
    <3> QED
      BY <1>2, <1>3, <2>1, <2>2, <3>1, <3>2, <3>3, ZenonT(60)
  <2> QED
    BY <2>3, <2>4, Zenon
<1>6. ASSUME NEW t \in Users, H!call(t)
      PROVE  H!BoundStays' /\ H!SafebindKeeps'
  <2>1. UNCHANGED info /\ th[t].pc = "call" /\ H!Goes(t, [th[t] EXCEPT !.pc = "done"])
    BY <1>6, Zenon DEF H!call
  <2>2. [th[t] EXCEPT !.pc = "done"].pc = "done"
    BY <1>1, <2>1, Zenon
  <2> QED
    BY <1>2, <1>3, <2>1, <2>2, Zenon
<1>7. ASSUME NEW t \in Users, NEW m \in Dests, H!get_handle(t, m)
      PROVE  H!BoundStays' /\ H!SafebindKeeps'
  <2>1. CASE UNCHANGED H!vars
    BY <1>4, <2>1, Zenon
  <2>2. CASE \E h : H!Goes(t, [pc |-> "first", dest |-> m, h |-> h, cl |-> 0])
    <3>1. \A u \in Users : th'[u] = th[u] \/ th'[u].pc = "first"
      BY <1>2, <2>2
    <3>2. CASE hmap[m] = 0
      <4>1. PICK new : new \notin DOMAIN info /\
               info' = [i \in DOMAIN info \cup {new} |-> IF i = new THEN H!NewInfo(m) ELSE info[i]]
        <5>1. H!Cardinality(DOMAIN info) + 1 \notin DOMAIN info
          <6>1. PICK n \in Nat : DOMAIN info = 1 .. n
            BY Zenon DEF HInv, H!Types
          <6> QED
            BY <6>1, FS_Interval, SameCount
        <5> QED
          BY <1>7, <2>2, <3>2, <5>1, Zenon DEF H!get_handle
      <4>2. DOMAIN info' = DOMAIN info \cup {new} /\ \A h \in DOMAIN info : info'[h] = info[h]
        BY <4>1, Zenon
      <4>3. info'[new] = H!NewInfo(m) /\ H!NewInfo(m).cl # "bound"
        BY <4>1, Zenon DEF H!NewInfo
      <4> QED
        BY <1>3, <3>1, <4>2, <4>3, Zenon
    <3>3. CASE hmap[m] # 0
      <4>1. CASE info' = info
        BY <1>3, <3>1, <4>1, Zenon
      <4>2. CASE info' = [info EXCEPT ![hmap[m]].refcnt = @ + 1]
        <5>1. DOMAIN info' = DOMAIN info
          BY <4>2, Zenon
        <5>2. \A h \in DOMAIN info : /\ info'[h].cl = info[h].cl /\ info'[h].del = info[h].del
                                     /\ info'[h].busy = info[h].busy
          BY <1>0, <4>2, Zenon DEF H!Infos
        <5> QED
          BY <1>3, <3>1, <5>1, <5>2, Zenon
      <4> QED
        BY <1>7, <3>3, <4>1, <4>2, Zenon DEF H!get_handle, H!vars
    <3> QED
      BY <3>2, <3>3, Zenon
  <2> QED
    BY <1>7, <2>1, <2>2, Zenon DEF H!get_handle
<1>8. ASSUME NEW t \in Users, H!done_handle(t)
      PROVE  H!BoundStays' /\ H!SafebindKeeps'
  <2>h. PICK h : h = th[t].h
    OBVIOUS
  <2> DEFINE less == [info EXCEPT ![h].refcnt = @ - 1]
  <2>0. th[t].pc = "done" /\ H!Goes(t, H!Idle) /\ H!Idle.pc = "idle"
    BY <1>8, Zenon DEF H!done_handle, H!Idle
  <2>1. h \in DOMAIN info /\ info[h] \in H!Infos /\ info[h].m \in Dests /\ hmap[info[h].m] = h /\ h # 0
    <3>1. h \in DOMAIN info /\ info[h] \in H!Infos /\ h # 0
      BY <1>0, <1>1, <2>h, <2>0, Zenon
    <3>2. info[h].m \in Dests
      BY <3>1, Zenon DEF H!Infos
    <3> QED
      BY <2>h, <3>1, <3>2, Zenon DEF HInv, H!InMap
  <2>2. less[h].m = info[h].m /\ DOMAIN less = DOMAIN info
    BY <2>1, Zenon DEF H!Infos
  <2>3. \A g \in DOMAIN info : /\ less[g].cl = info[g].cl /\ less[g].del = info[g].del
                               /\ less[g].busy = info[g].busy
    BY <1>0, <2>1, Zenon DEF H!Infos
  <2>4. CASE less[h].refcnt = 0 /\ less[h].del
    <3>1. H!delete_handle_wo(info[h].m, less)
      <4>1. H!delete_handle_wo(less[h].m, less)
        BY <1>8, <2>h, <2>4, Zenon DEF H!done_handle
      <4> QED
        BY <2>2, <4>1, Zenon
    <3> HIDE DEF less
    <3>2. info' = [less EXCEPT ![h].freed = TRUE]
      BY <2>1, <2>4, <3>1, Zenon DEF H!delete_handle_wo
    <3>3. DOMAIN info' = DOMAIN less /\ info'[h] = [less[h] EXCEPT !.freed = TRUE]
          /\ \A g \in DOMAIN less : g # h => info'[g] = less[g]
      BY <2>1, <2>2, <3>2, Zenon
    <3>4. info'[h].cl = less[h].cl /\ info'[h].del = less[h].del /\ info'[h].busy = less[h].busy
      BY <3>3
    <3>5. \A g \in DOMAIN info : /\ info'[g].cl = info[g].cl /\ info'[g].del = info[g].del
                                 /\ info'[g].busy = info[g].busy
      BY <2>2, <2>3, <3>3, <3>4, ZenonT(60)
    <3> QED
      BY <1>2, <1>3, <2>0, <2>2, <3>3, <3>5, ZenonT(60)
  <2>5. CASE ~ (less[h].refcnt = 0 /\ less[h].del)
    <3>1. info' = less
      BY <1>8, <2>h, <2>5, Zenon DEF H!done_handle
    <3> HIDE DEF less
    <3> QED
      BY <1>2, <1>3, <2>0, <2>2, <2>3, <3>1, Zenon
  <2> QED
    BY <2>4, <2>5, Zenon
<1>9. ASSUME NEW t \in Users, H!bind_starts(t)
      PROVE  H!BoundStays' /\ H!SafebindKeeps'
  <2>h. PICK h : h = th[t].h
    OBVIOUS
  <2>1. /\ th[t].pc \in {"first", "second"} /\ ~ info[h].busy /\ ~ H!Known(info[h])
        /\ info' = [info EXCEPT ![h].busy = TRUE] /\ H!Goes(t, [th[t] EXCEPT !.pc = "binds"])
    BY <1>9, <2>h, Zenon DEF H!bind_starts
  <2>2. h \in DOMAIN info
    BY <1>1, <2>h, <2>1, Zenon
  <2>3. /\ DOMAIN info' = DOMAIN info /\ info'[h].busy
        /\ \A g \in DOMAIN info :  /\ info'[g].cl = info[g].cl /\ info'[g].del = info[g].del
                                   /\ (info[g].busy => info'[g].busy)
    BY <1>0, <2>1, <2>2, Zenon DEF H!Infos
  <2>4. \A u \in Users : IF u = t THEN th'[u].pc = "binds" /\ th'[u].h = h ELSE th'[u] = th[u]
    <3>1. [th[t] EXCEPT !.pc = "binds"].pc = "binds" /\ [th[t] EXCEPT !.pc = "binds"].h = th[t].h
      BY <1>1, <2>1, Zenon
    <3> QED
      BY <1>2, <2>h, <2>1, <3>1, ZenonT(60)
  <2>5. \A u \in Users : th[u].pc \in {"second", "call", "binds"} => th[u].h \in DOMAIN info
    BY <1>1, Zenon
  <2>6. \A u \in Users : th[u].pc = "binds" => th[u].h # h
    BY <2>1, Zenon DEF H!BoundStays
  <2>7. H!BoundStays'
    <3>1. \A g \in DOMAIN info' : info'[g].cl = "bound" => ~ info'[g].del
      BY <2>3, Zenon DEF H!BoundStays
    <3>2. \A u \in Users : th'[u].pc \in {"second", "call"} => info'[th'[u].h].cl = "bound"
      BY <2>3, <2>4, <2>5 DEF H!BoundStays
    <3>3. \A u \in Users : th'[u].pc = "binds" => info'[th'[u].h].busy /\ ~ H!Known(info'[th'[u].h])
      BY <2>1, <2>2, <2>3, <2>4, <2>5 DEF H!BoundStays, H!Known
    <3>4. \A u, v \in Users : th'[u].pc = "binds" /\ th'[v].pc = "binds" /\ th'[u].h = th'[v].h => u = v
      BY <2>4, <2>6, Zenon DEF H!BoundStays
    <3> QED
      BY <3>1, <3>2, <3>3, <3>4, Zenon DEF H!BoundStays, H!Known
  <2>8. H!SafebindKeeps'
    BY <2>4, Zenon DEF H!SafebindKeeps
  <2> QED
    BY <2>7, <2>8, Zenon
<1>10. ASSUME NEW t \in Users, H!bind_ends(t)
       PROVE  H!BoundStays' /\ H!SafebindKeeps'
  <2>h. PICK h : h = th[t].h
    OBVIOUS
  <2>1. th[t].pc = "binds"
    BY <1>10, Zenon DEF H!bind_ends
  <2>2. h \in DOMAIN info /\ info[h] \in H!Infos /\ ~ H!Known(info[h])
    BY <1>1, <2>h, <2>1, Zenon DEF H!BoundStays
  <2>3. \A u \in Users : th[u].pc \in {"second", "call", "binds"} => th[u].h \in DOMAIN info
    BY <1>1, Zenon
  <2>4. \A u \in Users : u # t /\ th[u].pc = "binds" => th[u].h # h
    BY <2>h, <2>1, Zenon DEF H!BoundStays
  <2>5. \A u \in Users : th[u].pc \in {"second", "call"} => th[u].h # h
    BY <2>2, Zenon DEF H!BoundStays, H!Known
  <2>6. /\ DOMAIN info' = DOMAIN info /\ \A g \in DOMAIN info : g # h => info'[g] = info[g]
        /\ \A u \in Users : u # t => th'[u] = th[u]
        /\ \/ info'[h].cl = "bound" /\ ~ info'[h].del /\ th'[t].pc = "second" /\ th'[t].h = h
           \/ info'[h].cl # "bound" /\ th'[t].pc = "done"
    <3>1. CASE /\ info' = [info EXCEPT ![h].busy = FALSE, ![h].cl = "bound"]
               /\ H!Goes(t, [th[t] EXCEPT !.pc = "second", !.cl = th[t].h])
      <4>1. /\ DOMAIN info' = DOMAIN info /\ \A g \in DOMAIN info : g # h => info'[g] = info[g]
            /\ info'[h].cl = "bound" /\ ~ info'[h].del
        BY <2>2, <3>1, Zenon DEF H!Known, H!Infos
      <4>2. LET r == [th[t] EXCEPT !.pc = "second", !.cl = th[t].h] IN r.pc = "second" /\ r.h = th[t].h
        BY <1>1, <2>1, Zenon
      <4>3. th'[t] = [th[t] EXCEPT !.pc = "second", !.cl = th[t].h]
            /\ \A u \in Users : u # t => th'[u] = th[u]
        BY <1>2, <3>1, Zenon
      <4> QED
        BY <2>h, <4>1, <4>2, <4>3, Zenon
    <3>2. CASE /\ info' = [info EXCEPT ![h].busy = FALSE, ![h].del = TRUE]
               /\ H!Goes(t, [th[t] EXCEPT !.pc = "done"])
      <4>1. /\ DOMAIN info' = DOMAIN info /\ \A g \in DOMAIN info : g # h => info'[g] = info[g]
            /\ info'[h].cl # "bound"
        BY <2>2, <3>2, Zenon DEF H!Known, H!Infos
      <4>2. [th[t] EXCEPT !.pc = "done"].pc = "done"
        BY <1>1, <2>1, Zenon
      <4> QED
        BY <1>2, <3>2, <4>1, <4>2, Zenon
    <3> QED
      BY <1>10, <2>h, <3>1, <3>2, Zenon DEF H!bind_ends
  <2>7. H!BoundStays'
    <3>1. \A g \in DOMAIN info' : info'[g].cl = "bound" => ~ info'[g].del
      BY <2>6, Zenon DEF H!BoundStays
    <3>2. \A u \in Users : th'[u].pc \in {"second", "call"} => info'[th'[u].h].cl = "bound"
      BY <2>3, <2>5, <2>6 DEF H!BoundStays
    <3>3. \A u \in Users : th'[u].pc = "binds" => info'[th'[u].h].busy /\ ~ H!Known(info'[th'[u].h])
      BY <2>3, <2>4, <2>6 DEF H!BoundStays
    <3>4. \A u, v \in Users : th'[u].pc = "binds" /\ th'[v].pc = "binds" /\ th'[u].h = th'[v].h => u = v
      BY <2>6 DEF H!BoundStays
    <3> QED
      BY <3>1, <3>2, <3>3, <3>4, Zenon DEF H!BoundStays, H!Known
  <2>8. H!SafebindKeeps'
    BY <2>6, Zenon DEF H!SafebindKeeps
  <2> QED
    BY <2>7, <2>8, Zenon
<1> QED
  BY <1>4, <1>5, <1>6, <1>7, <1>8, <1>9, <1>10, Zenon DEF H!Next, H!Uses, H!delete_handle

\* At first there is no entry, and nobody has a handle.
LEMMA HandlesInit == ASSUME IsFiniteSet(Users), H!Init PROVE HInv /\ H!BoundStays /\ H!SafebindKeeps
<1>1. DOMAIN info = {} /\ info \in [1 .. 0 -> H!Infos]
  BY DEF H!Init
<1>2. H!Types
  BY <1>1, Zenon DEF H!Init, H!Types, H!Idle, H!PCs
<1>3. H!InMap /\ H!MarkGoes
  <2>1. H!Idle.h = 0 /\ \A m \in Dests : hmap[m] = 0
    BY Zenon DEF H!Init, H!Idle
  <2> QED
    BY <2>1, Zenon DEF H!Init, H!InMap, H!MarkGoes
<1>4. Exact
  BY <1>1, Zenon DEF Exact
<1>5. H!BoundStays /\ H!SafebindKeeps
  BY <1>1, Zenon DEF H!Init, H!BoundStays, H!SafebindKeeps, H!Idle
<1> QED
  BY <1>2, <1>3, <1>4, <1>5, Zenon DEF HInv

\* handle.cc, for any number of threads and destinations, with and without
\* delete_handle: refcnt is the number of handles, an entry that a handle refers to
\* is not freed, and no mark stays behind without one.
THEOREM EntriesLiveHolds ==
    ASSUME IsFiniteSet(Users)
    PROVE  H!Spec => []EntriesLive
<1>1. H!Init => HInv
  BY HandlesInit, Zenon
<1>2. HInv /\ [H!Next]_H!vars => HInv'
  BY HandleMgrKeeps, Zenon
<1>3. HInv => EntriesLive
  BY ExactCounts, Zenon DEF HInv, H!EntriesLive, EntriesLive
<1> QED
  BY <1>1, <1>2, <1>3, PTL DEF H!Spec

\* handle::safebind (handle.cc): while nobody calls delete_handle, the safebind()
\* of call_client that follows one that succeeded answers an rpcc, not NULL.
THEOREM SafebindKeepsHolds ==
    ASSUME IsFiniteSet(Users), ~ Deletes
    PROVE  H!Spec => []H!SafebindKeeps /\ []SafebindKeeps
<1> DEFINE Inv == HInv /\ H!BoundStays /\ H!SafebindKeeps
<1>1. H!Init => Inv
  BY HandlesInit, Zenon
<1>2. Inv /\ [H!Next]_H!vars => Inv'
  BY HandleMgrKeeps, BoundKeeps, Zenon
<1>3. Inv => H!SafebindKeeps /\ SafebindKeeps
  BY Zenon DEF SafebindKeeps
<1> HIDE DEF Inv
<1> QED
  BY <1>1, <1>2, <1>3, PTL DEF H!Spec

=============================================================================
