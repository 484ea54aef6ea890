----------------------------- MODULE HandleMgr -----------------------------
(***************************************************************************)
(* The cache of RPC connections of handle.cc: threads that do what         *)
(* call_client of lock_server_cache.cc does with a handle, while others    *)
(* delete_handle the entry.  get_handle, done_handle and delete_handle run *)
(* under handle_mutex; safebind runs under the cl_mutex of the entry, also *)
(* while it binds.                                                         *)
(***************************************************************************)
EXTENDS Integers, FiniteSets, FiniteSetsExt

CONSTANTS
    Threads, Dests,
    Deletes,     \* may somebody call delete_handle?
    MaxInfos     \* bound: hinfos made

VARIABLES
    hmap,        \* the hinfo of each destination, 0 if none
    info,        \* the hinfos made so far (freed ones included)
    th           \* where each thread is: its destination, hinfo and rpcc

vars == <<hmap, info, th>>

Idle == [pc |-> "idle", dest |-> 0, h |-> 0, cl |-> 0]

Init ==
    /\ hmap = [m \in Dests |-> 0]
    /\ info = [h \in {} |-> 0]
    /\ th = [t \in Threads |-> Idle]

Goes(t, r) == th' = [th EXCEPT ![t] = r]

NewInfo(m) == [m |-> m, cl |-> "NULL", del |-> FALSE, refcnt |-> 1, freed |-> FALSE, busy |-> FALSE]

\* handle(m): no hinfo if the one there is marked deleted.
get_handle(t, m) ==
    /\ th[t] = Idle
    /\ LET h == hmap[m] IN
        \/ /\ h = 0
           /\ Cardinality(DOMAIN info) < MaxInfos
           /\ LET new == Cardinality(DOMAIN info) + 1 IN
               /\ info' = [i \in DOMAIN info \cup {new} |->
                              IF i = new THEN NewInfo(m) ELSE info[i]]
               /\ hmap' = [hmap EXCEPT ![m] = new]
               /\ Goes(t, [pc |-> "first", dest |-> m, h |-> new, cl |-> 0])
        \/ /\ h # 0 /\ ~ info[h].del
           /\ info' = [info EXCEPT ![h].refcnt = @ + 1]
           /\ Goes(t, [pc |-> "first", dest |-> m, h |-> h, cl |-> 0])
           /\ UNCHANGED hmap
        \/ /\ h # 0 /\ info[h].del       \* safebind answers NULL: RPCERR
           /\ UNCHANGED vars

\* What safebind answers without binding.
Known(i) == i.del \/ i.cl # "NULL"

\* safebind with nothing to bind: of the two calls in call_client the first
\* decides whether there is an RPC, the second is called without a test.
safebind(t) ==
    LET r == th[t]
        i == info[r.h]
    IN  /\ r.pc \in {"first", "second"} /\ ~ i.busy
        /\ Known(i)
        /\ Goes(t, IF i.del
                   THEN [r EXCEPT !.pc = IF r.pc = "first" THEN "done" ELSE "null", !.cl = 0]
                   ELSE [r EXCEPT !.pc = IF r.pc = "first" THEN "second" ELSE "call", !.cl = r.h])
        /\ UNCHANGED <<hmap, info>>

\* safebind binds, with cl_mutex locked until the answer or the timeout.
bind_starts(t) ==
    /\ th[t].pc \in {"first", "second"}
    /\ LET i == info[th[t].h] IN ~ i.busy /\ ~ Known(i)
    /\ info' = [info EXCEPT ![th[t].h].busy = TRUE]
    /\ Goes(t, [th[t] EXCEPT !.pc = "binds"])
    /\ UNCHANGED hmap

\* Mutant: the entry is marked also when the bind succeeded.
bind_marks(t) ==
    LET r == th[t] IN
    /\ r.pc = "binds"
    /\ \/ /\ info' = [info EXCEPT ![r.h].busy = FALSE, ![r.h].cl = "bound", ![r.h].del = TRUE]
          /\ Goes(t, [r EXCEPT !.pc = "second", !.cl = r.h])
       \/ /\ info' = [info EXCEPT ![r.h].busy = FALSE, ![r.h].del = TRUE]
          /\ Goes(t, [r EXCEPT !.pc = "done"])
    /\ UNCHANGED hmap

\* Mutant: cl_mutex is not unlocked when the bind failed.
bind_keeps(t) ==
    LET r == th[t] IN
    /\ r.pc = "binds"
    /\ \/ /\ info' = [info EXCEPT ![r.h].busy = FALSE, ![r.h].cl = "bound"]
          /\ Goes(t, [r EXCEPT !.pc = "second", !.cl = r.h])
       \/ /\ info' = [info EXCEPT ![r.h].del = TRUE]
          /\ Goes(t, [r EXCEPT !.pc = "done"])
    /\ UNCHANGED hmap

bind_ends(t) ==
    LET r == th[t] IN
    /\ r.pc = "binds"
    /\ \/ /\ info' = [info EXCEPT ![r.h].busy = FALSE, ![r.h].cl = "bound"]
          /\ Goes(t, [r EXCEPT !.pc = "second", !.cl = r.h])
       \/ /\ info' = [info EXCEPT ![r.h].busy = FALSE, ![r.h].del = TRUE]
          /\ Goes(t, [r EXCEPT !.pc = "done"])
    /\ UNCHANGED hmap

call(t) ==
    /\ th[t].pc = "call"
    /\ Goes(t, [th[t] EXCEPT !.pc = "done"])
    /\ UNCHANGED <<hmap, info>>

\* Mutant: an entry without references is only marked.
delete_marks(m, infos) ==
    IF hmap[m] = 0 THEN info' = infos /\ UNCHANGED hmap
    ELSE info' = [infos EXCEPT ![hmap[m]].del = TRUE] /\ UNCHANGED hmap

delete_handle_wo(m, infos) ==
    IF hmap[m] = 0 THEN info' = infos /\ UNCHANGED hmap
    ELSE IF infos[hmap[m]].refcnt = 0
    THEN /\ info' = [infos EXCEPT ![hmap[m]].freed = TRUE]
         /\ hmap' = [hmap EXCEPT ![m] = 0]
    ELSE info' = [infos EXCEPT ![hmap[m]].del = TRUE] /\ UNCHANGED hmap

\* ~handle
done_handle(t) ==
    LET h == th[t].h
        less == [info EXCEPT ![h].refcnt = @ - 1]
    IN  /\ th[t].pc = "done"
        /\ IF less[h].refcnt = 0 /\ less[h].del THEN delete_handle_wo(less[h].m, less)
           ELSE info' = less /\ UNCHANGED hmap
        /\ Goes(t, Idle)

delete_handle(m) ==
    /\ Deletes
    /\ delete_handle_wo(m, info)
    /\ UNCHANGED th

Uses(t) ==
    safebind(t) \/ bind_starts(t) \/ bind_ends(t) \/ call(t) \/ done_handle(t)

Next ==
    \/ \E t \in Threads : Uses(t) \/ \E m \in Dests : get_handle(t, m)
    \/ \E m \in Dests : delete_handle(m)

\* A thread with a handle goes on: every call in call_client returns.
Fairness == \A t \in Threads : WF_vars(Uses(t))

Spec == Init /\ [][Next]_vars /\ Fairness

-----------------------------------------------------------------------------

Handles(h) == {t \in Threads : th[t].h = h}

\* The reference count is exact and no handle refers to an hinfo that was freed,
\* whatever the order of binds that fail, deletes and destructors.
CountsHandles ==
    \A h \in DOMAIN info :
        /\ info[h].refcnt = Cardinality(Handles(h))
        /\ Handles(h) # {} => ~ info[h].freed

\* A destination whose bind failed, or whose handle was deleted, is not refused
\* for ever: the mark goes with the last handle, and the next one binds anew.
MarkGoes == \A m \in Dests : hmap[m] # 0 =>
    ~ info[hmap[m]].freed /\ (info[hmap[m]].del => info[hmap[m]].refcnt > 0)

\* An entry of the cache lives exactly as long as it is of use.
EntriesLive == CountsHandles /\ MarkGoes

\* "If the first safebind succeeded, all later calls would return a rpcc object"
\* (handle.h:51): the safebind()->call of call_client is not made on NULL.
SafebindKeeps == \A t \in Threads : th[t].pc # "null"

Infos == [m : Dests, cl : {"NULL", "bound"}, del : BOOLEAN, refcnt : Nat,
          freed : BOOLEAN, busy : BOOLEAN]

PCs == {"idle", "first", "second", "binds", "call", "null", "done"}

Types ==
    /\ \E n \in Nat : info \in [1 .. n -> Infos]
    /\ hmap \in [Dests -> DOMAIN info \cup {0}]
    /\ th \in [Threads -> [pc : PCs, dest : Dests \cup {0}, h : DOMAIN info \cup {0},
                          cl : DOMAIN info \cup {0}]]

\* The entry that a handle refers to is the one in the map, so a destination never
\* has two.
InMap ==
    /\ \A m \in Dests : hmap[m] # 0 => info[hmap[m]].m = m
    /\ \A t \in Threads : IF th[t].h = 0 THEN th[t] = Idle ELSE hmap[info[th[t].h].m] = th[t].h

\* Without delete_handle an entry is marked only by a bind that failed, which
\* nobody else made meanwhile, so one that is bound is never marked.
BoundStays ==
    /\ \A h \in DOMAIN info : info[h].cl = "bound" => ~ info[h].del
    /\ \A t \in Threads :
          /\ th[t].pc \in {"second", "call"} => info[th[t].h].cl = "bound"
          /\ th[t].pc = "binds" => info[th[t].h].busy /\ ~ Known(info[th[t].h])
    /\ \A t, u \in Threads :
          th[t].pc = "binds" /\ th[u].pc = "binds" /\ th[t].h = th[u].h => t = u

\* Every handle is given back: a bind that blocks keeps the others only for its
\* own time.
HandleDone == \A t \in Threads : []<>(th[t] = Idle \/ th[t].pc = "null")

=============================================================================
