--------------------------------- MODULE Rpc ---------------------------------
(***************************************************************************)
(* The RPC library between one rpcc (the client end, used by any number of *)
(* threads) and one rpcs (the server end, dispatching with a thread pool), *)
(* over TCP connections that may break and a server that may restart.      *)
(*                                                                         *)
(* A call is identified by its xid; an action is one critical section of   *)
(* rpcc::m_, rpcs::conss_m_ or rpcs::reply_window_m_, or one arrival.      *)
(* The sorted lists xid_rep_window_ and reply_window_ are sets here        *)
(* (RpcWindow); RpcLists checks the list code against these sets.          *)
(*                                                                         *)
(* The rpcc is bound once, as handle::safebind and the clients'            *)
(* constructors do, and retransmits (retrans_ is true for all of them).    *)
(***************************************************************************)
EXTENDS RpcWindow, FiniteSets

CONSTANTS
    MaxXid,      \* bound: calls made
    MaxConn,     \* bound: connections made, of which the last does not break
    MaxNonce,    \* bound: server instances, each with a nonce of its own
    Timeouts,    \* may a call reach its final deadline?
    Cancels,     \* may rpcc::cancel be called?
    HalfOpen,    \* may the ends of a connection learn of its loss separately?
    Lossy        \* RPC_LOSSY: are forgotten requests sent again on purpose?

ASSUME MaxXidAssumption == MaxXid \in Nat
ASSUME MaxConnAssumption == MaxConn \in Nat
ASSUME MaxNonceAssumption == MaxNonce \in Nat \ {0}
ASSUME FlagsAssumption == {Timeouts, Cancels, HalfOpen, Lossy} \subseteq BOOLEAN

Xids   == 1..MaxXid
Conns  == 1..MaxConn
Nonces == 1..MaxNonce
NoXid  == -1   \* request::clear
NoConn == 0    \* a NULL connection*

Procs == {"bind", "proc"}

\* reply_header.ret: not negative, or one of the rpc_const failures.
Rets == {"ok", "oldsrv", "atmostonce"}

\* One copy of the request of call xid, on connection conn; again marks the
\* copy that call1 sends on purpose when testing with RPC_LOSSY.
Requests == [xid : Xids, conn : Conns, again : BOOLEAN]

\* Where rpcs::dispatch is with such a copy.
JobPCs == {"start", "check", "run", "record", "reply"}

VARIABLES
    xid_, calls_, xid_rep_window_, bind_done_, srv_nonce_, chan_,
    destroy_wait_, dup_req_, xid_rep_done_,
    hdr,            \* the packed req_header of each call
    at,             \* where each call is in rpcc::call1 or bind
    ch,             \* the connection each call sent its request on last
    done,           \* caller::done and intret: "no", or how the call ended
    val,            \* caller::un: the nonce a reply was computed under
    nonce_, up,     \* the instance of the server, and whether it is running
    reply_window_,  \* the xids in the list of this client
    cb_present,     \* those whose reply has been recorded
    conns_,         \* the latest connection to this client
    jobs,           \* copies being dispatched, each with its pc
    made,           \* connections made so far, numbered by create_time_
    cdead, sdead,   \* connections known to be dead by the client, by the server
    requests,       \* copies on their way to the server
    replies,        \* replies on their way to the client
    ran             \* how often each handler ran, in each instance

caller  == <<hdr, at, ch, done, val>>
rpcc    == <<xid_, calls_, xid_rep_window_, bind_done_, srv_nonce_, chan_,
             destroy_wait_, dup_req_, xid_rep_done_, caller>>
window  == <<reply_window_, cb_present>>
rpcs    == <<nonce_, up, window, conns_, jobs, ran>>
network == <<made, cdead, sdead, requests, replies>>
vars    == <<rpcc, rpcs, network>>

CallPCs == {"none", "send", "wait", "lastSend", "finish", "note", "bound", "returned"}

\* The type of each variable: in particular a reply is only ever sent on a
\* connection that exists, and conns_[clt_nonce] is not NULL when it is used.
TypeOK ==
    /\ xid_ \in 1..(MaxXid + 1)
    /\ calls_ \in SUBSET Xids
    /\ xid_rep_window_ \in SUBSET (0..MaxXid)
    /\ bind_done_ \in BOOLEAN
    /\ srv_nonce_ \in Nonces \cup {0}
    /\ chan_ \in Conns \cup {NoConn}
    /\ destroy_wait_ \in BOOLEAN
    /\ dup_req_ \in Xids \cup {NoXid}
    /\ xid_rep_done_ \in (0..MaxXid) \cup {-1}
    /\ hdr \in [Xids -> [proc : Procs, srv_nonce : Nonces \cup {0}, xid_rep : 0..MaxXid]]
    /\ at \in [Xids -> CallPCs]
    /\ ch \in [Xids -> Conns \cup {NoConn}]
    /\ done \in [Xids -> Rets \cup {"no", "cancel"}]
    /\ val \in [Xids -> Nonces \cup {0}]
    /\ nonce_ \in Nonces
    /\ up \in BOOLEAN
    /\ reply_window_ \in SUBSET Xids
    /\ cb_present \in SUBSET Xids
    /\ conns_ \in Conns \cup {NoConn}
    /\ jobs \in SUBSET [copy : Requests, pc : JobPCs]
    /\ made \in 0..MaxConn
    /\ cdead \in SUBSET Conns
    /\ sdead \in SUBSET Conns
    /\ requests \in SUBSET Requests
    /\ replies \in SUBSET [xid : Xids, conn : Conns, ret : Rets, val : Nonces]
    /\ ran \in [Xids -> [Nonces -> Nat]]

Init ==
    /\ xid_ = 1
    /\ calls_ = {}
    /\ xid_rep_window_ = {0}
    /\ bind_done_ = FALSE
    /\ srv_nonce_ = 0
    /\ chan_ = NoConn
    /\ destroy_wait_ = FALSE
    /\ dup_req_ = NoXid
    /\ xid_rep_done_ = -1
    /\ hdr = [x \in Xids |-> [proc |-> "bind", srv_nonce |-> 0, xid_rep |-> 0]]
    /\ at = [x \in Xids |-> "none"]
    /\ ch = [x \in Xids |-> NoConn]
    /\ done = [x \in Xids |-> "no"]
    /\ val = [x \in Xids |-> 0]
    /\ nonce_ = 1
    /\ up = TRUE
    /\ reply_window_ = {}
    /\ cb_present = {}
    /\ conns_ = NoConn
    /\ jobs = {}
    /\ made = 0
    /\ cdead = {} /\ sdead = {}
    /\ requests = {} /\ replies = {}
    /\ ran = [x \in Xids |-> [n \in Nonces |-> 0]]

-----------------------------------------------------------------------------
(* rpcc *)

Goto(x, l) == at' = [at EXCEPT ![x] = l]

\* Mutant: the header claims a reply for every earlier call.
StartCallAllReplied(proc) ==
    /\ xid_ <= MaxXid
    /\ IF proc = "bind" THEN xid_ = 1 ELSE bind_done_
    /\ ~destroy_wait_
    /\ xid_' = xid_ + 1
    /\ calls_' = calls_ \cup {xid_}
    /\ hdr' = [hdr EXCEPT ![xid_] = [proc |-> proc, srv_nonce |-> srv_nonce_, xid_rep |-> xid_]]
    /\ Goto(xid_, "send")
    /\ UNCHANGED <<xid_rep_window_, bind_done_, srv_nonce_, chan_, destroy_wait_,
                   dup_req_, xid_rep_done_, ch, done, val, rpcs, network>>

\* The first critical section of call1: bind first and once, and nothing any
\* more once cancel has begun; a call that is refused here changes nothing.
StartCall(proc) ==
    /\ xid_ <= MaxXid
    /\ IF proc = "bind" THEN xid_ = 1 ELSE bind_done_
    /\ ~destroy_wait_
    /\ xid_' = xid_ + 1
    /\ calls_' = calls_ \cup {xid_}
    /\ hdr' = [hdr EXCEPT ![xid_] = [proc |-> proc, srv_nonce |-> srv_nonce_,
                                     xid_rep |-> Lowest(xid_rep_window_)]]
    /\ Goto(xid_, "send")
    /\ UNCHANGED <<xid_rep_window_, bind_done_, srv_nonce_, chan_, destroy_wait_,
                   dup_req_, xid_rep_done_, ch, done, val, rpcs, network>>

\* get_refconn: the current connection, a new one, or none if the server is down.
RefConn ==
    CASE chan_ # NoConn /\ chan_ \notin cdead -> chan_
      [] (chan_ = NoConn \/ chan_ \in cdead) /\ up /\ made < MaxConn -> made + 1
      [] OTHER -> NoConn

\* No connection, or a dead one: what the call sends is lost.
Cut(c) == c = NoConn \/ c \in cdead

\* The request of an earlier call that the server must have forgotten by now.
Forgot == {x \in Xids : x = dup_req_ /\ xid_rep_done_ > x}

\* if (transmit) ...: send the request on the current connection.  When there
\* is none, the one used before (if any) is tried again, though it is dead.
Transmit(x) ==
    LET new  == RefConn
        c    == IF new = NoConn THEN ch[x] ELSE new
        sent == {[xid |-> x, conn |-> c, again |-> FALSE]}
                  \cup {[xid |-> y, conn |-> c, again |-> TRUE] : y \in Forgot}
    IN  /\ at[x] \in {"send", "lastSend"}
        /\ chan_' = new
        /\ made' = IF new > made THEN new ELSE made
        /\ ch' = [ch EXCEPT ![x] = c]
        /\ requests' = IF Cut(c) \/ c \in sdead THEN requests ELSE requests \cup sent
        /\ dup_req_' = IF c # NoConn /\ Forgot # {} THEN NoXid ELSE dup_req_
        /\ Goto(x, IF at[x] = "send" THEN "wait" ELSE "finish")
        /\ UNCHANGED <<xid_, calls_, xid_rep_window_, bind_done_, srv_nonce_, destroy_wait_,
                       xid_rep_done_, hdr, done, val, rpcs, cdead, sdead, replies>>

MoveOn(x, l) ==
    /\ Goto(x, l)
    /\ UNCHANGED <<xid_, calls_, xid_rep_window_, bind_done_, srv_nonce_, chan_, destroy_wait_,
                   dup_req_, xid_rep_done_, hdr, ch, done, val, rpcs, network>>

\* The wait ends: with a reply or a cancellation, ...
WaitDone(x) ==
    /\ at[x] = "wait"
    /\ done[x] # "no"
    /\ MoveOn(x, "finish")

\* ... with a deadline, on a dead connection: transmit again, ...
WaitExpired(x) ==
    /\ at[x] = "wait"
    /\ done[x] = "no"
    /\ Cut(ch[x])
    /\ MoveOn(x, "send")

\* ... or with the final deadline, after which a dead connection still leads
\* to a last transmission that nobody waits for.
WaitGivenUp(x) ==
    /\ Timeouts
    /\ at[x] = "wait"
    /\ done[x] = "no"
    /\ MoveOn(x, IF Cut(ch[x]) THEN "lastSend" ELSE "finish")

\* Where call1 goes once its bookkeeping is over.
Leave(x) == IF hdr[x].proc = "bind" /\ done[x] = "ok" THEN "bound" ELSE "returned"

\* The call is over, with or without a reply.  Waking cancel (destroy_wait_c_)
\* is not a step: cancel returns when calls_ is empty.
Finish(x) ==
    /\ at[x] = "finish"
    /\ calls_' = calls_ \ {x}
    /\ xid_rep_window_' = UpdateXidRep(xid_rep_window_, x)
    /\ Goto(x, IF Lossy /\ done[x] # "no" THEN "note" ELSE Leave(x))
    /\ UNCHANGED <<xid_, bind_done_, srv_nonce_, chan_, destroy_wait_, dup_req_, xid_rep_done_,
                   hdr, ch, done, val, rpcs, network>>

\* With RPC_LOSSY: keep the request for sending it again, and note the xid_rep
\* that the server has seen with it.
NoteDone(x) ==
    /\ at[x] = "note"
    /\ dup_req_' = IF dup_req_ = NoXid THEN x ELSE dup_req_
    /\ xid_rep_done_' = IF hdr[x].xid_rep > xid_rep_done_ THEN hdr[x].xid_rep ELSE xid_rep_done_
    /\ Goto(x, Leave(x))
    /\ UNCHANGED <<xid_, calls_, xid_rep_window_, bind_done_, srv_nonce_, chan_, destroy_wait_,
                   hdr, ch, done, val, rpcs, network>>

\* rpcc::bind takes the server's nonce from the reply.
BindDone(x) ==
    /\ at[x] = "bound"
    /\ bind_done_' = TRUE
    /\ srv_nonce_' = val[x]
    /\ Goto(x, "returned")
    /\ UNCHANGED <<xid_, calls_, xid_rep_window_, chan_, destroy_wait_, dup_req_, xid_rep_done_,
                   hdr, ch, done, val, rpcs, network>>

\* rpcc::got_pdu
GotReply(m) ==
    LET mine == m.xid \in calls_ /\ done[m.xid] = "no"
    IN  /\ m.conn \notin cdead
        /\ replies' = replies \ {m}
        /\ xid_rep_window_' = UpdateXidRep(xid_rep_window_, m.xid)
        /\ done' = IF mine THEN [done EXCEPT ![m.xid] = m.ret] ELSE done
        /\ val' = IF mine THEN [val EXCEPT ![m.xid] = m.val] ELSE val
        /\ UNCHANGED <<xid_, calls_, bind_done_, srv_nonce_, chan_, destroy_wait_, dup_req_,
                       xid_rep_done_, hdr, at, ch, rpcs, made, cdead, sdead, requests>>

\* Mutant: cancel waits without waking the callers.
CancelWaits ==
    /\ Cancels
    /\ ~destroy_wait_
    /\ calls_ # {}
    /\ destroy_wait_' = TRUE
    /\ UNCHANGED <<xid_, calls_, xid_rep_window_, bind_done_, srv_nonce_, chan_, dup_req_,
                   xid_rep_done_, caller, rpcs, network>>

\* rpcc::cancel, up to its wait for calls_ to become empty; a reply that has
\* arrived already is overwritten too.
Cancel ==
    /\ Cancels
    /\ ~destroy_wait_
    /\ calls_ # {}
    /\ destroy_wait_' = TRUE
    /\ done' = [x \in Xids |-> IF x \in calls_ THEN "cancel" ELSE done[x]]
    /\ UNCHANGED <<xid_, calls_, xid_rep_window_, bind_done_, srv_nonce_, chan_, dup_req_,
                   xid_rep_done_, hdr, at, ch, val, rpcs, network>>

-----------------------------------------------------------------------------
(* rpcs *)

\* rpcs::got_pdu queues a job for the dispatch pool.
GotRequest(m) ==
    /\ up
    /\ m.conn \notin sdead
    /\ requests' = requests \ {m}
    /\ jobs' = jobs \cup {[copy |-> m, pc |-> "start"]}
    /\ UNCHANGED <<rpcc, nonce_, up, window, conns_, ran, made, cdead, sdead, replies>>

\* connection::send from the server; lost on a connection that is gone.
Reply(x, c, r) ==
    replies' = IF c \in sdead \/ c \in cdead THEN replies
               ELSE replies \cup {[xid |-> x, conn |-> c, ret |-> r, val |-> nonce_]}

EndJob(j) == jobs' = jobs \ {j}
JobGoto(j, l) == jobs' = (jobs \ {j}) \cup {[j EXCEPT !.pc = l]}

\* The request was meant for an earlier instance of the server.
DispatchOldServer(j) ==
    /\ j.pc = "start"
    /\ hdr[j.copy.xid].srv_nonce \notin {0, nonce_}
    /\ Reply(j.copy.xid, j.copy.conn, "oldsrv")
    /\ EndJob(j)
    /\ UNCHANGED <<rpcc, nonce_, up, window, conns_, ran, made, cdead, sdead, requests>>

\* Mutant: the server's nonce is not looked at.
DispatchAnyServer(j) ==
    /\ j.pc = "start"
    /\ conns_' = IF conns_ < j.copy.conn THEN j.copy.conn ELSE conns_
    /\ JobGoto(j, "check")
    /\ UNCHANGED <<rpcc, nonce_, up, window, ran, network>>

\* Mutant: the connection is not saved.
DispatchNoConn(j) ==
    /\ j.pc = "start"
    /\ hdr[j.copy.xid].srv_nonce \in {0, nonce_}
    /\ JobGoto(j, "check")
    /\ UNCHANGED <<rpcc, nonce_, up, window, conns_, ran, network>>

\* Save the latest connection to the client (connection::compare).
DispatchSaveConn(j) ==
    /\ j.pc = "start"
    /\ hdr[j.copy.xid].srv_nonce \in {0, nonce_}
    /\ conns_' = IF conns_ < j.copy.conn THEN j.copy.conn ELSE conns_
    /\ JobGoto(j, "check")
    /\ UNCHANGED <<rpcc, nonce_, up, window, ran, network>>

\* checkduplicate_and_update.  NEW: remember the xid.
CheckNew(j) ==
    /\ j.pc = "check"
    /\ IsNew(reply_window_, j.copy.xid)
    /\ reply_window_' = Remember(reply_window_, j.copy.xid, hdr[j.copy.xid].xid_rep)
    /\ cb_present' = cb_present \cap reply_window_'
    /\ JobGoto(j, "run")
    /\ UNCHANGED <<rpcc, nonce_, up, conns_, ran, network>>

\* INPROGRESS: nothing to do, the reply will be sent by the first copy's job.
CheckInProgress(j) ==
    /\ j.pc = "check"
    /\ j.copy.xid \in reply_window_ \ cb_present
    /\ EndJob(j)
    /\ UNCHANGED <<rpcc, nonce_, up, window, conns_, ran, network>>

\* Mutant: cb_present is not looked at.
CheckDoneEarly(j) ==
    /\ j.pc = "check"
    /\ j.copy.xid \in reply_window_
    /\ Reply(j.copy.xid, j.copy.conn, "ok")
    /\ EndJob(j)
    /\ UNCHANGED <<rpcc, nonce_, up, window, conns_, ran, made, cdead, sdead, requests>>

\* DONE: send the recorded reply again, on the connection of this copy.
CheckDone(j) ==
    /\ j.pc = "check"
    /\ j.copy.xid \in cb_present
    /\ Reply(j.copy.xid, j.copy.conn, "ok")
    /\ EndJob(j)
    /\ UNCHANGED <<rpcc, nonce_, up, window, conns_, ran, made, cdead, sdead, requests>>

\* FORGOTTEN: refuse.
CheckForgotten(j) ==
    /\ j.pc = "check"
    /\ Forgotten(reply_window_, j.copy.xid)
    /\ Reply(j.copy.xid, j.copy.conn, "atmostonce")
    /\ EndJob(j)
    /\ UNCHANGED <<rpcc, nonce_, up, window, conns_, ran, made, cdead, sdead, requests>>

\* f->fn(req, rep), without any mutex of the library.
RunHandler(j) ==
    /\ j.pc = "run"
    /\ ran' = [ran EXCEPT ![j.copy.xid][nonce_] = @ + 1]
    /\ JobGoto(j, "record")
    /\ UNCHANGED <<rpcc, nonce_, up, window, conns_, network>>

\* add_reply: nothing is recorded if the xid has left the window.
AddReply(j) ==
    /\ j.pc = "record"
    /\ cb_present' = cb_present \cup ({j.copy.xid} \cap reply_window_)
    /\ JobGoto(j, "reply")
    /\ UNCHANGED <<rpcc, nonce_, up, reply_window_, conns_, ran, network>>

\* Mutant: always reply on the connection of the request.
SendReplySameConn(j) ==
    /\ j.pc = "reply"
    /\ Reply(j.copy.xid, j.copy.conn, "ok")
    /\ EndJob(j)
    /\ UNCHANGED <<rpcc, nonce_, up, window, conns_, ran, made, cdead, sdead, requests>>

\* Reply on the connection of the request, or the latest one if it is dead.
SendReply(j) ==
    /\ j.pc = "reply"
    /\ Reply(j.copy.xid, IF j.copy.conn \in sdead THEN conns_ ELSE j.copy.conn, "ok")
    /\ EndJob(j)
    /\ UNCHANGED <<rpcc, nonce_, up, window, conns_, ran, made, cdead, sdead, requests>>

-----------------------------------------------------------------------------
(* The world *)

\* The client's, the server's or both ends of a connection learn of its loss.
\* Connection MaxConn does not break, so a connection can always be had.
ConnectionLost(c, ends) ==
    /\ c \in 1..made /\ c # MaxConn
    /\ IF HalfOpen THEN ends # {} ELSE ends = {"client", "server"}
    /\ cdead' = IF "client" \in ends THEN cdead \cup {c} ELSE cdead
    /\ sdead' = IF "server" \in ends THEN sdead \cup {c} ELSE sdead
    /\ requests' = {m \in requests : m.conn \notin sdead'}
    /\ replies' = {m \in replies : m.conn \notin cdead'}
    /\ UNCHANGED <<rpcc, rpcs, made>>

\* The server dies with everything it knows, ...
Crash ==
    /\ up
    /\ nonce_ < MaxNonce /\ made < MaxConn
    /\ up' = FALSE
    /\ reply_window_' = {} /\ cb_present' = {}
    /\ conns_' = NoConn
    /\ jobs' = {}
    /\ sdead' = 1..made
    /\ cdead' = IF HalfOpen THEN cdead ELSE 1..made
    /\ requests' = {}
    /\ replies' = {m \in replies : m.conn \notin cdead'}
    /\ UNCHANGED <<rpcc, nonce_, ran, made>>

\* ... and is started again, with another nonce.
Restart ==
    /\ ~up
    /\ up' = TRUE
    /\ nonce_' = nonce_ + 1
    /\ UNCHANGED <<rpcc, window, conns_, jobs, ran, network>>

-----------------------------------------------------------------------------
CallStep(x) ==
    \/ Transmit(x) \/ WaitDone(x) \/ WaitExpired(x)
    \/ Finish(x) \/ NoteDone(x) \/ BindDone(x)

Dispatch(j) ==
    \/ DispatchOldServer(j) \/ DispatchSaveConn(j)
    \/ CheckNew(j) \/ CheckInProgress(j) \/ CheckDone(j) \/ CheckForgotten(j)
    \/ RunHandler(j) \/ AddReply(j) \/ SendReply(j)

Deliver == (\E m \in requests : GotRequest(m)) \/ (\E m \in replies : GotReply(m))

Next ==
    \/ \E proc \in Procs : StartCall(proc)
    \/ \E x \in Xids : CallStep(x) \/ WaitGivenUp(x)
    \/ Cancel
    \/ Deliver
    \/ \E j \in jobs : Dispatch(j)
    \/ \E c \in Conns, ends \in SUBSET {"client", "server"} : ConnectionLost(c, ends)
    \/ Crash
    \/ Restart

Spec == Init /\ [][Next]_vars

\* The threads that call and that dispatch are scheduled, a connection that is
\* up delivers, a dead server is started again, and when one end of a
\* connection is dead the other learns of it.
Fairness ==
    /\ \A x \in Xids : WF_vars(CallStep(x))
    /\ WF_vars(Deliver)
    /\ WF_vars(\E j \in jobs : Dispatch(j))
    /\ WF_vars(Restart)
    /\ WF_vars(\E c \in sdead \ cdead : ConnectionLost(c, {"client"}))
    /\ WF_vars(\E c \in cdead \ sdead : ConnectionLost(c, {"server"}))

FairSpec == Spec /\ Fairness

-----------------------------------------------------------------------------
(* Safety *)

\* "exactly-once guarantee" (Lab3.html:8), the safety half: whatever is
\* retransmitted, reordered or delayed, no instance of the server runs a call
\* twice, and no two instances run the same call; only a bind, which is meant
\* for whichever instance is there, may run in several.
AtMostOnce ==
    /\ \A x \in Xids, n \in Nonces : ran[x][n] <= 1
    /\ \A x \in Xids, m, n \in Nonces :
          hdr[x].proc # "bind" /\ ran[x][m] > 0 /\ ran[x][n] > 0 => m = n

\* A call that got a reply was run by the instance that the reply says, which
\* for an ordinary call is the instance the rpcc is bound to.
RepliedMeansRan ==
    \A x \in Xids : done[x] = "ok" =>
        /\ val[x] \in Nonces /\ ran[x][val[x]] = 1
        /\ hdr[x].proc # "bind" => val[x] = srv_nonce_

\* xid_rep tells the server which replies it may forget: the client never
\* counts a call as replied to while a thread still waits for its reply.
XidRepSound ==
    \A x \in calls_ : done[x] = "no" => Lowest(xid_rep_window_) < x

\* Hence the server still has the entry of every call that it has run and that
\* a thread still waits for, so a retransmission finds the reply.
ReplyKept ==
    \A x \in calls_ : done[x] = "no" /\ up /\ ran[x][nonce_] > 0 => x \in reply_window_

\* FORGOTTEN is "duplicate of an old RPC whose reply we've forgotten"
\* (rpc/rpc.h): a call whose caller is told atmostonce_failure was run before.
OnlyDuplicatesForgotten ==
    \A x \in Xids : done[x] = "atmostonce" => \E n \in Nonces : ran[x][n] > 0

\* Which xids, copies and replies there can be, and which calls calls_ holds.
CallsInv ==
    /\ \A x \in Xids : at[x] = "none" <=> x >= xid_
    /\ calls_ = {x \in Xids : at[x] \in {"send", "wait", "lastSend", "finish"}}
    /\ \A x \in Xids : done[x] # "no" => x < xid_
    /\ dup_req_ < xid_
    /\ \A m \in requests \cup replies : m.xid < xid_
    /\ \A j \in jobs : j.copy.xid < xid_

\* The first call is the bind, and every other has the nonce that it found.
BindInv ==
    /\ \A x \in Xids : x < xid_ => (hdr[x].proc = "bind" <=> x = 1)
    /\ bind_done_ => xid_ > 1 /\ at[1] = "returned" /\ srv_nonce_ # 0
    /\ \A x \in Xids : x < xid_ /\ x # 1 => bind_done_ /\ hdr[x].srv_nonce = srv_nonce_
    /\ \A x \in Xids : at[x] = "bound" => x = 1 /\ done[x] = "ok"

\* A job past the check of duplicates.
Active(j) == j.pc \in {"run", "record", "reply"}

\* How far dispatch is with a call, told by its job, the window and ran: what has
\* run, or is about to, is not NEW again, ...
JobInv(j) ==
    /\ j.pc # "start" => conns_ # NoConn /\ hdr[j.copy.xid].srv_nonce \in {0, nonce_}
    /\ Active(j) => ~IsNew(reply_window_, j.copy.xid)
    /\ j.pc = "run" => ran[j.copy.xid][nonce_] = 0
    /\ j.pc \in {"record", "reply"} => ran[j.copy.xid][nonce_] = 1

\* ... and has no second job.
JobsInv ==
    /\ ~up => nonce_ < MaxNonce /\ jobs = {} /\ reply_window_ = {} /\ cb_present = {}
    /\ \A j \in jobs : JobInv(j)
    /\ \A i, j \in jobs : Active(i) /\ Active(j) /\ i.copy.xid = j.copy.xid => i = j

\* Which handlers have run, and who knows of it.
RanInv ==
    /\ \A x \in Xids, n \in Nonces :
          /\ ran[x][n] <= 1
          /\ ran[x][n] > 0 => x < xid_ /\ n <= nonce_ /\ (x # 1 => n = srv_nonce_)
    /\ up => \A x \in Xids : ran[x][nonce_] > 0 => ~IsNew(reply_window_, x)
    /\ \A x \in cb_present : ran[x][nonce_] = 1
    /\ \A m \in replies : m.ret = "ok" => ran[m.xid][m.val] = 1
    /\ \A x \in Xids : done[x] = "ok" => val[x] \in Nonces /\ ran[x][val[x]] = 1

\* The xid_rep of a header never runs ahead of the replies received, so the
\* server drops nothing that is waited for.
WindowInv ==
    /\ xid_rep_window_ # {} /\ \A y \in xid_rep_window_ : y < xid_
    /\ \A x \in Xids : x < xid_ => hdr[x].xid_rep < x /\ hdr[x].xid_rep <= Lowest(xid_rep_window_)
    /\ \A x \in calls_ : done[x] = "no" => x \notin xid_rep_window_ /\ Lowest(xid_rep_window_) < x
    /\ up => \A x \in Xids : ran[x][nonce_] > 0 =>
                 x \in reply_window_ \/ x < Lowest(xid_rep_window_)
    /\ \A j \in jobs : Active(j) =>
          j.copy.xid \in reply_window_ \/ j.copy.xid < Lowest(xid_rep_window_)

\* The inductive invariant of the proofs: checkduplicate_and_update (rpc/rpc.cc)
\* answers NEW once per call, because the window of the server, the front of the
\* window of the client and the progress of every job agree.
IInv == TypeOK /\ CallsInv /\ BindInv /\ JobsInv /\ RanInv /\ WindowInv

\* While no call gives up, the front of the client's window passes only calls that
\* were answered, so a refusal finds nobody waiting; ...
AnsweredInv ==
    /\ \A x \in Xids :
          /\ done[x] # "atmostonce" /\ (done[x] = "cancel" => destroy_wait_)
          /\ destroy_wait_ /\ x < xid_ => done[x] # "no"
          /\ at[x] # "lastSend"
          /\ at[x] \in {"finish", "note", "bound", "returned"} => done[x] # "no"
          /\ x < Lowest(xid_rep_window_) \/ x \in xid_rep_window_ => done[x] # "no"
          /\ done[x] = "oldsrv" => srv_nonce_ < nonce_
    /\ \A m \in replies :
          /\ m.ret = "atmostonce" => done[m.xid] # "no"
          /\ m.ret = "oldsrv" => m.xid # 1 /\ srv_nonce_ < nonce_

\* ... and until everything is cancelled the first xid that the server remembers is
\* the bind, or is not beyond that front: what is FORGOTTEN has been answered.
FrontInv ==
    /\ xid_ > 1 => hdr[1].srv_nonce = 0
    /\ xid_ > 1 /\ at[1] \in {"note", "bound", "returned"} => Lowest(xid_rep_window_) >= 1
    /\ IF bind_done_ THEN srv_nonce_ = val[1] /\ done[1] = "ok" ELSE srv_nonce_ = 0
    /\ \A x \in Xids : 1 < x /\ x < xid_ => hdr[x].xid_rep >= 1
    /\ reply_window_ # {} /\ ~destroy_wait_ =>
          Lowest(reply_window_) = 1 \/ Lowest(reply_window_) <= Lowest(xid_rep_window_)

(* Liveness *)

\* A call that does not give up is answered, however often its connection
\* breaks on the way: no reply is lost for good.
CallAnswered == \A x \in Xids : at[x] = "wait" ~> done[x] # "no"

\* It is, at least, when the client never learns of the loss of a connection
\* before the server: then the job that is INPROGRESS replies on the connection
\* of the retransmission, or has recorded its reply for it.
CallAnsweredInOrder == [](cdead \subseteq sdead) => CallAnswered

\* cancel returns: all the calls it waits for leave calls_.
CancelReturns == destroy_wait_ ~> calls_ = {}

-----------------------------------------------------------------------------
(* Refinement: the calls after the bind are those of RpcService *)

CallStatus(x) ==
    CASE at[x] = "none" -> "none"
      [] at[x] = "returned" /\ done[x] = "ok" -> "replied"
      [] at[x] = "returned" /\ done[x] # "ok" -> "failed"
      [] OTHER -> "pending"

\* 2 stands for "more than once".
RunCount(x) ==
    CASE \A n \in Nonces : ran[x][n] = 0 -> 0
      [] \E n \in Nonces : ran[x][n] = 1 /\ \A m \in Nonces \ {n} : ran[x][m] = 0 -> 1
      [] OTHER -> 2

status == [x \in 2..MaxXid |-> CallStatus(x)]
runs == [x \in 2..MaxXid |-> RunCount(x)]

Service == INSTANCE RpcService WITH Calls <- 2..MaxXid

\* A call runs at most once, before it returns a reply.
ImplementsRpcService == Service!Spec

=============================================================================
