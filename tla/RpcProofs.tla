------------------------------ MODULE RpcProofs ------------------------------
(***************************************************************************)
(* The RPC library, for any number of calls, connections and restarts: a   *)
(* call runs at most once and has run when it returns a reply, the server  *)
(* keeps the replies that are needed, Rpc implements RpcService, and calls *)
(* that do not give up are never refused as old.                           *)
(***************************************************************************)
EXTENDS Rpc, WellFoundedInduction, TLAPS

(* The windows *)

\* A set of naturals has a least element.
LEMMA Least ==
    ASSUME NEW S \in SUBSET Nat, S # {}
    PROVE  \E x \in S : \A y \in S : x <= y
<1>1. PICK R : IsWellFoundedOn(R, Nat) /\ \A x, y \in Nat : y < x => <<y, x>> \in R
  <2>1. \A x, y \in Nat : y < x => <<y, x>> \in OpToRel(<, Nat)
    BY Zenon DEF OpToRel
  <2> QED
    BY <2>1, NatLessThanWellFounded, Zenon
<1>2. \E x \in S : \A y \in S : ~ (<<y, x>> \in R)
  BY <1>1, WFMin, Zenon
<1>3. PICK x \in S : \A y \in S : ~ (<<y, x>> \in R)
  BY <1>2, Zenon
<1>4. \A y \in S : ~ (y < x)
  BY <1>1, <1>3, Zenon
<1>5. \A y \in S : x <= y
  BY <1>4
<1> QED
  BY <1>5, Zenon

\* front() is the lowest xid of the list.
LEMMA LowestIsLeast ==
    ASSUME NEW S \in SUBSET Nat, S # {}
    PROVE  Lowest(S) \in S /\ \A y \in S : Lowest(S) <= y
BY Least, Zenon DEF Lowest

\* A bounded set of naturals has a greatest element.
LEMMA Greatest ==
    ASSUME NEW n \in Nat, NEW S \in SUBSET (0..n), S # {}
    PROVE  \E x \in S : \A y \in S : y <= x
<1> DEFINE T == {n - y : y \in S}
<1>1. T \in SUBSET Nat /\ T # {}
  <2>1. \A y \in S : y \in Int /\ n - y \in Nat
    OBVIOUS
  <2>2. PICK s \in S : n - s \in T
    OBVIOUS
  <2> QED
    BY <2>1, <2>2, Zenon
<1>2. PICK d \in T : \A e \in T : d <= e
  BY <1>1, Least, Zenon
<1>3. PICK x \in S : d = n - x
  OBVIOUS
<1>4. \A y \in S : n - x <= n - y
  BY <1>2, <1>3, Zenon
<1> QED
  BY <1>4

\* checkduplicate_and_update remembers the NEW xid, and no xid that was known or
\* forgotten becomes NEW again.
LEMMA RememberKeeps ==
    ASSUME NEW W \in SUBSET Nat, NEW x \in Nat, NEW rep \in Nat, rep < x, IsNew(W, x)
    PROVE  /\ x \in Remember(W, x, rep)
           /\ \A z \in Nat : ~IsNew(W, z) => ~IsNew(Remember(W, x, rep), z)
<1> DEFINE V == Remember(W, x, rep)
<1>1. x \in V /\ V \in SUBSET Nat /\ V \subseteq W \cup {x}
  <2>1. \A y \in V : y \in W \cup {x} /\ y \in Nat
    BY Zenon DEF Remember
  <2>2. x \in V
    BY DEF Remember
  <2> QED
    BY <2>1, <2>2, Zenon
<1>2. Lowest(V) \in V /\ \A y \in V : rep <= y
  BY <1>1, LowestIsLeast, Zenon DEF Remember
<1>3. ASSUME NEW z \in Nat, ~IsNew(W, z), z \notin V
      PROVE  z < Lowest(V)
  <2>1. CASE z \in W
    <3>1. z < rep
      BY <2>1, <1>3 DEF Remember
    <3>2. rep <= Lowest(V) /\ Lowest(V) \in Nat
      BY <1>1, <1>2, Zenon
    <3> QED
      BY <3>1, <3>2
  <2>2. CASE Forgotten(W, z)
    <3>1. W # {} /\ Lowest(W) \in Nat /\ \A y \in W : Lowest(W) <= y
      BY <2>2, LowestIsLeast, Zenon DEF Forgotten
    <3>2. z < Lowest(W) /\ (x \in W \/ Lowest(W) <= x)
      BY <2>2, <3>1 DEF Forgotten, IsNew
    <3> QED
      BY <1>1, <1>2, <3>1, <3>2
  <2> QED
    BY <2>1, <2>2, <1>3, Zenon DEF IsNew
<1> QED
  BY <1>1, <1>3, Zenon DEF IsNew, Forgotten

\* update_xid_rep keeps a front, which never goes back, and passes no xid that it
\* has not been told of.
LEMMA UpdateKeeps ==
    ASSUME NEW n \in Nat, NEW S \in SUBSET (0..n), S # {}, NEW x \in 0..n
    PROVE  LET U == UpdateXidRep(S, x)
           IN  /\ U \subseteq S \cup {x} /\ U # {}
               /\ Lowest(U) \in U /\ Lowest(S) <= Lowest(U)
               /\ \A y \in Nat : y \notin S \cup {x} /\ Lowest(S) < y => Lowest(U) < y
<1> DEFINE T == S \cup {x}
           U == UpdateXidRep(S, x)
           Run == {z \in T : Lowest(T)..z \subseteq T}
<1>0. \A y \in T : y \in Nat
  OBVIOUS
<1>1. Lowest(S) \in S /\ \A y \in S : Lowest(S) <= y
  BY LowestIsLeast
<1>2. CASE x <= Lowest(S)
  BY <1>1, <1>2, Zenon DEF UpdateXidRep
<1>3. CASE ~(x <= Lowest(S))
  <2>1. Lowest(T) \in T /\ \A y \in T : Lowest(T) <= y
    BY LowestIsLeast
  <2>2. Lowest(T) = Lowest(S)
    <3> DEFINE a == Lowest(S)
               b == Lowest(T)
    <3>1. a \in T /\ (b \in S \/ b = x)
      BY <1>1, <2>1, Zenon
    <3>2. b <= a /\ (b \in S => a <= b) /\ ~(x <= a) /\ a \in Nat /\ b \in Nat
      BY <1>0, <1>1, <1>3, <2>1, <3>1, Zenon
    <3> QED
      BY <3>1, <3>2
  <2>3. U = {y \in T : \A z \in T : Lowest(T)..z \subseteq T => z <= y}
    BY <1>3, Zenon DEF UpdateXidRep
  <2>4. Lowest(T) \in Run /\ Run \in SUBSET (0..n)
    <3>1. \A y \in Lowest(T)..Lowest(T) : y = Lowest(T)
      BY <2>1
    <3>2. Lowest(T) \in Run
      BY <2>1, <3>1, Zenon
    <3> QED
      BY <3>2, Zenon
  <2>5. PICK e \in Run : \A z \in Run : z <= e
    <3> HIDE DEF Run
    <3> QED
      BY <2>4, Greatest, Zenon
  <2>6. e \in U
    BY <2>3, <2>5, Zenon
  <2>7. U \subseteq T /\ Lowest(U) \in U /\ \A y \in U : Lowest(U) <= y
    <3>1. U \subseteq T
      BY <2>3, Zenon
    <3>2. U \in SUBSET Nat /\ U # {}
      BY <3>1, <2>6, <1>0, Zenon
    <3> HIDE DEF U
    <3> QED
      BY <3>1, <3>2, LowestIsLeast, Zenon
  <2>8. ASSUME NEW y \in Nat, y \notin T, Lowest(S) < y
        PROVE  Lowest(U) < y
    <3>1. e \in T /\ Lowest(S)..e \subseteq T
      BY <2>2, <2>5, Zenon
    <3>2. y \notin Lowest(S)..e
      BY <3>1, <2>8, Zenon
    <3>3. e \in Nat /\ Lowest(S) \in Nat
      BY <3>1, <1>1, <1>0, Zenon
    <3>4. e < y
      BY <3>2, <3>3, <2>8
    <3>5. Lowest(U) <= e /\ Lowest(U) \in Nat
      BY <2>6, <2>7, <1>0, Zenon
    <3> QED
      BY <3>3, <3>4, <3>5
  <2> QED
    BY <2>1, <2>2, <2>6, <2>7, <2>8, Zenon
<1> QED
  BY <1>2, <1>3, Zenon

-----------------------------------------------------------------------------
(* The steps of Rpc *)

\* The front of the client's window is an xid, or 0.
LEMMA FrontType ==
    ASSUME TypeOK, WindowInv
    PROVE  /\ xid_rep_window_ \in SUBSET Nat /\ xid_rep_window_ # {}
           /\ Lowest(xid_rep_window_) \in xid_rep_window_
           /\ Lowest(xid_rep_window_) \in 0..MaxXid
           /\ \A y \in xid_rep_window_ : Lowest(xid_rep_window_) <= y
<1>1. xid_rep_window_ \in SUBSET Nat /\ xid_rep_window_ # {}
  BY DEF TypeOK, WindowInv
<1>2. xid_rep_window_ \in SUBSET (0..MaxXid)
  BY Zenon DEF TypeOK
<1> QED
  BY <1>1, <1>2, LowestIsLeast, Zenon

\* What update_xid_rep does to the client's window.
LEMMA FrontUpdate ==
    ASSUME TypeOK, WindowInv, NEW x \in Xids
    PROVE  LET U == UpdateXidRep(xid_rep_window_, x)
           IN  /\ U \in SUBSET (0..MaxXid) /\ U \subseteq xid_rep_window_ \cup {x} /\ U # {}
               /\ Lowest(U) \in Nat /\ Lowest(xid_rep_window_) <= Lowest(U)
               /\ \A y \in Xids : y \notin xid_rep_window_ \cup {x} /\ Lowest(xid_rep_window_) < y
                                    => Lowest(U) < y
<1> DEFINE U == UpdateXidRep(xid_rep_window_, x)
<1>1. xid_rep_window_ \in SUBSET (0..MaxXid) /\ xid_rep_window_ # {} /\ MaxXid \in Nat /\ x \in 0..MaxXid
  BY MaxXidAssumption DEF TypeOK, WindowInv, Xids
<1>2. /\ U \subseteq xid_rep_window_ \cup {x} /\ U # {}
      /\ Lowest(U) \in U /\ Lowest(xid_rep_window_) <= Lowest(U)
      /\ \A y \in Nat : y \notin xid_rep_window_ \cup {x} /\ Lowest(xid_rep_window_) < y => Lowest(U) < y
  BY <1>1, UpdateKeeps, Zenon
<1>3. \A y \in 0..MaxXid : y \in Nat
  BY <1>1
<1>4. \A y \in Xids : y \in Nat
  BY <1>1 DEF Xids
<1> HIDE DEF U
<1>5. U \in SUBSET (0..MaxXid) /\ Lowest(U) \in Nat
  BY <1>1, <1>2, <1>3, Zenon
<1> QED
  BY <1>2, <1>4, <1>5, Zenon DEF U

\* A reply goes to a connection.
LEMMA ReplyType ==
    ASSUME TypeOK, NEW x \in Xids, NEW c \in Conns, NEW r \in Rets, Reply(x, c, r)
    PROVE  replies' \in SUBSET [xid : Xids, conn : Conns, ret : Rets, val : Nonces]
<1> DEFINE m == [xid |-> x, conn |-> c, ret |-> r, val |-> nonce_]
<1>1. m \in [xid : Xids, conn : Conns, ret : Rets, val : Nonces]
  BY Zenon DEF TypeOK
<1>2. replies' = replies \/ replies' = replies \cup {m}
  BY Zenon DEF Reply
<1>3. replies \in SUBSET [xid : Xids, conn : Conns, ret : Rets, val : Nonces]
  BY Zenon DEF TypeOK
<1> HIDE DEF m
<1> QED
  BY <1>1, <1>2, <1>3, Zenon

\* A counter of a table is incremented.
LEMMA Bump ==
    ASSUME NEW A, NEW B, NEW f \in [A -> [B -> Nat]], NEW x \in A, NEW n \in B, NEW g,
           g = [f EXCEPT ![x][n] = @ + 1]
    PROVE  /\ g \in [A -> [B -> Nat]]
           /\ \A y \in A, m \in B : g[y][m] = IF y = x /\ m = n THEN f[y][m] + 1 ELSE f[y][m]
<1> DEFINE h == [f[x] EXCEPT ![n] = f[x][n] + 1]
<1>1. f[x] \in [B -> Nat] /\ f[x][n] + 1 \in Nat
  OBVIOUS
<1>2. h \in [B -> Nat] /\ \A m \in B : h[m] = IF m = n THEN f[x][n] + 1 ELSE f[x][m]
  BY <1>1, Zenon
<1>3. g = [f EXCEPT ![x] = h]
  OBVIOUS
<1> HIDE DEF h
<1>4. g \in [A -> [B -> Nat]] /\ \A y \in A : g[y] = IF y = x THEN h ELSE f[y]
  BY <1>2, <1>3, Zenon
<1> QED
  BY <1>2, <1>4, Zenon

\* RunHandler counts one run.
LEMMA RunCounts ==
    ASSUME TypeOK, NEW j \in jobs, RunHandler(j)
    PROVE  /\ ran' \in [Xids -> [Nonces -> Nat]]
           /\ \A x \in Xids, n \in Nonces :
                 ran'[x][n] = IF x = j.copy.xid /\ n = nonce_ THEN ran[x][n] + 1 ELSE ran[x][n]
<1>1. ran \in [Xids -> [Nonces -> Nat]] /\ nonce_ \in Nonces
  BY Zenon DEF TypeOK
<1>2. j.copy.xid \in Xids
  BY Zenon DEF TypeOK, Requests
<1>3. ran' = [ran EXCEPT ![j.copy.xid][nonce_] = @ + 1]
  BY Zenon DEF RunHandler
<1> QED
  BY <1>1, <1>2, <1>3, Bump

\* Jobs are records: a step of dispatch changes the pc.
LEMMA JobMoves ==
    ASSUME TypeOK, NEW j \in jobs, NEW l \in JobPCs
    PROVE  /\ [j EXCEPT !.pc = l].copy = j.copy
           /\ [j EXCEPT !.pc = l].pc = l
           /\ j.copy.xid \in Xids /\ j.copy.conn \in Conns
BY Zenon DEF TypeOK, Requests

\* Xids are naturals.
LEMMA XidType ==
    ASSUME TypeOK
    PROVE  xid_ \in Nat /\ \A x \in Xids : x \in Nat
<1>1. xid_ \in 1..(MaxXid + 1)
  BY Zenon DEF TypeOK
<1> QED
  BY <1>1, MaxXidAssumption DEF Xids

\* A call has its place in calls_ and in the functions of the calls.
LEMMA NextXid ==
    ASSUME TypeOK, xid_ <= MaxXid
    PROVE  xid_ \in Xids /\ xid_ + 1 \in 1..(MaxXid + 1)
BY MaxXidAssumption DEF TypeOK, Xids

\* get_refconn makes one connection at a time.
LEMMA RefConnType ==
    ASSUME TypeOK
    PROVE  RefConn \in Conns \cup {NoConn} /\ (RefConn <= made \/ RefConn \in 1..MaxConn)
<1> USE MaxConnAssumption DEF Conns, NoConn
<1>1. chan_ \in Conns \cup {NoConn} /\ made \in 0..MaxConn
  BY Zenon DEF TypeOK
<1>2. RefConn \in {chan_, NoConn} \/ (RefConn = made + 1 /\ made < MaxConn)
  BY Zenon DEF RefConn
<1> QED
  BY <1>1, <1>2

\* Every variable keeps its type; a reply in particular has a connection.
LEMMA TypeKeeps ==
    ASSUME IInv, [Next]_vars
    PROVE  TypeOK'
<1> USE DEF rpcc, caller, rpcs, window, network
<1>0. TypeOK
  BY Zenon DEF IInv
<1>1. ASSUME NEW proc \in Procs, StartCall(proc)
      PROVE  TypeOK'
  <2>1. xid_ \in Xids /\ xid_' \in 1..(MaxXid + 1)
    BY <1>0, <1>1, NextXid, Zenon DEF StartCall
  <2>2. calls_' \in SUBSET Xids
    BY <1>0, <1>1, <2>1, Zenon DEF StartCall, TypeOK
  <2>3. Lowest(xid_rep_window_) \in 0..MaxXid
    BY <1>0, FrontType, Zenon DEF IInv
  <2>4. hdr' \in [Xids -> [proc : Procs, srv_nonce : Nonces \cup {0}, xid_rep : 0..MaxXid]]
    BY <1>0, <1>1, <2>1, <2>3, Zenon DEF StartCall, TypeOK
  <2>5. at' \in [Xids -> CallPCs]
    BY <1>0, <1>1, <2>1, Zenon DEF StartCall, Goto, TypeOK, CallPCs
  <2> QED
    BY <1>0, <1>1, <2>1, <2>2, <2>4, <2>5, Zenon DEF StartCall, TypeOK
<1>2. ASSUME NEW x \in Xids, Transmit(x)
      PROVE  TypeOK'
  <2>0. /\ chan_' = RefConn /\ made' = IF RefConn > made THEN RefConn ELSE made
        /\ RefConn \in Conns \cup {NoConn}
    BY <1>0, <1>2, RefConnType, Zenon DEF Transmit
  <2>1. chan_' \in Conns \cup {NoConn} /\ made' \in 0..MaxConn
    <3>1. made \in 0..MaxConn
      BY <1>0, Zenon DEF TypeOK
    <3> QED
      BY <2>0, <3>1, MaxConnAssumption DEF Conns, NoConn
  <2>2. ch' \in [Xids -> Conns \cup {NoConn}]
    BY <1>0, <1>2, RefConnType, Zenon DEF Transmit, TypeOK
  <2>3. requests' \in SUBSET Requests
    <3> DEFINE c == IF RefConn = NoConn THEN ch[x] ELSE RefConn
               sent == {[xid |-> x, conn |-> c, again |-> FALSE]}
                         \cup {[xid |-> y, conn |-> c, again |-> TRUE] : y \in Forgot}
    <3>1. CASE c = NoConn
      BY <1>0, <1>2, <3>1, Zenon DEF Transmit, TypeOK, Cut
    <3>2. CASE c # NoConn
      <4>1. c \in Conns
        BY <1>0, <3>2, RefConnType, Zenon DEF TypeOK
      <4>2. \A y \in Xids, again \in BOOLEAN : [xid |-> y, conn |-> c, again |-> again] \in Requests
        BY <4>1, Zenon DEF Requests
      <4>3. sent \subseteq Requests
        BY <4>2, Zenon DEF Forgot
      <4>4. requests' = requests \/ requests' = requests \cup sent
        BY <1>2, Zenon DEF Transmit
      <4> QED
        BY <1>0, <4>3, <4>4, Zenon DEF TypeOK
    <3> QED
      BY <3>1, <3>2, Zenon
  <2>4. dup_req_' \in Xids \cup {NoXid}
    BY <1>0, <1>2, Zenon DEF Transmit, TypeOK
  <2>5. at' \in [Xids -> CallPCs]
    BY <1>0, <1>2, Zenon DEF Transmit, Goto, TypeOK, CallPCs
  <2> QED
    BY <1>0, <1>2, <2>1, <2>2, <2>3, <2>4, <2>5, Zenon DEF Transmit, TypeOK
<1>3. ASSUME NEW x \in Xids, WaitDone(x) \/ WaitExpired(x) \/ WaitGivenUp(x)
      PROVE  TypeOK'
  BY <1>0, <1>3, Zenon DEF WaitDone, WaitExpired, WaitGivenUp, MoveOn, TypeOK, Goto, CallPCs
<1>4. ASSUME NEW x \in Xids, Finish(x)
      PROVE  TypeOK'
  <2>1. UpdateXidRep(xid_rep_window_, x) \in SUBSET (0..MaxXid)
    BY <1>0, FrontUpdate, Zenon DEF TypeOK, IInv
  <2> QED
    BY <1>0, <1>4, <2>1, Zenon DEF Finish, TypeOK, Goto, Leave, CallPCs
<1>5. ASSUME NEW x \in Xids, NoteDone(x) \/ BindDone(x)
      PROVE  TypeOK'
  <2>1. at' \in [Xids -> CallPCs]
    BY <1>0, <1>5, Zenon DEF NoteDone, BindDone, TypeOK, Goto, Leave, CallPCs
  <2>2. CASE NoteDone(x)
    <3>1. dup_req_' \in Xids \cup {NoXid} /\ xid_rep_done_' \in (0..MaxXid) \cup {-1}
      BY <1>0, <2>2, Zenon DEF NoteDone, TypeOK
    <3> QED
      BY <1>0, <2>1, <2>2, <3>1, Zenon DEF NoteDone, TypeOK
  <2>3. CASE BindDone(x)
    BY <1>0, <2>1, <2>3, Zenon DEF BindDone, TypeOK
  <2> QED
    BY <1>5, <2>2, <2>3, Zenon
<1>6. CASE Cancel
  BY <1>0, <1>6, Zenon DEF Cancel, TypeOK
<1>7. ASSUME NEW m \in requests, GotRequest(m)
      PROVE  TypeOK'
  BY <1>0, <1>7 DEF GotRequest, TypeOK, JobPCs
<1>8. ASSUME NEW m \in replies, GotReply(m)
      PROVE  TypeOK'
  <2>1. UpdateXidRep(xid_rep_window_, m.xid) \in SUBSET (0..MaxXid)
    BY <1>0, FrontUpdate, Zenon DEF TypeOK, IInv
  <2> QED
    BY <1>0, <1>8, <2>1, Zenon DEF GotReply, TypeOK
<1>9. ASSUME NEW j \in jobs, Dispatch(j)
      PROVE  TypeOK'
  <2>1. j.copy \in Requests /\ j.copy.xid \in Xids /\ j.copy.conn \in Conns
    BY <1>0, Zenon DEF TypeOK, Requests
  <2>2. CASE DispatchOldServer(j) \/ CheckDone(j) \/ CheckForgotten(j)
    <3>1. replies' \in SUBSET [xid : Xids, conn : Conns, ret : Rets, val : Nonces]
      BY <1>0, <2>1, <2>2, ReplyType, Zenon DEF DispatchOldServer, CheckDone, CheckForgotten, Rets
    <3> QED
      BY <1>0, <2>2, <3>1, Zenon DEF DispatchOldServer, CheckDone, CheckForgotten, EndJob, TypeOK
  <2>3. CASE DispatchSaveConn(j)
    BY <1>0, <2>1, <2>3, Zenon DEF DispatchSaveConn, JobGoto, TypeOK, JobPCs
  <2>4. CASE CheckNew(j)
    BY <1>0, <2>1, <2>4, Zenon DEF CheckNew, Remember, JobGoto, TypeOK, JobPCs
  <2>5. CASE CheckInProgress(j)
    BY <1>0, <2>5, Zenon DEF CheckInProgress, EndJob, TypeOK
  <2>6. CASE RunHandler(j)
    <3>1. ran' \in [Xids -> [Nonces -> Nat]]
      BY <1>0, <2>6, RunCounts, Zenon
    <3>2. jobs' \in SUBSET [copy : Requests, pc : JobPCs]
      BY <1>0, <2>1, <2>6, Zenon DEF RunHandler, JobGoto, TypeOK, JobPCs
    <3> QED
      BY <1>0, <2>6, <3>1, <3>2, Zenon DEF RunHandler, TypeOK
  <2>7. CASE AddReply(j)
    BY <1>0, <2>1, <2>7, Zenon DEF AddReply, JobGoto, TypeOK, JobPCs
  <2>8. CASE SendReply(j)
    <3>1. conns_ \in Conns
      BY <1>0, <2>8, Zenon DEF SendReply, TypeOK, IInv, JobsInv, JobInv
    <3>2. replies' \in SUBSET [xid : Xids, conn : Conns, ret : Rets, val : Nonces]
      BY <1>0, <2>1, <2>8, <3>1, ReplyType, Zenon DEF SendReply, Rets
    <3> QED
      BY <1>0, <2>8, <3>2, Zenon DEF SendReply, EndJob, TypeOK
  <2> QED
    BY <1>9, <2>2, <2>3, <2>4, <2>5, <2>6, <2>7, <2>8, Zenon DEF Dispatch
<1>10. ASSUME NEW c \in Conns, NEW ends \in SUBSET {"client", "server"}, ConnectionLost(c, ends)
       PROVE  TypeOK'
  BY <1>0, <1>10, Zenon DEF ConnectionLost, TypeOK
<1>11. CASE Crash
  <2>1. cdead' \in SUBSET Conns /\ sdead' \in SUBSET Conns
    BY <1>0, <1>11, MaxConnAssumption DEF Crash, TypeOK, Conns
  <2>2. requests' \in SUBSET Requests /\ replies' \in SUBSET replies /\ jobs' = {}
    BY <1>11, Zenon DEF Crash
  <2> QED
    BY <1>0, <1>11, <2>1, <2>2, Zenon DEF Crash, TypeOK
<1>12. CASE Restart
  <2>1. nonce_' \in Nonces
    BY <1>0, <1>12, MaxNonceAssumption DEF Restart, TypeOK, IInv, JobsInv, Nonces
  <2> QED
    BY <1>0, <1>12, <2>1, Zenon DEF Restart, TypeOK
<1>13. CASE UNCHANGED vars
  BY <1>0, <1>13, Zenon DEF vars, TypeOK
<1> QED
  BY <1>1, <1>2, <1>3, <1>4, <1>5, <1>6, <1>7, <1>8, <1>9, <1>10, <1>11, <1>12, <1>13, Zenon
  DEF Next, CallStep, Deliver

\* calls_ holds the calls that are under way, and nothing refers to a call that has
\* not begun.
LEMMA CallsKeep ==
    ASSUME IInv, [Next]_vars
    PROVE  CallsInv'
<1> USE DEF rpcc, caller, rpcs, window, network
<1>0. TypeOK /\ CallsInv /\ xid_ \in Nat /\ \A x \in Xids : x \in Nat
  BY XidType, Zenon DEF IInv
<1>1. ASSUME NEW proc \in Procs, StartCall(proc)
      PROVE  CallsInv'
  <2>1. xid_ \in Xids
    BY <1>0, <1>1, NextXid, Zenon DEF StartCall
  <2>2. \A x \in Xids : at'[x] = IF x = xid_ THEN "send" ELSE at[x]
    BY <1>0, <1>1, Zenon DEF StartCall, Goto, TypeOK
  <2>3. \A x \in Xids : at'[x] = "none" <=> x >= xid_'
    <3>1. xid_' = xid_ + 1
      BY <1>1, Zenon DEF StartCall
    <3>2. \A x \in Xids : at[x] = "none" <=> x >= xid_
      BY <1>0, Zenon DEF CallsInv
    <3> QED
      BY <1>0, <2>2, <3>1, <3>2
  <2>4. calls_' = {x \in Xids : at'[x] \in {"send", "wait", "lastSend", "finish"}}
    BY <1>0, <1>1, <2>1, <2>2, Zenon DEF StartCall, CallsInv
  <2>5. \A y \in Int : y < xid_ => y < xid_'
    BY <1>0, <1>1 DEF StartCall
  <2>6. /\ \A m \in requests \cup replies : m.xid \in Int
        /\ \A j \in jobs : j.copy.xid \in Int
        /\ dup_req_ \in Int
    BY <1>0 DEF TypeOK, Requests, NoXid
  <2> QED
    BY <1>0, <1>1, <2>3, <2>4, <2>5, <2>6 DEF StartCall, CallsInv
<1>2. ASSUME NEW x \in Xids, Transmit(x)
      PROVE  CallsInv'
  <2>1. \A y \in Xids : at'[y] = IF y = x THEN (IF at[x] = "send" THEN "wait" ELSE "finish") ELSE at[y]
    BY <1>0, <1>2, Zenon DEF Transmit, Goto, TypeOK
  <2>2. at[x] \in {"send", "lastSend"} /\ x < xid_
    BY <1>0, <1>2 DEF Transmit, CallsInv
  <2>3. \A m \in requests' : m \in requests \/ m.xid = x \/ m.xid = dup_req_
    BY <1>2 DEF Transmit, Forgot
  <2>4. dup_req_' \in {dup_req_, NoXid}
    BY <1>2, Zenon DEF Transmit
  <2> QED
    BY <1>0, <1>2, <2>1, <2>2, <2>3, <2>4 DEF Transmit, CallsInv, NoXid
<1>3. ASSUME NEW x \in Xids, WaitDone(x) \/ WaitExpired(x) \/ WaitGivenUp(x)
      PROVE  CallsInv'
  <2>1. at[x] = "wait" /\ UNCHANGED <<xid_, calls_, done, dup_req_, requests, replies, jobs>>
    BY <1>3, Zenon DEF WaitDone, WaitExpired, WaitGivenUp, MoveOn
  <2>2. \A y \in Xids : IF y = x THEN at'[y] \in {"send", "lastSend", "finish"} ELSE at'[y] = at[y]
    BY <1>0, <1>3, Zenon DEF WaitDone, WaitExpired, WaitGivenUp, MoveOn, Goto, TypeOK
  <2> QED
    BY <1>0, <2>1, <2>2, Zenon DEF CallsInv
<1>4. ASSUME NEW x \in Xids, Finish(x)
      PROVE  CallsInv'
  <2>1. \A y \in Xids : IF y = x THEN at'[y] \in {"note", "bound", "returned"} ELSE at'[y] = at[y]
    BY <1>0, <1>4, Zenon DEF Finish, Goto, Leave, TypeOK
  <2> QED
    BY <1>0, <1>4, <2>1, Zenon DEF Finish, CallsInv
<1>5. ASSUME NEW x \in Xids, NoteDone(x) \/ BindDone(x)
      PROVE  CallsInv'
  <2>1. \A y \in Xids : IF y = x THEN at'[y] \in {"bound", "returned"} ELSE at'[y] = at[y]
    BY <1>0, <1>5, Zenon DEF NoteDone, BindDone, Goto, Leave, TypeOK
  <2>2. at[x] \in {"note", "bound"} /\ x < xid_ /\ dup_req_' \in {dup_req_, x}
    BY <1>0, <1>5 DEF NoteDone, BindDone, CallsInv
  <2>3. UNCHANGED <<xid_, calls_, done, requests, replies, jobs>>
    BY <1>5, Zenon DEF NoteDone, BindDone
  <2> QED
    BY <1>0, <2>1, <2>2, <2>3, Zenon DEF CallsInv
<1>6. CASE Cancel
  <2>1. \A x \in calls_ : x < xid_
    BY <1>0 DEF CallsInv
  <2> QED
    BY <1>0, <1>6, <2>1, Zenon DEF Cancel, CallsInv
<1>7. ASSUME NEW m \in requests, GotRequest(m)
      PROVE  CallsInv'
  BY <1>0, <1>7 DEF GotRequest, CallsInv
<1>8. ASSUME NEW m \in replies, GotReply(m)
      PROVE  CallsInv'
  <2>1. \A x \in Xids : done'[x] = done[x] \/ x = m.xid
    BY <1>0, <1>8, Zenon DEF GotReply, TypeOK
  <2> QED
    BY <1>0, <1>8, <2>1, Zenon DEF GotReply, CallsInv
<1>9. ASSUME NEW j \in jobs, Dispatch(j)
      PROVE  CallsInv'
  <2>1. UNCHANGED <<xid_, calls_, at, done, dup_req_, requests>>
    BY <1>9, Zenon DEF Dispatch, DispatchOldServer, DispatchSaveConn, CheckNew, CheckInProgress,
                CheckDone, CheckForgotten, RunHandler, AddReply, SendReply
  <2>2. \A i \in jobs' : i \in jobs \/ i.copy = j.copy
    <3>1. \A l \in JobPCs : [j EXCEPT !.pc = l].copy = j.copy
      BY <1>0, JobMoves, Zenon
    <3> QED
      BY <1>9, <3>1, Zenon
      DEF Dispatch, DispatchOldServer, DispatchSaveConn, CheckNew, CheckInProgress, CheckDone,
          CheckForgotten, RunHandler, AddReply, SendReply, EndJob, JobGoto, JobPCs
  <2>3. \A m \in replies' : m \in replies \/ m.xid = j.copy.xid
    BY <1>9 DEF Dispatch, DispatchOldServer, DispatchSaveConn, CheckNew, CheckInProgress,
                CheckDone, CheckForgotten, RunHandler, AddReply, SendReply, Reply
  <2> QED
    BY <1>0, <2>1, <2>2, <2>3, Zenon DEF CallsInv
<1>10. ASSUME NEW c \in Conns, NEW ends \in SUBSET {"client", "server"}, ConnectionLost(c, ends)
       PROVE  CallsInv'
  BY <1>0, <1>10, Zenon DEF ConnectionLost, CallsInv
<1>11. CASE Crash
  BY <1>0, <1>11, Zenon DEF Crash, CallsInv
<1>12. CASE Restart
  BY <1>0, <1>12, Zenon DEF Restart, CallsInv
<1>13. CASE UNCHANGED vars
  BY <1>0, <1>13, Zenon DEF vars, CallsInv
<1> QED
  BY <1>1, <1>2, <1>3, <1>4, <1>5, <1>6, <1>7, <1>8, <1>9, <1>10, <1>11, <1>12, <1>13, Zenon
  DEF Next, CallStep, Deliver

-----------------------------------------------------------------------------
(* The bind, the jobs, the runs and the reply window *)

\* The bind comes first and sets srv_nonce_ once, before any other call begins.
LEMMA BindKeeps ==
    ASSUME IInv, [Next]_vars
    PROVE  BindInv'
<1> USE DEF rpcc, caller, rpcs, window, network
<1>0. TypeOK /\ CallsInv /\ BindInv /\ xid_ \in Nat /\ \A x \in Xids : x \in Nat
  BY XidType, Zenon DEF IInv
<1>a. bind_done_ => 1 \in Xids
  BY <1>0, MaxXidAssumption DEF BindInv, TypeOK, Xids
<1>1. ASSUME NEW proc \in Procs, StartCall(proc)
      PROVE  BindInv'
  <2>1. xid_ \in Xids /\ xid_' = xid_ + 1 /\ UNCHANGED <<bind_done_, srv_nonce_, done>>
    BY <1>0, <1>1, NextXid, Zenon DEF StartCall
  <2>2. \A x \in Xids : at'[x] = IF x = xid_ THEN "send" ELSE at[x]
    BY <1>0, <1>1, Zenon DEF StartCall, Goto, TypeOK
  <2>3. \A x \in Xids : IF x = xid_ THEN hdr'[x].proc = proc /\ hdr'[x].srv_nonce = srv_nonce_
                        ELSE hdr'[x] = hdr[x]
    BY <1>0, <1>1, <2>1, Zenon DEF StartCall, TypeOK
  <2>4. IF proc = "bind" THEN xid_ = 1 ELSE bind_done_ /\ xid_ > 1
    BY <1>0, <1>1, Zenon DEF StartCall, BindInv
  <2>5. \A x \in Xids : x < xid_' => x < xid_ \/ x = xid_
    BY <1>0, <2>1
  <2>6. \A x \in Xids : x < xid_' => (hdr'[x].proc = "bind" <=> x = 1)
    BY <1>0, <2>3, <2>4, <2>5 DEF BindInv, Procs
  <2>7. bind_done_ => xid_' > 1 /\ at'[1] = "returned" /\ srv_nonce_ # 0
    BY <1>0, <1>a, <2>1, <2>2 DEF BindInv
  <2>8. \A x \in Xids : x < xid_' /\ x # 1 => bind_done_ /\ hdr'[x].srv_nonce = srv_nonce_
    BY <1>0, <2>3, <2>4, <2>5, Zenon DEF BindInv
  <2>9. \A x \in Xids : at'[x] = "bound" => x = 1 /\ done[x] = "ok"
    BY <1>0, <2>2, Zenon DEF BindInv
  <2> QED
    BY <2>1, <2>6, <2>7, <2>8, <2>9, Zenon DEF BindInv
<1>2. ASSUME NEW x \in Xids, Transmit(x) \/ WaitDone(x) \/ WaitExpired(x) \/ WaitGivenUp(x)
      PROVE  BindInv'
  <2>1. \A y \in Xids : IF y = x THEN at[y] \in {"send", "lastSend", "wait"}
                                     /\ at'[y] \in {"send", "lastSend", "wait", "finish"}
                        ELSE at'[y] = at[y]
    BY <1>0, <1>2, Zenon DEF Transmit, WaitDone, WaitExpired, WaitGivenUp, MoveOn, Goto, TypeOK
  <2>2. UNCHANGED <<xid_, hdr, bind_done_, srv_nonce_, done>>
    BY <1>2, Zenon DEF Transmit, WaitDone, WaitExpired, WaitGivenUp, MoveOn
  <2> QED
    BY <1>0, <1>a, <2>1, <2>2, Zenon DEF BindInv
<1>3. ASSUME NEW x \in Xids, Finish(x) \/ NoteDone(x)
      PROVE  BindInv'
  <2>1. \A y \in Xids : IF y = x THEN at[y] \in {"finish", "note"} /\ at'[y] \in {"note", Leave(x)}
                        ELSE at'[y] = at[y]
    BY <1>0, <1>3, Zenon DEF Finish, NoteDone, Goto, TypeOK
  <2>2. UNCHANGED <<xid_, hdr, bind_done_, srv_nonce_, done>>
    BY <1>3, Zenon DEF Finish, NoteDone
  <2>3. x < xid_
    BY <1>0, <2>1 DEF CallsInv
  <2>4. Leave(x) = "returned" \/ (Leave(x) = "bound" /\ x = 1 /\ done[x] = "ok")
    BY <1>0, <2>3, Zenon DEF BindInv, Leave
  <2> QED
    BY <1>0, <1>a, <2>1, <2>2, <2>4, Zenon DEF BindInv
<1>4. ASSUME NEW x \in Xids, BindDone(x)
      PROVE  BindInv'
  <2>1. at[x] = "bound" /\ x = 1 /\ done[x] = "ok" /\ x < xid_
    BY <1>0, <1>4, Zenon DEF BindDone, BindInv, CallsInv
  <2>2. ~bind_done_
    BY <1>0, <2>1, Zenon DEF BindInv
  <2>3. \A y \in Xids : y < xid_ => y = 1
    BY <1>0, <2>2, Zenon DEF BindInv
  <2>4. srv_nonce_' # 0
    BY <1>4, <2>1, MaxNonceAssumption DEF BindDone, IInv, RanInv, Nonces
  <2>5. \A y \in Xids : at'[y] = IF y = x THEN "returned" ELSE at[y]
    BY <1>0, <1>4, Zenon DEF BindDone, Goto, TypeOK
  <2>6. UNCHANGED <<xid_, hdr, done>>
    BY <1>4, Zenon DEF BindDone
  <2> QED
    BY <1>0, <2>1, <2>3, <2>4, <2>5, <2>6, Zenon DEF BindInv
<1>5. CASE Cancel
  <2>1. \A x \in Xids : at[x] = "bound" => done'[x] = done[x]
    BY <1>0, <1>5, Zenon DEF Cancel, CallsInv
  <2> QED
    BY <1>0, <1>5, <2>1, Zenon DEF Cancel, BindInv
<1>6. ASSUME NEW m \in replies, GotReply(m)
      PROVE  BindInv'
  <2>1. \A x \in Xids : at[x] = "bound" => done'[x] = done[x]
    BY <1>0, <1>6, Zenon DEF GotReply, CallsInv, TypeOK
  <2> QED
    BY <1>0, <1>6, <2>1, Zenon DEF GotReply, BindInv
<1>7. ASSUME UNCHANGED <<xid_, hdr, bind_done_, srv_nonce_, at, done>>
      PROVE  BindInv'
  BY <1>0, <1>7, Zenon DEF BindInv
<1>8. ASSUME NEW j \in jobs, Dispatch(j)
      PROVE  UNCHANGED <<xid_, hdr, bind_done_, srv_nonce_, at, done>>
  BY <1>8, Zenon DEF Dispatch, DispatchOldServer, DispatchSaveConn, CheckNew, CheckInProgress,
              CheckDone, CheckForgotten, RunHandler, AddReply, SendReply
<1>9. ASSUME \/ \E m \in requests : GotRequest(m)
             \/ \E c \in Conns, ends \in SUBSET {"client", "server"} : ConnectionLost(c, ends)
             \/ Crash \/ Restart \/ UNCHANGED vars
      PROVE  UNCHANGED <<xid_, hdr, bind_done_, srv_nonce_, at, done>>
  BY <1>9, Zenon DEF GotRequest, ConnectionLost, Crash, Restart, vars
<1> QED
  BY <1>1, <1>2, <1>3, <1>4, <1>5, <1>6, <1>7, <1>8, <1>9, Zenon DEF Next, CallStep, Deliver

\* checkduplicate_and_update lets one copy of a request through, once.
LEMMA JobsKeep ==
    ASSUME IInv, [Next]_vars
    PROVE  JobsInv'
<1> USE DEF rpcc, caller, rpcs, window, network, JobInv
<1>0. TypeOK /\ CallsInv /\ JobsInv /\ xid_ \in Nat /\ \A x \in Xids : x \in Nat
  BY XidType, Zenon DEF IInv
<1>a. \A j \in jobs : j.copy.xid \in Xids /\ j.copy.xid < xid_
  BY <1>0, Zenon DEF TypeOK, Requests, CallsInv
<1>1. ASSUME NEW proc \in Procs, StartCall(proc)
      PROVE  JobsInv'
  <2>1. \A j \in jobs : hdr'[j.copy.xid] = hdr[j.copy.xid]
    BY <1>0, <1>a, <1>1 DEF StartCall, TypeOK
  <2> QED
    BY <1>0, <1>1, <2>1, Zenon DEF StartCall, JobsInv, Active
<1>2. ASSUME NEW m \in requests, GotRequest(m)
      PROVE  JobsInv'
  BY <1>0, <1>2 DEF GotRequest, JobsInv, Active
<1>3. ASSUME NEW j \in jobs, Dispatch(j)
      PROVE  JobsInv'
  <2>0. up /\ j.copy.xid \in Xids /\ j.copy.xid < xid_ /\ JobInv(j)
    BY <1>0, <1>a, Zenon DEF TypeOK, JobsInv
  <2>1. CASE DispatchOldServer(j) \/ CheckInProgress(j) \/ CheckDone(j) \/ CheckForgotten(j) \/ SendReply(j)
    BY <1>0, <2>1, Zenon DEF DispatchOldServer, CheckInProgress, CheckDone, CheckForgotten, SendReply,
                      EndJob, JobsInv, Active
  <2>2. CASE DispatchSaveConn(j)
    <3> DEFINE k == [j EXCEPT !.pc = "check"]
    <3>1. k.copy = j.copy /\ k.pc = "check"
      BY <1>0, JobMoves, Zenon DEF JobPCs
    <3>2. conns_' # NoConn
      BY <1>0, <2>2, JobMoves, MaxConnAssumption DEF DispatchSaveConn, TypeOK, Conns, NoConn, Requests
    <3>3. JobInv(k)'
      BY <2>2, <3>1, <3>2, Zenon DEF DispatchSaveConn, Active
    <3>4. jobs' = (jobs \ {j}) \cup {k}
      BY <2>2, Zenon DEF DispatchSaveConn, JobGoto
    <3> HIDE DEF k
    <3> QED
      BY <1>0, <2>0, <2>2, <3>1, <3>2, <3>3, <3>4, Zenon DEF DispatchSaveConn, JobsInv, Active
  <2>3. CASE CheckNew(j)
    <3> DEFINE k == [j EXCEPT !.pc = "run"]
               x == j.copy.xid
    <3>1. k.copy = j.copy /\ k.pc = "run"
      BY <1>0, JobMoves, Zenon DEF JobPCs
    <3>2. jobs' = (jobs \ {j}) \cup {k}
      BY <2>3, Zenon DEF CheckNew, JobGoto
    <3>3. hdr[x].xid_rep \in Nat /\ hdr[x].xid_rep < x /\ reply_window_ \in SUBSET Nat
      BY <1>0, <2>0 DEF IInv, WindowInv, TypeOK
    <3>4. x \in reply_window_' /\ \A z \in Nat : ~IsNew(reply_window_, z) => ~IsNew(reply_window_', z)
      BY <1>0, <2>0, <2>3, <3>3, RememberKeeps, Zenon DEF CheckNew
    <3>5. ran[x][nonce_] = 0
      BY <1>0, <2>0, <2>3 DEF CheckNew, IInv, RanInv, TypeOK
    <3>6. JobInv(k)'
      BY <2>0, <2>3, <3>1, <3>4, <3>5, Zenon DEF CheckNew, Active, IsNew
    <3>7. \A i \in jobs : Active(i) => i.copy.xid # x
      BY <1>0, <2>3, Zenon DEF CheckNew, JobsInv
    <3> HIDE DEF k
    <3> QED
      BY <1>0, <1>a, <2>0, <2>3, <3>1, <3>2, <3>4, <3>6, <3>7 DEF CheckNew, JobsInv, Active
  <2>4. CASE RunHandler(j)
    <3> DEFINE k == [j EXCEPT !.pc = "record"]
    <3>1. k.copy = j.copy /\ k.pc = "record"
      BY <1>0, JobMoves, Zenon DEF JobPCs
    <3>2. jobs' = (jobs \ {j}) \cup {k}
      BY <2>4, Zenon DEF RunHandler, JobGoto
    <3>3. nonce_ \in Nonces /\ \A x \in Xids :
              ran'[x][nonce_] = IF x = j.copy.xid THEN ran[x][nonce_] + 1 ELSE ran[x][nonce_]
      BY <1>0, <2>4, RunCounts DEF TypeOK
    <3>4. JobInv(k)'
      BY <2>0, <2>4, <3>1, <3>3 DEF RunHandler, Active
    <3>5. \A i \in jobs \ {j} : Active(i) => i.copy.xid # j.copy.xid
      BY <1>0, <2>4, Zenon DEF RunHandler, JobsInv, Active
    <3> HIDE DEF k
    <3> QED
      BY <1>0, <1>a, <2>0, <2>4, <3>1, <3>2, <3>3, <3>4, <3>5 DEF RunHandler, JobsInv, Active
  <2>5. CASE AddReply(j)
    <3> DEFINE k == [j EXCEPT !.pc = "reply"]
    <3>1. k.copy = j.copy /\ k.pc = "reply"
      BY <1>0, JobMoves, Zenon DEF JobPCs
    <3>2. jobs' = (jobs \ {j}) \cup {k}
      BY <2>5, Zenon DEF AddReply, JobGoto
    <3>3. JobInv(k)'
      BY <2>0, <2>5, <3>1, Zenon DEF AddReply, Active
    <3> HIDE DEF k
    <3> QED
      BY <1>0, <2>0, <2>5, <3>1, <3>2, <3>3 DEF AddReply, JobsInv, Active
  <2> QED
    BY <1>3, <2>1, <2>2, <2>3, <2>4, <2>5, Zenon DEF Dispatch
<1>4. CASE Crash
  BY <1>4, Zenon DEF Crash, JobsInv
<1>5. CASE Restart
  BY <1>0, <1>5, Zenon DEF Restart, JobsInv
<1>6. ASSUME UNCHANGED <<hdr, rpcs>>
      PROVE  JobsInv'
  BY <1>0, <1>6, Zenon DEF JobsInv, Active
<1>7. ASSUME NEW x \in Xids, CallStep(x) \/ WaitGivenUp(x)
      PROVE  UNCHANGED <<hdr, rpcs>>
  BY <1>7, Zenon DEF CallStep, Transmit, WaitDone, WaitExpired, WaitGivenUp, MoveOn, Finish, NoteDone, BindDone
<1>8. ASSUME \/ Cancel
             \/ \E m \in replies : GotReply(m)
             \/ \E c \in Conns, ends \in SUBSET {"client", "server"} : ConnectionLost(c, ends)
             \/ UNCHANGED vars
      PROVE  UNCHANGED <<hdr, rpcs>>
  BY <1>8, Zenon DEF Cancel, GotReply, ConnectionLost, vars
<1> QED
  BY <1>1, <1>2, <1>3, <1>4, <1>5, <1>6, <1>7, <1>8, Zenon DEF Next, Deliver

\* A handler runs once, before anybody is told so.
LEMMA RanKeeps ==
    ASSUME IInv, [Next]_vars
    PROVE  RanInv'
<1> USE DEF rpcc, caller, rpcs, window, network
<1>0. TypeOK /\ CallsInv /\ BindInv /\ JobsInv /\ RanInv /\ xid_ \in Nat /\ \A x \in Xids : x \in Nat
  BY XidType, Zenon DEF IInv
<1>a. \A x \in Xids, n \in Nonces : ran[x][n] \in Nat /\ n \in Nat
  BY <1>0, MaxNonceAssumption DEF TypeOK, Nonces
<1>b. nonce_ \in Nonces
  BY <1>0, Zenon DEF TypeOK
<1>1. ASSUME NEW proc \in Procs, StartCall(proc)
      PROVE  RanInv'
  <2>1. \A x \in Xids : x < xid_ => x < xid_'
    BY <1>0, <1>1 DEF StartCall
  <2> QED
    BY <1>0, <1>1, <2>1, Zenon DEF StartCall, RanInv
<1>2. ASSUME NEW x \in Xids, BindDone(x)
      PROVE  RanInv'
  <2>1. x = 1 /\ ~bind_done_
    BY <1>0, <1>2, Zenon DEF BindDone, BindInv
  <2>2. \A y \in Xids, n \in Nonces : ran[y][n] > 0 => y = 1
    BY <1>0, <2>1, Zenon DEF BindInv, RanInv
  <2> QED
    BY <1>0, <1>2, <2>2, Zenon DEF BindDone, RanInv
<1>3. CASE Cancel
  BY <1>0, <1>3, Zenon DEF Cancel, RanInv
<1>4. ASSUME NEW m \in replies, GotReply(m)
      PROVE  RanInv'
  <2>1. m.val \in Nonces /\ m.xid \in Xids /\ (m.ret = "ok" => ran[m.xid][m.val] = 1)
    BY <1>0, Zenon DEF TypeOK, RanInv
  <2>2. \A x \in Xids : \/ done'[x] = done[x] /\ val'[x] = val[x]
                        \/ x = m.xid /\ done'[x] = m.ret /\ val'[x] = m.val
    BY <1>0, <1>4, Zenon DEF GotReply, TypeOK
  <2>3. \A x \in Xids : done'[x] = "ok" => val'[x] \in Nonces /\ ran[x][val'[x]] = 1
    BY <1>0, <2>1, <2>2, Zenon DEF RanInv
  <2> QED
    BY <1>0, <1>4, <2>3, Zenon DEF GotReply, RanInv
<1>5. ASSUME NEW j \in jobs, Dispatch(j)
      PROVE  RanInv'
  <2>0. up /\ j.copy.xid \in Xids /\ j.copy.xid < xid_ /\ JobInv(j)
    BY <1>0, Zenon DEF TypeOK, Requests, JobsInv, CallsInv
  <2>1. CASE DispatchOldServer(j) \/ CheckForgotten(j)
    <3>1. \A m \in replies' : m \in replies \/ m.ret # "ok"
      BY <2>1 DEF DispatchOldServer, CheckForgotten, Reply
    <3> QED
      BY <1>0, <2>1, <3>1 DEF DispatchOldServer, CheckForgotten, RanInv
  <2>2. CASE CheckDone(j) \/ SendReply(j)
    <3>1. ran[j.copy.xid][nonce_] = 1
      BY <1>0, <2>0, <2>2, Zenon DEF CheckDone, SendReply, RanInv, JobInv
    <3>2. \A m \in replies' : m \in replies \/ (m.xid = j.copy.xid /\ m.val = nonce_)
      BY <2>2 DEF CheckDone, SendReply, Reply
    <3> QED
      BY <1>0, <2>2, <3>1, <3>2 DEF CheckDone, SendReply, RanInv
  <2>3. CASE DispatchSaveConn(j) \/ CheckInProgress(j)
    BY <1>0, <2>3 DEF DispatchSaveConn, CheckInProgress, RanInv
  <2>4. CASE CheckNew(j)
    <3>1. hdr[j.copy.xid].xid_rep \in Nat /\ hdr[j.copy.xid].xid_rep < j.copy.xid
          /\ reply_window_ \in SUBSET Nat
      BY <1>0, <2>0 DEF IInv, WindowInv, TypeOK
    <3>2. \A z \in Nat : ~IsNew(reply_window_, z) => ~IsNew(reply_window_', z)
      BY <1>0, <2>0, <2>4, <3>1, RememberKeeps, Zenon DEF CheckNew
    <3> QED
      BY <1>0, <2>4, <3>2, Zenon DEF CheckNew, RanInv
  <2>5. CASE RunHandler(j)
    <3> DEFINE x == j.copy.xid
    <3>1. \A y \in Xids, n \in Nonces :
              ran'[y][n] = IF y = x /\ n = nonce_ THEN ran[y][n] + 1 ELSE ran[y][n]
      BY <1>0, <2>5, RunCounts, Zenon
    <3>2. ran[x][nonce_] = 0 /\ ~IsNew(reply_window_, x)
      BY <2>0, <2>5, Zenon DEF RunHandler, JobInv, Active
    <3>3. x # 1 => nonce_ = srv_nonce_
      BY <1>0, <2>0, <2>5, Zenon DEF RunHandler, JobInv, BindInv
    <3>4. UNCHANGED <<xid_, nonce_, srv_nonce_, up, reply_window_, cb_present, replies, done, val>>
      BY <2>5, Zenon DEF RunHandler
    <3>5. \A y \in Xids, n \in Nonces :
              /\ ran'[y][n] <= 1
              /\ ran'[y][n] > 0 => y < xid_ /\ n <= nonce_ /\ (y # 1 => n = srv_nonce_)
      BY <1>0, <1>a, <2>0, <3>1, <3>2, <3>3 DEF RanInv
    <3>6. \A y \in Xids, n \in Nonces : ran[y][n] = 1 => ran'[y][n] = 1
      BY <1>a, <3>1, <3>2
    <3>7. \A y \in Xids : ran'[y][nonce_] > 0 => ~IsNew(reply_window_, y)
      BY <1>0, <1>b, <2>0, <3>1, <3>2, Zenon DEF RanInv
    <3>8. cb_present \subseteq Xids /\ \A m \in replies : m.xid \in Xids /\ m.val \in Nonces
      BY <1>0, Zenon DEF TypeOK
    <3> HIDE DEF x
    <3> QED
      BY <1>0, <1>b, <3>4, <3>5, <3>6, <3>7, <3>8, Zenon DEF RanInv
  <2>6. CASE AddReply(j)
    <3>1. ran[j.copy.xid][nonce_] = 1
      BY <2>0, <2>6, Zenon DEF AddReply, JobInv
    <3> QED
      BY <1>0, <2>6, <3>1, Zenon DEF AddReply, RanInv
  <2> QED
    BY <1>5, <2>1, <2>2, <2>3, <2>4, <2>5, <2>6, Zenon DEF Dispatch
<1>6. ASSUME NEW c \in Conns, NEW ends \in SUBSET {"client", "server"}, ConnectionLost(c, ends)
      PROVE  RanInv'
  BY <1>0, <1>6, Zenon DEF ConnectionLost, RanInv
<1>7. CASE Crash
  BY <1>0, <1>7, Zenon DEF Crash, RanInv
<1>8. CASE Restart
  <2>1. nonce_' = nonce_ + 1 /\ nonce_ \in Nat /\ nonce_' \in Nonces
    BY <1>0, <1>b, <1>8, MaxNonceAssumption DEF Restart, JobsInv, Nonces
  <2>2. \A x \in Xids : ran[x][nonce_'] = 0
    BY <1>0, <1>a, <2>1 DEF RanInv
  <2>3. cb_present = {}
    BY <1>0, <1>8, Zenon DEF Restart, JobsInv
  <2>4. \A n \in Nonces : n <= nonce_ => n <= nonce_'
    BY <1>a, <2>1, MaxNonceAssumption DEF Nonces
  <2> QED
    BY <1>0, <1>8, <2>2, <2>3, <2>4 DEF Restart, RanInv
<1>9. ASSUME UNCHANGED <<xid_, srv_nonce_, done, val, nonce_, up, window, ran, replies>>
      PROVE  RanInv'
  BY <1>0, <1>9, Zenon DEF RanInv
<1>10. ASSUME NEW x \in Xids,
              Transmit(x) \/ WaitDone(x) \/ WaitExpired(x) \/ WaitGivenUp(x) \/ Finish(x) \/ NoteDone(x)
       PROVE  UNCHANGED <<xid_, srv_nonce_, done, val, nonce_, up, window, ran, replies>>
  BY <1>10, Zenon DEF Transmit, WaitDone, WaitExpired, WaitGivenUp, MoveOn, Finish, NoteDone
<1>11. ASSUME (\E m \in requests : GotRequest(m)) \/ UNCHANGED vars
       PROVE  UNCHANGED <<xid_, srv_nonce_, done, val, nonce_, up, window, ran, replies>>
  BY <1>11, Zenon DEF GotRequest, vars
<1> QED
  BY <1>1, <1>2, <1>3, <1>4, <1>5, <1>6, <1>7, <1>8, <1>9, <1>10, <1>11, Zenon DEF Next, CallStep, Deliver


\* xid_rep never claims a reply that has not come, and the server forgets nothing else.
LEMMA WindowKeeps ==
    ASSUME IInv, [Next]_vars
    PROVE  WindowInv'
<1> USE DEF rpcc, caller, rpcs, window, network
<1> DEFINE front == Lowest(xid_rep_window_)
<1>0. TypeOK /\ CallsInv /\ JobsInv /\ RanInv /\ WindowInv /\ xid_ \in Nat /\ \A x \in Xids : x \in Nat
  BY XidType, Zenon DEF IInv
<1>a. front \in Nat /\ front \in xid_rep_window_ /\ front < xid_
  BY <1>0, FrontType, MaxXidAssumption, Zenon DEF WindowInv
<1>b. \A x \in Xids : hdr[x].xid_rep \in Nat
  BY <1>0 DEF TypeOK
<1>c. \A j \in jobs : j.copy.xid \in Xids /\ j.copy.xid < xid_
  BY <1>0, Zenon DEF TypeOK, Requests, CallsInv
<1>1. ASSUME NEW proc \in Procs, StartCall(proc)
      PROVE  WindowInv'
  <2>1. xid_ \in Xids /\ xid_' = xid_ + 1 /\ calls_' = calls_ \cup {xid_}
    BY <1>0, <1>1, NextXid, Zenon DEF StartCall
  <2>2. \A x \in Xids : IF x = xid_ THEN hdr'[x].xid_rep = front ELSE hdr'[x] = hdr[x]
    BY <1>0, <1>1, <2>1, Zenon DEF StartCall, TypeOK
  <2>3. UNCHANGED <<xid_rep_window_, done, up, ran, nonce_, reply_window_, jobs>>
    BY <1>1, Zenon DEF StartCall
  <2>4. \A y \in xid_rep_window_ : y < xid_' /\ y # xid_
    BY <1>0, <2>1, FrontType DEF WindowInv
  <2>5. \A x \in Xids : x < xid_' => hdr'[x].xid_rep < x /\ hdr'[x].xid_rep <= front
    <3>1. \A x \in Xids : x < xid_' => x < xid_ \/ x = xid_
      BY <1>0, <2>1
    <3>2. \A x \in Xids : x < xid_ => hdr'[x].xid_rep < x /\ hdr'[x].xid_rep <= front
      BY <1>0, <2>2 DEF WindowInv
    <3>3. hdr'[xid_].xid_rep < xid_ /\ hdr'[xid_].xid_rep <= front
      BY <1>a, <2>1, <2>2
    <3> QED
      BY <3>1, <3>2, <3>3, Zenon
  <2>6. \A x \in calls_' : done[x] = "no" => x \notin xid_rep_window_ /\ front < x
    BY <1>0, <1>a, <2>1, <2>4, Zenon DEF WindowInv
  <2> QED
    BY <1>0, <2>3, <2>4, <2>5, <2>6, Zenon DEF WindowInv
<1>2. ASSUME NEW x \in Xids, x < xid_, xid_rep_window_' = UpdateXidRep(xid_rep_window_, x),
             UNCHANGED <<xid_, hdr, rpcs>>,
             \A y \in calls_' : done'[y] = "no" => y \in calls_ /\ y # x /\ done[y] = "no"
      PROVE  WindowInv'
  <2> DEFINE U == UpdateXidRep(xid_rep_window_, x)
  <2>1. /\ U \subseteq xid_rep_window_ \cup {x} /\ U # {}
        /\ Lowest(U) \in Nat /\ front <= Lowest(U)
        /\ \A y \in Xids : y \notin xid_rep_window_ \cup {x} /\ front < y => Lowest(U) < y
    BY <1>0, FrontUpdate, Zenon
  <2>2. xid_rep_window_' = U
    BY <1>2, Zenon
  <2> HIDE DEF U
  <2>3. \A y \in U : y < xid_
    BY <1>0, <1>2, <2>1, Zenon DEF WindowInv
  <2>4. \A y \in Xids : y < xid_ => hdr[y].xid_rep <= Lowest(U)
    BY <1>0, <1>a, <1>b, <2>1 DEF WindowInv
  <2>5. \A y \in Xids : y < front => y < Lowest(U)
    BY <1>0, <1>a, <2>1
  <2>6. \A y \in calls_' : done'[y] = "no" => y \notin U /\ Lowest(U) < y
    BY <1>0, <1>2, <2>1, Zenon DEF WindowInv, CallsInv
  <2>7. up => \A y \in Xids : ran[y][nonce_] > 0 => y \in reply_window_ \/ y < Lowest(U)
    BY <1>0, <2>5, Zenon DEF WindowInv
  <2>8. \A j \in jobs : Active(j) => j.copy.xid \in reply_window_ \/ j.copy.xid < Lowest(U)
    BY <1>0, <1>c, <2>5, Zenon DEF WindowInv
  <2> QED
    BY <1>0, <1>2, <2>1, <2>2, <2>3, <2>4, <2>6, <2>7, <2>8, Zenon DEF WindowInv
<1>3. ASSUME NEW x \in Xids, Finish(x)
      PROVE  WindowInv'
  <2>1. x < xid_
    BY <1>0, <1>3 DEF Finish, CallsInv
  <2> QED
    BY <1>2, <1>3, <2>1, Zenon DEF Finish
<1>4. ASSUME NEW m \in replies, GotReply(m)
      PROVE  WindowInv'
  <2>1. m.xid \in Xids /\ m.xid < xid_ /\ m.ret # "no"
    BY <1>0, Zenon DEF TypeOK, CallsInv, Rets
  <2>2. \A y \in calls_ : done'[y] = "no" => y # m.xid /\ done[y] = "no"
    BY <1>0, <1>4, <2>1, Zenon DEF GotReply, TypeOK
  <2> QED
    BY <1>2, <1>4, <2>1, <2>2, Zenon DEF GotReply
<1>5. CASE Cancel
  <2>1. \A x \in calls_ : done'[x] # "no"
    BY <1>0, <1>5, Zenon DEF Cancel, TypeOK
  <2> QED
    BY <1>0, <1>5, <2>1, Zenon DEF Cancel, WindowInv
<1>6. ASSUME NEW m \in requests, GotRequest(m)
      PROVE  WindowInv'
  BY <1>0, <1>6 DEF GotRequest, WindowInv, Active
<1>7. ASSUME NEW j \in jobs, Dispatch(j)
      PROVE  WindowInv'
  <2>0. up /\ j.copy.xid \in Xids /\ j.copy.xid < xid_
    BY <1>0, <1>c, Zenon DEF TypeOK, JobsInv
  <2>1. UNCHANGED <<xid_rep_window_, xid_, hdr, calls_, done, up, nonce_>>
    BY <1>7, Zenon DEF Dispatch, DispatchOldServer, DispatchSaveConn, CheckNew, CheckInProgress,
                CheckDone, CheckForgotten, RunHandler, AddReply, SendReply
  <2>2. CASE DispatchOldServer(j) \/ CheckInProgress(j) \/ CheckDone(j) \/ CheckForgotten(j) \/ SendReply(j)
    BY <1>0, <2>1, <2>2, Zenon DEF DispatchOldServer, CheckInProgress, CheckDone, CheckForgotten, SendReply,
                            EndJob, WindowInv
  <2>3. CASE DispatchSaveConn(j)
    <3> DEFINE k == [j EXCEPT !.pc = "check"]
    <3>1. k.pc = "check" /\ jobs' = (jobs \ {j}) \cup {k}
      BY <1>0, <2>3, JobMoves, Zenon DEF JobPCs, DispatchSaveConn, JobGoto
    <3>2. UNCHANGED <<ran, reply_window_>>
      BY <2>3, Zenon DEF DispatchSaveConn
    <3> HIDE DEF k
    <3> QED
      BY <1>0, <2>1, <3>1, <3>2, Zenon DEF WindowInv, Active
  <2>4. CASE CheckNew(j)
    <3> DEFINE x == j.copy.xid
               k == [j EXCEPT !.pc = "run"]
    <3>1. hdr[x].xid_rep < x /\ hdr[x].xid_rep <= front /\ hdr[x].xid_rep \in Nat
      BY <1>0, <1>b, <2>0, Zenon DEF WindowInv
    <3>2. reply_window_' = {y \in reply_window_ \cup {x} : y >= hdr[x].xid_rep}
      BY <2>4, Zenon DEF CheckNew, Remember
    <3>3. x \in reply_window_'
      BY <1>0, <2>0, <3>1, <3>2
    <3>4. \A y \in Xids : y \in reply_window_ => y \in reply_window_' \/ y < front
      BY <1>0, <1>a, <3>1, <3>2
    <3>5. k.copy = j.copy /\ jobs' = (jobs \ {j}) \cup {k}
      BY <1>0, <2>4, JobMoves, Zenon DEF JobPCs, CheckNew, JobGoto
    <3>6. \A i \in jobs' : Active(i) => i.copy.xid \in reply_window_' \/ i.copy.xid < front
      <4> HIDE DEF k
      <4> QED
        BY <1>0, <1>c, <3>3, <3>4, <3>5, Zenon DEF WindowInv
    <3>7. UNCHANGED ran
      BY <2>4, Zenon DEF CheckNew
    <3> QED
      BY <1>0, <2>1, <3>4, <3>6, <3>7, Zenon DEF WindowInv
  <2>5. CASE RunHandler(j)
    <3> DEFINE k == [j EXCEPT !.pc = "record"]
    <3>1. k.copy = j.copy /\ jobs' = (jobs \ {j}) \cup {k} /\ UNCHANGED reply_window_
      BY <1>0, <2>5, JobMoves, Zenon DEF JobPCs, RunHandler, JobGoto
    <3>2. j.copy.xid \in reply_window_ \/ j.copy.xid < front
      BY <1>0, <2>5, Zenon DEF RunHandler, WindowInv, Active
    <3>3. \A x \in Xids : ran'[x][nonce_] = ran[x][nonce_] \/ x = j.copy.xid
      BY <1>0, <2>5, RunCounts DEF TypeOK
    <3> HIDE DEF k
    <3> QED
      BY <1>0, <2>1, <3>1, <3>2, <3>3, Zenon DEF WindowInv
  <2>6. CASE AddReply(j)
    <3> DEFINE k == [j EXCEPT !.pc = "reply"]
    <3>1. k.copy = j.copy /\ jobs' = (jobs \ {j}) \cup {k} /\ UNCHANGED reply_window_
      BY <1>0, <2>6, JobMoves, Zenon DEF JobPCs, AddReply, JobGoto
    <3>2. j.copy.xid \in reply_window_ \/ j.copy.xid < front
      BY <1>0, <2>6, Zenon DEF AddReply, WindowInv, Active
    <3>3. UNCHANGED ran
      BY <2>6, Zenon DEF AddReply
    <3> HIDE DEF k
    <3> QED
      BY <1>0, <2>1, <3>1, <3>2, <3>3, Zenon DEF WindowInv
  <2> QED
    BY <1>7, <2>2, <2>3, <2>4, <2>5, <2>6, Zenon DEF Dispatch
<1>8. CASE Crash
  BY <1>0, <1>8, Zenon DEF Crash, WindowInv
<1>9. CASE Restart
  <2>1. nonce_' \in Nonces /\ ~(nonce_' <= nonce_)
    BY <1>0, <1>9, MaxNonceAssumption DEF Restart, JobsInv, TypeOK, Nonces
  <2>2. \A x \in Xids : ~(ran[x][nonce_'] > 0)
    BY <1>0, <2>1, Zenon DEF RanInv
  <2> QED
    BY <1>0, <1>9, <2>2, Zenon DEF Restart, WindowInv
<1>10. ASSUME UNCHANGED <<xid_rep_window_, xid_, hdr, calls_, done, rpcs>>
       PROVE  WindowInv'
  BY <1>0, <1>10, Zenon DEF WindowInv
<1>11. ASSUME NEW x \in Xids,
              Transmit(x) \/ WaitDone(x) \/ WaitExpired(x) \/ WaitGivenUp(x) \/ NoteDone(x) \/ BindDone(x)
       PROVE  UNCHANGED <<xid_rep_window_, xid_, hdr, calls_, done, rpcs>>
  BY <1>11, Zenon DEF Transmit, WaitDone, WaitExpired, WaitGivenUp, MoveOn, NoteDone, BindDone
<1>12. ASSUME \/ \E c \in Conns, ends \in SUBSET {"client", "server"} : ConnectionLost(c, ends)
              \/ UNCHANGED vars
       PROVE  UNCHANGED <<xid_rep_window_, xid_, hdr, calls_, done, rpcs>>
  BY <1>12, Zenon DEF ConnectionLost, vars
<1> QED
  BY <1>1, <1>3, <1>4, <1>5, <1>6, <1>7, <1>8, <1>9, <1>10, <1>11, <1>12, Zenon DEF Next, CallStep, Deliver

\* The inductive invariant holds at first.
LEMMA InitInv == Init => IInv
<1> SUFFICES ASSUME Init PROVE IInv
  OBVIOUS
<1> USE MaxXidAssumption, MaxConnAssumption, MaxNonceAssumption
    DEF Init, Xids, Conns, Nonces, NoXid, NoConn
<1>1. Lowest({0}) = 0
  <2>1. {0} \in SUBSET Nat /\ {0} # {}
    OBVIOUS
  <2> HIDE DEF Init
  <2> QED
    BY <2>1, LowestIsLeast, Zenon
<1>2. TypeOK
  <2>1. hdr \in [Xids -> [proc : Procs, srv_nonce : Nonces \cup {0}, xid_rep : 0..MaxXid]]
    BY DEF Procs
  <2>2. at \in [Xids -> CallPCs] /\ done \in [Xids -> Rets \cup {"no", "cancel"}]
    BY Zenon DEF CallPCs
  <2>3. ran \in [Xids -> [Nonces -> Nat]]
    OBVIOUS
  <2>4. ch \in [Xids -> Conns \cup {NoConn}] /\ val \in [Xids -> Nonces \cup {0}]
    OBVIOUS
  <2>5. /\ xid_ \in 1..(MaxXid + 1) /\ xid_rep_window_ \in SUBSET (0..MaxXid)
        /\ xid_rep_done_ \in (0..MaxXid) \cup {-1} /\ dup_req_ \in Xids \cup {NoXid}
        /\ nonce_ \in Nonces /\ made \in 0..MaxConn
    OBVIOUS
  <2> QED
    BY <2>1, <2>2, <2>3, <2>4, <2>5, Zenon DEF TypeOK
<1>3. CallsInv /\ BindInv
  BY DEF CallsInv, BindInv
<1>4. JobsInv /\ RanInv
  BY DEF JobsInv, RanInv
<1>5. WindowInv
  BY <1>1 DEF WindowInv
<1> QED
  BY <1>2, <1>3, <1>4, <1>5, Zenon DEF IInv

\* Every step keeps it, so the windows of both ends, the progress of the jobs and
\* the runs of the handlers (rpc/rpc.cc) agree in every state.
THEOREM Invariance == Spec => []IInv
<1>1. IInv /\ [Next]_vars => IInv'
  BY TypeKeeps, CallsKeep, BindKeeps, JobsKeep, RanKeeps, WindowKeeps, Zenon DEF IInv
<1> QED
  BY <1>1, InitInv, PTL DEF Spec

\* dispatch (rpc/rpc.cc) runs the handler of a call at most once in each instance
\* of the server, and no call but the bind in two instances, whatever copies of
\* the request arrive.
THEOREM AtMostOnceHolds == Spec => []AtMostOnce
<1>1. IInv => AtMostOnce
  <2> SUFFICES ASSUME IInv PROVE AtMostOnce
    OBVIOUS
  <2>1. \A x \in Xids, n \in Nonces :
            ran[x][n] <= 1 /\ (ran[x][n] > 0 => x < xid_ /\ (x # 1 => n = srv_nonce_))
    BY Zenon DEF IInv, RanInv
  <2>2. \A x \in Xids : x < xid_ /\ hdr[x].proc # "bind" => x # 1
    BY Zenon DEF IInv, BindInv
  <2> QED
    BY <2>1, <2>2, Zenon DEF AtMostOnce
<1> QED
  BY <1>1, Invariance, PTL

\* A call that call1 (rpc/rpc.cc) answers with a reply was run once by the instance
\* that sent it, which is the one the rpcc is bound to.
THEOREM RepliedMeansRanHolds == Spec => []RepliedMeansRan
<1>1. IInv => RepliedMeansRan
  <2> SUFFICES ASSUME IInv, NEW x \in Xids, done[x] = "ok"
               PROVE  /\ val[x] \in Nonces /\ ran[x][val[x]] = 1
                      /\ hdr[x].proc # "bind" => val[x] = srv_nonce_
    BY Zenon DEF RepliedMeansRan
  <2>1. val[x] \in Nonces /\ ran[x][val[x]] = 1 /\ x < xid_
    BY Zenon DEF IInv, RanInv, CallsInv
  <2>2. hdr[x].proc # "bind" => x # 1
    BY <2>1, Zenon DEF IInv, BindInv
  <2> QED
    BY <2>1, <2>2 DEF IInv, RanInv
<1> QED
  BY <1>1, Invariance, PTL

\* The front of xid_rep_window_, which update_xid_rep (rpc/rpc.cc) moves, never
\* passes a call whose caller still waits.
THEOREM XidRepSoundHolds == Spec => []XidRepSound
<1>1. IInv => XidRepSound
  BY Zenon DEF IInv, WindowInv, XidRepSound
<1> QED
  BY <1>1, Invariance, PTL

\* checkduplicate_and_update (rpc/rpc.cc) never drops the entry of a call that has
\* run and whose caller still waits: a retransmission finds the reply.
THEOREM ReplyKeptHolds == Spec => []ReplyKept
<1>1. IInv => ReplyKept
  <2> SUFFICES ASSUME IInv, NEW x \in calls_, done[x] = "no", up, ran[x][nonce_] > 0
               PROVE  x \in reply_window_
    BY Zenon DEF ReplyKept
  <2>1. x \in Xids /\ x \in Nat /\ Lowest(xid_rep_window_) \in Nat
    BY XidType, FrontType, MaxXidAssumption, Zenon DEF IInv, TypeOK
  <2>2. Lowest(xid_rep_window_) < x
    BY Zenon DEF IInv, WindowInv
  <2>3. x \in reply_window_ \/ x < Lowest(xid_rep_window_)
    BY <2>1, Zenon DEF IInv, WindowInv
  <2> QED
    BY <2>1, <2>2, <2>3
<1> QED
  BY <1>1, Invariance, PTL

-----------------------------------------------------------------------------
(* Refinement *)

\* Whether an ordinary call ran in some instance is how often it ran in all.
RanAtMostOnce ==
    \A x \in 2..MaxXid : RunCount(x) = IF \E n \in Nonces : ran[x][n] > 0 THEN 1 ELSE 0

\* An ordinary call has run at most once in all, in the instance it is meant for.
LEMMA RunCountIs == IInv => RanAtMostOnce
<1> SUFFICES ASSUME IInv, NEW x \in 2..MaxXid
             PROVE  RunCount(x) = IF \E n \in Nonces : ran[x][n] > 0 THEN 1 ELSE 0
  BY Zenon DEF RanAtMostOnce
<1>1. x \in Xids /\ x # 1
  BY MaxXidAssumption DEF Xids
<1>2. \A n \in Nonces : ran[x][n] \in Nat /\ ran[x][n] <= 1 /\ (ran[x][n] > 0 => n = srv_nonce_)
  BY <1>1 DEF IInv, TypeOK, RanInv
<1>3. CASE \A n \in Nonces : ran[x][n] = 0
  <2>1. RunCount(x) = 0
    BY <1>3, Zenon DEF RunCount
  <2> QED
    BY <1>3, <2>1
<1>4. ASSUME NEW n \in Nonces, ran[x][n] # 0
      PROVE  RunCount(x) = 1
  <2>1. ran[x][n] = 1 /\ \A m \in Nonces \ {n} : ran[x][m] = 0
    BY <1>2, <1>4
  <2> QED
    BY <1>4, <2>1, Zenon DEF RunCount
<1>5. \A n \in Nonces : ran[x][n] > 0 <=> ran[x][n] # 0
  BY <1>2
<1> QED
  BY <1>3, <1>4, <1>5, Zenon

\* Rpc implements RpcService, with status and runs computed from the calls and the
\* counts: seen from the callers of call1 (rpc/rpc.cc), a handler runs at most once,
\* and before the call returns its reply.
THEOREM Implements == Spec => ImplementsRpcService
<1>1. Init => Service!Init
  <2> SUFFICES ASSUME Init PROVE Service!Init
    OBVIOUS
  <2>1. \A x \in 2..MaxXid : x \in Xids
    BY MaxXidAssumption DEF Xids
  <2>2. \A x \in 2..MaxXid : CallStatus(x) = "none"
    BY <2>1, Zenon DEF Init, CallStatus
  <2>3. \A x \in 2..MaxXid : RunCount(x) = 0
    BY <2>1, Zenon DEF Init, RunCount
  <2> QED
    BY <2>2, <2>3, Zenon DEF Service!Init, status, runs
<1>2. ASSUME IInv, IInv', [Next]_vars
      PROVE  [Service!Next]_<<status, runs>>
  <2> USE <1>2 DEF rpcc, caller, rpcs, window, network
  <2>0. TypeOK /\ CallsInv /\ BindInv /\ RanInv /\ \A x \in 2..MaxXid : x \in Xids /\ x # 1
    BY MaxXidAssumption DEF IInv, Xids
  <2>1. ASSUME \A x \in 2..MaxXid : CallStatus(x)' = CallStatus(x)
        PROVE  UNCHANGED status
    BY <2>1, Zenon DEF status
  <2>2. ASSUME UNCHANGED ran
        PROVE  UNCHANGED runs
    BY <2>2, Zenon DEF runs, RunCount
  <2>3. ASSUME NEW x \in 2..MaxXid, NEW v, CallStatus(x)' = v,
               \A y \in 2..MaxXid \ {x} : CallStatus(y)' = CallStatus(y)
        PROVE  status' = [status EXCEPT ![x] = v]
    BY <2>3, Zenon DEF status
  <2>4. ASSUME NEW proc \in Procs, StartCall(proc)
        PROVE  [Service!Next]_<<status, runs>>
    <3>0. PICK x \in Xids : x = xid_
      BY <2>0, <2>4, NextXid, Zenon DEF StartCall
    <3>1. at[x] = "none" /\ UNCHANGED runs
      BY <2>0, <2>2, <2>4, <3>0, XidType DEF StartCall, CallsInv
    <3>2. \A y \in Xids : at'[y] = (IF y = x THEN "send" ELSE at[y]) /\ done'[y] = done[y]
      BY <2>0, <2>4, <3>0, Zenon DEF StartCall, Goto, TypeOK
    <3>3. CASE x = 1
      BY <2>0, <2>1, <3>1, <3>2, <3>3, Zenon DEF CallStatus
    <3>4. CASE x # 1
      <4>1. x \in 2..MaxXid
        BY <3>0, <3>4, MaxXidAssumption DEF Xids
      <4>2. status[x] = "none" /\ CallStatus(x)' = "pending"
        BY <3>1, <3>2, <4>1, Zenon DEF CallStatus, status
      <4>3. \A y \in 2..MaxXid \ {x} : CallStatus(y)' = CallStatus(y)
        BY <2>0, <3>2, Zenon DEF CallStatus
      <4>4. status' = [status EXCEPT ![x] = "pending"]
        BY <2>3, <4>1, <4>2, <4>3, Zenon
      <4> QED
        BY <3>1, <4>1, <4>2, <4>4, Zenon DEF Service!Next, Service!Call
    <3> QED
      BY <3>3, <3>4, Zenon
  <2>5. ASSUME NEW x \in Xids, Transmit(x) \/ WaitDone(x) \/ WaitExpired(x) \/ WaitGivenUp(x)
        PROVE  UNCHANGED <<status, runs>>
    <3>1. \A y \in Xids : IF y = x THEN at[y] \in {"send", "lastSend", "wait"}
                                       /\ at'[y] \in {"send", "lastSend", "wait", "finish"}
                          ELSE at'[y] = at[y]
      BY <2>0, <2>5 DEF Transmit, WaitDone, WaitExpired, WaitGivenUp, MoveOn, Goto, TypeOK
    <3>2. UNCHANGED <<done, ran>>
      BY <2>5, Zenon DEF Transmit, WaitDone, WaitExpired, WaitGivenUp, MoveOn
    <3>3. \A y \in 2..MaxXid : CallStatus(y)' = CallStatus(y)
      BY <2>0, <3>1, <3>2, Zenon DEF CallStatus
    <3> QED
      BY <2>1, <2>2, <3>2, <3>3, Zenon
  <2>6. ASSUME NEW x \in Xids, Finish(x) \/ NoteDone(x)
        PROVE  [Service!Next]_<<status, runs>>
    <3>1. /\ at[x] \in {"finish", "note"} /\ at'[x] \in {"note", "bound", "returned"}
          /\ \A y \in Xids \ {x} : at'[y] = at[y]
      BY <2>0, <2>6 DEF Finish, NoteDone, Leave, Goto, TypeOK
    <3>2. UNCHANGED <<done, ran, runs>>
      BY <2>2, <2>6, Zenon DEF Finish, NoteDone
    <3>3. \A y \in 2..MaxXid \ {x} : CallStatus(y)' = CallStatus(y)
      BY <2>0, <3>1, <3>2, Zenon DEF CallStatus
    <3>4. CASE x = 1
      BY <2>0, <2>1, <3>2, <3>3, <3>4, Zenon
    <3>5. CASE x # 1 /\ at'[x] # "returned"
      <4>1. CallStatus(x)' = CallStatus(x)
        BY <3>1, <3>5, Zenon DEF CallStatus
      <4> QED
        BY <2>1, <3>2, <3>3, <4>1, Zenon
    <3>6. CASE x # 1 /\ at'[x] = "returned"
      <4>1. x \in 2..MaxXid
        BY <3>6, MaxXidAssumption DEF Xids
      <4>2. status[x] = "pending"
        BY <3>1, <4>1, Zenon DEF CallStatus, status
      <4>3. CASE done[x] = "ok"
        <5>1. CallStatus(x)' = "replied"
          BY <3>2, <3>6, <4>3, Zenon DEF CallStatus
        <5>2. \E n \in Nonces : ran[x][n] > 0
          <6>1. val[x] \in Nonces /\ ran[x][val[x]] = 1
            BY <2>0, <4>3, Zenon DEF RanInv
          <6>2. \A k : k = 1 => k > 0
            OBVIOUS
          <6> QED
            BY <6>1, <6>2, Zenon
        <5>3. runs[x] = 1
          BY <4>1, <5>2, RunCountIs, Zenon DEF runs, RanAtMostOnce
        <5>4. status' = [status EXCEPT ![x] = "replied"]
          BY <2>3, <3>3, <4>1, <5>1, Zenon
        <5> QED
          BY <3>2, <4>1, <4>2, <5>3, <5>4, Zenon DEF Service!Next, Service!ReturnReply
      <4>4. CASE done[x] # "ok"
        <5>1. CallStatus(x)' = "failed"
          BY <3>2, <3>6, <4>4, Zenon DEF CallStatus
        <5>2. status' = [status EXCEPT ![x] = "failed"]
          BY <2>3, <3>3, <4>1, <5>1, Zenon
        <5> QED
          BY <3>2, <4>1, <4>2, <5>2, Zenon DEF Service!Next, Service!Fail
      <4> QED
        BY <4>3, <4>4, Zenon
    <3> QED
      BY <3>4, <3>5, <3>6, Zenon
  <2>7. ASSUME NEW x \in Xids, BindDone(x)
        PROVE  UNCHANGED <<status, runs>>
    <3>1. x = 1 /\ UNCHANGED <<done, ran>> /\ \A y \in Xids \ {x} : at'[y] = at[y]
      BY <2>0, <2>7, Zenon DEF BindDone, BindInv, Goto, TypeOK
    <3>2. \A y \in 2..MaxXid : CallStatus(y)' = CallStatus(y)
      BY <2>0, <3>1, Zenon DEF CallStatus
    <3> QED
      BY <2>1, <2>2, <3>1, <3>2, Zenon
  <2>8. ASSUME Cancel \/ \E m \in replies : GotReply(m)
        PROVE  UNCHANGED <<status, runs>>
    <3>1. UNCHANGED <<at, ran>> /\ \A x \in Xids : x \in calls_ \/ done'[x] = done[x]
      BY <2>0, <2>8 DEF Cancel, GotReply, TypeOK
    <3>2. \A y \in 2..MaxXid : CallStatus(y)' = CallStatus(y)
      BY <2>0, <3>1, Zenon DEF CallStatus, CallsInv
    <3> QED
      BY <2>1, <2>2, <3>1, <3>2, Zenon
  <2>9. ASSUME NEW j \in jobs, RunHandler(j)
        PROVE  [Service!Next]_<<status, runs>>
    <3>0. PICK x \in Xids : x = j.copy.xid
      BY <2>0, Zenon DEF TypeOK, Requests
    <3>1. nonce_ \in Nonces /\ \A y \in Xids, n \in Nonces :
              ran'[y][n] = IF y = x /\ n = nonce_ THEN ran[y][n] + 1 ELSE ran[y][n]
      BY <2>0, <2>9, <3>0, RunCounts DEF TypeOK
    <3>2. UNCHANGED status
      BY <2>9, Zenon DEF RunHandler, status, CallStatus
    <3>3. \A y \in 2..MaxXid \ {x} : RunCount(y)' = RunCount(y)
      BY <2>0, <3>1 DEF RunCount
    <3>4. CASE x = 1
      <4>1. UNCHANGED runs
        BY <2>0, <3>3, <3>4, Zenon DEF runs
      <4> QED
        BY <3>2, <4>1, Zenon
    <3>5. CASE x # 1
      <4>1. x \in 2..MaxXid
        BY <3>5, MaxXidAssumption DEF Xids
      <4>2. JobInv(j) /\ x < xid_
        BY <3>0, Zenon DEF IInv, JobsInv, CallsInv
      <4>3. ran[x][nonce_] = 0 /\ nonce_ = srv_nonce_
        BY <2>0, <2>9, <3>0, <3>5, <4>2, Zenon DEF RunHandler, JobInv, BindInv
      <4>4. \A n \in Nonces : ~(ran[x][n] > 0)
        <5>1. \A n \in Nonces : ran[x][n] > 0 => n = srv_nonce_
          BY <2>0, <3>0, <3>5, Zenon DEF RanInv
        <5> QED
          BY <4>3, <5>1
      <4>5. runs[x] = 0
        BY <4>1, <4>4, RunCountIs, Zenon DEF runs, RanAtMostOnce
      <4>6. \E n \in Nonces : ran'[x][n] > 0
        BY <3>1, <4>3
      <4>7. RunCount(x)' = 1
        <5>1. RanAtMostOnce'
          BY RunCountIs, PTL
        <5> QED
          BY <4>1, <4>6, <5>1, Zenon DEF RanAtMostOnce
      <4>8. runs' = [runs EXCEPT ![x] = 1]
        BY <3>3, <4>1, <4>7, Zenon DEF runs
      <4>9. status[x] # "none"
        BY <2>0, <4>1, <4>2, XidType DEF status, CallStatus, CallsInv
      <4> QED
        BY <3>2, <4>1, <4>5, <4>8, <4>9, Zenon DEF Service!Next, Service!Execute
    <3> QED
      BY <3>4, <3>5, Zenon
  <2>10. ASSUME UNCHANGED <<at, done, ran>>
         PROVE  UNCHANGED <<status, runs>>
    BY <2>2, <2>10, Zenon DEF status, CallStatus
  <2>11. ASSUME NEW j \in jobs, Dispatch(j), ~RunHandler(j)
         PROVE  UNCHANGED <<at, done, ran>>
    BY <2>11, Zenon DEF Dispatch, DispatchOldServer, DispatchSaveConn, CheckNew, CheckInProgress,
                 CheckDone, CheckForgotten, AddReply, SendReply
  <2>12. ASSUME \/ \E m \in requests : GotRequest(m)
                \/ \E c \in Conns, ends \in SUBSET {"client", "server"} : ConnectionLost(c, ends)
                \/ Crash \/ Restart \/ UNCHANGED vars
         PROVE  UNCHANGED <<at, done, ran>>
    BY <2>12, Zenon DEF GotRequest, ConnectionLost, Crash, Restart, vars
  <2> QED
    BY <2>4, <2>5, <2>6, <2>7, <2>8, <2>9, <2>10, <2>11, <2>12, Zenon DEF Next, CallStep, Deliver
<1> QED
  BY <1>1, <1>2, Invariance, PTL DEF Spec, ImplementsRpcService, Service!Spec

-----------------------------------------------------------------------------
(* Calls that do not give up: xid_rep lets the server forget only what has   *)
(* been answered.                                                            *)

\* A reply for the xid that follows the front of the client's window moves the front.
LEMMA UpdatePasses ==
    ASSUME NEW n \in Nat, NEW S \in SUBSET (0..n), S # {}, NEW x \in 0..n, x <= Lowest(S) + 1
    PROVE  x <= Lowest(UpdateXidRep(S, x))
<1> DEFINE T == S \cup {x}
           U == UpdateXidRep(S, x)
<1>0. \A y \in T : y \in Nat
  OBVIOUS
<1>1. Lowest(S) \in S /\ \A y \in S : Lowest(S) <= y
  BY LowestIsLeast
<1>2. CASE x <= Lowest(S)
  BY <1>2, Zenon DEF UpdateXidRep
<1>3. CASE ~(x <= Lowest(S))
  <2>1. Lowest(T) \in T
    BY LowestIsLeast
  <2>2. Lowest(S) \in Nat /\ Lowest(T) \in Nat /\ (Lowest(T) = x \/ Lowest(S) <= Lowest(T))
    BY <1>0, <1>1, <2>1, Zenon
  <2>3. Lowest(T)..x \subseteq T
    <3> HIDE DEF T
    <3>1. \A z \in Lowest(T)..x : z = x \/ z = Lowest(S)
      BY <1>3, <2>2
    <3> QED
      BY <1>1, <3>1, Zenon DEF T
  <2>4. \A y \in U : x <= y
    BY <1>3, <2>3, Zenon DEF UpdateXidRep
  <2> QED
    BY <2>4, UpdateKeeps, Zenon
<1> QED
  BY <1>2, <1>3, Zenon

\* The nonce that the client is bound to is that of an instance of the server.
LEMMA ServerNonce ==
    ASSUME IInv, FrontInv, bind_done_
    PROVE  srv_nonce_ \in Nonces /\ nonce_ \in Nonces /\ srv_nonce_ <= nonce_
<1>1. 1 \in Xids /\ nonce_ \in Nonces
  BY MaxXidAssumption DEF IInv, TypeOK, BindInv, Xids
<1>2. val[1] \in Nonces /\ ran[1][val[1]] = 1
  BY <1>1, Zenon DEF IInv, RanInv, FrontInv
<1>3. val[1] <= nonce_
  BY <1>1, <1>2 DEF IInv, RanInv
<1> QED
  BY <1>1, <1>2, <1>3, Zenon DEF FrontInv

\* Without timeouts a call is over when it has been answered or cancelled, and nobody
\* waits for an answer that is a refusal.
LEMMA AnsweredKeeps ==
    ASSUME ~Timeouts, IInv, AnsweredInv, FrontInv, [Next]_vars
    PROVE  AnsweredInv'
<1> USE DEF rpcc, caller, rpcs, window, network
<1>0. TypeOK /\ CallsInv /\ BindInv /\ WindowInv /\ xid_ \in Nat /\ \A x \in Xids : x \in Nat
  BY XidType, Zenon DEF IInv
<1>1. ASSUME UNCHANGED <<xid_, destroy_wait_, done, at, xid_rep_window_, srv_nonce_, nonce_>>,
             replies' \subseteq replies
      PROVE  AnsweredInv'
  BY <1>1, Zenon DEF AnsweredInv
<1>2. ASSUME UNCHANGED <<destroy_wait_, done, xid_rep_window_, srv_nonce_, nonce_, replies>>,
             destroy_wait_ => xid_' = xid_,
             NEW x \in Xids, NEW l \in CallPCs, Goto(x, l), l # "lastSend",
             l \in {"finish", "note", "bound", "returned"} => done[x] # "no"
      PROVE  AnsweredInv'
  <2>1. \A y \in Xids : at'[y] = IF y = x THEN l ELSE at[y]
    BY <1>0, <1>2, Zenon DEF Goto, TypeOK
  <2> QED
    BY <1>2, <2>1, Zenon DEF AnsweredInv
<1>3. ASSUME NEW proc \in Procs, StartCall(proc)
      PROVE  AnsweredInv'
  <2>1. xid_ \in Xids
    BY <1>0, <1>3, NextXid, Zenon DEF StartCall
  <2> QED
    BY <1>2, <1>3, <2>1, Zenon DEF StartCall, CallPCs
<1>4. ASSUME NEW x \in Xids, Transmit(x)
      PROVE  AnsweredInv'
  <2>1. at[x] = "send" /\ Goto(x, "wait")
    BY <1>4, Zenon DEF Transmit, AnsweredInv
  <2> QED
    BY <1>2, <1>4, <2>1, Zenon DEF Transmit, CallPCs
<1>5. ASSUME NEW x \in Xids, WaitDone(x) \/ WaitExpired(x)
      PROVE  AnsweredInv'
  BY <1>2, <1>5, Zenon DEF WaitDone, WaitExpired, MoveOn, CallPCs
<1>6. ASSUME NEW x \in Xids, Finish(x)
      PROVE  AnsweredInv'
  <2> DEFINE U == UpdateXidRep(xid_rep_window_, x)
  <2>1. done[x] # "no" /\ UNCHANGED <<xid_, destroy_wait_, done, srv_nonce_, nonce_, replies>> /\ xid_rep_window_' = U
    BY <1>6, Zenon DEF Finish, AnsweredInv
  <2>2. \A y \in Xids : at'[y] = at[y] \/ (y = x /\ at'[y] # "lastSend")
    BY <1>0, <1>6, Zenon DEF Finish, Goto, Leave, TypeOK
  <2>3. ASSUME NEW y \in Xids, y < Lowest(U) \/ y \in U, y # x
        PROVE  y < Lowest(xid_rep_window_) \/ y \in xid_rep_window_
    <3>1. /\ U \subseteq xid_rep_window_ \cup {x} /\ Lowest(U) \in Nat
          /\ y \notin xid_rep_window_ \cup {x} /\ Lowest(xid_rep_window_) < y => Lowest(U) < y
      BY <1>0, FrontUpdate, Zenon
    <3>2. Lowest(xid_rep_window_) \in xid_rep_window_ /\ Lowest(xid_rep_window_) \in Nat
      BY <1>0, FrontType, Zenon
    <3> HIDE DEF U
    <3> QED
      BY <1>0, <2>3, <3>1, <3>2
  <2> HIDE DEF U
  <2> QED
    BY <2>1, <2>2, <2>3, Zenon DEF AnsweredInv
<1>7. ASSUME NEW x \in Xids, NoteDone(x)
      PROVE  AnsweredInv'
  <2>1. done[x] # "no"
    BY <1>7, Zenon DEF NoteDone, AnsweredInv
  <2> QED
    BY <1>2, <1>7, <2>1, Zenon DEF NoteDone, Leave, CallPCs
<1>8. ASSUME NEW x \in Xids, BindDone(x)
      PROVE  AnsweredInv'
  <2>1. x = 1 /\ done[x] = "ok" /\ ~bind_done_
    BY <1>0, <1>8, Zenon DEF BindDone, BindInv
  <2>2. \A y \in Xids : y < xid_ => y = x
    BY <1>0, <2>1, Zenon DEF BindInv
  <2>3. \A y \in Xids : done[y] # "oldsrv"
    BY <1>0, <2>1, <2>2, Zenon DEF CallsInv
  <2>4. \A m \in replies : m.ret # "oldsrv"
    BY <1>0, <2>1, <2>2, ZenonT(60) DEF CallsInv, AnsweredInv, TypeOK
  <2>5. \A y \in Xids : at'[y] = IF y = x THEN "returned" ELSE at[y]
    BY <1>0, <1>8, Zenon DEF BindDone, Goto, TypeOK
  <2>6. UNCHANGED <<xid_, destroy_wait_, done, xid_rep_window_, nonce_, replies>>
    BY <1>8, Zenon DEF BindDone
  <2> QED
    BY <2>1, <2>3, <2>4, <2>5, <2>6, Zenon DEF AnsweredInv
<1>9. ASSUME NEW m \in replies, GotReply(m)
      PROVE  AnsweredInv'
  <2> DEFINE U == UpdateXidRep(xid_rep_window_, m.xid)
  <2>0. m.xid \in Xids /\ m.ret \in Rets /\ m.xid < xid_
    BY <1>0, Zenon DEF TypeOK, CallsInv
  <2>1. UNCHANGED <<xid_, destroy_wait_, at, srv_nonce_, nonce_>> /\ xid_rep_window_' = U /\ replies' \subseteq replies
    BY <1>9, Zenon DEF GotReply
  <2>2. \A y \in Xids : \/ done'[y] = done[y]
                        \/ y = m.xid /\ done'[y] = m.ret /\ done[y] = "no"
    BY <1>0, <1>9, <2>0, Zenon DEF GotReply, TypeOK
  <2>3. done'[m.xid] # "no"
    <3>1. CASE m.xid \in calls_ /\ done[m.xid] = "no"
      BY <1>0, <1>9, <2>0, <3>1, Zenon DEF GotReply, TypeOK, Rets
    <3>2. CASE m.xid \notin calls_
      <4>1. at[m.xid] # "none"
        BY <1>0, <2>0 DEF CallsInv
      <4>2. at[m.xid] \in {"note", "bound", "returned"}
        BY <1>0, <2>0, <3>2, <4>1, Zenon DEF CallsInv, TypeOK, CallPCs
      <4> QED
        BY <1>9, <2>0, <3>2, <4>2, Zenon DEF AnsweredInv, GotReply
    <3> QED
      BY <1>9, <3>1, <3>2, Zenon DEF GotReply
  <2>4. ASSUME NEW y \in Xids, y < Lowest(U) \/ y \in U, y # m.xid
        PROVE  y < Lowest(xid_rep_window_) \/ y \in xid_rep_window_
    <3>1. /\ U \subseteq xid_rep_window_ \cup {m.xid} /\ Lowest(U) \in Nat
          /\ y \notin xid_rep_window_ \cup {m.xid} /\ Lowest(xid_rep_window_) < y => Lowest(U) < y
      BY <1>0, <2>0, FrontUpdate, Zenon
    <3>2. Lowest(xid_rep_window_) \in xid_rep_window_ /\ Lowest(xid_rep_window_) \in Nat
      BY <1>0, FrontType, Zenon
    <3> HIDE DEF U
    <3> QED
      BY <1>0, <2>4, <3>1, <3>2
  <2>5. /\ done'[m.xid] # "atmostonce" /\ (done'[m.xid] = "cancel" => destroy_wait_)
        /\ done'[m.xid] = "oldsrv" => srv_nonce_ < nonce_
    BY <2>0, <2>2, Zenon DEF AnsweredInv, Rets
  <2> HIDE DEF U
  <2>6. \A y \in Xids : done[y] # "no" => done'[y] # "no"
    BY <2>2, Zenon
  <2>7. \A y \in Xids : y < Lowest(U) \/ y \in U => done'[y] # "no"
    BY <2>3, <2>4, <2>6, Zenon DEF AnsweredInv
  <2>8. \A r \in replies' : r.ret = "atmostonce" => done'[r.xid] # "no"
    <3>1. \A r \in replies : r.xid \in Xids
      BY <1>0, Zenon DEF TypeOK
    <3> QED
      BY <2>1, <2>6, <3>1, Zenon DEF AnsweredInv
  <2>9. \A y \in Xids : /\ done'[y] # "atmostonce" /\ (done'[y] = "cancel" => destroy_wait_)
                        /\ done'[y] = "oldsrv" => srv_nonce_ < nonce_
    BY <2>2, <2>5, Zenon DEF AnsweredInv
  <2> QED
    BY <2>1, <2>6, <2>7, <2>8, <2>9, Zenon DEF AnsweredInv
<1>10. ASSUME NEW j \in jobs, Dispatch(j)
       PROVE  AnsweredInv'
  <2>0. j.copy.xid \in Xids /\ j.copy.xid < xid_
    BY <1>0, Zenon DEF TypeOK, Requests, CallsInv
  <2>1. UNCHANGED <<xid_, destroy_wait_, done, at, xid_rep_window_, srv_nonce_, nonce_>>
    BY <1>10, Zenon DEF Dispatch, DispatchOldServer, DispatchSaveConn, CheckNew, CheckInProgress,
                        CheckDone, CheckForgotten, RunHandler, AddReply, SendReply
  <2>2. CASE \/ DispatchSaveConn(j) \/ CheckNew(j) \/ CheckInProgress(j)
             \/ RunHandler(j) \/ AddReply(j)
    BY <1>1, <2>1, <2>2, Zenon
    DEF DispatchSaveConn, CheckNew, CheckInProgress, RunHandler, AddReply
  <2>3. ASSUME NEW c, NEW ret, Reply(j.copy.xid, c, ret),
               ret = "atmostonce" => done[j.copy.xid] # "no",
               ret = "oldsrv" => j.copy.xid # 1 /\ srv_nonce_ < nonce_
        PROVE  AnsweredInv'
    <3>1. \A m \in replies' : m \in replies \/ (m.xid = j.copy.xid /\ m.ret = ret)
      BY <2>3 DEF Reply
    <3> QED
      BY <2>1, <2>3, <3>1, Zenon DEF AnsweredInv
  <2>4. CASE CheckDone(j) \/ SendReply(j)
    BY <2>3, <2>4, Zenon DEF CheckDone, SendReply
  <2>5. CASE DispatchOldServer(j)
    <3>1. j.copy.xid # 1
      BY <1>0, <2>0, <2>5, Zenon DEF DispatchOldServer, FrontInv
    <3>2. bind_done_ /\ srv_nonce_ # nonce_
      BY <1>0, <2>0, <2>5, <3>1, Zenon DEF DispatchOldServer, BindInv
    <3>3. srv_nonce_ \in Nonces /\ nonce_ \in Nonces /\ srv_nonce_ <= nonce_
      BY <3>2, ServerNonce, Zenon
    <3>4. srv_nonce_ < nonce_
      BY <3>2, <3>3 DEF Nonces
    <3> QED
      BY <2>3, <2>5, <3>1, <3>4, Zenon DEF DispatchOldServer
  <2>6. CASE CheckForgotten(j)
    <3>1. reply_window_ # {} /\ j.copy.xid < Lowest(reply_window_)
      BY <2>6, Zenon DEF CheckForgotten, Forgotten
    <3>2. ~destroy_wait_ => Lowest(reply_window_) = 1 \/ Lowest(reply_window_) <= Lowest(xid_rep_window_)
      BY <3>1, Zenon DEF FrontInv
    <3>3. Lowest(reply_window_) \in Nat /\ Lowest(xid_rep_window_) \in Nat
      <4>1. reply_window_ \in SUBSET Nat
        BY <1>0, Zenon DEF TypeOK
      <4> QED
        BY <1>0, <3>1, <4>1, FrontType, LowestIsLeast, Zenon
    <3>4. ~destroy_wait_ => j.copy.xid < Lowest(xid_rep_window_)
      BY <2>0, <3>1, <3>2, <3>3, MaxXidAssumption DEF Xids
    <3>5. done[j.copy.xid] # "no"
      BY <2>0, <3>4, Zenon DEF AnsweredInv
    <3> QED
      BY <2>3, <2>6, <3>5, Zenon DEF CheckForgotten
  <2> QED
    BY <1>10, <2>2, <2>4, <2>5, <2>6, Zenon DEF Dispatch
<1>11. ASSUME \/ \E m \in requests : GotRequest(m)
              \/ \E c \in Conns, ends \in SUBSET {"client", "server"} : ConnectionLost(c, ends)
              \/ Crash \/ UNCHANGED vars
       PROVE  AnsweredInv'
  BY <1>1, <1>11, Zenon DEF GotRequest, ConnectionLost, Crash, vars
<1>12. CASE Restart
  <2>1. nonce_' = nonce_ + 1 /\ UNCHANGED <<xid_, destroy_wait_, done, at, xid_rep_window_, srv_nonce_, replies>>
    BY <1>12, Zenon DEF Restart
  <2>2. srv_nonce_ < nonce_ => srv_nonce_ < nonce_'
    BY <1>0, <2>1 DEF TypeOK, Nonces
  <2> QED
    BY <2>1, <2>2, Zenon DEF AnsweredInv
<1>13. CASE Cancel
  <2>1. /\ destroy_wait_' /\ \A x \in Xids : done'[x] = IF x \in calls_ THEN "cancel" ELSE done[x]
        /\ UNCHANGED <<xid_, at, xid_rep_window_, srv_nonce_, nonce_, replies>>
    BY <1>0, <1>13, Zenon DEF Cancel, TypeOK
  <2>2. ASSUME NEW x \in Xids, x < xid_
        PROVE  done'[x] # "no"
    <3>1. at[x] # "none"
      BY <1>0, <2>2 DEF CallsInv
    <3>2. x \in calls_ \/ at[x] \in {"note", "bound", "returned"}
      BY <1>0, <3>1, Zenon DEF CallsInv, TypeOK, CallPCs
    <3> QED
      BY <2>1, <3>2, Zenon DEF AnsweredInv
  <2>3. \A x \in Xids : done'[x] # "no" \/ done'[x] = done[x]
    BY <2>1, Zenon
  <2>4. \A m \in replies : m.xid \in Xids
    BY <1>0, Zenon DEF TypeOK
  <2> QED
    BY <2>1, <2>2, <2>3, <2>4, Zenon DEF AnsweredInv
<1> QED
  BY <1>3, <1>4, <1>5, <1>6, <1>7, <1>8, <1>9, <1>10, <1>11, <1>12, <1>13, Zenon
  DEF Next, CallStep, Deliver, WaitGivenUp

\* The server forgets no xid beyond the front of the client's window, except those
\* below the bind.
LEMMA FrontKeeps ==
    ASSUME IInv, AnsweredInv, FrontInv, [Next]_vars
    PROVE  FrontInv'
<1> USE DEF rpcc, caller, rpcs, window, network
<1>0. TypeOK /\ CallsInv /\ BindInv /\ WindowInv /\ xid_ \in Nat /\ \A x \in Xids : x \in Nat
  BY XidType, Zenon DEF IInv
<1>f. Lowest(xid_rep_window_) \in Nat
  BY <1>0, FrontType, Zenon
<1>b. xid_ > 1 => 1 \in Xids
  BY <1>0, MaxXidAssumption DEF TypeOK, Xids
<1>1. ASSUME UNCHANGED <<xid_, hdr, val, bind_done_, srv_nonce_, xid_rep_window_>>,
             bind_done_ => done'[1] = done[1], destroy_wait_ => destroy_wait_',
             xid_ > 1 => at'[1] = at[1] \/ at'[1] \notin {"note", "bound", "returned"},
             reply_window_' = reply_window_ \/ reply_window_' = {}
      PROVE  FrontInv'
  BY <1>1, Zenon DEF FrontInv
<1>2. ASSUME NEW proc \in Procs, StartCall(proc)
      PROVE  FrontInv'
  <2>1. xid_ \in Xids /\ xid_' = xid_ + 1 /\ xid_ >= 1
    BY <1>0, <1>2, NextXid DEF StartCall, TypeOK
  <2>2. \A x \in Xids : at'[x] = IF x = xid_ THEN "send" ELSE at[x]
    BY <1>0, <1>2, <2>1, Zenon DEF StartCall, Goto, TypeOK
  <2>3. \A x \in Xids : hdr'[x] = IF x = xid_ THEN [proc |-> proc, srv_nonce |-> srv_nonce_,
                                     xid_rep |-> Lowest(xid_rep_window_)] ELSE hdr[x]
    BY <1>0, <1>2, <2>1, Zenon DEF StartCall, TypeOK
  <2>4. UNCHANGED <<destroy_wait_, val, done, bind_done_, srv_nonce_, xid_rep_window_, reply_window_>>
    BY <1>2, Zenon DEF StartCall
  <2>5. 1 \in Xids /\ 1 <= xid_
    BY <2>1, <1>0, MaxXidAssumption DEF Xids
  <2>6. CASE xid_ = 1
    <3>1. srv_nonce_ = 0
      BY <1>0, <2>6 DEF BindInv, FrontInv
    <3>2. hdr'[1].srv_nonce = 0 /\ at'[1] = "send"
      BY <2>2, <2>3, <2>5, <2>6, <3>1
    <3>3. \A x \in Xids : ~(1 < x /\ x < xid_')
      BY <1>0, <2>1, <2>6
    <3> QED
      BY <2>4, <3>2, <3>3, Zenon DEF FrontInv
  <2>7. CASE xid_ # 1
    <3>0. xid_ > 1
      BY <1>0, <2>5, <2>7
    <3>1. bind_done_
      BY <1>2, <2>7, Zenon DEF StartCall
    <3>2. Lowest(xid_rep_window_) >= 1
      BY <1>0, <3>0, <3>1, Zenon DEF BindInv, FrontInv
    <3>3. hdr'[1] = hdr[1] /\ at'[1] = at[1] /\ hdr[1].srv_nonce = 0
      BY <2>2, <2>3, <2>5, <2>7, <3>0, Zenon DEF FrontInv
    <3>4. \A x \in Xids : 1 < x /\ x < xid_' => hdr'[x].xid_rep >= 1
      <4>1. \A x \in Xids : x < xid_' => x = xid_ \/ x < xid_
        BY <1>0, <2>1
      <4> QED
        BY <2>3, <3>2, <4>1 DEF FrontInv
    <3> QED
      BY <2>4, <3>2, <3>3, <3>4, Zenon DEF FrontInv
  <2> QED
    BY <2>6, <2>7, Zenon
<1>3. ASSUME NEW x \in Xids, NEW l, Goto(x, l), l \notin {"note", "bound", "returned"},
             UNCHANGED <<xid_, hdr, val, done, bind_done_, srv_nonce_, xid_rep_window_,
                         reply_window_, destroy_wait_>>
      PROVE  FrontInv'
  <2>1. xid_ > 1 => at'[1] = at[1] \/ at'[1] \notin {"note", "bound", "returned"}
    BY <1>0, <1>b, <1>3, Zenon DEF Goto, TypeOK
  <2> QED
    BY <1>1, <1>3, <2>1, Zenon
<1>4. ASSUME NEW x \in Xids, Transmit(x) \/ WaitDone(x) \/ WaitExpired(x) \/ WaitGivenUp(x)
      PROVE  FrontInv'
  BY <1>3, <1>4, Zenon DEF Transmit, WaitDone, WaitExpired, WaitGivenUp, MoveOn
<1>5. ASSUME NEW x \in Xids, xid_rep_window_' = UpdateXidRep(xid_rep_window_, x),
             UNCHANGED <<xid_, hdr, bind_done_, srv_nonce_, reply_window_, destroy_wait_>>,
             xid_ > 1 => x = 1 \/ at'[1] = at[1],
             bind_done_ => val'[1] = val[1] /\ done'[1] = done[1]
      PROVE  FrontInv'
  <2> DEFINE U == UpdateXidRep(xid_rep_window_, x)
  <2>1. Lowest(U) \in Nat /\ Lowest(xid_rep_window_) <= Lowest(U)
    BY <1>0, FrontUpdate, Zenon
  <2>2. x = 1 => Lowest(U) >= 1
    <3>1. /\ MaxXid \in Nat /\ xid_rep_window_ \in SUBSET (0..MaxXid) /\ xid_rep_window_ # {}
          /\ x \in 0..MaxXid /\ (x = 1 => x <= Lowest(xid_rep_window_) + 1)
      BY <1>0, <1>f, MaxXidAssumption DEF TypeOK, WindowInv, Xids
    <3>2. x = 1 => x <= Lowest(U)
      BY <3>1, UpdatePasses, Zenon
    <3> HIDE DEF U
    <3> QED
      BY <2>1, <3>2, Zenon
  <2> HIDE DEF U
  <2>3. xid_ > 1 /\ at'[1] \in {"note", "bound", "returned"} => Lowest(U) >= 1
    <3>1. Lowest(xid_rep_window_) >= 1 => Lowest(U) >= 1
      BY <1>f, <2>1
    <3> QED
      BY <1>5, <2>2, <3>1, Zenon DEF FrontInv
  <2>4. reply_window_ # {} /\ ~destroy_wait_ => Lowest(reply_window_) = 1 \/ Lowest(reply_window_) <= Lowest(U)
    <3>1. reply_window_ # {} => Lowest(reply_window_) \in Nat
      <4>1. reply_window_ \in SUBSET Nat
        BY <1>0, Zenon DEF TypeOK
      <4> QED
        BY <4>1, LowestIsLeast, Zenon
    <3>2. reply_window_ # {} /\ ~destroy_wait_ =>
              Lowest(reply_window_) = 1 \/ Lowest(reply_window_) <= Lowest(xid_rep_window_)
      BY Zenon DEF FrontInv
    <3> QED
      BY <1>f, <2>1, <3>1, <3>2
  <2> QED
    BY <1>5, <2>3, <2>4, Zenon DEF FrontInv, U
<1>6. ASSUME NEW x \in Xids, Finish(x)
      PROVE  FrontInv'
  <2>1. xid_ > 1 => x = 1 \/ at'[1] = at[1]
    BY <1>0, <1>b, <1>6, Zenon DEF Finish, Goto, TypeOK
  <2> QED
    BY <1>5, <1>6, <2>1, Zenon DEF Finish
<1>7. ASSUME NEW x \in Xids, NoteDone(x) \/ BindDone(x)
      PROVE  FrontInv'
  <2>1. /\ UNCHANGED <<xid_, hdr, val, done, xid_rep_window_, reply_window_, destroy_wait_>>
        /\ at[x] \in {"note", "bound"}
    BY <1>7, Zenon DEF NoteDone, BindDone
  <2>2. xid_ > 1 => x = 1 \/ at'[1] = at[1]
    BY <1>0, <1>b, <1>7, Zenon DEF NoteDone, BindDone, Goto, TypeOK
  <2>3. xid_ > 1 /\ at'[1] \in {"note", "bound", "returned"} => Lowest(xid_rep_window_) >= 1
    BY <2>1, <2>2, Zenon DEF FrontInv
  <2>4. IF bind_done_' THEN srv_nonce_' = val[1] /\ done[1] = "ok" ELSE srv_nonce_' = 0
    <3>1. CASE NoteDone(x)
      BY <3>1, Zenon DEF NoteDone, FrontInv
    <3>2. CASE BindDone(x)
      BY <1>0, <3>2, Zenon DEF BindDone, BindInv
    <3> QED
      BY <1>7, <3>1, <3>2, Zenon
  <2> QED
    BY <2>1, <2>3, <2>4, Zenon DEF FrontInv
<1>8. ASSUME NEW m \in replies, GotReply(m)
      PROVE  FrontInv'
  <2>1. m.xid \in Xids
    BY <1>0, Zenon DEF TypeOK
  <2>2. bind_done_ => val'[1] = val[1] /\ done'[1] = done[1]
    <3>1. bind_done_ => 1 \in Xids /\ 1 \notin calls_
      BY <1>0, <1>b, Zenon DEF BindInv, CallsInv
    <3> QED
      BY <1>0, <1>8, <2>1, <3>1, Zenon DEF GotReply, TypeOK
  <2> QED
    BY <1>5, <1>8, <2>1, <2>2, Zenon DEF GotReply
<1>9. ASSUME NEW j \in jobs, CheckNew(j)
      PROVE  FrontInv'
  <2> DEFINE x == j.copy.xid
             r == hdr[x].xid_rep
             V == Remember(reply_window_, x, r)
  <2>1. x \in Xids /\ x < xid_ /\ x \in Nat /\ r \in Nat /\ r < x /\ r <= Lowest(xid_rep_window_)
    <3>1. x \in Xids /\ x < xid_
      BY <1>0, Zenon DEF TypeOK, Requests, CallsInv
    <3>2. r \in 0..MaxXid /\ r < x /\ r <= Lowest(xid_rep_window_)
      BY <1>0, <3>1, Zenon DEF TypeOK, WindowInv
    <3> QED
      BY <1>0, <3>1, <3>2, MaxXidAssumption
  <2>2. reply_window_ \in SUBSET Nat /\ V \in SUBSET Nat /\ x \in V
    <3>1. reply_window_ \in SUBSET Nat
      BY <1>0, Zenon DEF TypeOK
    <3>2. x \in V
      BY <2>1 DEF Remember
    <3>3. V \subseteq reply_window_ \cup {x}
      BY Zenon DEF Remember
    <3> QED
      BY <2>1, <3>1, <3>2, <3>3, Zenon
  <2>3. Lowest(V) \in V /\ \A y \in V : Lowest(V) <= y
    BY <2>2, LowestIsLeast, Zenon
  <2>4. /\ UNCHANGED <<xid_, hdr, val, done, bind_done_, srv_nonce_, xid_rep_window_, at, destroy_wait_>>
        /\ reply_window_' = V
    BY <1>9, Zenon DEF CheckNew
  <2>5. ASSUME ~destroy_wait_
        PROVE  Lowest(V) = 1 \/ Lowest(V) <= Lowest(xid_rep_window_)
    <3>1. CASE x = 1
      <4>1. \A y \in V : y \in Xids
        BY <1>0, <2>1, Zenon DEF Remember, TypeOK
      <4>2. Lowest(V) >= 1 /\ Lowest(V) <= 1 /\ Lowest(V) \in Int
        BY <2>2, <2>3, <3>1, <4>1, MaxXidAssumption DEF Xids
      <4> QED
        BY <4>2
    <3>2. CASE x # 1
      <4>0. 1 < x /\ r >= 1 /\ r \in Xids
        <5>1. 1 < x
          BY <2>1, <3>2, MaxXidAssumption DEF Xids
        <5>2. r >= 1
          BY <2>1, <5>1, Zenon DEF FrontInv
        <5> QED
          BY <2>1, <5>1, <5>2, MaxXidAssumption DEF Xids
      <4>1. bind_done_ /\ hdr[x].srv_nonce = srv_nonce_ /\ srv_nonce_ # 0
        BY <1>0, <2>1, <3>2, Zenon DEF BindInv
      <4>2. srv_nonce_ = nonce_
        BY <1>9, <4>1, Zenon DEF CheckNew, IInv, JobsInv, JobInv
      <4>3. done[r] # "no"
        <5>1. r < Lowest(xid_rep_window_) \/ r \in xid_rep_window_
          <6>1. Lowest(xid_rep_window_) \in xid_rep_window_
            BY <1>0, FrontType, Zenon
          <6>2. r < Lowest(xid_rep_window_) \/ r = Lowest(xid_rep_window_)
            BY <1>f, <2>1
          <6> QED
            BY <6>1, <6>2, Zenon
        <5> QED
          BY <4>0, <5>1, Zenon DEF AnsweredInv
      <4>4. done[r] = "ok"
        <5>1. ~(srv_nonce_ < nonce_)
          BY <1>0, <4>2 DEF TypeOK, Nonces
        <5> QED
          BY <1>0, <2>5, <4>0, <4>3, <5>1, ZenonT(60) DEF AnsweredInv, TypeOK, Rets
      <4>5. ran[r][nonce_] > 0 /\ up
        <5>1. val[r] \in Nonces /\ ran[r][val[r]] = 1
          BY <4>0, <4>4, Zenon DEF IInv, RanInv
        <5>2. val[r] = nonce_
          <6>1. CASE r = 1
            BY <4>1, <4>2, <6>1, Zenon DEF FrontInv
          <6>2. CASE r # 1
            <7>1. ran[r][val[r]] > 0
              BY <5>1
            <7> QED
              BY <4>0, <4>2, <5>1, <6>2, <7>1, Zenon DEF IInv, RanInv
          <6> QED
            BY <6>1, <6>2, Zenon
        <5>3. up
          BY Zenon DEF IInv, JobsInv
        <5> QED
          BY <5>1, <5>2, <5>3
      <4>6. ~IsNew(reply_window_, r)
        BY <4>0, <4>5, Zenon DEF IInv, RanInv
      <4>7. CASE r \in reply_window_
        <5>1. r \in V
          BY <2>1, <4>7 DEF Remember
        <5>2. Lowest(V) <= r /\ Lowest(V) \in Nat
          BY <2>2, <2>3, <5>1, Zenon
        <5> QED
          BY <1>f, <2>1, <5>2
      <4>8. CASE Forgotten(reply_window_, r)
        <5> DEFINE w == Lowest(reply_window_)
        <5>1. reply_window_ # {} /\ r < w
          BY <4>8, Zenon DEF Forgotten
        <5>2. w \in reply_window_ /\ w \in Nat
          BY <2>2, <5>1, LowestIsLeast, Zenon
        <5>3. w \in V
          BY <2>1, <5>1, <5>2 DEF Remember
        <5>4. w = 1 \/ w <= Lowest(xid_rep_window_)
          BY <2>5, <5>1, Zenon DEF FrontInv
        <5>5. Lowest(V) <= w /\ Lowest(V) \in Nat
          BY <2>2, <2>3, <5>3, Zenon
        <5> QED
          BY <1>f, <2>1, <4>0, <5>1, <5>2, <5>4, <5>5
      <4> QED
        BY <4>6, <4>7, <4>8, Zenon DEF IsNew
    <3> QED
      BY <3>1, <3>2, Zenon
  <2> HIDE DEF x, r, V
  <2> QED
    BY <2>4, <2>5, Zenon DEF FrontInv
<1>10. ASSUME NEW j \in jobs, Dispatch(j), ~CheckNew(j)
       PROVE  FrontInv'
  <2>1. UNCHANGED <<xid_, hdr, val, done, bind_done_, srv_nonce_, xid_rep_window_, at, reply_window_,
                  destroy_wait_>>
    BY <1>10, Zenon DEF Dispatch, DispatchOldServer, DispatchSaveConn, CheckInProgress,
                        CheckDone, CheckForgotten, RunHandler, AddReply, SendReply
  <2> QED
    BY <1>1, <2>1, Zenon
<1>11. ASSUME \/ \E m \in requests : GotRequest(m)
              \/ \E c \in Conns, ends \in SUBSET {"client", "server"} : ConnectionLost(c, ends)
              \/ Crash \/ Restart \/ UNCHANGED vars
       PROVE  FrontInv'
  <2>1. /\ UNCHANGED <<xid_, hdr, val, done, bind_done_, srv_nonce_, xid_rep_window_, at, destroy_wait_>>
        /\ reply_window_' = reply_window_ \/ reply_window_' = {}
    BY <1>11, Zenon DEF GotRequest, ConnectionLost, Crash, Restart, vars
  <2> QED
    BY <1>1, <2>1, Zenon
<1>12. CASE Cancel
  <2>1. bind_done_ => done'[1] = done[1]
    BY <1>0, <1>b, <1>12, Zenon DEF Cancel, BindInv, CallsInv
  <2> QED
    BY <1>1, <1>12, <2>1, Zenon DEF Cancel
<1> QED
  BY <1>2, <1>4, <1>6, <1>7, <1>8, <1>9, <1>10, <1>11, <1>12, Zenon DEF Next, CallStep, Deliver

\* Nothing has been answered, sent or remembered at first.
LEMMA OrderInit == Init => AnsweredInv /\ FrontInv
<1> SUFFICES ASSUME Init
             PROVE  AnsweredInv /\ FrontInv
  OBVIOUS
<1>1. \A x \in Xids : x \in Nat /\ x > 0
  BY MaxXidAssumption DEF Xids
<1>2. Lowest({0}) = 0
  BY LowestIsLeast
<1>3. \A x \in Xids : ~(x < Lowest(xid_rep_window_) \/ x \in xid_rep_window_)
  BY <1>1, <1>2 DEF Init
<1>4. AnsweredInv
  BY <1>3, Zenon DEF Init, AnsweredInv
<1>5. FrontInv
  BY <1>1 DEF Init, FrontInv
<1> QED
  BY <1>4, <1>5, Zenon

\* While no call reaches its final deadline, the windows of rpcc and rpcs keep in
\* step (xid_rep, rpc/rpc.cc): the server forgets only what was answered.
THEOREM OrderInvariance ==
    ASSUME ~Timeouts
    PROVE  Spec => [](AnsweredInv /\ FrontInv)
<1>1. IInv /\ AnsweredInv /\ FrontInv /\ [Next]_vars => AnsweredInv' /\ FrontInv'
  BY AnsweredKeeps, FrontKeeps, Zenon
<1> QED
  BY <1>1, OrderInit, Invariance, PTL DEF Spec

\* checkduplicate_and_update (rpc/rpc.cc) answers FORGOTTEN to copies that nobody
\* waits for any more, so no caller is ever told atmostonce_failure for a call that
\* did not run: dispatch in any order, broken connections, restarts and cancel
\* included.  It is not so for a client whose calls may time out.
THEOREM OnlyDuplicatesForgottenHolds ==
    ASSUME ~Timeouts
    PROVE  Spec => []OnlyDuplicatesForgotten
<1>1. AnsweredInv => OnlyDuplicatesForgotten
  BY Zenon DEF AnsweredInv, OnlyDuplicatesForgotten
<1> QED
  BY <1>1, OrderInvariance, PTL

=============================================================================
