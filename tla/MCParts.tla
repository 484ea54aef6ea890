------------------------------ MODULE MCParts ------------------------------
(***************************************************************************)
(* The smaller components, none of which shares state with another: a      *)
(* behaviour is one of the component that part names, and the others rest, *)
(* in states in which nothing of theirs has to go on.  Fifo is extended,   *)
(* the others are instances.                                               *)
(***************************************************************************)
EXTENDS Fifo, PartHandles, PartTester, PartPool

CONSTANTS
    MaxXid, MaxLength,                                   \* RpcLists
    BYTE, DEFAULT_RPC_SZ, Rpcs, Words, Rets              \* RpcCodec

VARIABLES
    xid_rep_window_, rep_set, reported, reply_window_, reply_set,
    cpc, crpc, vals, fields, m, got, ret

listVars == <<xid_rep_window_, rep_set, reported, reply_window_, reply_set>>
codecVars == <<cpc, crpc, vals, fields, m, got, ret>>
handleVars == <<hmap, info, th>>
testVars == <<lock_pool, at, rpc, jobq, ct, error>>
poolVars == <<lock, cache, call>>

Lists == INSTANCE RpcLists
Codec == INSTANCE RpcCodec WITH pc <- cpc, rpc <- crpc
Deleted == INSTANCE HandleMgr WITH Threads <- Users, Deletes <- TRUE, MaxInfos <- 2
Lost == INSTANCE LockPool WITH Pool <- 2, BindFails <- TRUE, Clients <- 1 .. 3, Locks <- {11}

ASSUME ByteAssumption == Codec!EvenByte
ASSUME ClientAssumption == P!ClientIds

Off ==
    /\ size = 0
    /\ pc = [t \in All |-> "off"]

Ended ==
    /\ lock_pool = [lid \in L!Locks |-> "FREE"]
    /\ at = [t \in L!Testers |-> Len(L!Test(t)) + 1]
    /\ rpc = [t \in L!Testers |-> "none"]
    /\ jobq = <<>>
    /\ ct = [lid \in L!Locks |-> 0]
    /\ error = FALSE

Silent ==
    /\ cpc = "none" /\ crpc = "none"
    /\ vals = <<>> /\ fields = <<>> /\ got = <<>> /\ ret = <<>>
    /\ m = Codec!NewMarshall

MCInit ==
    /\ part \in {"fifo", "lists", "codec", "handles", "deleted", "lab2", "lab3", "lost"}
    /\ IF part = "fifo" THEN Init ELSE Off
    /\ Lists!Init
    /\ IF part = "codec" THEN Codec!Init ELSE Silent
    /\ IF part = "deleted" THEN Deleted!Init ELSE H!Init
    /\ IF part = "lab2" THEN L!Init ELSE Ended
    /\ IF part = "lost" THEN Lost!Init ELSE P!Init

MCNext ==
    /\ UNCHANGED part
    /\ \/ /\ part = "fifo" /\ Next
          /\ UNCHANGED <<listVars, codecVars, handleVars, testVars, poolVars>>
       \/ /\ part = "lists" /\ Lists!Next
          /\ UNCHANGED <<vars, codecVars, handleVars, testVars, poolVars>>
       \/ /\ part = "codec" /\ Codec!Next
          /\ UNCHANGED <<vars, listVars, handleVars, testVars, poolVars>>
       \/ /\ part = "handles" /\ H!Next
          /\ UNCHANGED <<vars, listVars, codecVars, testVars, poolVars>>
       \/ /\ part = "deleted" /\ Deleted!Next
          /\ UNCHANGED <<vars, listVars, codecVars, testVars, poolVars>>
       \/ /\ part = "lab2" /\ L!Next
          /\ UNCHANGED <<vars, listVars, codecVars, handleVars, poolVars>>
       \/ /\ part = "lab3" /\ P!Next
          /\ UNCHANGED <<vars, listVars, codecVars, handleVars, testVars>>
       \/ /\ part = "lost" /\ Lost!Next
          /\ UNCHANGED <<vars, listVars, codecVars, handleVars, testVars>>

\* What rests has no fair step that it could take.
MCSpec ==
    /\ MCInit
    /\ [][MCNext]_<<part, vars, listVars, codecVars, handleVars, testVars, poolVars>>
    /\ Fairness /\ H!Fairness /\ L!Fairness

-----------------------------------------------------------------------------

\* See RpcLists: the lists hold the sets of RpcWindow, and xid_rep is the end of
\* the run of replies from the first on.
ListsExact == Lists!ListsExact

\* See RpcCodec: arguments, header, return value and result arrive as they were
\* sent, within the buffers, and no VERIFY on the types of a message fails, with
\* any RPC but stat.
MessagesArrive == Codec!MessagesArrive

\* See HandleMgr: every handle is given back.
HandleDone == H!HandleDone

\* See LockServer: lock_tester ends.
TesterEnds == L!TesterEnds

\* See LockPool: the clients of the locks stop only when every thread of the pool
\* waits for a release, if no bind fails.
StopsOnlyFull == part = "lab3" => P!StopsOnlyFull

=============================================================================
