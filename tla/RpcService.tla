----------------------------- MODULE RpcService -----------------------------
(***************************************************************************)
(* What the RPC library promises its callers ("exactly-once guarantee",    *)
(* Lab3.html:8): a call runs its handler at most once, and has run it when *)
(* it returns a reply.  A call that fails may have run, or run later.      *)
(***************************************************************************)
EXTENDS Naturals

CONSTANT Calls

VARIABLES status, runs

Init ==
    /\ status = [x \in Calls |-> "none"]
    /\ runs = [x \in Calls |-> 0]

Call(x) ==
    /\ status[x] = "none"
    /\ status' = [status EXCEPT ![x] = "pending"]
    /\ UNCHANGED runs

\* The handler runs, though the caller may have given up on it.
Execute(x) ==
    /\ status[x] # "none"
    /\ runs[x] = 0
    /\ runs' = [runs EXCEPT ![x] = 1]
    /\ UNCHANGED status

ReturnReply(x) ==
    /\ status[x] = "pending"
    /\ runs[x] = 1
    /\ status' = [status EXCEPT ![x] = "replied"]
    /\ UNCHANGED runs

Fail(x) ==
    /\ status[x] = "pending"
    /\ status' = [status EXCEPT ![x] = "failed"]
    /\ UNCHANGED runs

Next == \E x \in Calls : Call(x) \/ Execute(x) \/ ReturnReply(x) \/ Fail(x)

Spec == Init /\ [][Next]_<<status, runs>>

=============================================================================
