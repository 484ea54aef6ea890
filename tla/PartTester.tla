----------------------------- MODULE PartTester -----------------------------
(***************************************************************************)
(* LockServer among the smaller components (MCParts), with a tester that   *)
(* begins with test1, and what is checked and proved of it there.          *)
(***************************************************************************)
CONSTANTS Main, Runners, Rounds, Workers, MaxJobs

VARIABLES lock_pool, at, rpc, jobq, ct, error

L == INSTANCE LockServer WITH Threads <- Runners, Warm <- TRUE, Pool <- Workers

\* See LockServer: lock_tester never finds a lock granted twice.
GrantedOnce == L!GrantedOnce

=============================================================================
