------------------------------ MODULE PartPool ------------------------------
(***************************************************************************)
(* LockPool among the smaller components (MCParts), and what is checked    *)
(* and proved of it there.                                                 *)
(***************************************************************************)
CONSTANTS Clients, Lids, Pool, BindFails

VARIABLES lock, cache, call

P == INSTANCE LockPool WITH Locks <- Lids

\* See LockPool: a lock has one owner, also when revokes and retries are lost.
OneOwner == P!OneOwner

=============================================================================
