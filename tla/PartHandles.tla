---------------------------- MODULE PartHandles ----------------------------
(***************************************************************************)
(* HandleMgr among the smaller components (MCParts), and what is checked   *)
(* and proved of it there.  In the part "deleted" the threads also call    *)
(* delete_handle.                                                          *)
(***************************************************************************)
CONSTANTS Users, Dests, Deletes, MaxInfos

VARIABLES part, hmap, info, th

H == INSTANCE HandleMgr WITH Threads <- Users

\* See HandleMgr: reference counts are exact, nobody has a freed entry, and the
\* mark of a failed bind goes with the last handle.
EntriesLive == H!EntriesLive

\* See HandleMgr: a safebind after one that succeeded succeeds, while nobody
\* calls delete_handle.
SafebindKeeps == part # "deleted" => H!SafebindKeeps

=============================================================================
