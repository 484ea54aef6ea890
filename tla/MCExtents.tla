----------------------------- MODULE MCExtents -----------------------------
(***************************************************************************)
(* The extent server, checked in two views that share no state: a          *)
(* behaviour is one of ExtentServer, RPC by RPC, or one of ExtentThreads,  *)
(* disk access by disk access.  OnlyRacesDamage asks nothing once RPCs     *)
(* have raced, so what follows is not explored.                            *)
(***************************************************************************)
EXTENDS ExtentServer, PartThreads

VARIABLE view

sideVars == <<inodes, used, disk, th, file, grants, raced>>

MCInit == Init /\ Side!Init /\ view \in {"rpcs", "threads"}

MCNext ==
    \/ view = "rpcs" /\ Next /\ UNCHANGED <<sideVars, view>>
    \/ view = "threads" /\ ~ raced /\ Side!Next /\ UNCHANGED <<vars, view>>

MCSpec == MCInit /\ [][MCNext]_<<vars, sideVars, view>>

=============================================================================
