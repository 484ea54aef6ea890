---------------------------- MODULE PartThreads ----------------------------
(***************************************************************************)
(* ExtentThreads beside the extent server that takes one RPC at a time     *)
(* (MCExtents), and what is checked and proved of it there.                *)
(***************************************************************************)
EXTENDS Integers, FiniteSets, Sequences

CONSTANTS Threads, ThreadInodes, Blocks, MaxBlocks

VARIABLES inodes, used, disk, th, file, grants, raced

Side == INSTANCE ExtentThreads WITH INODE_NUM <- ThreadInodes

\* There is an inum for the root, and the disk has room for every file.
ASSUME DiskAssumption ==
    /\ ThreadInodes \in Nat /\ ThreadInodes > 1
    /\ MaxBlocks \in Nat
    /\ Side!EnoughBlocks

\* See ExtentThreads: nothing but two creates, two of put and remove, or a get of
\* what is being removed, does harm side by side.
OnlyRacesDamage == Side!OnlyRacesDamage

=============================================================================
