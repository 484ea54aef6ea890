---------------------------- MODULE MCLockCache ----------------------------
(***************************************************************************)
(* Small instances of LockCache: how many clients, and which threads run   *)
(* in which client.                                                        *)
(***************************************************************************)
EXTENDS LockCache

\* Two clients, one of which has two threads.
Home21 == <<1, 1, 2>>

\* Three clients, so that several wait while the lock is being revoked.
Home221 == <<1, 1, 2, 2, 3>>

=============================================================================
