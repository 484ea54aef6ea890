----------------------------- MODULE FileSystem -----------------------------
(***************************************************************************)
(* What the users of several YFS mounts expect of them: one tree of named  *)
(* files on which every operation happens at once ("the results are        *)
(* consistent with the operations executing in some order", Lab-2.html).   *)
(***************************************************************************)
EXTENDS Integers, Sequences

CONSTANTS
    Inums, Names, Sizes,
    Target       \* what a symbolic link holds

VARIABLES
    entries,     \* the <<directory, name, inum>> of the tree
    node         \* the type and the content of every inum of the tree

vars == <<entries, node>>

T_DIR == 1
T_FILE == 2
T_SYMLINK == 3

Init ==
    /\ entries = {}
    /\ node = [i \in {1} |-> [type |-> T_DIR, data |-> <<>>]]

Create(dir, name, ino, type) ==
    /\ dir \in DOMAIN node /\ node[dir].type = T_DIR
    /\ ino \notin DOMAIN node
    /\ \A e \in entries : <<e[1], e[2]>> # <<dir, name>>
    /\ entries' = entries \cup {<<dir, name, ino>>}
    /\ node' = [i \in DOMAIN node \cup {ino} |->
                   IF i # ino THEN node[i]
                   ELSE [type |-> type,
                         data |-> IF type = T_SYMLINK THEN Target ELSE <<>>]]

Unlink(e) ==
    /\ node[e[3]].type # T_DIR
    /\ entries' = entries \ {e}
    /\ node' = [i \in DOMAIN node \ {e[3]} |-> node[i]]

SetData(ino, data) ==
    /\ node' = [node EXCEPT ![ino].data = data]
    /\ UNCHANGED entries

\* Nothing but the written byte changes; a hole is filled with zeros.
Write(ino, off) ==
    LET old == node[ino].data
        end == IF off < Len(old) THEN Len(old) ELSE off + 1
    IN  SetData(ino, [p \in 1 .. end |-> IF p = off + 1 THEN 1
                                         ELSE IF p <= Len(old) THEN old[p] ELSE 0])

SetSize(ino, size) ==
    LET old == node[ino].data
    IN  SetData(ino, [p \in 1 .. size |-> IF p <= Len(old) THEN old[p] ELSE 0])

Next ==
    \/ \E dir, ino \in Inums, name \in Names, type \in {T_DIR, T_FILE, T_SYMLINK} :
           Create(dir, name, ino, type)
    \/ \E e \in entries : Unlink(e)
    \/ \E ino \in DOMAIN node, n \in Sizes :
           node[ino].type = T_FILE /\ (Write(ino, n) \/ SetSize(ino, n))

Spec == Init /\ [][Next]_vars

=============================================================================
