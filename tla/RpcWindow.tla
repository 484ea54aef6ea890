------------------------------ MODULE RpcWindow ------------------------------
(***************************************************************************)
(* The two windows of the RPC library, as sets of xids: xid_rep_window_ of *)
(* rpcc (the replies received) and the list of one client in               *)
(* reply_window_ of rpcs (the requests remembered).  The code keeps sorted *)
(* lists, whose front is the lowest xid; see RpcLists.                     *)
(***************************************************************************)
EXTENDS Integers

\* front() of a sorted list.
Lowest(S) == CHOOSE x \in S : \A y \in S : x <= y

\* Mutant: the latest reply becomes the front.
UpdateXidRepLatest(S, x) ==
    LET T == S \cup {x}
    IN  IF x <= Lowest(S) THEN S ELSE {y \in T : y >= x}

\* rpcc::update_xid_rep: x is added, and then every xid below the end of the
\* run of consecutive xids at the front is dropped.
UpdateXidRep(S, x) ==
    LET T == S \cup {x}
    IN  IF x <= Lowest(S) THEN S
        ELSE {y \in T : \A z \in T : Lowest(T)..z \subseteq T => z <= y}

\* rpcs::checkduplicate_and_update: an xid that is not remembered is FORGOTTEN
\* when it is below all that are, and NEW otherwise.
Forgotten(S, x) == x \notin S /\ S # {} /\ x < Lowest(S)

\* Mutant: what is not remembered is new.
IsNewUnseen(S, x) == x \notin S

IsNew(S, x) == x \notin S /\ ~Forgotten(S, x)

\* Mutant: xid_rep itself is forgotten too.
RememberAbove(S, x, xid_rep) == {y \in S \cup {x} : y > xid_rep}

\* A NEW xid is remembered, and those below xid_rep are forgotten.
Remember(S, x, xid_rep) == {y \in S \cup {x} : y >= xid_rep}

=============================================================================
