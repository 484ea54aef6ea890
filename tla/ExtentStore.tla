----------------------------- MODULE ExtentStore -----------------------------
(***************************************************************************)
(* What the extent server promises yfs_client: a map from inums to typed   *)
(* contents.  create answers an inum that was free; every RPC answers OK;  *)
(* a put to an inum that does not exist is the end of the server.          *)
(***************************************************************************)
EXTENDS Integers, Sequences

CONSTANTS
    IdSpace,     \* 2^31: an extentid_t is taken modulo this number
    Inums,       \* the inums there are
    Types, Ids, Data

VARIABLES extents, alive, reply

vars == <<extents, alive, reply>>

Absent == [type |-> 0, data |-> <<>>]

Extent(id) == IF id % IdSpace \in Inums THEN extents[id % IdSpace] ELSE Absent

Init ==
    /\ \E root \in Inums :
           extents = [i \in Inums |->
               IF i = root THEN [type |-> 1, data |-> <<>>] ELSE Absent]
    /\ alive = TRUE
    /\ reply = <<>>

create(type) ==
    \E i \in Inums :
        /\ reply' = <<"create", i>>
        /\ extents[i] = Absent
        /\ extents' = [extents EXCEPT ![i] = [type |-> type, data |-> <<>>]]
        /\ UNCHANGED alive

put(id, data) ==
    \/ /\ reply' = <<"put", id>>
       /\ Extent(id) # Absent
       /\ extents' = [extents EXCEPT ![id % IdSpace].data = data]
       /\ UNCHANGED alive
    \/ /\ alive' = FALSE
       /\ Extent(id) = Absent
       /\ UNCHANGED <<extents, reply>>

get(id) ==
    /\ reply' = <<"get", id, Extent(id).data>>
    /\ UNCHANGED <<extents, alive>>

getattr(id) ==
    /\ reply' = <<"getattr", id, Extent(id).type, Len(Extent(id).data)>>
    /\ UNCHANGED <<extents, alive>>

remove(id) ==
    /\ reply' = <<"remove", id>>
    /\ extents' = [i \in Inums |-> IF i = id % IdSpace THEN Absent ELSE extents[i]]
    /\ UNCHANGED alive

Next ==
    /\ alive
    /\ \/ \E type \in Types : create(type)
       \/ \E id \in Ids :
              \/ get(id) \/ getattr(id) \/ remove(id)
              \/ \E data \in Data : put(id, data)

Spec == Init /\ [][Next]_vars

=============================================================================
