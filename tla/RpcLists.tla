------------------------------ MODULE RpcLists ------------------------------
(***************************************************************************)
(* The list code behind RpcWindow: update_xid_rep on xid_rep_window_, and  *)
(* the search, insertion and deletion of checkduplicate_and_update on the  *)
(* list of one client, called with any xids in any order.  The set that    *)
(* RpcWindow computes from the same calls is carried along.                *)
(***************************************************************************)
EXTENDS RpcWindow, Sequences, SequencesExt

CONSTANTS
    MaxXid,     \* bound: xids used
    MaxLength   \* bound: length of the lists

Xids == 1..MaxXid

VARIABLES
    xid_rep_window_,   \* std::list<unsigned int>, may hold an xid twice
    rep_set,           \* the same by RpcWindow
    reported,          \* every xid given to update_xid_rep
    reply_window_,     \* the xids of std::list<reply_t>
    reply_set          \* the same by RpcWindow

vars == <<xid_rep_window_, rep_set, reported, reply_window_, reply_set>>

Init ==
    /\ xid_rep_window_ = <<0>>
    /\ rep_set = {0}
    /\ reported = {}
    /\ reply_window_ = <<>>
    /\ reply_set = {}

\* Both lists: insert before the first larger element, or at the end.
Insert(w, x) ==
    LET larger == {i \in 1..Len(w) : w[i] > x}
    IN  IF larger = {} THEN Append(w, x) ELSE InsertAt(w, Lowest(larger), x)

\* Mutant: "if" instead of "while".
RECURSIVE CompressOnce(_, _)
CompressOnce(w, it) ==
    IF it > Len(w) THEN w
    ELSE IF w[1] + 1 = w[it] THEN CompressOnce(Tail(w), it)
    ELSE CompressOnce(w, it + 1)

\* "compress:" it walks on, and the front is popped while *it follows it.
RECURSIVE Compress(_, _)
Compress(w, it) ==
    IF it > Len(w) THEN w
    ELSE IF w[1] + 1 = w[it] THEN Compress(Tail(w), it - 1)
    ELSE Compress(w, it + 1)

UpdateList(w, x) == IF x <= w[1] THEN w ELSE Compress(Insert(w, x), 2)

\* "delete old ones": up to the first element that is not below xid_rep.
EraseOld(w, xid_rep) ==
    LET kept == {i \in 1..Len(w) : w[i] >= xid_rep}
    IN  IF kept = {} THEN <<>> ELSE SubSeq(w, Lowest(kept), Len(w))

Update(x) ==
    /\ Len(xid_rep_window_) < MaxLength
    /\ xid_rep_window_' = UpdateList(xid_rep_window_, x)
    /\ rep_set' = UpdateXidRep(rep_set, x)
    /\ reported' = reported \cup {x}
    /\ UNCHANGED <<reply_window_, reply_set>>

\* A request with an xid that is not in the list and not FORGOTTEN.
CheckNew(x, xid_rep) ==
    /\ \A i \in 1..Len(reply_window_) : reply_window_[i] # x
    /\ ~(Len(reply_window_) > 0 /\ x < reply_window_[1])
    /\ reply_window_' = EraseOld(Insert(reply_window_, x), xid_rep)
    /\ reply_set' = Remember(reply_set, x, xid_rep)
    /\ UNCHANGED <<xid_rep_window_, rep_set, reported>>

Next ==
    \/ \E x \in Xids : Update(x)
    \/ \E x \in Xids, xid_rep \in 0..MaxXid : xid_rep < x /\ CheckNew(x, xid_rep)

Spec == Init /\ [][Next]_vars

Sorted(w) == \A i, j \in 1..Len(w) : i < j => w[i] <= w[j]

\* The lists are sorted and hold what RpcWindow says, duplicates aside; in
\* reply_window_ there are none.  So a search finds what it should, and the
\* tests against front() mean what RpcWindow says they mean.
ListsHoldSets ==
    /\ Sorted(xid_rep_window_) /\ ToSet(xid_rep_window_) = rep_set
    /\ Sorted(reply_window_) /\ ToSet(reply_window_) = reply_set
    /\ Len(reply_window_) = Cardinality(reply_set)

\* "the client says it has received a reply for every RPC up through xid_rep"
\* (rpc/rpc.cc:650), and says it as soon as it can, however often and in
\* whatever order update_xid_rep was told of the replies.
FrontIsExact ==
    LET front == xid_rep_window_[1]
    IN  /\ 1..front \subseteq reported
        /\ front + 1 \notin reported

\* The list code computes the windows that Rpc works with.
ListsExact == ListsHoldSets /\ FrontIsExact

=============================================================================
