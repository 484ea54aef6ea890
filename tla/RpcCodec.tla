------------------------------ MODULE RpcCodec ------------------------------
(***************************************************************************)
(* The path of the arguments of an RPC and of its result: call() of rpc.h  *)
(* marshals the arguments, dispatch unpacks the header, the handler object *)
(* of reg() reads them as the types it was declared with, and call_m reads *)
(* the reply.  Nothing compares the types of the two ends but okdone.      *)
(***************************************************************************)
EXTENDS Marshall

CONSTANTS
    Rpcs,        \* the RPCs that are called
    Words,       \* values of the header's fields
    Rets         \* what handlers return

\* The types of the calls (extent_client.cc, lock_client_cache.cc, lock_client.cc,
\* lock_server_cache.cc) and of the handlers that are registered for them
\* (extent_smain.cc, lock_smain.cc, lock_client_cache.cc, demo_server.cc).  The id()
\* of an rpcc is an unsigned int that fits an int: random() made it.  "others" has
\* the types that the library marshals and no protocol of the repository uses.
Call == [
    create  |-> [args |-> <<"uint">>,           r |-> "ull"],
    put     |-> [args |-> <<"ull", "string">>,  r |-> "int"],
    get     |-> [args |-> <<"ull">>,            r |-> "string"],
    getattr |-> [args |-> <<"ull">>,            r |-> "attr"],
    remove  |-> [args |-> <<"ull">>,            r |-> "int"],
    acquire |-> [args |-> <<"ull", "string">>,  r |-> "int"],
    release |-> [args |-> <<"ull", "string">>,  r |-> "int"],
    revoke  |-> [args |-> <<"ull">>,            r |-> "int"],
    retry   |-> [args |-> <<"ull">>,            r |-> "int"],
    bind    |-> [args |-> <<"int">>,            r |-> "int"],
    stat    |-> [args |-> <<"int", "ull">>,     r |-> "int"],
    demo    |-> [args |-> <<"int", "ull">>,     r |-> "int"],
    others  |-> [args |-> <<"bool", "uchar", "char", "ushort", "short", "vector">>, r |-> "map"]]

Handler == [Call EXCEPT !.stat.args = <<"ull">>]

\* Values at the edges of each type.
Values == [
    bool   |-> {0, 1},
    uchar  |-> {BYTE \div 2},
    char   |-> {- BYTE \div 2, BYTE \div 2 - 1},
    ushort |-> {BYTE ^ 2 - 1},
    short  |-> {- (BYTE ^ 2) \div 2, -1},
    uint   |-> {0, BYTE ^ Word - 1, BYTE ^ Word \div 2},
    int    |-> {- (BYTE ^ Word) \div 2, -1, 5},
    ull    |-> {0, BYTE ^ Word, BYTE ^ (2 * Word) - 1},
    string |-> {<<>>, <<BYTE - 1>>, [i \in 1 .. 5 |-> i % BYTE], [i \in 1 .. 40 |-> 0]},
    attr   |-> {<<1, 2, BYTE ^ Word - 1, BYTE ^ Word \div 2, 0>>},
    vector |-> {<<>>, <<1, BYTE ^ Word - 1>>},
    map    |-> {<<>>, <<<<1, 0>>, <<2, BYTE ^ Word - 1>>>>}]

VARIABLES
    pc, rpc,
    vals,        \* the arguments
    fields,      \* the fields of the header that is sent
    m,           \* the request, then the reply, being marshalled
    got,         \* what the other end has read
    ret          \* what the handler returns, and its result

vars == <<pc, rpc, vals, fields, m, got, ret>>

Init ==
    /\ pc = "call"
    /\ rpc \in Rpcs
    /\ vals = <<>> /\ fields = <<>> /\ got = <<>> /\ ret = <<>>
    /\ m = NewMarshall

\* call: m << a1; m << a2; ...
Marshal ==
    /\ pc = "call"
    /\ Len(vals) < Len(Call[rpc].args)
    /\ LET type == Call[rpc].args[Len(vals) + 1] IN
        \E x \in Values[type] : vals' = Append(vals, x) /\ m' = Put(m, type, x)
    /\ UNCHANGED <<pc, rpc, fields, got, ret>>

\* call1 packs the header; the fields are ints.
Send ==
    /\ pc = "call"
    /\ Len(vals) = Len(Call[rpc].args)
    /\ \E xid \in Words, rep \in Words : fields' = <<xid, 1, xid, rep, rep>>
    /\ m' = pack_header(m, fields')
    /\ pc' = "dispatch"
    /\ UNCHANGED <<rpc, vals, got, ret>>

\* take_buf, or cstr and size: the bytes up to the write head are sent.
Received == NewUnmarshall(SubSeq(m.buf, 1, m.ind))

\* dispatch unpacks the header, and fn of the handler the arguments; a handler
\* that cannot read them ends the server with VERIFY(0).
Dispatch ==
    LET head == unpack_header(Received, 5)
        args == GetAll(head.u, Handler[rpc].args)
    IN  /\ pc = "dispatch"
        /\ got' = <<head.x, args.x>>
        /\ pc' = IF okdone(args.u) THEN "handler" ELSE "abort"
        /\ m' = NewMarshall
        /\ UNCHANGED <<rpc, vals, fields, ret>>

\* The handler returns: ret << r, then the header, for which the return value is
\* not negative (VERIFY).
Return ==
    /\ pc = "handler"
    /\ \E x \in Values[Handler[rpc].r], b \in Rets :
          /\ ret' = <<b, x>>
          /\ m' = pack_header(Put(m, Handler[rpc].r, x), <<fields[1], b>>)
    /\ pc' = "reply"
    /\ UNCHANGED <<rpc, vals, fields, got>>

\* dispatch answers without calling the handler, and without a result:
\* oldsrv_failure, atmostonce_failure.
Refuse ==
    /\ pc = "dispatch"
    /\ \E b \in {-5, -4} :
          /\ ret' = <<b>>
          /\ m' = pack_header(NewMarshall, <<fields[1], b>>)
    /\ pc' = "reply"
    /\ UNCHANGED <<rpc, vals, fields, got>>

ToInt(x) == IF x < BYTE ^ Word \div 2 THEN x ELSE x - BYTE ^ Word

\* got_pdu unpacks the header and hands the rest over with take_in; call_m reads
\* the result if the return value is not negative, and fails on VERIFY(0) if the
\* reply is not just that.
Replied ==
    LET head == unpack_header(Received, 2)
        intret == ToInt(head.x[2])
        g == Get(take_in(head.u), Call[rpc].r)
    IN  /\ pc = "reply"
        /\ got' = IF intret < 0 THEN <<intret>> ELSE <<intret, g.x>>
        /\ pc' = IF intret < 0 \/ okdone(g.u) THEN "done" ELSE "abort"
        /\ UNCHANGED <<rpc, vals, fields, m, ret>>

Next == Marshal \/ Send \/ Dispatch \/ Return \/ Refuse \/ Replied

Spec == Init /\ [][Next]_vars

-----------------------------------------------------------------------------

\* The handler is called with the values that the caller gave, whatever their
\* signs, lengths and leading bytes, and dispatch sees the header of call1.
ArgsArrive == pc = "handler" => got = <<fields, vals>>

\* The caller gets what the handler returned, its result included.
ReplyArrives == pc = "done" => got = ret

\* No message is written beyond the capacity of its buffer.
WithinBuffer == Len(m.buf) <= m.capa

\* Both ends agree on the types: no VERIFY fails.  ("lock_demo asks the server
\* for the number of times a particular lock has been acquired, using the stat
\* RPC", Lab-2.html:262.)
NoAbort == pc # "abort"

\* Values and results cross the wire unchanged, within the buffers, and no end
\* aborts on them.
MessagesArrive == ArgsArrive /\ ReplyArrives /\ NoAbort /\ WithinBuffer

=============================================================================
