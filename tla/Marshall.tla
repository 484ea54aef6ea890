------------------------------ MODULE Marshall ------------------------------
(***************************************************************************)
(* The wire format of rpc/marshall.h: what marshall and unmarshall do with *)
(* the bytes of a message.  A marshall is its buffer with the write head   *)
(* at ind; an unmarshall reads from ind on and remembers in ok whether it  *)
(* ever ran out of bytes.                                                  *)
(***************************************************************************)
EXTENDS Integers, Sequences, SequencesExt

CONSTANTS
    BYTE,            \* the values of a byte (256 in the code)
    DEFAULT_RPC_SZ   \* the first capacity of a buffer (1024 in the code)

EvenByte == BYTE \in Nat /\ BYTE % 2 = 0 /\ BYTE > 0

Word == 4                              \* bytes of an int
RPC_HEADER_SZ == 5 * Word + Word       \* a req_header and the size of the pdu

Width == [bool |-> 1, uchar |-> 1, char |-> 1, ushort |-> 2, short |-> 2,
          uint |-> Word, int |-> Word, ull |-> 2 * Word]
Signed == {"char", "short", "int"}

-----------------------------------------------------------------------------
(* marshall                                                                *)

NewMarshall == [buf |-> [i \in 1 .. RPC_HEADER_SZ |-> 0],
                capa |-> DEFAULT_RPC_SZ, ind |-> RPC_HEADER_SZ]

rawbyte(m, x) ==
    [buf  |-> IF m.ind < Len(m.buf) THEN [m.buf EXCEPT ![m.ind + 1] = x] ELSE Append(m.buf, x),
     capa |-> IF m.ind >= m.capa THEN 2 * m.capa ELSE m.capa,
     ind  |-> m.ind + 1]

rawbytes(m, s) ==
    LET n == Len(s) IN
    [buf  |-> m.buf \o s,
     capa |-> IF m.ind + n <= m.capa THEN m.capa
              ELSE IF m.capa > n THEN 2 * m.capa ELSE m.capa + n,
     ind  |-> m.ind + n]

\* The bytes of a number, the highest first; a negative one in two's complement.
BigEndian(x, n) == [i \in 1 .. n |-> (x \div BYTE ^ (n - i)) % BYTE]

PutNumber(m, x, n) == FoldLeft(rawbyte, m, BigEndian(x, n))
PutNumbers(m, xs) == FoldLeft(LAMBDA p, x : PutNumber(p, x, Word), m, xs)

\* operator<<: numbers, strings, the attr of extent_protocol.h (five words),
\* vectors and maps of words (an entry is a key and a value).
Put(m, type, x) ==
    CASE type \in DOMAIN Width -> PutNumber(m, x, Width[type])
      [] type = "string"       -> rawbytes(PutNumber(m, Len(x), Word), x)
      [] type = "attr"         -> PutNumbers(m, x)
      [] type = "vector"       -> PutNumbers(PutNumber(m, Len(x), Word), x)
      [] type = "map"          -> PutNumbers(PutNumber(m, Len(x), Word), FlattenSeq(x))

\* pack_req_header and pack_reply_header: the fields go behind the size of the
\* pdu, and the write head returns to where it was.
pack_header(m, fields) == [PutNumbers([m EXCEPT !.ind = Word], fields) EXCEPT !.ind = m.ind]

-----------------------------------------------------------------------------
(* unmarshall                                                              *)

NewUnmarshall(buf) == [buf |-> buf, ind |-> 0, ok |-> TRUE]

\* What rawbyte() answers: a char, which is signed, turned to an unsigned int.
Extended(c) == IF c < BYTE \div 2 THEN c ELSE BYTE ^ Word - BYTE + c

Byte(u, i) == IF u.ind + i <= Len(u.buf) THEN Extended(u.buf[u.ind + i]) ELSE 0

Skip(u, n) == [u EXCEPT !.ind = IF u.ind + n <= Len(u.buf) THEN u.ind + n ELSE Len(u.buf),
                        !.ok  = u.ok /\ u.ind + n <= Len(u.buf)]

\* n bytes, each masked with 0xff.
Masked(u, n) == FoldLeftDomain(LAMBDA x, i : x * BYTE + (Byte(u, i) % BYTE), 0, [i \in 1 .. n |-> 0])

\* Mutant: a signed number is not given its sign.
NumberUnsigned(u, type) == Masked(u, Width[type])

\* operator>> of a number.
Number(u, type) ==
    LET n == Width[type]
        x == Masked(u, n)
    IN  CASE type = "bool"     -> IF Byte(u, 1) # 0 THEN 1 ELSE 0
          [] type \in Signed   -> IF x < BYTE ^ n \div 2 THEN x ELSE x - BYTE ^ n
          [] OTHER             -> x

GetNumbers(u, n) ==
    [x |-> [i \in 1 .. n |-> Masked(Skip(u, Word * (i - 1)), Word)], u |-> Skip(u, Word * n)]

\* rawbytes(s, n): the sum is an unsigned int.
GetBytes(u, n) ==
    IF ~ u.ok \/ (u.ind + n) % BYTE ^ Word > Len(u.buf)
    THEN [x |-> <<>>, u |-> [u EXCEPT !.ok = FALSE]]
    ELSE [x |-> SubSeq(u.buf, u.ind + 1, u.ind + n), u |-> [u EXCEPT !.ind = @ + n]]

Get(u, type) ==
    LET n == Masked(u, Word)
        rest == Skip(u, Word)
    IN  CASE type \in DOMAIN Width -> [x |-> Number(u, type), u |-> Skip(u, Width[type])]
          [] type = "string"       -> GetBytes(rest, n)
          [] type = "attr"         -> GetNumbers(u, 5)
          [] type = "vector"       -> GetNumbers(rest, n)
          [] type = "map"          -> LET g == GetNumbers(rest, 2 * n) IN
                 [g EXCEPT !.x = [i \in 1 .. n |-> <<g.x[2 * i - 1], g.x[2 * i]>>]]

\* The arguments of a handler, one operator>> after the other.
GetAll(u, types) ==
    FoldLeft(LAMBDA r, type : LET g == Get(r.u, type) IN [x |-> Append(r.x, g.x), u |-> g.u],
             [x |-> <<>>, u |-> u], types)

\* unpack_req_header and unpack_reply_header.
unpack_header(u, n) ==
    LET g == GetNumbers([u EXCEPT !.ind = Word], n)
    IN  [x |-> g.x, u |-> [g.u EXCEPT !.ind = RPC_HEADER_SZ]]

\* unmarshall::take_in
take_in(u) == [u EXCEPT !.ind = RPC_HEADER_SZ, !.ok = Len(u.buf) >= RPC_HEADER_SZ]

okdone(u) == u.ok /\ u.ind = Len(u.buf)

=============================================================================
