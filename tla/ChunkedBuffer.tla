---------------------------- MODULE ChunkedBuffer ----------------------------
(***************************************************************************)
(* The chunked buffers of src/bolt/buffer.c on the paths the session uses *)
(* them (spec.md 3): bytes from the socket fill read_buf                   *)
(* (buffer_socket_read), are copied into msg_buf (buffer_read) and decoded *)
(* from it with scalar reads (buffer_read_uintN); replies are written into *)
(* write_buf (buffer_write, buffer_write_uintN) and drained to the socket  *)
(* (buffer_socket_write) before its write cursor is rewound.               *)
(*                                                                         *)
(* A chunk is a function from the offsets 0..BUFFER_CHUNK_SIZE-1 to byte   *)
(* values; an index is a record [chunk, offset] as buffer_index_t.  Every  *)
(* byte entering a buffer is a fresh value (its arrival number), so a read *)
(* returns the right byte exactly when it returns the right value.         *)
(***************************************************************************)
EXTENDS Integers, Sequences, SequencesExt

CONSTANTS
    BUFFER_CHUNK_SIZE,  \* bytes per chunk (buffer.h; 4096 in the build)
    ScalarSizes,        \* widths of the buffer_read_uintN calls
    WriteSizes,         \* sizes of the buffer_write(_uintN) calls
    MaxBytes            \* bytes the socket delivers, and bytes written

ASSUME BUFFER_CHUNK_SIZE \in Nat \ {0} /\ MaxBytes \in Nat
ASSUME ScalarSizes \subseteq {1, 2, 4, 8} /\ WriteSizes \subseteq Nat \ {0}

C == BUFFER_CHUNK_SIZE
Bufs == {"read_buf", "msg_buf", "write_buf"}

\* a byte no write put there: the contents of a fresh rm_malloc chunk, or
\* memory past the end of a chunk
Junk == 0
Vals == 0..MaxBytes

VARIABLES
    chunks,     \* chunks[b]: buf->chunks, a sequence of chunks
    rd,         \* rd[b]: buf->read
    wr,         \* wr[b]: buf->write
    received,   \* bytes the socket has delivered into read_buf
    written,    \* bytes written into write_buf
    peer,       \* the socket: "open", "eof" after the peer closed, "error"
    sockRet,    \* the result of the last buffer_socket_read (TRUE before one)
    lastRead,   \* the cursor and the bytes of the last scalar read
    wire        \* bytes buffer_socket_write put on the socket

vars == << chunks, rd, wr, received, written, peer, sockRet, lastRead, wire >>

-----------------------------------------------------------------------------
(* Indexes                                                                 *)

Idx(c, o) == [chunk |-> c, offset |-> o]
Flat(i) == i.chunk * C + i.offset

\* buffer_index: the index `offset` bytes from the start
buffer_index(offset) == Idx(offset \div C, offset % C)

(* A mutation used to show that TypeOK can fail: the normalisation of   *)
(* buffer_index_add dropped.                                              *)
BufferIndexAddNoWrap(i, n) == Idx(i.chunk, i.offset + n)

\* buffer_index_add: normalises only when the offset passes the chunk
\* size, so an index can rest at (c, BUFFER_CHUNK_SIZE)
buffer_index_add(i, n) ==
    IF i.offset + n > C THEN Idx(i.chunk + (i.offset + n) \div C, (i.offset + n) % C)
    ELSE Idx(i.chunk, i.offset + n)

NewChunk == [o \in 0..C - 1 |-> Junk]

\* memcpy of `data` into the chunk of index i at its offset (within it)
Put(cs, i, data) ==
    IF data = << >> THEN cs
    ELSE [cs EXCEPT ![i.chunk + 1] =
            [o \in 0..C - 1 |-> IF i.offset <= o /\ o < i.offset + Len(data)
                                THEN data[o - i.offset + 1] ELSE @[o]]]

\* the n bytes at index i, read contiguously from its chunk as
\* buffer_index_read's pointer does: past the chunk's end lies other memory
Contiguous(cs, i, n) ==
    [k \in 1..n |-> IF i.offset + k - 1 < C THEN cs[i.chunk + 1][i.offset + k - 1]
                    ELSE Junk]

\* the n bytes starting at the byte after `from` (fresh values)
Fresh(from, n) == [k \in 1..n |-> from + k]

\* the content of buffer b as a flat sequence: every byte before its
\* write cursor
ByteAt(cs, p) == cs[p \div C + 1][p % C]
Content(b) == [k \in 1..Flat(wr[b]) |-> ByteAt(chunks[b], k - 1)]

-----------------------------------------------------------------------------
(* The loops of buffer.c, as recursive operators over (chunks, index)       *)

\* buffer_write: fill the rest of the chunk, move to the next one
\* (allocating it if needed), then copy what is left
RECURSIVE buffer_write(_, _, _)
buffer_write(cs, i, data) ==
    IF i.offset + Len(data) > C
    THEN LET first == C - i.offset
             cs1   == Put(cs, i, SubSeq(data, 1, first))
             i1    == buffer_index_add(i, first)
             i2    == Idx(i1.chunk + 1, 0)
             cs2   == IF Len(cs1) = i2.chunk THEN Append(cs1, NewChunk) ELSE cs1
         IN  buffer_write(cs2, i2, SubSeq(data, first + 1, Len(data)))
    ELSE [cs |-> Put(cs, i, data), idx |-> buffer_index_add(i, Len(data))]

(* A mutation used to show that the refinement can fail: when the         *)
(* destination chunk fills first, the source offset is not advanced.     *)
RECURSIVE BufferReadSrcStays(_, _, _, _, _)
BufferReadSrcStays(scs, si, dcs, di, size) ==
    LET dst_av == C - di.offset
        src_av == C - si.offset
        Chunk(n) == [k \in 1..n |-> scs[si.chunk + 1][si.offset + k - 1]]
    IN
    IF size = 0 THEN [si |-> si, dcs |-> dcs, di |-> di]
    ELSE IF size < src_av /\ size < dst_av
    THEN [si |-> buffer_index_add(si, size),
          dcs |-> Put(dcs, di, Chunk(size)),
          di |-> buffer_index_add(di, size)]
    ELSE IF src_av < dst_av
    THEN BufferReadSrcStays(scs, Idx(si.chunk + 1, 0), Put(dcs, di, Chunk(src_av)),
                     Idx(di.chunk, di.offset + src_av), size - src_av)
    ELSE LET dcs1 == Put(dcs, di, Chunk(dst_av))
             dcs2 == IF Len(dcs1) = di.chunk + 1 THEN Append(dcs1, NewChunk) ELSE dcs1
         IN  BufferReadSrcStays(scs, si, dcs2, Idx(di.chunk + 1, 0), size - dst_av)

\* buffer_read: copy `size` bytes from index si of scs to index di of dcs
RECURSIVE buffer_read(_, _, _, _, _)
buffer_read(scs, si, dcs, di, size) ==
    LET dst_av == C - di.offset
        src_av == C - si.offset
        Chunk(n) == [k \in 1..n |-> scs[si.chunk + 1][si.offset + k - 1]]
    IN
    IF size = 0 THEN [si |-> si, dcs |-> dcs, di |-> di]
    ELSE IF size < src_av /\ size < dst_av
    THEN [si |-> buffer_index_add(si, size),
          dcs |-> Put(dcs, di, Chunk(size)),
          di |-> buffer_index_add(di, size)]
    ELSE IF src_av < dst_av
    THEN buffer_read(scs, Idx(si.chunk + 1, 0), Put(dcs, di, Chunk(src_av)),
                     Idx(di.chunk, di.offset + src_av), size - src_av)
    ELSE LET dcs1 == Put(dcs, di, Chunk(dst_av))
             dcs2 == IF Len(dcs1) = di.chunk + 1 THEN Append(dcs1, NewChunk) ELSE dcs1
         IN  buffer_read(scs, Idx(si.chunk, si.offset + dst_av), dcs2,
                         Idx(di.chunk + 1, 0), size - dst_av)

-----------------------------------------------------------------------------
(* The socket.  socket_read is not under src/: it is taken to return what  *)
(* read(2) on a non-blocking socket returns: the byte count, 0 at the end  *)
(* of the stream or for an empty request, -1 on an error or when it would  *)
(* block.  buffer_socket_read is called when the event loop reports the    *)
(* socket readable, so its first read does not block.                      *)

SocketReads(len, first, rcv, p) ==
    IF len = 0 THEN {[n |-> 0, peer |-> p]}
    ELSE IF p = "eof" THEN {[n |-> 0, peer |-> p]}
    ELSE IF p = "error" THEN {[n |-> -1, peer |-> p]}
    ELSE {[n |-> k, peer |-> "open"] : k \in 1..(IF len < MaxBytes - rcv THEN len ELSE MaxBytes - rcv)}
         \cup {[n |-> 0, peer |-> "eof"], [n |-> -1, peer |-> "error"]}
         \cup (IF first THEN {} ELSE {[n |-> -1, peer |-> "open"]})

\* the while loop of buffer_socket_read: each time the chunk is full, move
\* to a new chunk (always appended) and read up to a whole chunk into it
RECURSIVE ReadLoop(_, _, _, _)
ReadLoop(cs, w, rcv, p) ==
    IF w.offset # C THEN {[cs |-> cs, w |-> w, rcv |-> rcv, peer |-> p, ret |-> TRUE]}
    ELSE LET w1  == Idx(w.chunk + 1, 0)
             cs1 == Append(cs, NewChunk)
         IN  UNION { IF r.n < 0
                     THEN {[cs |-> cs1, w |-> w1, rcv |-> rcv, peer |-> r.peer, ret |-> FALSE]}
                     ELSE ReadLoop(Put(cs1, w1, Fresh(rcv, r.n)),
                                   buffer_index_add(w1, r.n), rcv + r.n, r.peer)
                   : r \in SocketReads(C, FALSE, rcv, p) }

(* A mutation used to show that PeerCloseReported can fail: the first   *)
(* read's end of stream (nread == 0) is taken for success.               *)
SocketReadEofOk(cs, w, rcv, p) ==
    UNION { IF r.n < 0
            THEN {[cs |-> cs, w |-> w, rcv |-> rcv, peer |-> r.peer, ret |-> FALSE]}
            ELSE ReadLoop(Put(cs, w, Fresh(rcv, r.n)), buffer_index_add(w, r.n),
                          rcv + r.n, r.peer)
          : r \in SocketReads(C - w.offset, TRUE, rcv, p) }

\* every outcome of buffer_socket_read(read_buf)
SocketReadOutcomes(cs, w, rcv, p) ==
    UNION { IF r.n < 0 \/ (r.n = 0 /\ w.offset < C)
            THEN {[cs |-> cs, w |-> w, rcv |-> rcv, peer |-> r.peer, ret |-> FALSE]}
            ELSE ReadLoop(Put(cs, w, Fresh(rcv, r.n)), buffer_index_add(w, r.n),
                          rcv + r.n, r.peer)
          : r \in SocketReads(C - w.offset, TRUE, rcv, p) }

-----------------------------------------------------------------------------
Init ==
    /\ chunks = [b \in Bufs |-> << NewChunk >>]
    /\ rd = [b \in Bufs |-> buffer_index(0)]
    /\ wr = [b \in Bufs |-> buffer_index(0)]
    /\ received = 0
    /\ written = 0
    /\ peer = "open"
    /\ sockRet = TRUE
    /\ lastRead = [at |-> 0, got |-> << >>]
    /\ wire = << >>

\* the event loop reads the readable socket into read_buf; a FALSE result
\* tears the connection down, so nothing reads after it
SocketRead ==
    /\ sockRet
    /\ \E o \in SocketReadOutcomes(chunks["read_buf"], wr["read_buf"], received, peer) :
          /\ chunks' = [chunks EXCEPT !["read_buf"] = o.cs]
          /\ wr' = [wr EXCEPT !["read_buf"] = o.w]
          /\ received' = o.rcv
          /\ peer' = o.peer
          /\ sockRet' = o.ret
    /\ UNCHANGED << rd, written, lastRead, wire >>

\* buffer_read(&read_buf.read, &msg_buf.write, n) for n unread bytes
Copy(n) ==
    LET o == buffer_read(chunks["read_buf"], rd["read_buf"],
                         chunks["msg_buf"], wr["msg_buf"], n)
    IN
    /\ n <= Flat(wr["read_buf"]) - Flat(rd["read_buf"])
    /\ rd' = [rd EXCEPT !["read_buf"] = o.si]
    /\ chunks' = [chunks EXCEPT !["msg_buf"] = o.dcs]
    /\ wr' = [wr EXCEPT !["msg_buf"] = o.di]
    /\ UNCHANGED << received, written, peer, sockRet, wire >>
    /\ UNCHANGED lastRead

\* buffer_read_uintN(&msg_buf.read): the pointer buffer_index_read returns
\* is dereferenced as an N-byte scalar, then the index advances
ReadScalar(n) ==
    LET i == rd["msg_buf"] IN
    /\ n <= Flat(wr["msg_buf"]) - Flat(i)
    /\ lastRead' = [at |-> Flat(i), got |-> Contiguous(chunks["msg_buf"], i, n)]
    /\ rd' = [rd EXCEPT !["msg_buf"] = buffer_index_add(i, n)]
    /\ UNCHANGED << chunks, wr, received, written, peer, sockRet, wire >>

\* buffer_write(&write_buf.write, data, n) of n fresh bytes (the
\* buffer_write_uintN calls are the sizes 1, 2, 4 and 8)
Write(n) ==
    LET o == buffer_write(chunks["write_buf"], wr["write_buf"], Fresh(written, n)) IN
    /\ written + n <= MaxBytes
    /\ chunks' = [chunks EXCEPT !["write_buf"] = o.cs]
    /\ wr' = [wr EXCEPT !["write_buf"] = o.idx]
    /\ written' = written + n
    /\ UNCHANGED << rd, received, peer, sockRet, lastRead, wire >>

\* buffer_socket_write: the bytes it sends for index i, every chunk before
\* the index's chunk in full, then that chunk up to the index's offset
buffer_socket_write(cs, i) ==
    FoldLeft(LAMBDA acc, c : acc \o [k \in 1..C |-> cs[c + 1][k - 1]],
             << >>, [j \in 1..i.chunk |-> j - 1])
    \o [k \in 1..i.offset |-> cs[i.chunk + 1][k - 1]]

\* buffer_socket_write(&write_buf.write), after which the caller rewinds
\* the index with buffer_index(&write_buf, &write_buf.write, 0)
SocketWrite ==
    /\ wire' = wire \o buffer_socket_write(chunks["write_buf"], wr["write_buf"])
    /\ wr' = [wr EXCEPT !["write_buf"] = buffer_index(0)]
    /\ UNCHANGED << chunks, rd, received, written, peer, sockRet, lastRead >>

Next ==
    \/ SocketRead
    \/ \E n \in 1..MaxBytes : Copy(n)
    \/ \E n \in ScalarSizes : ReadScalar(n)
    \/ \E n \in WriteSizes : Write(n)
    \/ SocketWrite

Spec == Init /\ [][Next]_vars

\* A socket the peer has closed, or that failed, stays readable, and the
\* event loop (level-triggered) keeps calling the read handler on it; an
\* open socket with nothing to read is not readable, so no fairness.
FairSpec == Spec /\ WF_vars(SocketRead /\ peer # "open")

-----------------------------------------------------------------------------
TypeOK ==
    /\ \A b \in Bufs :
          /\ chunks[b] \in Seq([0..C - 1 -> Vals]) /\ chunks[b] # << >>
          /\ rd[b] \in [chunk : Nat, offset : 0..C] /\ wr[b] \in [chunk : Nat, offset : 0..C]
          /\ Flat(rd[b]) <= Flat(wr[b])
    /\ received \in 0..MaxBytes /\ written \in 0..MaxBytes
    /\ peer \in {"open", "eof", "error"} /\ sockRet \in BOOLEAN

\* The buffers behave as flat byte sequences (spec.md 4.1, P6): bytes
\* socket reads and writes add land after the old content, which none of
\* them alters, buffer_read appends exactly the next n unread bytes of
\* read_buf to msg_buf, and buffer_socket_write sends write_buf's whole
\* content.
Flat_ == INSTANCE FlatBuffer WITH
    data <- [b \in Bufs |-> Content(b)],
    rp   <- [b \in Bufs |-> Flat(rd[b])]
ImplementsFlatBuffer == Flat_!Spec

\* spec.md P5: a scalar read returns the bytes at its cursor, as they
\* were written into msg_buf, wherever the chunk boundaries fall.
ScalarReadsExact ==
    lastRead.got = SubSeq(Content("msg_buf"), lastRead.at + 1, lastRead.at + Len(lastRead.got))

\* spec.md 4.1: buffer_socket_read returns false only on the end of the
\* stream or an error, never while the peer is healthy.
FalseOnlyOnFailure == sockRet = FALSE => peer # "open"

\* The end of the stream is reported: buffer_socket_read returns true when
\* the read inside its loop meets the peer's close (buffer.c 192), but
\* once the peer has closed or the socket failed, a later call returns
\* false and the connection is torn down.
PeerCloseReported == (peer # "open") ~> ~sockRet

=============================================================================
