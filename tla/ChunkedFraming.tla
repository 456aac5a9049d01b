---------------------------- MODULE ChunkedFraming ----------------------------
(***************************************************************************)
(* The outbound path of src/bolt/bolt_client.c on the chunked write_buf of *)
(* src/bolt/buffer.c: BoltFraming's operations composed with              *)
(* ChunkedBuffer's buffer_write, buffer_index and buffer_socket_write.     *)
(* client->write and write_buf.write are two buffer_index_t on the same    *)
(* chunks: a message is written through write_buf.write, its header is     *)
(* backfilled through client->write, and bolt_client_send sends the        *)
(* chunks up to one of them.  Header slots, terminators and payloads       *)
(* straddle chunk boundaries, and an index may rest at (c, CHUNK).         *)
(*                                                                         *)
(* The module is checked to refine BoltFraming (whose write_buf is a flat  *)
(* byte sequence) through the flattening of the chunks.                    *)
(***************************************************************************)
EXTENDS Naturals, Sequences, SequencesExt

CONSTANTS
    BUFFER_CHUNK_SIZE,  \* bytes per chunk
    WSModes,            \* the values client->ws may have on the connection
    Payloads,           \* reply payloads the codec may write
    MaxMessages,        \* replies composed on the connection
    ResetModes          \* the values of client->ws under which client->reset
                        \* may be raised

VARIABLES
    ws,         \* client->ws
    chunks,     \* write_buf.chunks
    wi,         \* write_buf.write
    ci,         \* client->write
    reset,      \* client->reset
    wire,       \* bytes written to the socket
    open,       \* payload of the message composed after client->write
    closed,     \* payloads of the messages closed before client->write
    delivered,  \* payloads bolt_client_send meant to put on the wire
    composed,   \* replies and reset acknowledgements composed so far
    hw          \* history: the highest offset of write_buf ever written

vars == << ws, chunks, wi, ci, reset, wire, open, closed, delivered, composed, hw >>

\* the buffer operators of ChunkedBuffer (none of its variables is used)
CB == INSTANCE ChunkedBuffer WITH
    chunks <- << >>, rd <- << >>, wr <- << >>, received <- 0, written <- 0,
    peer <- "open", sockRet <- TRUE, lastRead <- << >>, wire <- << >>,
    ScalarSizes <- {1}, WriteSizes <- {1}, MaxBytes <- 0

Flat(i) == CB!Flat(i)
MaxOf(a, b) == IF a >= b THEN a ELSE b

\* SuccessEmpty, Ignored, Htons and Framed are BoltFraming's
BF == INSTANCE BoltFraming WITH
    buf <- [k \in 1..hw |-> CB!ByteAt(chunks, k - 1)],
    wr  <- Flat(ci),
    ww  <- Flat(wi)

\* a run of buffer_write calls through one index: `data` is the sequence
\* of the arguments (one per call), the result the chunks and the index
WriteAll(cs, i, data) ==
    FoldLeft(LAMBDA acc, d : CB!buffer_write(acc.cs, acc.idx, d),
             [cs |-> cs, idx |-> i], data)

\* the calls that reserve a header slot: one buffer_write_uint16 of 0, a
\* second one in WebSocket mode
ReserveCalls == IF ws THEN << << 0, 0 >>, << 0, 0 >> >> ELSE << << 0, 0 >> >>

\* buffer_index_diff(&write_buf.write, &client->write) - 2, in uint16_t
SlotLength == (Flat(wi) - Flat(ci) - 2) % 65536

-----------------------------------------------------------------------------
\* bolt_client_new (and, in WebSocket mode, the upgrade that reserves the
\* frame header slot too)
Init ==
    LET r == WriteAll(<< CB!NewChunk >>, CB!buffer_index(0), ReserveCalls) IN
    /\ ws \in WSModes
    /\ chunks = r.cs
    /\ wi = r.idx
    /\ ci = CB!buffer_index(0)
    /\ reset = FALSE
    /\ wire = << >>
    /\ open = << >>
    /\ closed = << >>
    /\ delivered = << >>
    /\ composed = 0
    /\ hw = Flat(r.idx)

\* the codec writes a reply through write_buf.write
Reply(p) ==
    LET r == CB!buffer_write(chunks, wi, p) IN
    /\ composed < MaxMessages
    /\ open = << >>
    /\ chunks' = r.cs
    /\ wi' = r.idx
    /\ hw' = MaxOf(hw, Flat(r.idx))
    /\ open' = p
    /\ composed' = composed + 1
    /\ UNCHANGED << ws, ci, reset, wire, closed, delivered >>

(* Mutations used to show that the properties can fail.                  *)

\* client->write is taken before the terminator is written
EndMessageEarlySlot ==
    LET n    == SlotLength
        hdr  == IF ws THEN << << 130 >>, << (n + 2) % 256 >>, BF!Htons((n - 2) % 65536) >>
                ELSE << BF!Htons(n) >>
        back == WriteAll(chunks, ci, hdr)
        term == WriteAll(back.cs, wi, << << 0 >>, << 0 >> >>)
        resv == WriteAll(term.cs, term.idx, ReserveCalls)
    IN
    /\ open # << >>
    /\ chunks' = resv.cs
    /\ ci' = wi
    /\ wi' = resv.idx
    /\ hw' = MaxOf(hw, Flat(resv.idx))
    /\ closed' = Append(closed, open)
    /\ open' = << >>
    /\ UNCHANGED << ws, reset, wire, delivered, composed >>

\* bolt_client_end_message: backfill the slot through client->write (frame
\* header bytes 0x82 and n + 2 as two uint8 writes in WebSocket mode, then
\* htons(n)), write the two terminator bytes through write_buf.write, move
\* client->write there, and reserve the next slot
EndMessage ==
    LET n    == SlotLength
        hdr  == IF ws THEN << << 130 >>, << (n + 2) % 256 >>, BF!Htons((n - 2) % 65536) >>
                ELSE << BF!Htons(n) >>
        back == WriteAll(chunks, ci, hdr)
        term == WriteAll(back.cs, wi, << << 0 >>, << 0 >> >>)
        resv == WriteAll(term.cs, term.idx, ReserveCalls)
    IN
    /\ open # << >>
    /\ chunks' = resv.cs
    /\ ci' = term.idx
    /\ wi' = resv.idx
    /\ hw' = MaxOf(hw, Flat(resv.idx))
    /\ closed' = Append(closed, open)
    /\ open' = << >>
    /\ UNCHANGED << ws, reset, wire, delivered, composed >>

\* the decoder raises client->reset when a RESET arrives mid-request
RaiseReset ==
    /\ ws \in ResetModes
    /\ ~reset
    /\ composed < MaxMessages
    /\ reset' = TRUE
    /\ composed' = composed + 1
    /\ UNCHANGED << ws, chunks, wi, ci, wire, open, closed, delivered, hw >>

\* the flush sends the chunks up to write_buf.write instead of
\* client->write
SendFlushToWrite ==
    LET r == WriteAll(chunks, CB!buffer_index(0), ReserveCalls) IN
    /\ ~reset
    /\ open = << >>
    /\ wire' = wire \o CB!buffer_socket_write(chunks, wi)
    /\ delivered' = delivered \o closed
    /\ closed' = << >>
    /\ chunks' = r.cs
    /\ ci' = CB!buffer_index(0)
    /\ wi' = r.idx
    /\ UNCHANGED << ws, reset, open, composed, hw >>

\* the rewind forgets to reserve the next message's header slot
SendFlushNoReserve ==
    /\ ~reset
    /\ open = << >>
    /\ wire' = wire \o CB!buffer_socket_write(chunks, ci)
    /\ delivered' = delivered \o closed
    /\ closed' = << >>
    /\ ci' = CB!buffer_index(0)
    /\ wi' = CB!buffer_index(0)
    /\ UNCHANGED << ws, chunks, reset, open, composed, hw >>

\* bolt_client_send without a pending reset: send the chunks up to
\* client->write, rewind both indexes to 0 and reserve the next slot
SendFlush ==
    LET r == WriteAll(chunks, CB!buffer_index(0), ReserveCalls) IN
    /\ ~reset
    /\ open = << >>
    /\ wire' = wire \o CB!buffer_socket_write(chunks, ci)
    /\ delivered' = delivered \o closed
    /\ closed' = << >>
    /\ chunks' = r.cs
    /\ ci' = CB!buffer_index(0)
    /\ wi' = r.idx
    /\ UNCHANGED << ws, reset, open, composed, hw >>

\* one reply of the reset path, from client->write at 0 and
\* write_buf.write at 2: the payload, the backfilled length, the two
\* terminator bytes, the send up to write_buf.write, and the rewind
ResetReply(acc, p) ==
    LET ci0  == CB!buffer_index(0)
        body == CB!buffer_write(acc.cs, CB!buffer_index(2), p)
        back == CB!buffer_write(body.cs, ci0, BF!Htons((Flat(body.idx) - 2) % 65536))
        term == WriteAll(back.cs, body.idx, << << 0 >>, << 0 >> >>)
    IN  [cs   |-> term.cs,
         out  |-> acc.out \o CB!buffer_socket_write(term.cs, term.idx),
         high |-> MaxOf(acc.high, Flat(term.idx))]

\* bolt_client_send with client->reset raised; `failed` is
\* client->state = BS_FAILED, which adds an IGNORED before the SUCCESS
SendReset(failed) ==
    LET replies == IF failed THEN << BF!Ignored, BF!SuccessEmpty >> ELSE << BF!SuccessEmpty >>
        r       == FoldLeft(ResetReply, [cs |-> chunks, out |-> << >>, high |-> hw], replies)
    IN
    /\ reset
    /\ open = << >>
    /\ wire' = wire \o r.out
    /\ delivered' = delivered \o replies
    /\ closed' = << >>
    /\ chunks' = r.cs
    /\ ci' = CB!buffer_index(0)
    /\ wi' = CB!buffer_index(2)
    /\ hw' = r.high
    /\ reset' = FALSE
    /\ UNCHANGED << ws, open, composed >>

Next ==
    \/ \E p \in Payloads : Reply(p)
    \/ EndMessage
    \/ RaiseReset
    \/ SendFlush
    \/ \E failed \in BOOLEAN : SendReset(failed)

Spec == Init /\ [][Next]_vars

-----------------------------------------------------------------------------
TypeOK ==
    /\ ws \in WSModes /\ reset \in BOOLEAN
    /\ chunks \in Seq([0..BUFFER_CHUNK_SIZE - 1 -> 0..255]) /\ chunks # << >>
    /\ {wi, ci} \subseteq [chunk : Nat, offset : 0..BUFFER_CHUNK_SIZE]
    /\ Flat(ci) < Flat(wi) /\ Flat(wi) <= hw
    /\ hw <= Len(chunks) * BUFFER_CHUNK_SIZE
    /\ composed \in 0..MaxMessages

\* The socket carries exactly the framing of the delivered replies, in
\* order (spec.md P4), when the header slots, payloads and terminators lie
\* across chunk boundaries of write_buf and client->write or
\* write_buf.write rests at the end of a chunk.
WireFramesDelivered == BF!WireFramesDelivered

\* The chunked write_buf behaves as BoltFraming's flat one: every
\* end_message and send leaves the same bytes before the high-water mark,
\* the same two offsets and the same wire.
ImplementsBoltFraming == BF!Spec

=============================================================================
