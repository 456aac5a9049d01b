----------------------------- MODULE BoltFraming -----------------------------
(***************************************************************************)
(* The bytes of write_buf and of the socket: how src/bolt/bolt_client.c    *)
(* frames outbound Bolt messages.  A message is composed after             *)
(* client->write, which points at the slot reserved for its header (the   *)
(* 2-byte chunk length, preceded in WebSocket mode by a 2-byte frame       *)
(* header); bolt_client_end_message backfills that slot, appends the       *)
(* 0x0000 terminator and reserves the next slot; bolt_client_send writes   *)
(* everything before client->write to the socket and rewinds.  While       *)
(* client->reset is raised, bolt_client_send instead composes and writes   *)
(* the RESET acknowledgement itself.                                       *)
(*                                                                         *)
(* write_buf is a flat byte sequence here: the chunked layout of           *)
(* src/bolt/buffer.c is the subject of ChunkedBuffer.  Offsets are         *)
(* 0-based as in the C code; buf[o + 1] holds the byte at offset o.        *)
(***************************************************************************)
EXTENDS Naturals, Sequences, SequencesExt

CONSTANTS
    WSModes,      \* the values client->ws may have on the connection
    Payloads,     \* reply payloads the codec may write (byte sequences)
    MaxMessages,  \* replies composed on the connection
    ResetModes    \* the values of client->ws under which client->reset
                  \* may be raised

ASSUME WSModes \subseteq BOOLEAN /\ ResetModes \subseteq BOOLEAN /\ MaxMessages \in Nat
ASSUME Payloads \subseteq Seq(0..255) /\ \A p \in Payloads : Len(p) > 0

VARIABLES
    ws,         \* client->ws: the connection was upgraded to WebSocket
    buf,        \* the bytes of write_buf
    wr,         \* client->write: offset of the open message's header slot
    ww,         \* client->write_buf.write: offset of the next free byte
    reset,      \* client->reset
    wire,       \* bytes written to the socket
    open,       \* payload of the message composed after client->write
    closed,     \* payloads of the messages closed before client->write
    delivered,  \* payloads bolt_client_send meant to put on the wire
    composed    \* replies and reset acknowledgements composed so far

vars == << ws, buf, wr, ww, reset, wire, open, closed, delivered, composed >>

\* PackStream bytes of the two replies bolt_client_send writes itself:
\* bolt_reply_structure(SUCCESS, 1) + bolt_reply_map(0), and
\* bolt_reply_structure(IGNORED, 0)
SuccessEmpty == << \hB1, \h70, \hA0 >>
Ignored      == << \hB0, \h7E >>

\* bytes of a header slot: the chunk length, and in WebSocket mode the
\* frame header before it
Reserve == IF ws THEN 4 ELSE 2

-----------------------------------------------------------------------------
(* Byte-level helpers                                                      *)

MaxOf(a, c) == IF a >= c THEN a ELSE c

\* buffer_write of the bytes `data` at offset `o`, growing the buffer
WriteAt(b, o, data) ==
    [i \in 1..MaxOf(Len(b), o + Len(data)) |->
        IF o < i /\ i <= o + Len(data) THEN data[i - o] ELSE b[i]]

\* buffer_write_uint16(htons(v)) on a little-endian host: the two bytes
\* land in memory in network order
Htons(v) == << (v \div 256) % 256, v % 256 >>

\* buffer_index_diff: an unsigned 16-bit difference
Diff(a, c) == (a - c) % 65536

\* the bytes from offset 0 up to offset `o`, as buffer_socket_write sends
Upto(b, o) == SubSeq(b, 1, o)

-----------------------------------------------------------------------------
Init ==
    /\ ws \in WSModes
    /\ buf = [i \in 1..Reserve |-> 0]
    /\ wr = 0
    /\ ww = Reserve
    /\ reset = FALSE
    /\ wire = << >>
    /\ open = << >>
    /\ closed = << >>
    /\ delivered = << >>
    /\ composed = 0

\* the codec writes a reply's PackStream bytes after the header slot
Reply(p) ==
    /\ composed < MaxMessages
    /\ open = << >>
    /\ buf' = WriteAt(buf, ww, p)
    /\ ww' = ww + Len(p)
    /\ open' = p
    /\ composed' = composed + 1
    /\ UNCHANGED << wr, reset, wire, closed, delivered >>

(* Mutations used to show that the properties can fail: each is the     *)
(* action after it with one plausible slip.                              *)

\* the chunk length counts the 2-byte length slot itself
EndMessageCountsSlot ==
    LET n0   == Diff(ww, wr)
        b1   == IF ws THEN WriteAt(buf, wr, << \h82, (n0 + 2) % 256 >>) ELSE buf
        w1   == IF ws THEN wr + 2 ELSE wr
        n    == IF ws THEN (n0 - 2) % 65536 ELSE n0
        b2   == WriteAt(b1, w1, Htons(n))
        b3   == WriteAt(b2, ww, << 0, 0 >>)
        next == ww + 2
    IN
    /\ open # << >>
    /\ buf' = WriteAt(b3, next, [i \in 1..Reserve |-> 0])
    /\ wr' = next
    /\ ww' = next + Reserve
    /\ closed' = Append(closed, open)
    /\ open' = << >>
    /\ UNCHANGED << reset, wire, delivered, composed >>

\* the rewind forgets to reserve the next message's header slot
SendFlushNoReserve ==
    /\ ~reset
    /\ open = << >>
    /\ wire' = wire \o Upto(buf, wr)
    /\ delivered' = delivered \o closed
    /\ closed' = << >>
    /\ buf' = buf
    /\ wr' = 0
    /\ ww' = 0
    /\ UNCHANGED << reset, open, composed >>

EndMessage ==
    LET n0   == Diff(ww, wr) - 2
        b1   == IF ws THEN WriteAt(buf, wr, << \h82, (n0 + 2) % 256 >>) ELSE buf
        w1   == IF ws THEN wr + 2 ELSE wr
        n    == IF ws THEN (n0 - 2) % 65536 ELSE n0
        b2   == WriteAt(b1, w1, Htons(n))
        b3   == WriteAt(b2, ww, << 0, 0 >>)
        next == ww + 2
    IN
    /\ open # << >>
    /\ buf' = WriteAt(b3, next, [i \in 1..Reserve |-> 0])
    /\ wr' = next
    /\ ww' = next + Reserve
    /\ closed' = Append(closed, open)
    /\ open' = << >>
    /\ UNCHANGED << reset, wire, delivered, composed >>

\* the decoder raises client->reset when a RESET arrives mid-request
\* (its acknowledgement counts as a composed reply)
RaiseReset ==
    /\ ws \in ResetModes
    /\ ~reset
    /\ composed < MaxMessages
    /\ reset' = TRUE
    /\ composed' = composed + 1
    /\ UNCHANGED << buf, wr, ww, wire, open, closed, delivered >>

\* bolt_client_send runs while no reply is open: that it may also run in
\* the middle of one is the subject of BoltSession (MessagesIntact)

\* bolt_client_send without a pending reset: flush and rewind
SendFlush ==
    /\ ~reset
    /\ open = << >>
    /\ wire' = wire \o Upto(buf, wr)
    /\ delivered' = delivered \o closed
    /\ closed' = << >>
    /\ buf' = WriteAt(buf, 0, [i \in 1..Reserve |-> 0])
    /\ wr' = 0
    /\ ww' = Reserve
    /\ UNCHANGED << reset, open, composed >>

\* one reply of bolt_client_send's reset path: write the payload after
\* the 2-byte slot at offset 0, backfill its length, terminate, send up to
\* client->write_buf.write, and rewind to (0, 2)
ResetReply(b, p) ==
    LET b1 == WriteAt(b, 2, p)
        b2 == WriteAt(b1, 0, Htons(Len(p)))
    IN  WriteAt(b2, 2 + Len(p), << 0, 0 >>)

\* bolt_client_send with client->reset raised; `failed` is
\* client->state = BS_FAILED, which adds an IGNORED before the SUCCESS
SendReset(failed) ==
    LET replies == IF failed THEN << Ignored, SuccessEmpty >> ELSE << SuccessEmpty >>
        bytes   == FoldLeft(LAMBDA acc, p : acc \o Upto(ResetReply(buf, p), Len(p) + 4),
                            << >>, replies)
    IN
    /\ reset
    /\ open = << >>
    /\ wire' = wire \o bytes
    /\ delivered' = delivered \o replies
    /\ closed' = << >>
    /\ buf' = FoldLeft(ResetReply, buf, replies)
    /\ wr' = 0
    /\ ww' = 2
    /\ reset' = FALSE
    /\ UNCHANGED << open, composed >>

\* client->ws is set once, when the connection is upgraded, before any reply
Next ==
    /\ UNCHANGED ws
    /\ \/ \E p \in Payloads : Reply(p)
       \/ EndMessage
       \/ RaiseReset
       \/ SendFlush
       \/ \E failed \in BOOLEAN : SendReset(failed)

Spec == Init /\ [][Next]_vars

-----------------------------------------------------------------------------
TypeOK ==
    /\ buf \in Seq(0..255) /\ wire \in Seq(0..255)
    /\ wr \in Nat /\ ww \in Nat /\ wr < ww /\ ww <= Len(buf)
    /\ ws \in WSModes /\ reset \in BOOLEAN
    /\ open \in Payloads \cup {<< >>} /\ composed \in 0..MaxMessages

\* How spec.md (4.2, 4.3, 6) frames one message: a single chunk, its
\* big-endian length, the payload and the 0x0000 terminator; under
\* WebSocket inside one unmasked binary frame (0x82) whose length uses
\* RFC 6455's 7-bit form, or 126 and a 16-bit length above 125 bytes.
BoltChunk(p) == << Len(p) \div 256, Len(p) % 256 >> \o p \o << 0, 0 >>
WsFrame(data) ==
    IF Len(data) <= 125
    THEN << \h82, Len(data) >> \o data
    ELSE << \h82, 126, Len(data) \div 256, Len(data) % 256 >> \o data
Framed(p) == IF ws THEN WsFrame(BoltChunk(p)) ELSE BoltChunk(p)

\* The bytes on the socket are exactly the framing of the replies
\* bolt_client_send put there, in order, whatever mix of flushes,
\* multi-message batches and reset acknowledgements produced them
\* (spec.md P4: a peer decoding the stream gets the payloads back).
WireFramesDelivered ==
    wire = FoldLeft(LAMBDA acc, p : acc \o Framed(p), << >>, delivered)

=============================================================================
