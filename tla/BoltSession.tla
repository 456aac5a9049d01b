----------------------------- MODULE BoltSession -----------------------------
(***************************************************************************)
(* One Bolt connection: the client session of src/bolt/bolt_client.c, the  *)
(* two threads that drive it, and the peer on the other end of the socket. *)
(*                                                                         *)
(*  - the worker thread executes one request (msg_buf), writes its reply   *)
(*    into write_buf with bolt_client_reply_for, closes it with            *)
(*    bolt_client_end_message and registers the socket for writability    *)
(*    with bolt_client_finish_write;                                       *)
(*  - the event-loop thread checks the handshake the connection opens    *)
(*    with, reads requests off the socket and dispatches them, raises      *)
(*    client->reset when a RESET arrives while a request is                *)
(*    in flight, and runs bolt_client_send when the socket is writable.    *)
(*                                                                         *)
(* write_buf is abstracted to messages: `wbuf` holds the closed messages   *)
(* before client->write, `composing` the reply opened after it.  The byte  *)
(* layout of those messages is the subject of BoltFraming.  The decoder    *)
(* and the request handlers live outside src/ and are modelled from        *)
(* spec.md sections 4.4, 4.5, 5 and 7.                                     *)
(***************************************************************************)
EXTENDS BoltStateMachine, Naturals, Sequences, SequencesExt

CONSTANTS
    MaxRequests,   \* requests the peer sends on the connection
    Pipeline,      \* requests the peer keeps outstanding (1: no pipelining)
    Interrupts,    \* the peer may send RESET while a request is outstanding
    MaxRecords,    \* RECORD messages a PULL streams before its summary
    Interruptible, \* the requests the peer may cut short with RESET
    Handshakes,    \* the 20 bytes a peer may open the connection with
    HostOrders     \* the byte orders of the hosts the server is built for

ASSUME MaxRequests \in Nat \ {0} /\ Pipeline \in Nat \ {0}
ASSUME Interrupts \in BOOLEAN /\ MaxRecords \in Nat /\ Interruptible \subseteq Requests
ASSUME \A b \in Handshakes : b \in [1..20 -> 0..255]
ASSUME HostOrders \subseteq {"little", "big"}

VARIABLES
    state,       \* client->state
    reset,       \* client->reset
    processing,  \* client->processing
    inflight,    \* the request the worker is executing, or None
    interrupted, \* the request that was in flight when RESET arrived
    composing,   \* the reply opened after client->write, or NoReply
    wbuf,        \* closed messages in write_buf before client->write
    writable,    \* the socket is registered for writability (on_write)
    records,     \* RECORDs streamed for the request in flight
    inbox,       \* requests on the socket not yet read by the event loop
    outbox,      \* messages written to the socket not yet read by the peer
    pending,     \* peer: requests awaiting their reply, oldest first
    expect,      \* peer: the state it expects the session to be in
    sent,        \* peer: requests sent so far
    asserted,    \* an ASSERT of bolt_change_*_state has failed
    hello,       \* the bytes the peer opened the connection with (read_buf)
    version,     \* << minor, major >> the handshake answered with, or << >>
    host,        \* the byte order of the host
    peerUp,      \* the peer has not closed its end of the connection
    freed        \* bolt_client_free has run

hs == << hello, version, host >>
conn == << peerUp, freed >>

vars == << state, reset, processing, inflight, interrupted, composing, wbuf,
           writable, records, inbox, outbox, pending, expect, sent, asserted, hs, conn >>

Abs == INSTANCE BoltProtocolSpec

None == "none"

\* a reply as the worker writes it: `for` is the request_type passed to
\* bolt_client_reply_for; `intact` is FALSE once part of it was overwritten
Msg(resp, req) == [resp |-> resp, for |-> req, intact |-> TRUE]
Messages == [resp : Responses, for : Requests \cup {None}, intact : BOOLEAN]
\* no reply is open after client->write
NoReply == [resp |-> None, for |-> None, intact |-> TRUE]

-----------------------------------------------------------------------------
(* The handshake.  The peer opens with the magic and four 4-byte version   *)
(* proposals; bolt_check_handshake reads the magic as a uint32_t in host   *)
(* order and converts it with ntohl, bolt_read_supported_version takes     *)
(* bytes 2 and 3 of the 16 bytes that follow.  Bytes are 0..255 and words  *)
(* their values; the handshakes of the model keep the first and last byte  *)
(* of the magic below 128, so that a word stays within TLC's integers.     *)

\* *(uint32_t *)buffer_index_read(buf, 4) on four bytes laid out in memory
buffer_read_uint32(b, order) ==
    IF order = "little" THEN b[1] + 256 * b[2] + 65536 * b[3] + 16777216 * b[4]
    ELSE b[4] + 256 * b[3] + 65536 * b[2] + 16777216 * b[1]

\* ntohl: a byte swap on a little-endian host, the identity on a big-endian one
ntohl(x, order) ==
    LET byte(i) == (x \div 256^i) % 256 IN
    IF order = "little"
    THEN 16777216 * byte(0) + 65536 * byte(1) + 256 * byte(2) + byte(3)
    ELSE x

\* (mutation) the magic is compared as it lies in memory, without ntohl
bolt_check_handshake_host_order(b, order) ==
    buffer_read_uint32(SubSeq(b, 1, 4), order) = 1616949271

\* ntohl(buffer_read_uint32(&client->read_buf.read)) == 0x6060B017
bolt_check_handshake(b, order) ==
    ntohl(buffer_read_uint32(SubSeq(b, 1, 4), order), order) = 1616949271

\* data = buffer_index_read(&read, 16) after the magic; data[2] and data[3]
\* (0-based) are the minor and major of the first proposal.  data is a
\* char *: the bytes of the modelled proposals are below 128, so a signed
\* and an unsigned char read the same.
bolt_read_supported_version(b) ==
    LET data == SubSeq(b, 5, 20) IN << data[3], data[4] >>

-----------------------------------------------------------------------------
(* The peer: a Bolt driver.  It sends only requests the table of spec.md   *)
(* 4.4 accepts in the state it expects, predicting that each one succeeds  *)
(* (or is IGNORED, in FAILED).                                             *)

PeerRequests(s) ==
    {r \in Requests : Abs!Listed(s, r, "SUCCESS") \/ Abs!Listed(s, r, "IGNORED")}


PeerExpect(s, r) ==
    CASE Abs!Listed(s, r, "SUCCESS") -> Abs!SpecNext(s, r, "SUCCESS")
      [] Abs!Listed(s, r, "IGNORED") -> Abs!SpecNext(s, r, "IGNORED")
      [] OTHER                       -> s

-----------------------------------------------------------------------------
(* The request handlers (spec.md 4.4 and 7): RESET is acknowledged with    *)
(* SUCCESS; in FAILED and INTERRUPTED other work is answered with IGNORED; *)
(* a PULL may stream RECORDs first; ROUTE only has a SUCCESS row.          *)
HandlerResponses(s, req) ==
    CASE req = "RESET"                      -> {"SUCCESS"}
      [] s \in {"FAILED", "INTERRUPTED"}    -> {"IGNORED"}
      [] req = "PULL" /\ records < MaxRecords -> {"RECORD", "SUCCESS", "FAILURE"}
      [] req = "ROUTE"                      -> {"SUCCESS"}
      [] OTHER                              -> {"SUCCESS", "FAILURE"}

-----------------------------------------------------------------------------
(* Mutations used to show that the properties can fail: each is the      *)
(* action of the same name below with one plausible slip.                *)

\* bolt_client_finish_write is called as soon as the reply is opened
ReplyForFlushesEarly(resp) ==
    LET out == bolt_change_client_state(state, inflight, resp)
    IN
    /\ processing
    /\ composing = NoReply
    /\ inflight \notin {None, "GOODBYE"}
    /\ resp \in HandlerResponses(state, inflight)
    /\ composing' = Msg(resp, inflight)
    /\ state' = out.state
    /\ asserted' = (asserted \/ ~out.ok)
    /\ writable' = TRUE
    /\ UNCHANGED << reset, processing, inflight, interrupted, wbuf,
                    records, inbox, outbox, pending, expect, sent, hs, conn >>

\* the RECORD counter is not reset when the request's reply ends
EndMessageKeepsCount ==
    /\ composing # NoReply
    /\ wbuf' = Append(wbuf, composing)
    /\ composing' = NoReply
    /\ records' = records + 1
    /\ IF composing.resp = "RECORD"
       THEN UNCHANGED << processing, inflight, writable >>
       ELSE /\ processing' = FALSE
            /\ inflight' = None
            /\ writable' = TRUE
    /\ UNCHANGED << state, reset, interrupted, inbox, outbox, pending,
                    expect, sent, asserted, hs, conn >>

\* bolt_client_finish_write is never called after the last message
EndMessageNoFlush ==
    /\ composing # NoReply
    /\ wbuf' = Append(wbuf, composing)
    /\ composing' = NoReply
    /\ IF composing.resp = "RECORD"
       THEN /\ records' = records + 1
            /\ UNCHANGED << processing, inflight >>
       ELSE /\ records' = 0
            /\ processing' = FALSE
            /\ inflight' = None
    /\ UNCHANGED << state, reset, interrupted, writable, inbox, outbox,
                    pending, expect, sent, asserted, hs, conn >>

-----------------------------------------------------------------------------
\* bolt_client_new: state NEGOTIATION, flags clear, an empty write_buf whose
\* first two bytes are reserved for the first message's length
Init ==
    /\ state = "NEGOTIATION"
    /\ reset = FALSE
    /\ processing = FALSE
    /\ inflight = None
    /\ interrupted = None
    /\ composing = NoReply
    /\ wbuf = << >>
    /\ writable = FALSE
    /\ records = 0
    /\ inbox = << >>
    /\ outbox = << >>
    /\ pending = << >>
    /\ expect = "NEGOTIATION"
    /\ sent = 0
    /\ asserted = FALSE
    /\ hello \in Handshakes
    /\ version = << >>
    /\ host \in HostOrders
    /\ peerUp = TRUE
    /\ freed = FALSE

-----------------------------------------------------------------------------
(* Event-loop thread                                                       *)

\* the first read of a connection: a handshake with the magic is answered
\* with the version read from the first proposal; any other opening is a
\* framing error, and the session is closed without a reply (spec.md 7)
Handshake ==
    /\ state = "NEGOTIATION" /\ version = << >> /\ sent = 0 /\ ~freed
    /\ IF bolt_check_handshake(hello, host)
       THEN /\ version' = bolt_read_supported_version(hello)
            /\ UNCHANGED state
       ELSE /\ state' = "DEFUNCT"
            /\ UNCHANGED version
    /\ UNCHANGED << reset, processing, inflight, interrupted, composing, wbuf,
                    writable, records, inbox, outbox, pending, expect, sent,
                    asserted, hello, host, conn >>

\* the decoder hands the next request to the worker when none is running
Dispatch ==
    /\ ~freed
    /\ ~processing
    /\ inbox # << >>
    /\ state # "DEFUNCT"
    /\ processing' = TRUE
    /\ inflight' = Head(inbox)
    /\ inbox' = Tail(inbox)
    /\ UNCHANGED << state, reset, interrupted, composing, wbuf, writable,
                    records, outbox, pending, expect, sent, asserted, hs, conn >>

\* a RESET read while a request is in flight: raise client->reset and
\* enter INTERRUPTED; the RESET is acknowledged by bolt_client_send
Interrupt ==
    /\ processing
    /\ inbox # << >>
    /\ Head(inbox) = "RESET"
    /\ reset' = TRUE
    /\ state' = "INTERRUPTED"
    /\ interrupted' = inflight
    /\ inbox' = Tail(inbox)
    /\ UNCHANGED << processing, inflight, composing, wbuf, writable, records,
                    outbox, pending, expect, sent, asserted, hs, conn >>

\* bolt_client_send, run by the on_write callback, which then unregisters.
\* Both paths rewind write_buf to its start: the bytes of a reply the
\* worker has opened but not closed are overwritten.  The reset path
\* also drops every closed message not yet sent and writes the RESET
\* acknowledgement instead, preceded by IGNORED when the state is FAILED.
Send ==
    LET ack  == Msg("SUCCESS", "RESET")
        ign  == Msg("IGNORED", interrupted)
    IN
    /\ writable
    /\ writable' = FALSE
    /\ wbuf' = << >>
    /\ composing' = IF composing = NoReply THEN NoReply
                    ELSE [composing EXCEPT !.intact = FALSE]
    /\ IF reset
       THEN /\ reset' = FALSE
            /\ IF state # "FAILED"
               THEN /\ outbox' = Append(outbox, ack)
                    /\ UNCHANGED state
               ELSE /\ outbox' = outbox \o << ign, ack >>
                    /\ state' = "READY"
       ELSE /\ outbox' = outbox \o wbuf
            /\ UNCHANGED << reset, state >>
    /\ UNCHANGED << processing, inflight, interrupted, records, inbox,
                    pending, expect, sent, asserted, hs, conn >>

\* the teardown of bolt.c (spec.md 5 and 7) calling bolt_client_free: after
\* an end of stream or a socket error once the worker is idle, and after
\* GOODBYE or a fatal failure once the last write has drained.
\* bolt_client_free deletes the writable event, closes the socket and frees
\* the three buffers and the client.
ClientFree ==
    /\ ~freed /\ ~processing
    /\ ~peerUp \/ (state = "DEFUNCT" /\ ~writable)
    /\ freed' = TRUE
    /\ writable' = FALSE
    /\ UNCHANGED << state, reset, processing, inflight, interrupted, composing,
                    wbuf, records, inbox, outbox, pending, expect, sent,
                    asserted, hs, peerUp >>

-----------------------------------------------------------------------------
(* Worker thread                                                           *)

\* bolt_client_reply_for: write the response structure and change state
ReplyFor(resp) ==
    LET out == bolt_change_client_state(state, inflight, resp)
    IN
    /\ processing
    /\ composing = NoReply
    /\ inflight \notin {None, "GOODBYE"}
    /\ resp \in HandlerResponses(state, inflight)
    /\ composing' = Msg(resp, inflight)
    /\ state' = out.state
    /\ asserted' = (asserted \/ ~out.ok)
    /\ UNCHANGED << reset, processing, inflight, interrupted, wbuf, writable,
                    records, inbox, outbox, pending, expect, sent, hs, conn >>

\* GOODBYE is not answered: the state changes and the session closes
Goodbye ==
    LET out == bolt_change_client_state(state, "GOODBYE", "SUCCESS")
    IN
    /\ processing
    /\ inflight = "GOODBYE"
    /\ state' = out.state
    /\ asserted' = (asserted \/ ~out.ok)
    /\ processing' = FALSE
    /\ inflight' = None
    /\ UNCHANGED << reset, interrupted, composing, wbuf, writable, records,
                    inbox, outbox, pending, expect, sent, hs, conn >>

\* bolt_client_end_message closes the reply (client->write moves past it);
\* after the last message of a request the worker clears processing and
\* calls bolt_client_finish_write
EndMessage ==
    /\ composing # NoReply
    /\ wbuf' = Append(wbuf, composing)
    /\ composing' = NoReply
    /\ IF composing.resp = "RECORD"
       THEN /\ records' = records + 1
            /\ UNCHANGED << processing, inflight, writable >>
       ELSE /\ records' = 0
            /\ processing' = FALSE
            /\ inflight' = None
            /\ writable' = TRUE
    /\ UNCHANGED << state, reset, interrupted, inbox, outbox, pending,
                    expect, sent, asserted, hs, conn >>

-----------------------------------------------------------------------------
(* Peer                                                                    *)

PeerSend(r) ==
    /\ peerUp
    /\ version # << >>
    /\ sent < MaxRequests
    /\ r \in PeerRequests(expect)
    /\ IF r = "RESET" /\ pending # << >>
       THEN \* a RESET sent while work is outstanding interrupts it
            /\ Interrupts
            /\ Len(pending) <= Pipeline
            /\ \A i \in 1..Len(pending) : pending[i] \in Interruptible
       ELSE Len(pending) < Pipeline
    /\ inbox' = Append(inbox, r)
    /\ pending' = Append(pending, r)
    /\ expect' = PeerExpect(expect, r)
    /\ sent' = sent + 1
    /\ UNCHANGED << state, reset, processing, inflight, interrupted,
                    composing, wbuf, writable, records, outbox, asserted,
                    hs, conn >>

\* a FAILURE or IGNORED tells the peer the session failed: it re-predicts
\* the requests still outstanding from FAILED (from DEFUNCT after a
\* failed HELLO or LOGON)
PeerReceive ==
    LET m    == Head(outbox)
        base == IF m.resp = "FAILURE" /\ Head(pending) \in {"HELLO", "LOGON"}
                THEN "DEFUNCT" ELSE "FAILED"
    IN
    /\ peerUp
    /\ outbox # << >>
    /\ outbox' = Tail(outbox)
    /\ IF m.resp = "RECORD" \/ pending = << >>
       THEN UNCHANGED << pending, expect >>
       ELSE /\ pending' = Tail(pending)
            /\ expect' = IF m.resp \in {"FAILURE", "IGNORED"}
                         THEN FoldLeft(PeerExpect, base, Tail(pending))
                         ELSE expect
    /\ UNCHANGED << state, reset, processing, inflight, interrupted,
                    composing, wbuf, writable, records, inbox, sent, asserted,
                    hs, conn >>

\* the peer closes its end, or the connection fails, at any moment
PeerClose ==
    /\ peerUp
    /\ peerUp' = FALSE
    /\ UNCHANGED << state, reset, processing, inflight, interrupted, composing,
                    wbuf, writable, records, inbox, outbox, pending, expect, sent,
                    asserted, hs, freed >>

-----------------------------------------------------------------------------
Next ==
    \/ Handshake
    \/ Dispatch
    \/ Interrupt
    \/ Send
    \/ \E resp \in Responses : ReplyFor(resp)
    \/ Goodbye
    \/ EndMessage
    \/ \E r \in Requests : PeerSend(r)
    \/ PeerReceive
    \/ PeerClose
    \/ ClientFree

\* the event loop and the worker run whenever they have something to do,
\* and the peer reads what reaches its socket; the peer need not send
Fairness ==
    /\ WF_vars(Handshake) /\ WF_vars(Dispatch) /\ WF_vars(Interrupt) /\ WF_vars(Send)
    /\ WF_vars(\E resp \in Responses : ReplyFor(resp))
    /\ WF_vars(Goodbye) /\ WF_vars(EndMessage) /\ WF_vars(PeerReceive)
    /\ WF_vars(ClientFree)

Spec == Init /\ [][Next]_vars /\ Fairness

-----------------------------------------------------------------------------
TypeOK ==
    /\ state \in States
    /\ reset \in BOOLEAN /\ processing \in BOOLEAN /\ writable \in BOOLEAN
    /\ inflight \in Requests \cup {None}
    /\ interrupted \in Requests \cup {None}
    /\ composing \in Messages \cup {NoReply}
    /\ wbuf \in Seq(Messages) /\ outbox \in Seq(Messages)
    /\ records \in 0..MaxRecords
    /\ inbox \in Seq(Requests) /\ pending \in Seq(Requests)
    /\ expect \in States
    /\ sent \in 0..MaxRequests
    /\ asserted \in BOOLEAN
    /\ hello \in Handshakes /\ host \in HostOrders
    /\ peerUp \in BOOLEAN /\ freed \in BOOLEAN
    /\ version \in {<< >>} \cup (0..255) \X (0..255)

\* The peer only sends what the table accepts, so no ASSERT(false) of
\* bolt_change_*_state is ever reached (spec.md P1: a listed triple never
\* traps).
NoAssert == ~asserted

\* Replies leave the session in request order, one final reply per
\* request: the non-RECORD messages queued in write_buf and on the socket
\* answer, in order, the requests the peer still waits on.
RepliesInOrder ==
    LET replies == SelectSeq(outbox \o wbuf, LAMBDA m : m.resp # "RECORD")
    IN  /\ Len(replies) <= Len(pending)
        /\ \A i \in 1..Len(replies) : replies[i].for = pending[i]

\* Every message the peer reads is a reply exactly as the worker wrote it:
\* bolt_client_send never overwrites part of a reply.
MessagesIntact == \A i \in 1..Len(outbox) : outbox[i].intact

\* Every request the peer sends is eventually answered, unless the
\* session has become DEFUNCT or the peer has gone.
EveryRequestAnswered ==
    \A n \in 1..MaxRequests :
        (sent >= n) ~> (sent - Len(pending) >= n \/ state = "DEFUNCT" \/ ~peerUp)

\* The magic is 60 60 B0 17 in network order (spec.md 6).  Whatever the
\* host's byte order, bolt_check_handshake and bolt_read_supported_version
\* answer a connection with a version only when it opened with those four
\* bytes, and then with the (minor, major) of the peer's first proposal;
\* a connection closed at the handshake is one that opened with others.
HandshakeNegotiated ==
    LET magic == SubSeq(hello, 1, 4) = << 96, 96, 176, 23 >> IN
    /\ version # << >> => magic /\ version = << hello[7], hello[8] >>
    /\ state = "DEFUNCT" /\ version = << >> => ~magic

\* The session state only moves along the rows of the spec's table (or
\* into INTERRUPTED on an asynchronous RESET): BoltSession implements
\* BoltProtocolSpec, with the session's state mapped to itself.
ImplementsProtocolSpec == Abs!Spec

=============================================================================
