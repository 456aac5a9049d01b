# TLA+ models of the FalkorDB Bolt server and RDB v14 decoder

This directory holds TLA+ models of the C sources under `src/src/`. TLC checks them.

- `bolt/bolt_client.c` is the Bolt session: its state machine, how replies are composed and framed, and how they are sent.
- `bolt/buffer.c` is the chunked byte buffer behind the read and write paths.
- `bolt/ws.h` is a WebSocket interface. It is declarations only.
- `serializers/decoders/current/v14/decode_graph_entities.c` is the RDB v14 decoder for nodes, edges and their property values.

Every definition that models code is listed in `PROJECT.json` under `map`, with the source lines it translates. Some code lives outside `src/`: the request decoder, the handlers and GOODBYE, all in `bolt.c`. Definitions of that code are modelled from `spec.md` and marked `spec_modelled`.

## 1. Inventory of the system

### Components and their state

| Component | Source | State | Operations that change it |
|---|---|---|---|
| Session state machine | `bolt_client.c:41-534` | `client->state`, one of 9 states | `bolt_change_client_state` and the eight per-state functions |
| Client session | `bolt_client.c:13-38, 539-648` | `state`, `reset`, `write_buf`, `client->write`, `ws`, the socket | `bolt_client_new`, `bolt_client_reply_for`, `bolt_client_end_message`, `bolt_client_finish_write`, `bolt_client_send` |
| Framing | `bolt_client.c:553-576, 589-648` | the bytes of `write_buf`, plus the 2- or 4-byte header slot at `client->write` | end of message (backfill the header, terminate, reserve the next slot); send (flush and rewind); the reset acknowledgement |
| Chunked buffer | `buffer.c` | chunks, plus `read`/`write` indexes of the form (chunk, offset) | `buffer_index*`, typed reads and writes, `buffer_read`, `buffer_socket_read`, `buffer_socket_write` |
| Handshake | `bolt_client.c:651-672` | none (reads `read_buf`) | `bolt_check_handshake`, `bolt_read_supported_version` |
| Client teardown | `bolt_client.c:675-687` | the writable registration, the socket and the three buffers | `bolt_client_free` |
| WebSocket adapter | `ws.h` | not in the repository | — |
| RDB v14 decoder | `decode_graph_entities.c` | the RDB stream position, and the graph being built | `_RdbLoadSIValue` (recursive over arrays), the node, edge and deleted-entity loaders |

### Interactions

There are two threads per connection.

- **Worker thread.** It runs the request handler. The handler composes the reply in `write_buf`:
  - `bolt_client_reply_for` writes the structure header and moves `client->state`;
  - the codec writes the fields;
  - `bolt_client_end_message` closes the message;
  - `bolt_client_finish_write` registers a writable callback.
- **Event-loop thread.**
  - It decodes requests and dispatches them to the worker.
  - When a RESET arrives mid-request, it raises `client->reset` and sets the state to INTERRUPTED.
  - In the writable callback it runs `bolt_client_send`. That call either flushes everything before `client->write` and rewinds, or, if `reset` is raised, writes the reset acknowledgement itself.

The two threads share `write_buf`, `client->write`, `reset` and `state`, and nothing synchronises them. That sharing is where the hard behaviours come from.

### Hard behaviours

These are the hazards listed in `PROJECT.json`.

- The send and the worker race on `write_buf`.
- A RESET can be raised between `end_message` and `send`.
- The reset path reads the state and can leave it at INTERRUPTED.
- Some pipelined request/IGNORED pairs trap in FAILED.
- Some interrupts trap in INTERRUPTED.
- A reply is flushed only if the writable callback runs, which is a liveness question.
- WebSocket framing breaks on the reset path and for messages longer than 125 bytes.
- The chunked buffer has four boundary problems:
  - `buffer_index_diff` is 16 bits wide;
  - `buffer_index_add` leaves an index at (c, CHUNK);
  - scalar reads that straddle chunks;
  - a failure reported after a chunk has been fully read.
- The handshake reads the magic in host byte order and needs `ntohl` to compare it, and it reads only the first proposed version.
- `bolt_client_send` ignores a failed socket write and carries on as if the replies were sent.
- The decoder has four stream-driven problems:
  - array lengths truncated to `uint`;
  - unknown types that consume nothing;
  - VLA sizes taken from the stream;
  - an unchecked `multi_edge[relation]` index.

### Properties per component

- **State machine and session.**
  - No ASSERT(false) is reached.
  - Replies reach the socket intact. Replies follow the requests in order, except when a RESET races `bolt_client_send` (`session_reset_race`).
  - Every request is eventually answered.
  - The state refines the transition table of spec.md §4.4.
  - The handshake accepts exactly the openings that carry the network-order magic, on either host byte order, and answers with the first proposal.
- **Framing.** The socket bytes are exactly the frames of the delivered payloads.
- **Chunked buffer.**
  - Socket reads, copies, writes and drains refine a flat byte sequence (`FlatBuffer`).
  - A scalar read returns the bytes at the read cursor.
  - `buffer_socket_read` reports failure only when the socket failed or closed.
- **Decoder.**
  - Each loader rebuilds the entities that were saved.
  - Each loader consumes exactly the tokens of its segment.

## 2. Modules

| Module | Models | Composition |
|---|---|---|
| `BoltStateMachine` | the nine `bolt_change_*` functions, as operators returning an outcome `[ok, state]` | used by `BoltSession` |
| `BoltProtocolSpec` | the abstract specification: spec.md §4.4's table as a set of rows, plus `Interrupt` into INTERRUPTED | instanced by `BoltSession` as `Abs` |
| `BoltSession` | the client session, with a worker thread, an event loop and a peer, from the handshake on | `EXTENDS BoltStateMachine`; refines `BoltProtocolSpec` |
| `MCBoltSession` | the openings of a connection for TLC | `EXTENDS BoltSession` |
| `BoltFraming` | the byte content of `write_buf` and the socket, for plain and WebSocket framing | standalone, with a flat buffer; the abstract framing for `ChunkedFraming` |
| `MCBoltFraming` | the payload sets for TLC | `EXTENDS BoltFraming` |
| `ChunkedFraming` | the outbound path of `bolt_client.c` on the chunked `write_buf`: `end_message` and `send` as calls of `buffer_write`, `buffer_index` and `buffer_socket_write` through `client->write` and `write_buf.write` | instances `ChunkedBuffer` for its operators; refines `BoltFraming` |
| `MCChunkedFraming` | the payload set for TLC | `EXTENDS ChunkedFraming` |
| `FlatBuffer` | the abstract specification of a buffer: a byte sequence that grows at its end, a read cursor, a bulk copy, a drain to the socket | instanced by `ChunkedBuffer` |
| `ChunkedBuffer` | `buffer.c`: chunks, (chunk, offset) indexes, the typed reads and writes, `buffer_read`, `buffer_socket_read` and `buffer_socket_write`, on `read_buf`, `msg_buf` and `write_buf` | refines `FlatBuffer` |
| `RdbDecodeV14` | `decode_graph_entities.c`: every loader as a RECURSIVE operator over typed RDB tokens, the four exported loaders as actions | standalone |
| `MCRdbDecodeV14` | the bounded set of saved graphs | `EXTENDS RdbDecodeV14` |

### How `BoltStateMachine` corresponds to the code

- Each C switch is one operator, built from `OnResult` (the SUCCESS/FAILURE cases) and `OnIgnored`.
- `ASSERT(false)` is modelled as `Trap(s)`, which sets `ok = FALSE` and leaves the state unchanged.
  - A debug build aborts at that point.
  - A release build, where `ASSERT` is empty, falls out of the switch with the state untouched.
- The entry `ASSERT` of the negotiation and authentication handlers is modelled as `EntryAssert`.

### How `BoltSession` corresponds to the code

Variables:

- `state`, `reset`, `wbuf` (the closed messages of `write_buf`) and `composing` (the message after `client->write`).
- `writable`: whether the writable callback is registered.
- `processing` and `inflight`: the request being handled.
- `records`: the PULL stream count.
- The peer's `inbox`, `outbox`, `pending` and `expect`.
- `asserted`: whether any trap has happened.
- `hello`, `version` and `host`: the 20 bytes the peer opened with, the version answered (`<< minor, major >>`, or `<< >>` before the handshake), and the host's byte order, fixed in `Init` from `HostOrders`.
- `peerUp`: whether the peer still has the socket open. `freed`: whether `bolt_client_free` has run.

Actions:

- `Init` is `bolt_client_new`, with the peer's opening already in `read_buf`.
- `Handshake` is the first read of a connection, in `bolt.c`, modelled from spec.md §4.5 and §7. It calls `bolt_check_handshake`. If that holds, it answers with `bolt_read_supported_version`; otherwise the session becomes DEFUNCT without a reply. The abstract `BoltProtocolSpec` has the matching step `HandshakeRejected`, from NEGOTIATION to DEFUNCT.
  - `bolt_check_handshake(b, order)` is `ntohl(buffer_read_uint32(...)) == 0x6060B017`. `buffer_read_uint32` assembles the four bytes in the host's order, and `ntohl` swaps them on a little-endian host and leaves them on a big-endian one.
  - `bolt_read_supported_version(b)` is bytes 2 and 3 (0-based) of the 16 bytes after the magic.
  - The peer sends requests only after it has been answered with a version.
- `PeerClose` is the peer closing its socket, at any time. It is a fault of the environment and has no fairness. After it, the peer neither sends nor reads.
- `ClientFree` is `bolt_client_free`. It unregisters the writable event (`writable' = FALSE`) and marks the client freed; the socket close and the buffer frees are the end of the client's state. When it is called is up to the caller in `bolt.c`, outside `src/`, and is modelled from spec.md §5 and §7: after EOF once the worker is idle, or once the session is DEFUNCT and the writable event has drained. `Dispatch` and `Handshake` require `~freed`. No property is checked on the teardown: what it could say follows from this caller model, not from repository code.
- `ReplyFor(resp)` is `bolt_client_reply_for`. It opens the message and applies `bolt_change_client_state`.
- `EndMessage` is `bolt_client_end_message` followed by `bolt_client_finish_write` on a final reply.
  - The worker then clears `processing`, as spec.md §5 says.
  - A RECORD keeps the request in flight.
- `Send` is `bolt_client_send`, both paths.
  - Reset path: the unflushed messages are dropped. If the state is FAILED, it sends IGNORED+SUCCESS and sets READY; otherwise it sends SUCCESS alone.
  - Normal path: everything closed is flushed.
  - Either way, a message being composed loses its bytes. This is marked `intact = FALSE`.
- `Dispatch`, `Interrupt`, `Goodbye` and `HandlerResponses` are modelled from spec.md:
  - `Dispatch` starts a handler on the worker;
  - `Interrupt` is the event loop's RESET: it raises `reset` and sets INTERRUPTED;
  - `Goodbye` closes the session without a reply;
  - `HandlerResponses` is the responses a handler may give.
- `PeerSend` and `PeerReceive` are the driver.
  - The peer sends only requests the table allows, in the state it expects to be in.
  - It pipelines up to `Pipeline` requests.
  - It may interrupt a request of the constant set `Interruptible` with RESET when `Interrupts` is TRUE. The passing runs give it RUN, PULL, DISCARD, BEGIN, COMMIT and ROLLBACK, the requests whose IGNORED the table answers in INTERRUPTED. `session_interrupt_any` gives it every request but RESET and GOODBYE, as spec.md line 140 allows.
  - After a FAILURE or IGNORED, it expects FAILED (DEFUNCT after HELLO or LOGON), as spec.md §7 says.

### How `BoltFraming` corresponds to the code

- `buf` is the bytes of `write_buf`. Offsets are 0-based, as in C.
- `wr` is `client->write` and `ww` is `write_buf.write`.
- `EndMessage` is line for line `bolt_client_end_message`, including:
  - the `uint8` frame length `(n+2) % 256`;
  - the 16-bit `n -= 2`.
- `SendFlush` is the normal path of `bolt_client_send`.
- `SendReset(failed)` is the reset path, built from `ResetReply`, which is one of its three-step blocks.
- `Reply(p)` is the codec writing a payload from `Payloads`. `RaiseReset` is the event loop's RESET.
- `ws` is a variable fixed in `Init` from `WSModes`, because `client->ws` is set once, at the upgrade. One run covers both modes.
- `RaiseReset` is enabled only when `ws` is in `ResetModes`. The passing runs exclude WebSocket resets, which are the `framing_ws_reset` violation.
- Here, sends happen only while no message is open. The race between send and an open message is `BoltSession`'s `MessagesIntact`.

### How `ChunkedFraming` corresponds to the code

- `chunks`, `wi` and `ci` are `write_buf.chunks`, `write_buf.write` and `client->write`, as `ChunkedBuffer` represents them. `WriteAll` is a run of `buffer_write` calls through one index.
- `Init` is `bolt_client_new`, plus the second slot the WebSocket upgrade reserves.
- `EndMessage` is `bolt_client_end_message`: `SlotLength` is the 16-bit `buffer_index_diff` minus 2; the header is backfilled through `client->write`; the two terminator bytes go through `write_buf.write`; `client->write` moves there; `ReserveCalls` reserves the next slot.
- `SendFlush` and `SendReset(failed)` are the two paths of `bolt_client_send`, with `buffer_socket_write` sending the chunks up to an index. `ResetReply` is one of the reset path's blocks.
- The history variable `hw` is the highest offset written. The refinement mapping gives `BoltFraming` the flattened bytes `0..hw-1` as `buf`, and the flattened indexes as `wr` and `ww`.

### How `ChunkedBuffer` corresponds to the code

- A chunk is a function from `0..BUFFER_CHUNK_SIZE-1` to bytes, and an index is a record `[chunk, offset]`, as `buffer_index_t`.
- `buffer_index` and `buffer_index_add` are the C functions. `buffer_index_add` keeps the `>` test of line 35, so an index can stop at `(c, CHUNK)`.
- `Contiguous` is what a scalar read dereferences: `BUFFER_CHUNK_SIZE` bytes of a chunk, then `Junk`, the memory past its end.
- `buffer_write` and `buffer_read` are RECURSIVE operators that follow the C loops chunk by chunk.
- `SocketRead` is the whole of `buffer_socket_read`. Its first read, and the loop that follows while a read fills its chunk, are `SocketReadOutcomes` and `ReadLoop`.
  - `socket_read` is not in the repository. It is modelled as read(2): a read returns 1 up to the requested number of bytes, 0 at EOF, or -1. The -1 is an error, or EAGAIN on a read after the first.
- `Copy(n)` is `buffer_read(read_buf, msg_buf, n)`, and `ReadScalar(n)` is `buffer_read_uintN` on `msg_buf`.
- `Write(n)` is a write of `n` fresh bytes into `write_buf`. `SocketWrite` is `buffer_socket_write` followed by the rewind of the write cursor.
- Every byte entering a buffer is a fresh value, so a wrong byte shows as a wrong value.

### How `RdbDecodeV14` corresponds to the code

- The RDB stream is a sequence of tokens `[k, v]`. The kind `k` is unsigned, signed, double, float or string, as the `RedisModule_Load*` calls.
- A load of the wrong kind, or past the end, is a short read. Redis stops the load there, and the model records `ok = FALSE`.
- `_RdbLoadSIValue`, `_RdbLoadSIArray`, `_RdbLoadPoint`, `_RdbLoadVector` and `_RdbLoadEntity` return `[ok, val, pos]`: the value built, and the next token.
- Their loops are `LoadElems`, `LoadFloats`, `LoadProps` and `LoadIds`. The node and edge loops are `LoadNodes` and `LoadEdges`, over `LoadNode` and `LoadEdge`.
- The reference is `Encode`. It encodes each value, entity, node and edge in the format the loaders' comments give.
- A state holds a saved graph, the encoding of its four segments, and what each loader returned.
  - `RdbLoadNodes_v14`, `RdbLoadDeletedNodes_v14`, `RdbLoadEdges_v14` and `RdbLoadDeletedEdges_v14` each load their segment once.
  - They may run in any order, because the caller `decode_v14` is not in the repository.
- The graph writes are reduced to the decoded record: `Serializer_Graph_SetNode`, the marks of deleted ids, and the indexing.

## 3. Runs

| Run | Module and cfg | Expect | What it shows |
|---|---|---|---|
| `session_seq` | `MCBoltSession` / `BoltSession_seq.cfg` | pass | A peer that waits for each reply hits no trap. Replies are intact, every request is answered, and the state refines the table. On both byte orders, the handshake accepts exactly the openings with the magic in network order and answers with the first proposal (`HandshakeNegotiated`). The peer may close at any time and the client is then freed; `EveryRequestAnswered` excuses requests lost to a closed peer. Reply order is not checked here: with one request outstanding and no RESET it cannot fail. It is checked where it can fail, in `session_reset_race`. |
| `session_interrupt` | `MCBoltSession` / `BoltSession_interrupt.cfg` | pass | With interrupting RESETs, there is still no trap, and the state moves only along the table or into INTERRUPTED. |
| `session_pipelined_trap` | `MCBoltSession` / `BoltSession_pipelined_trap.cfg` | violation of `NoAssert` | A pipelined LOGON behind a failed LOGOFF is answered IGNORED in FAILED, which is ASSERT(false). The same holds for BEGIN, COMMIT and ROLLBACK. |
| `session_reset_race` | `MCBoltSession` / `BoltSession_reset_race.cfg` | violation of `RepliesInOrder` | RUN's SUCCESS is composed, then RESET arrives, then send runs. The RUN reply is dropped, only one SUCCESS is sent, and the state stays INTERRUPTED. |
| `session_send_race` | `MCBoltSession` / `BoltSession_send_race.cfg` | violation of `MessagesIntact` | The callback of one reply fires while the next reply is being composed, and the rewind corrupts that reply. |
| `framing_chunked` | `MCChunkedFraming` / `ChunkedFraming.cfg` | pass | On 3-byte chunks, in plain and WebSocket mode, the wire is exactly the frames of the delivered payloads, reset acknowledgements included, and the chunked outbound path refines `BoltFraming`. |
| `framing_ws_reset` | `MCBoltFraming` / `BoltFraming_ws_reset.cfg` | violation | The reset acknowledgement carries no frame header. |
| `buffer_flat` | `ChunkedBuffer_flat.cfg` | pass | Interleaved socket reads (short reads, EAGAIN, EOF), copies, scalar reads, writes and drains over 2-byte chunks refine `FlatBuffer`. Under `FairSpec`, a closed or failed peer is eventually reported by `buffer_socket_read` returning false (`PeerCloseReported`), although an EOF inside the read loop is reported only at the next read. |
| `buffer_scalar_bytes` | `ChunkedBuffer_bytes.cfg` | violation of `ScalarReadsExact` | Scalar reads that end exactly at a chunk's end leave the read index at `(c, 2)` instead of `(c+1, 0)`, because `buffer_index_add` moves on only when the offset passes the chunk size (`>` at `buffer.c:35`). The next scalar read then returns a byte from past the end of the chunk. |
| `buffer_socket_eagain` | `ChunkedBuffer_socket.cfg` | violation of `FalseOnlyOnFailure` | A first read that fills its chunk exactly is followed by a read that would block. `buffer_socket_read` then returns false on an open socket (`buffer.c:189`). |
| `decoder_roundtrip` | `MCRdbDecodeV14` / `RdbDecodeV14.cfg` | pass | On every graph of the bounded set, each loader rebuilds the saved entities and consumes exactly its segment. |
| `session_interrupt_any` | `MCBoltSession` / `BoltSession_interrupt_any.cfg` | violation of `NoAssert` | spec.md says any in-flight request may be interrupted. HELLO, LOGON, then a RESET during LOGON: the handler's IGNORED reaches INTERRUPTED, which has no row for LOGON, and hits the default ASSERT(false) (`bolt_client.c:487`). |

There are twelve runs. They ask the twelve questions above, one each.

`PROJECT.json` lists the findings the violations support. Each passing property has a mutant, a plausible slip in the mapped code, and TLC finds that mutant violating the property:

- DISCARD inside a transaction returning to READY;
- BEGIN's SUCCESS going to TX_STREAMING;
- a flush registered by `reply_for`;
- `end_message` never registering the flush, or never resetting the record count;
- the chunk length counting its own slot;
- a rewind that forgets to reserve the header slot;
- on the chunked path, a rewind without the reserve, a flush up to `write_buf.write`, and `client->write` taken before the terminator;
- a read loop that treats EOF as success (for `PeerCloseReported`);
- `buffer_index_add` never moving to the next chunk;
- `buffer_read` leaving the source index where it was;
- the handshake magic compared without `ntohl`;
- `_RdbLoadPoint` swapping latitude and longitude.

### Bounds and why they are enough

- **Session runs.** The passing runs use `MaxRequests = 8` and `MaxRecords = 2`; the violation runs use 6 and 1, which already reach their traces. The passing bounds reach:
  - HELLO, LOGON, then a transaction: BEGIN, RUN, PULL with two RECORDs, COMMIT, and after it a LOGOFF and a second LOGON;
  - the failed and interrupted paths, each followed by a RESET and more work.
- **Handshakes.** `MCHandshakes` has the magic with proposals for 5.4, 5.0 and 4.4; the magic with a single 5.0 proposal; and the magic in the wrong byte order. `HostOrders` is both orders. The byte-swapped magic is the opening that a comparison in the wrong order accepts.
- **`Pipeline`.** It is 1 for the passing runs, where the peer waits for each reply. It is 2 for the pipelining runs, which is the smallest value where a request can follow one that fails.
- **Framing runs.** `MaxMessages = 3` for `framing_ws_reset`, and 4 for `framing_chunked`. This covers:
  - batches of two messages in one flush;
  - a reset acknowledgement between ordinary replies;
  - the IGNORED+SUCCESS pair.
  With `BUFFER_CHUNK_SIZE = 3`, the chunked run reaches header slots, payloads and terminators across chunk boundaries, both indexes resting at `(c, 3)`, `client->write` beyond the first chunk, and four chunks. Three is the smallest size where the 2-byte slot can both fit a chunk and straddle one.
- **Payloads.** There are three short payloads: IGNORED, an empty SUCCESS, and a RECORD. The one-byte WebSocket length of `end_message` (`bolt_client.c:562`) fails only above 125 bytes. spec.md leaves that length an open question (§11), so no run is kept for it.
- **Buffer runs.** `BUFFER_CHUNK_SIZE = 2` and `MaxBytes = 6`. Six bytes span three chunks. With writes of 1, 2, 4 and 5 bytes and reads of 1, 2 and 4, these bounds reach:
  - writes and copies that end exactly at a chunk's end, and ones that straddle a chunk;
  - socket reads that fill a chunk and go on to the next one;
  - short reads, EAGAIN, EOF and errors.
  The code is the same for every chunk size, so a larger chunk adds only longer runs of the same cases.
- **Decoder run.** The set covers:
  - every value type, with two-element, empty and nested arrays, and empty and two-element vectors;
  - entities with zero, one or two properties;
  - nodes with no label or two, and two nodes in sequence;
  - an edge, and deleted node and edge ids.
  Each loader reads its segment alone, so larger graphs only repeat these cases.

### Fairness

- `BoltSession` assumes weak fairness of `Handshake`, `Dispatch`, `Interrupt`, `Send`, `ReplyFor`, `Goodbye`, `EndMessage`, `PeerReceive` and `ClientFree`:
  - the event loop keeps polling, so the opening bytes are read, a readable socket is dispatched and a registered writable callback eventually runs;
  - the worker runs a dispatched handler to its end;
  - the peer reads what it is sent;
  - the caller frees a client once its free condition holds, because it is checked on the next event of that client (the EOF read, or the drained writable callback), and that condition stays true until the free.
- `PeerClose` has no fairness: a peer may keep its connection open forever.
- The peer is never forced to send, and the session may idle once the peer stops. That is why the session cfgs say `CHECK_DEADLOCK FALSE`.
- `ChunkedBuffer`'s `FairSpec` assumes weak fairness of `SocketRead` only while the peer is closed or failed. The event loop polls the socket level-triggered, and a closed or failed socket stays readable, so a read is eventually attempted. An open socket with no data is not readable, so no fairness is assumed there.
- The other buffer runs and `RdbDecodeV14` check only safety. The buffer runs stop once `MaxBytes` is reached, and a load stops once every segment is loaded, so they disable the deadlock check.
- The framing runs check only safety. They also disable the deadlock check, because composing stops at `MaxMessages`.

## 4. Plan and what is not modelled yet

Done:

- `BoltStateMachine`, `BoltProtocolSpec` and `BoltSession`, with the interruptible requests as a constant, the handshake on both byte orders, and the peer closing and the client being freed;
- `BoltFraming`, with both framing modes in one run;
- `FlatBuffer` and `ChunkedBuffer`, with the eventual report of a closed peer;
- `ChunkedFraming`, the composition of the framing with the chunked buffer, refining `BoltFraming`;
- `RdbDecodeV14`.

Left for later sittings:

1. **`buffer_index_diff` width.** The difference is a `uint16_t` (`buffer.c:64`). It wraps once a message reaches 64 KiB. `ChunkedFraming` keeps the `% 65536`, but a 64 KiB message is far beyond TLC's reach; a model with a scaled width would be needed.
2. **Decoder values from a corrupt stream.** Unknown types, counts that do not match the segment, and the unchecked `multi_edge[relation]` index (`decode_graph_entities.c:205`).

Not modelled, with the reason:

- What `socket_close` and `buffer_free` do to memory: the model ends the client's state at `freed`.
- Whether the chosen version is supported, and the version reply: both are in `bolt.c`. The model checks what the two functions read, not what the server then chooses.
- Failed socket writes (`bolt_client.c:638`): no line of `bolt_client_send` reads the result of `buffer_socket_write`, which the code shows directly.
- The WebSocket adapter: only declared in `ws.h`; the code is not in the repository.
- The stack overflow from VLAs sized by the stream: stack size is outside what a TLA+ state can express.
- The `uint` truncation of array lengths: lengths of 2^32 and more are beyond TLC's integers.
- Socket I/O other than the read(2) results of `socket_read`, and TCP itself: the socket is a reliable byte sink in these models.
