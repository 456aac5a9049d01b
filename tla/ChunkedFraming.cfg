\* Raw Bolt and Bolt over WebSocket on 3-byte chunks: header slots of 2
\* and 4 bytes, payloads of 2 to 4 bytes and the terminators fall across
\* every chunk boundary; reset acknowledgements on raw connections (on
\* WebSocket connections they are the subject of BoltFraming_ws_reset.cfg).
CONSTANTS
    BUFFER_CHUNK_SIZE = 3
    WSModes = {FALSE, TRUE}
    Payloads <- ShortReplies
    MaxMessages = 4
    ResetModes = {FALSE}
SPECIFICATION Spec
\* the connection idles once MaxMessages replies have been sent
CHECK_DEADLOCK FALSE
INVARIANTS
    TypeOK
    WireFramesDelivered
PROPERTIES
    ImplementsBoltFraming
