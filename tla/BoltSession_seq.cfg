\* A driver that waits for each reply before its next request.
CONSTANTS
    MaxRequests = 8
    Pipeline = 1
    Interrupts = FALSE
    MaxRecords = 2
    \* the requests the table answers with IGNORED in INTERRUPTED
    Interruptible = {"RUN", "PULL", "DISCARD", "BEGIN", "COMMIT", "ROLLBACK"}
    \* the openings of MCBoltSession, on either byte order
    Handshakes <- MCHandshakes
    HostOrders = {"little", "big"}
SPECIFICATION Spec
\* the peer stops after MaxRequests and the connection then idles
CHECK_DEADLOCK FALSE
INVARIANTS
    TypeOK
    NoAssert
    MessagesIntact
    HandshakeNegotiated
PROPERTIES
    EveryRequestAnswered
    ImplementsProtocolSpec
