\* A driver that waits for each reply, but may send RESET to cut short
\* the work it is waiting on.
CONSTANTS
    MaxRequests = 8
    Pipeline = 1
    Interrupts = TRUE
    MaxRecords = 2
    \* the requests the table answers with IGNORED in INTERRUPTED
    Interruptible = {"RUN", "PULL", "DISCARD", "BEGIN", "COMMIT", "ROLLBACK"}
    \* the openings of MCBoltSession, on either byte order
    Handshakes <- MCHandshakes
    HostOrders = {"little", "big"}
SPECIFICATION Spec
\* the peer stops after MaxRequests and the connection then idles
CHECK_DEADLOCK FALSE
INVARIANTS
    NoAssert
PROPERTIES
    ImplementsProtocolSpec
