\* A driver that pipelines two requests: the next request runs while the
\* previous reply waits for the writable callback.
CONSTANTS
    MaxRequests = 6
    Pipeline = 2
    Interrupts = FALSE
    MaxRecords = 1
    \* the requests the table answers with IGNORED in INTERRUPTED
    Interruptible = {"RUN", "PULL", "DISCARD", "BEGIN", "COMMIT", "ROLLBACK"}
    \* the openings of MCBoltSession, on either byte order
    Handshakes <- MCHandshakes
    HostOrders = {"little", "big"}
SPECIFICATION Spec
CHECK_DEADLOCK FALSE
INVARIANTS
    MessagesIntact
