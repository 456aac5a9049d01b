\* A driver that sends RESET while its request is being answered.
CONSTANTS
    MaxRequests = 6
    Pipeline = 1
    Interrupts = TRUE
    MaxRecords = 1
    \* the requests the table answers with IGNORED in INTERRUPTED
    Interruptible = {"RUN", "PULL", "DISCARD", "BEGIN", "COMMIT", "ROLLBACK"}
    \* the openings of MCBoltSession, on either byte order
    Handshakes <- MCHandshakes
    HostOrders = {"little", "big"}
SPECIFICATION Spec
CHECK_DEADLOCK FALSE
INVARIANTS
    RepliesInOrder
